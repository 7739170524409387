----------------------------- MODULE RateLimiter -----------------------------
(***************************************************************************)
(* The per-user sliding-window limiter of src/rate_limit.rs, as the        *)
(* concurrent prompt handlers of the router use it.                        *)
(*                                                                         *)
(* RateLimiter::check reads the clock BEFORE it takes the mutex, so the    *)
(* order in which callers enter the critical section is not the order of   *)
(* their timestamps.  A call is therefore two steps here: Sample (line 43) *)
(* and, under the mutex, Allow or Limit (lines 44-71).                     *)
(*                                                                         *)
(* Time is a clock of integer ticks.  MaxSkew bounds how long a caller is  *)
(* held up between the two steps; it is an assumption about the scheduler, *)
(* not a bound of the code, and every property says how it depends on it.  *)
(***************************************************************************)
EXTENDS Integers, Sequences, FiniteSets

CONSTANTS
    Users,          \* the user_id strings the limiter is asked about
    Callers,        \* the handler tasks that may be inside check() at once
    MaxRequests,    \* max_requests
    WindowSeconds,  \* limits.window_seconds: the window is a whole number of seconds
    TicksPerSecond, \* resolution of the clock: Duration::as_secs divides by it
    MaxSkew,        \* how long a caller may wait for the mutex
    MaxClock        \* bound of the model: the clock stops there

ASSUME MaxRequestsAssumption == MaxRequests \in Nat
ASSUME WindowAssumption == WindowSeconds \in Nat
ASSUME TicksPerSecondAssumption == TicksPerSecond \in Nat \ {0}
ASSUME MaxSkewAssumption == MaxSkew \in Nat
ASSUME MaxClockAssumption == MaxClock \in Nat

VARIABLES
    clock,      \* what Instant::now() returns
    state,      \* state[u]: the deque of user u, empty when it has no entry
    calls,      \* the calls that have read the clock and not yet the deque
    admitted,   \* history: every timestamp admitted, in the order of the pushes
    retryAt     \* history: when the last "Try again in Ns" told u to come back

vars == <<clock, state, calls, admitted, retryAt>>

Times == 0..MaxClock
Window == WindowSeconds * TicksPerSecond
NoPromise == -1
Calls == [caller : Callers, user : Users, now : Times]

\* now.duration_since(t) saturates at zero when t lies in the future of now.
Elapsed(now, t) == IF t <= now THEN now - t ELSE 0

\* Mutant: >= for >.
ExpiredAtBoundary(now, t) == Elapsed(now, t) >= Window

Expired(now, t) == Elapsed(now, t) > Window

\* How many entries the pruning loop pops: it stops at the first entry that
\* has not expired, whatever lies behind it.
PrunedCount(d, now) ==
    CHOOSE k \in 0..Len(d) :
        /\ \A i \in 1..k : Expired(now, d[i])
        /\ k < Len(d) => ~Expired(now, d[k + 1])

\* Mutant: the entries are looked at and left in place.
PruneNothing(d, now) == d

Prune(d, now) == SubSeq(d, PrunedCount(d, now) + 1, Len(d))

\* Mutant: the operands of the subtraction lost.
RemainingElapsed(d, now) == IF d = <<>> THEN 0 ELSE Elapsed(now, d[1])

\* self.window.saturating_sub(elapsed) for the oldest entry, zero without one.
Remaining(d, now) ==
    IF d = <<>> THEN 0
    ELSE LET elapsed == Elapsed(now, d[1])
         IN  IF elapsed <= Window THEN Window - elapsed ELSE 0

\* The wait the router puts in its reply: whole seconds, at least one.
Advertised(remaining) ==
    LET secs == remaining \div TicksPerSecond
    IN  IF secs = 0 THEN TicksPerSecond ELSE secs * TicksPerSecond

-----------------------------------------------------------------------------

Init ==
    /\ clock = 0
    /\ state = [u \in Users |-> <<>>]
    /\ calls = {}
    /\ admitted = [u \in Users |-> <<>>]
    /\ retryAt = [u \in Users |-> NoPromise]

\* Time passes, unless that would hold a caller up for more than MaxSkew.
Tick ==
    /\ clock < MaxClock
    /\ \A p \in calls : clock - p.now < MaxSkew
    /\ clock' = clock + 1
    /\ UNCHANGED <<state, calls, admitted, retryAt>>

\* let now = Instant::now()
Sample(c, u) ==
    /\ \A p \in calls : p.caller # c
    /\ calls' = calls \cup {[caller |-> c, user |-> u, now |-> clock]}
    /\ UNCHANGED <<clock, state, admitted, retryAt>>

\* Mutant: <= for <.
AllowOneMore(p) ==
    LET d == Prune(state[p.user], p.now)
    IN  /\ Len(d) <= MaxRequests
        /\ state' = [state EXCEPT ![p.user] = Append(d, p.now)]
        /\ admitted' = [admitted EXCEPT ![p.user] = Append(@, p.now)]
        /\ retryAt' = [retryAt EXCEPT ![p.user] = NoPromise]
        /\ calls' = calls \ {p}
        /\ UNCHANGED clock

\* The critical section of a call that finds a free slot: prune and push.
Allow(p) ==
    LET d == Prune(state[p.user], p.now)
    IN  /\ Len(d) < MaxRequests
        /\ state' = [state EXCEPT ![p.user] = Append(d, p.now)]
        /\ admitted' = [admitted EXCEPT ![p.user] = Append(@, p.now)]
        /\ retryAt' = [retryAt EXCEPT ![p.user] = NoPromise]
        /\ calls' = calls \ {p}
        /\ UNCHANGED clock

\* The critical section of a call that finds the window full: prune, and tell
\* the user how long to wait.
Limit(p) ==
    LET d == Prune(state[p.user], p.now)
    IN  /\ Len(d) >= MaxRequests
        /\ state' = [state EXCEPT ![p.user] = d]
        /\ retryAt' = [retryAt EXCEPT ![p.user] =
                          clock + Advertised(Remaining(d, p.now))]
        /\ calls' = calls \ {p}
        /\ UNCHANGED <<clock, admitted>>

Next ==
    \/ Tick
    \/ \E c \in Callers, u \in Users : Sample(c, u)
    \/ \E p \in calls : Allow(p)
    \/ \E p \in calls : Limit(p)

Spec == Init /\ [][Next]_vars

-----------------------------------------------------------------------------

(***************************************************************************)
(* Types, and the bound on the memory a user takes: a deque never grows    *)
(* beyond max_requests entries.                                            *)
(***************************************************************************)
TypeOK ==
    /\ clock \in Times
    /\ state \in [Users -> Seq(Times)]
    /\ calls \in SUBSET Calls
    /\ admitted \in [Users -> Seq(Times)]
    /\ retryAt \in [Users -> Int]
    /\ \A u \in Users : Len(state[u]) <= MaxRequests

(***************************************************************************)
(* The limit itself.  Of the requests of one user, admitted in the order   *)
(* of the pushes, the one MaxRequests places later was read off the clock  *)
(* more than Window later, up to the time a caller may be held up between  *)
(* reading the clock and taking the mutex.  With MaxSkew = 0 no window of  *)
(* length Window holds more than MaxRequests admissions.                   *)
(***************************************************************************)
SlidingWindow ==
    \A u \in Users : \A i, j \in 1..Len(admitted[u]) :
        i + MaxRequests <= j => admitted[u][j] - admitted[u][i] > Window - MaxSkew

(***************************************************************************)
(* No user is turned away for nothing: a call is limited only if           *)
(* MaxRequests admissions of that same user, none older than the window    *)
(* plus the skew, precede it.  Pruning drops what has expired, and a       *)
(* refused request takes no slot.                                          *)
(***************************************************************************)
NoSpuriousLimit ==
    [][\A p \in calls : Limit(p) =>
          LET a == admitted[p.user]
              first == Len(a) - MaxRequests + 1
          IN  /\ first >= 1
              /\ \A i \in first..Len(a) : p.now - a[i] <= Window + MaxSkew]_vars

(***************************************************************************)
(* A reply "Try again in Ns" is wrong by less than a second: a user who is *)
(* told to wait N seconds, and who gets no request admitted meanwhile, is  *)
(* not refused again one second after that.  (With max_requests = 0 every  *)
(* reply says one second, and no wait helps.)                              *)
(***************************************************************************)
RetryBound ==
    [][\A p \in calls :
          (Limit(p) /\ MaxRequests > 0 /\ retryAt[p.user] # NoPromise)
             => p.now < retryAt[p.user] + TicksPerSecond]_vars

=============================================================================
