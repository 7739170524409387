-------------------------- MODULE RateLimiterProofs --------------------------
(***************************************************************************)
(* Proofs about RateLimiter for every number of users, callers, requests,  *)
(* every window, clock resolution and skew.                                *)
(*                                                                         *)
(* The inductive invariant relates the deque to the history: the deque of  *)
(* a user is the end of what was admitted, everything before it has        *)
(* expired, and timestamps are out of order by at most MaxSkew.            *)
(***************************************************************************)
EXTENDS RateLimiter, SequenceTheorems, WellFoundedInduction, TLAPS

Dropped(u) == Len(admitted[u]) - Len(state[u])

DequeIsTail ==
    \A u \in Users :
        /\ Len(state[u]) <= Len(admitted[u])
        /\ \A i \in 1..Len(state[u]) : state[u][i] = admitted[u][Dropped(u) + i]

DroppedExpired ==
    \A u \in Users : \A i \in 1..Dropped(u) : clock - admitted[u][i] > Window

NearlySorted ==
    \A u \in Users : \A i, j \in 1..Len(admitted[u]) :
        /\ admitted[u][i] <= clock
        /\ i < j => admitted[u][i] <= admitted[u][j] + MaxSkew

CallsFresh ==
    \A p \in calls : p.now <= clock /\ clock <= p.now + MaxSkew

IInv ==
    /\ TypeOK
    /\ DequeIsTail
    /\ DroppedExpired
    /\ NearlySorted
    /\ CallsFresh
    /\ SlidingWindow

-----------------------------------------------------------------------------

LEMMA NatOrder == OpToRel(<, Nat) = {ss \in Nat \X Nat : ss[1] < ss[2]}
BY DEF OpToRel

(***************************************************************************)
(* A nonempty set of naturals has a smallest element.                      *)
(***************************************************************************)
LEMMA SmallestElement ==
    ASSUME NEW S \in SUBSET Nat, S # {}
    PROVE  \E k \in S : \A m \in S : k <= m
<1> DEFINE Less == {ss \in Nat \X Nat : ss[1] < ss[2]}
<1>1. IsWellFoundedOn(Less, Nat)
  BY NatOrder, NatLessThanWellFounded
<1> HIDE DEF Less
<1>2. PICK k \in S : \A m \in S : <<m, k>> \notin Less
  BY <1>1, WFMin
<1>3. ASSUME NEW m \in S, m < k
      PROVE  FALSE
  <2>1. <<m, k>> \in Nat \X Nat /\ <<m, k>>[1] < <<m, k>>[2]
    BY <1>3
  <2>2. <<m, k>> \in Less
    BY <2>1, Zenon DEF Less
  <2> QED BY <1>2, <2>2
<1>4. k \in Nat /\ \A m \in S : m \in Nat
  OBVIOUS
<1> QED BY <1>3, <1>4

LEMMA WindowType == Window \in Nat
BY WindowAssumption, TicksPerSecondAssumption, SMT DEF Window

(***************************************************************************)
(* The pruning loop terminates with a well-defined count: the number of    *)
(* leading entries that have expired.                                      *)
(***************************************************************************)
LEMMA PrunedCountProperties ==
    ASSUME NEW d \in Seq(Times), NEW now \in Times
    PROVE  /\ PrunedCount(d, now) \in 0..Len(d)
           /\ \A i \in 1..PrunedCount(d, now) : Expired(now, d[i])
           /\ PrunedCount(d, now) < Len(d) => ~Expired(now, d[PrunedCount(d, now) + 1])
<1> DEFINE Stop(k) == k = Len(d) \/ (k < Len(d) /\ ~Expired(now, d[k + 1]))
           Stops == {k \in Nat : Stop(k)}
<1>1. Stops \subseteq Nat /\ Stops # {}
  <2>1. Len(d) \in Nat /\ Stop(Len(d))
    OBVIOUS
  <2> QED BY <2>1
<1>2. PICK k \in Stops : \A m \in Stops : k <= m
  BY <1>1, SmallestElement
<1>4. k \in 0..Len(d)
  OBVIOUS
<1>5. ASSUME NEW i \in 1..k
      PROVE  Expired(now, d[i])
  <2>1. i - 1 \in Nat /\ i - 1 < k
    BY <1>4
  <2>2. i - 1 \notin Stops
    BY <1>2, <2>1
  <2> QED BY <1>4, <2>1, <2>2
<1>6. k < Len(d) => ~Expired(now, d[k + 1])
  OBVIOUS
<1> HIDE DEF Stop, Stops
<1>7. \E n \in 0..Len(d) : /\ \A i \in 1..n : Expired(now, d[i])
                           /\ n < Len(d) => ~Expired(now, d[n + 1])
  BY <1>4, <1>5, <1>6
<1> QED BY <1>7, Zenon DEF PrunedCount

(***************************************************************************)
(* What pruning leaves: the entries behind the popped ones, in their order *)
(***************************************************************************)
LEMMA PruneProperties ==
    ASSUME NEW d \in Seq(Times), NEW now \in Times
    PROVE  /\ Prune(d, now) \in Seq(Times)
           /\ Len(Prune(d, now)) = Len(d) - PrunedCount(d, now)
           /\ \A i \in 1..Len(Prune(d, now)) :
                 Prune(d, now)[i] = d[PrunedCount(d, now) + i]
<1> DEFINE k == PrunedCount(d, now)
<1>1. k \in 0..Len(d)
  BY PrunedCountProperties
<1> HIDE DEF k
<1>2. /\ SubSeq(d, k + 1, Len(d)) \in Seq(Times)
      /\ Len(SubSeq(d, k + 1, Len(d))) = Len(d) - k
      /\ \A i \in 1..(Len(d) - k) : SubSeq(d, k + 1, Len(d))[i] = d[k + i]
  BY <1>1
<1> QED BY <1>2 DEF k, Prune

LEMMA AdvertisedType ==
    ASSUME NEW r \in Nat
    PROVE  Advertised(r) \in Nat
<1>1. r \div TicksPerSecond \in Nat
  BY TicksPerSecondAssumption, SMT
<1> DEFINE s == r \div TicksPerSecond
<1> HIDE DEF s
<1>2. s * TicksPerSecond \in Nat
  BY <1>1, TicksPerSecondAssumption, SMT DEF s
<1> QED BY <1>1, <1>2, TicksPerSecondAssumption DEF Advertised, s

LEMMA RemainingType ==
    ASSUME NEW d \in Seq(Times), NEW now \in Times
    PROVE  Remaining(d, now) \in Nat
BY WindowType, MaxClockAssumption DEF Remaining, Elapsed, Times

-----------------------------------------------------------------------------

LEMMA InitIInv == Init => IInv
<1> SUFFICES ASSUME Init PROVE IInv
  OBVIOUS
<1>1. TypeOK
  BY MaxClockAssumption, MaxRequestsAssumption DEF Init, TypeOK, Times, Calls, NoPromise
<1>2. DequeIsTail /\ DroppedExpired /\ NearlySorted /\ CallsFresh /\ SlidingWindow
  BY DEF Init, DequeIsTail, DroppedExpired, NearlySorted, CallsFresh, SlidingWindow, Dropped
<1> QED BY <1>1, <1>2 DEF IInv

LEMMA TickIInv ==
    ASSUME IInv, Tick
    PROVE  IInv'
<1> USE DEF IInv, Tick
<1>1. TypeOK'
  BY MaxClockAssumption DEF TypeOK, Times
<1>2. DequeIsTail' /\ SlidingWindow'
  BY DEF DequeIsTail, SlidingWindow, Dropped
<1>3. DroppedExpired'
  BY WindowType, MaxClockAssumption DEF DroppedExpired, Dropped, DequeIsTail, TypeOK, Times
<1>4. NearlySorted'
  BY MaxClockAssumption DEF NearlySorted, TypeOK, Times
<1>5. CallsFresh'
  BY MaxClockAssumption, MaxSkewAssumption DEF CallsFresh, TypeOK, Times, Calls
<1> QED BY <1>1, <1>2, <1>3, <1>4, <1>5

LEMMA SampleIInv ==
    ASSUME IInv, NEW c \in Callers, NEW u \in Users, Sample(c, u)
    PROVE  IInv'
<1> USE DEF IInv, Sample
<1>1. TypeOK'
  BY DEF TypeOK, Calls
<1>2. DequeIsTail' /\ DroppedExpired' /\ NearlySorted' /\ SlidingWindow'
  BY DEF DequeIsTail, DroppedExpired, NearlySorted, SlidingWindow, Dropped
<1>3. CallsFresh'
  BY MaxClockAssumption, MaxSkewAssumption DEF CallsFresh, TypeOK, Times, Calls
<1> QED BY <1>1, <1>2, <1>3

(***************************************************************************)
(* What the critical section of a call finds after pruning: e is still the *)
(* end of the history a, and everything before it has expired, whether it  *)
(* was dropped earlier or just now.                                        *)
(***************************************************************************)
LEMMA CriticalSection ==
    ASSUME IInv, NEW p \in calls
    PROVE  LET e == Prune(state[p.user], p.now)
               a == admitted[p.user]
           IN  /\ p.user \in Users /\ p.now \in Times
               /\ p.now <= clock /\ clock <= p.now + MaxSkew
               /\ a \in Seq(Times)
               /\ e \in Seq(Times)
               /\ Len(e) <= MaxRequests
               /\ Len(e) <= Len(a)
               /\ \A i \in 1..Len(e) : e[i] = a[Len(a) - Len(e) + i]
               /\ \A i \in 1..(Len(a) - Len(e)) : clock - a[i] > Window
               /\ e # <<>> => ~Expired(p.now, e[1])
<1> DEFINE u == p.user
           d == state[u]
           a == admitted[u]
           k == PrunedCount(d, p.now)
           e == Prune(d, p.now)
<1>1. /\ u \in Users /\ p.now \in Times
      /\ p.now <= clock /\ clock <= p.now + MaxSkew
      /\ clock \in Times
      /\ a \in Seq(Times) /\ d \in Seq(Times)
  BY DEF IInv, TypeOK, Calls, CallsFresh
<1>2. /\ Len(d) <= MaxRequests
      /\ Len(d) <= Len(a)
      /\ \A i \in 1..Len(d) : d[i] = a[Len(a) - Len(d) + i]
      /\ \A i \in 1..(Len(a) - Len(d)) : clock - a[i] > Window
  BY <1>1 DEF IInv, TypeOK, DequeIsTail, DroppedExpired, Dropped
<1>3. /\ k \in 0..Len(d)
      /\ \A i \in 1..k : Expired(p.now, d[i])
      /\ k < Len(d) => ~Expired(p.now, d[k + 1])
  BY <1>1, PrunedCountProperties
<1>4. /\ e \in Seq(Times)
      /\ Len(e) = Len(d) - k
      /\ \A i \in 1..Len(e) : e[i] = d[k + i]
  BY <1>1, PruneProperties
<1> HIDE DEF u, d, a, k, e
<1>5. Len(e) <= MaxRequests /\ Len(e) <= Len(a)
  BY <1>1, <1>2, <1>3, <1>4, MaxRequestsAssumption
<1>6. ASSUME NEW i \in 1..Len(e)
      PROVE  e[i] = a[Len(a) - Len(e) + i]
  <2>1. k + i \in 1..Len(d) /\ Len(a) - Len(d) + (k + i) = Len(a) - Len(e) + i
    BY <1>1, <1>2, <1>3, <1>4
  <2> QED BY <1>2, <1>4, <2>1
<1>7. ASSUME NEW i \in 1..(Len(a) - Len(e))
      PROVE  clock - a[i] > Window
  <2>1. CASE i <= Len(a) - Len(d)
    BY <1>1, <1>2, <2>1
  <2>2. CASE i > Len(a) - Len(d)
    <3> DEFINE j == i - (Len(a) - Len(d))
    <3>1. j \in 1..k /\ j \in 1..Len(d) /\ Len(a) - Len(d) + j = i
      BY <1>1, <1>2, <1>3, <1>4, <2>2
    <3>2. Expired(p.now, d[j]) /\ d[j] = a[i] /\ d[j] \in Times
      BY <1>1, <1>2, <1>3, <3>1
    <3> HIDE DEF j
    <3> QED BY <1>1, <3>2, WindowType, MaxClockAssumption DEF Expired, Elapsed, Times
  <2> QED BY <1>1, <1>2, <1>4, <2>1, <2>2
<1>8. e # <<>> => ~Expired(p.now, e[1])
  <2> HAVE e # <<>>
  <2>1. Len(e) > 0
    BY <1>4
  <2> QED BY <1>1, <1>3, <1>4, <2>1
<1> QED BY <1>1, <1>4, <1>5, <1>6, <1>7, <1>8 DEF u, d, a, k, e

LEMMA AllowIInv ==
    ASSUME IInv, NEW p \in calls, Allow(p)
    PROVE  IInv'
<1> DEFINE u == p.user
           a == admitted[u]
           e == Prune(state[u], p.now)
<1>1. /\ u \in Users /\ p.now \in Times
      /\ p.now <= clock /\ clock <= p.now + MaxSkew
      /\ a \in Seq(Times) /\ e \in Seq(Times)
      /\ Len(e) <= Len(a)
      /\ \A i \in 1..Len(e) : e[i] = a[Len(a) - Len(e) + i]
      /\ \A i \in 1..(Len(a) - Len(e)) : clock - a[i] > Window
  BY CriticalSection
<1>2. /\ Len(e) < MaxRequests
      /\ state' = [state EXCEPT ![u] = Append(e, p.now)]
      /\ admitted' = [admitted EXCEPT ![u] = Append(a, p.now)]
      /\ retryAt' = [retryAt EXCEPT ![u] = NoPromise]
      /\ calls' = calls \ {p}
      /\ clock' = clock
  BY DEF Allow
<1>3. /\ state \in [Users -> Seq(Times)] /\ admitted \in [Users -> Seq(Times)]
      /\ clock \in Times /\ calls \in SUBSET Calls /\ retryAt \in [Users -> Int]
      /\ \A w \in Users : Len(state[w]) <= MaxRequests
  BY DEF IInv, TypeOK
<1> HIDE DEF u, a, e
<1>4. /\ state'[u] = Append(e, p.now) /\ admitted'[u] = Append(a, p.now)
      /\ \A w \in Users \ {u} : state'[w] = state[w] /\ admitted'[w] = admitted[w]
  BY <1>1, <1>2, <1>3
<1>5. /\ Len(Append(e, p.now)) = Len(e) + 1 /\ Len(Append(a, p.now)) = Len(a) + 1
      /\ \A i \in 1..Len(e) : Append(e, p.now)[i] = e[i]
      /\ \A i \in 1..Len(a) : Append(a, p.now)[i] = a[i]
      /\ Append(e, p.now)[Len(e) + 1] = p.now /\ Append(a, p.now)[Len(a) + 1] = p.now
      /\ Append(e, p.now) \in Seq(Times) /\ Append(a, p.now) \in Seq(Times)
  BY <1>1
<1> DEFINE ee == Append(e, p.now)
           aa == Append(a, p.now)
<1> HIDE DEF ee, aa
<1>6. TypeOK'
  <2>1. \A w \in Users : Len(state'[w]) <= MaxRequests
    BY <1>1, <1>2, <1>3, <1>4, <1>5, MaxRequestsAssumption
  <2> QED BY <1>1, <1>2, <1>3, <1>5, <2>1 DEF TypeOK, NoPromise
<1>7. DequeIsTail'
  <2>1. Len(ee) <= Len(aa)
    BY <1>1, <1>5 DEF ee, aa
  <2>2. ASSUME NEW i \in 1..Len(ee)
        PROVE  ee[i] = aa[Len(aa) - Len(ee) + i]
    <3>1. CASE i <= Len(e)
      BY <1>1, <1>5, <3>1 DEF ee, aa
    <3>2. CASE i = Len(e) + 1
      <4>1. Len(aa) - Len(ee) + i = Len(a) + 1
        BY <1>1, <1>5, <3>2 DEF ee, aa
      <4> QED BY <1>5, <3>2, <4>1 DEF ee, aa
    <3>3. i <= Len(e) \/ i = Len(e) + 1
      <4>1. Len(ee) = Len(e) + 1 /\ Len(e) \in Nat
        BY <1>1, <1>5 DEF ee
      <4> QED BY <4>1
    <3> QED BY <3>1, <3>2, <3>3
  <2> QED BY <1>4, <2>1, <2>2 DEF DequeIsTail, Dropped, IInv, ee, aa
<1>8. DroppedExpired'
  <2>1. \A i \in 1..(Len(aa) - Len(ee)) : clock - aa[i] > Window
    BY <1>1, <1>5 DEF ee, aa
  <2> QED BY <1>2, <1>4, <2>1 DEF DroppedExpired, Dropped, IInv, ee, aa
<1>9. NearlySorted'
  <2>1. ASSUME NEW i \in 1..Len(aa), NEW j \in 1..Len(aa)
        PROVE  /\ aa[i] <= clock
               /\ i < j => aa[i] <= aa[j] + MaxSkew
    <3>1. \A m, n \in 1..Len(a) : a[m] <= clock /\ (m < n => a[m] <= a[n] + MaxSkew)
      BY <1>1 DEF IInv, NearlySorted, a
    <3>2. \A m \in 1..Len(aa) : m = Len(a) + 1 \/ m \in 1..Len(a)
      BY <1>1, <1>5 DEF aa
    <3>3. aa[Len(a) + 1] = p.now /\ \A m \in 1..Len(a) : aa[m] = a[m] /\ a[m] \in Times
      BY <1>1, <1>5 DEF aa
    <3>4. p.now \in Int /\ clock \in Int /\ \A m \in 1..Len(a) : a[m] \in Int
      <4>1. \A t \in Times : t \in Int
        BY MaxClockAssumption DEF Times
      <4>2. \A m \in 1..Len(a) : a[m] \in Times
        BY <1>1
      <4> QED BY <1>1, <1>3, <4>1, <4>2
    <3>5. Len(a) \in Nat /\ Len(aa) = Len(a) + 1
      BY <1>1, <1>5 DEF aa
    <3>6. CASE i \in 1..Len(a) /\ j \in 1..Len(a)
      BY <3>1, <3>3, <3>6
    <3>7. CASE i \in 1..Len(a) /\ j = Len(a) + 1
      <4>1. a[i] <= clock
        BY <3>1, <3>7
      <4> QED BY <1>1, <3>3, <3>4, <3>7, <4>1, MaxSkewAssumption
    <3>8. CASE i = Len(a) + 1
      BY <1>1, <3>3, <3>4, <3>5, <3>8
    <3> QED BY <3>2, <3>6, <3>7, <3>8
  <2> QED BY <1>2, <1>4, <2>1 DEF NearlySorted, IInv, aa
<1>10. CallsFresh'
  BY <1>2 DEF IInv, CallsFresh
<1>11. SlidingWindow'
  <2>1. ASSUME NEW i \in 1..Len(aa), NEW j \in 1..Len(aa), i + MaxRequests <= j
        PROVE  aa[j] - aa[i] > Window - MaxSkew
    <3>1. \A m, n \in 1..Len(a) : m + MaxRequests <= n => a[n] - a[m] > Window - MaxSkew
      BY <1>1 DEF IInv, SlidingWindow, a
    <3>2. Len(a) \in Nat /\ Len(e) \in Nat /\ Len(aa) = Len(a) + 1
      BY <1>1, <1>5 DEF aa
    <3>3. aa[Len(a) + 1] = p.now /\ \A m \in 1..Len(a) : aa[m] = a[m]
      BY <1>5 DEF aa
    <3>4. CASE j <= Len(a)
      <4>1. i \in 1..Len(a) /\ j \in 1..Len(a)
        BY <2>1, <3>2, <3>4, MaxRequestsAssumption
      <4> QED BY <2>1, <3>1, <3>3, <4>1
    <3>5. CASE j = Len(a) + 1
      <4>1. i \in 1..(Len(a) - Len(e)) /\ i \in 1..Len(a)
        BY <1>2, <2>1, <3>2, <3>5, MaxRequestsAssumption
      <4>2. clock - a[i] > Window /\ a[i] \in Times
        BY <1>1, <4>1
      <4> QED BY <1>1, <1>3, <3>3, <3>5, <4>1, <4>2, WindowType, MaxSkewAssumption DEF Times
    <3> QED BY <3>2, <3>4, <3>5
  <2> QED BY <1>4, <2>1 DEF SlidingWindow, IInv, aa
<1> QED BY <1>6, <1>7, <1>8, <1>9, <1>10, <1>11 DEF IInv

LEMMA LimitIInv ==
    ASSUME IInv, NEW p \in calls, Limit(p)
    PROVE  IInv'
<1> DEFINE u == p.user
           a == admitted[u]
           e == Prune(state[u], p.now)
           r == clock + Advertised(Remaining(e, p.now))
<1>1. /\ u \in Users /\ p.now \in Times
      /\ e \in Seq(Times)
      /\ Len(e) <= MaxRequests
      /\ Len(e) <= Len(a)
      /\ \A i \in 1..Len(e) : e[i] = a[Len(a) - Len(e) + i]
      /\ \A i \in 1..(Len(a) - Len(e)) : clock - a[i] > Window
  BY CriticalSection
<1>2. /\ state' = [state EXCEPT ![u] = e]
      /\ retryAt' = [retryAt EXCEPT ![u] = r]
      /\ calls' = calls \ {p}
      /\ clock' = clock /\ admitted' = admitted
  BY DEF Limit
<1>3. /\ state \in [Users -> Seq(Times)] /\ admitted \in [Users -> Seq(Times)]
      /\ clock \in Times /\ calls \in SUBSET Calls /\ retryAt \in [Users -> Int]
      /\ \A w \in Users : Len(state[w]) <= MaxRequests
  BY DEF IInv, TypeOK
<1>4. r \in Int
  <2>1. Advertised(Remaining(e, p.now)) \in Nat
    BY <1>1, RemainingType, AdvertisedType
  <2>2. clock \in Nat
    BY <1>3, MaxClockAssumption DEF Times
  <2> QED BY <2>1, <2>2
<1> HIDE DEF u, a, e, r
<1>5. /\ state'[u] = e /\ admitted'[u] = a
      /\ \A w \in Users \ {u} : state'[w] = state[w]
  BY <1>1, <1>2, <1>3 DEF a
<1>6. TypeOK'
  BY <1>1, <1>2, <1>3, <1>4, <1>5 DEF TypeOK
<1>7. DequeIsTail'
  <2> SUFFICES ASSUME NEW w \in Users
               PROVE  /\ Len(state'[w]) <= Len(admitted[w])
                      /\ \A i \in 1..Len(state'[w]) :
                            state'[w][i] = admitted[w][Len(admitted[w]) - Len(state'[w]) + i]
    BY <1>2 DEF DequeIsTail, Dropped
  <2>1. CASE w = u
    BY <1>1, <1>5, <2>1 DEF a
  <2>2. CASE w # u
    BY <1>5, <2>2 DEF IInv, DequeIsTail, Dropped
  <2> QED BY <2>1, <2>2
<1>8. DroppedExpired'
  BY <1>1, <1>2, <1>5 DEF DroppedExpired, Dropped, IInv, a
<1>9. NearlySorted' /\ CallsFresh' /\ SlidingWindow'
  BY <1>2 DEF NearlySorted, CallsFresh, SlidingWindow, IInv
<1> QED BY <1>6, <1>7, <1>8, <1>9 DEF IInv

LEMMA NextIInv == IInv /\ [Next]_vars => IInv'
<1> SUFFICES ASSUME IInv, [Next]_vars PROVE IInv'
  OBVIOUS
<1>1. CASE Tick
  BY <1>1, TickIInv
<1>2. CASE \E c \in Callers, u \in Users : Sample(c, u)
  BY <1>2, SampleIInv
<1>3. CASE \E p \in calls : Allow(p)
  BY <1>3, AllowIInv
<1>4. CASE \E p \in calls : Limit(p)
  BY <1>4, LimitIInv
<1>5. CASE UNCHANGED vars
  BY <1>5 DEF vars, IInv, TypeOK, DequeIsTail, DroppedExpired, Dropped,
              NearlySorted, CallsFresh, SlidingWindow
<1> QED BY <1>1, <1>2, <1>3, <1>4, <1>5 DEF Next

(***************************************************************************)
(* The deque of a user holds only timestamps, and never more than          *)
(* max_requests of them, in every run of RateLimiter::check.               *)
(***************************************************************************)
THEOREM TypeCorrect == Spec => []TypeOK
<1>1. IInv => TypeOK
  BY DEF IInv
<1> QED BY InitIInv, NextIInv, <1>1, PTL DEF Spec

LEMMA IInvInvariant == Spec => []IInv
BY InitIInv, NextIInv, PTL DEF Spec

(***************************************************************************)
(* No window holds more than max_requests admissions of one user, up to    *)
(* the time callers are held up before the mutex.                          *)
(***************************************************************************)
THEOREM WindowRespected == Spec => []SlidingWindow
<1>1. IInv => SlidingWindow
  BY DEF IInv
<1> QED BY IInvInvariant, <1>1, PTL

(***************************************************************************)
(* When no caller is held up between the clock and the mutex, no window of *)
(* length Window holds more than max_requests admissions of one user.      *)
(***************************************************************************)
THEOREM ExactWindow ==
    ASSUME MaxSkew = 0
    PROVE  Spec => [](\A u \in Users : \A i, j \in 1..Len(admitted[u]) :
                        i + MaxRequests <= j =>
                            admitted[u][j] - admitted[u][i] > Window)
<1>1. IInv => \A u \in Users : \A i, j \in 1..Len(admitted[u]) :
                 i + MaxRequests <= j => admitted[u][j] - admitted[u][i] > Window
  BY WindowType DEF IInv, SlidingWindow
<1> QED BY IInvInvariant, <1>1, PTL

(***************************************************************************)
(* A call is limited only when the last max_requests admissions of its     *)
(* user are all recent: the deque is full, it is the end of the history,   *)
(* its front has not expired and the rest is at most MaxSkew older.        *)
(***************************************************************************)
LEMMA LimitOnlyWhenFull ==
    ASSUME IInv, NEW p \in calls, Limit(p)
    PROVE  LET a == admitted[p.user]
               first == Len(a) - MaxRequests + 1
           IN  /\ first >= 1
               /\ \A i \in first..Len(a) : p.now - a[i] <= Window + MaxSkew
<1> DEFINE u == p.user
           a == admitted[u]
           e == Prune(state[u], p.now)
           first == Len(a) - MaxRequests + 1
<1>1. /\ u \in Users /\ p.now \in Times
      /\ a \in Seq(Times) /\ e \in Seq(Times)
      /\ Len(e) <= MaxRequests
      /\ Len(e) <= Len(a)
      /\ \A i \in 1..Len(e) : e[i] = a[Len(a) - Len(e) + i]
      /\ e # <<>> => ~Expired(p.now, e[1])
  BY CriticalSection
<1>2. Len(e) >= MaxRequests
  BY DEF Limit
<1>3. \A i, j \in 1..Len(a) : i < j => a[i] <= a[j] + MaxSkew
  BY <1>1 DEF IInv, NearlySorted
<1> HIDE DEF u, a, e
<1>4. Len(e) = MaxRequests /\ first >= 1
  BY <1>1, <1>2, MaxRequestsAssumption
<1>5. ASSUME NEW i \in first..Len(a)
      PROVE  p.now - a[i] <= Window + MaxSkew
  <2>1. Len(e) >= 1 /\ first \in 1..Len(a) /\ i \in 1..Len(a) /\ first <= i
    BY <1>1, <1>4, MaxRequestsAssumption
  <2>2. e[1] = a[first] /\ ~Expired(p.now, e[1])
    <3>1. 1 \in 1..Len(e) /\ Len(a) - Len(e) + 1 = first /\ e # <<>>
      BY <1>1, <1>4, <2>1
    <3> QED BY <1>1, <3>1
  <2>3. a[i] \in Int /\ a[first] \in Int /\ p.now \in Int
    <3>1. \A t \in Times : t \in Int
      BY MaxClockAssumption DEF Times
    <3> QED BY <1>1, <2>1, <3>1
  <2>4. p.now - a[first] <= Window
    BY <2>2, <2>3, WindowType DEF Expired, Elapsed
  <2>5. a[first] <= a[i] + MaxSkew
    BY <1>3, <2>1, <2>3, MaxSkewAssumption
  <2> HIDE DEF first
  <2> QED BY <2>3, <2>4, <2>5, WindowType, MaxSkewAssumption
<1> QED BY <1>4, <1>5 DEF u, a

THEOREM LimitJustified == Spec => NoSpuriousLimit
<1>1. IInv /\ [Next]_vars =>
        [\A p \in calls : Limit(p) =>
            LET a == admitted[p.user]
                first == Len(a) - MaxRequests + 1
            IN  /\ first >= 1
                /\ \A i \in first..Len(a) : p.now - a[i] <= Window + MaxSkew]_vars
  BY LimitOnlyWhenFull
<1> QED BY IInvInvariant, <1>1, PTL DEF Spec, NoSpuriousLimit

-----------------------------------------------------------------------------

(***************************************************************************)
(* What a promise means while it stands: either a slot is free already, or *)
(* the oldest entry leaves the window less than a second after the promise *)
(***************************************************************************)
PromiseKept ==
    \A u \in Users :
        /\ MaxRequests > 0 /\ retryAt[u] # NoPromise
        /\ Len(state[u]) = MaxRequests
        => state[u][1] + Window < retryAt[u] + TicksPerSecond

\* Rounding down to whole seconds, and up to one, loses less than a second.
LEMMA AdvertisedBound ==
    ASSUME NEW r \in Nat
    PROVE  r < Advertised(r) + TicksPerSecond
<1> DEFINE T == TicksPerSecond
           q == r \div T
<1>1. T \in Nat /\ T > 0
  BY TicksPerSecondAssumption
<1>2. q \in Nat /\ r = T * q + (r % T) /\ r % T < T
  BY <1>1, SMT
<1>3. r < q * T + T
  BY <1>1, <1>2, SMT
<1>4. q = 0 => r < T
  BY <1>1, <1>2, SMT
<1> QED
  BY <1>1, <1>3, <1>4 DEF Advertised

LEMMA LimitPromise ==
    ASSUME IInv, MaxRequests > 0, NEW p \in calls, Limit(p)
    PROVE  LET e == Prune(state[p.user], p.now)
           IN  /\ e[1] + Window < retryAt'[p.user] + TicksPerSecond
               /\ p.now <= e[1] + Window
               /\ Len(state[p.user]) = MaxRequests => e = state[p.user]
               /\ Len(state[p.user]) = MaxRequests
<1> DEFINE u == p.user
           d == state[u]
           e == Prune(d, p.now)
           a == admitted[u]
           r == Remaining(e, p.now)
<1>1. /\ u \in Users /\ p.now \in Times /\ p.now <= clock
      /\ a \in Seq(Times) /\ e \in Seq(Times)
      /\ Len(e) <= MaxRequests
      /\ Len(e) <= Len(a)
      /\ \A i \in 1..Len(e) : e[i] = a[Len(a) - Len(e) + i]
      /\ e # <<>> => ~Expired(p.now, e[1])
  BY CriticalSection
<1>2. /\ Len(e) >= MaxRequests
      /\ retryAt' = [retryAt EXCEPT ![u] = clock + Advertised(r)]
  BY DEF Limit
<1>3. /\ d \in Seq(Times) /\ Len(d) <= MaxRequests
      /\ retryAt \in [Users -> Int] /\ clock \in Times
      /\ \A i \in 1..Len(a) : a[i] <= clock
  BY <1>1 DEF IInv, TypeOK, NearlySorted
<1>4. \A t \in Times : t \in Int
  BY MaxClockAssumption DEF Times
<1>5. e # <<>> /\ e[1] \in Times /\ ~Expired(p.now, e[1]) /\ e[1] <= clock
  <2> HIDE DEF e, a
  <2>1. Len(e) >= 1 /\ Len(a) - Len(e) + 1 \in 1..Len(a) /\ e # <<>>
    BY <1>1, <1>2, MaxRequestsAssumption
  <2>2. 1 \in 1..Len(e)
    BY <2>1
  <2> QED BY <1>1, <1>3, <2>1, <2>2
<1>6. r \in Nat /\ r = Window - Elapsed(p.now, e[1]) /\ Elapsed(p.now, e[1]) \in Nat
  BY <1>1, <1>4, <1>5, WindowType DEF Remaining, Expired, Elapsed
<1>7. Advertised(r) \in Nat /\ r < Advertised(r) + TicksPerSecond
  BY <1>6, AdvertisedType, AdvertisedBound
<1>8. retryAt'[u] = clock + Advertised(r)
  BY <1>1, <1>2, <1>3
<1>9. Len(d) = MaxRequests /\ e = d
  <2>1. PrunedCount(d, p.now) \in 0..Len(d) /\ Len(e) = Len(d) - PrunedCount(d, p.now)
    BY <1>1, <1>3, PrunedCountProperties, PruneProperties
  <2>2. Len(d) = MaxRequests /\ PrunedCount(d, p.now) = 0
    BY <1>1, <1>2, <1>3, <2>1, MaxRequestsAssumption
  <2>3. \A i \in 1..Len(e) : e[i] = d[PrunedCount(d, p.now) + i]
    BY <1>1, <1>3, PruneProperties
  <2> HIDE DEF e, d
  <2>4. Len(e) = Len(d) /\ \A i \in 1..Len(e) : e[i] = d[i]
    BY <1>1, <1>3, <2>1, <2>2, <2>3
  <2> QED BY <1>1, <1>3, <2>2, <2>4, SeqEqual
<1> HIDE DEF e, d, r, u
<1>10. e[1] + Window < clock + Advertised(r) + TicksPerSecond
  <2>1. e[1] \in Int /\ p.now \in Int /\ clock \in Int
    BY <1>1, <1>3, <1>4, <1>5
  <2>2. e[1] + Window <= clock + r
    <3>1. CASE e[1] <= p.now
      BY <1>1, <1>6, <2>1, <3>1, WindowType DEF Elapsed
    <3>2. CASE ~(e[1] <= p.now)
      BY <1>5, <1>6, <2>1, <3>2, WindowType DEF Elapsed
    <3> QED BY <3>1, <3>2
  <2> QED BY <1>6, <1>7, <2>1, <2>2, WindowType, TicksPerSecondAssumption
<1>11. p.now <= e[1] + Window
  BY <1>1, <1>4, <1>5, WindowType DEF Expired, Elapsed
<1> QED BY <1>8, <1>9, <1>10, <1>11 DEF e, d, u

LEMMA NextPromiseKept ==
    ASSUME IInv, PromiseKept, [Next]_vars
    PROVE  PromiseKept'
<1>1. CASE Tick \/ (\E c \in Callers, u \in Users : Sample(c, u)) \/ UNCHANGED vars
  BY <1>1 DEF Tick, Sample, vars, PromiseKept
<1>2. ASSUME NEW p \in calls, Allow(p)
      PROVE  PromiseKept'
  <2>1. retryAt' = [retryAt EXCEPT ![p.user] = NoPromise]
    BY <1>2 DEF Allow
  <2>2. \A u \in Users : u # p.user => state'[u] = state[u]
    BY <1>2 DEF Allow, IInv, TypeOK
  <2> QED BY <2>1, <2>2 DEF PromiseKept, IInv, TypeOK
<1>3. ASSUME NEW p \in calls, Limit(p)
      PROVE  PromiseKept'
  <2> SUFFICES ASSUME NEW u \in Users, MaxRequests > 0, retryAt'[u] # NoPromise,
                      Len(state'[u]) = MaxRequests
               PROVE  state'[u][1] + Window < retryAt'[u] + TicksPerSecond
    BY DEF PromiseKept
  <2>1. p.user \in Users /\ state \in [Users -> Seq(Times)] /\ retryAt \in [Users -> Int]
    BY DEF IInv, TypeOK, Calls
  <2>2. CASE u = p.user
    <3>1. state'[u] = Prune(state[u], p.now)
      BY <1>3, <2>1, <2>2 DEF Limit
    <3> QED BY <1>3, <2>2, <3>1, LimitPromise
  <2>3. CASE u # p.user
    <3>1. state'[u] = state[u] /\ retryAt'[u] = retryAt[u]
      BY <1>3, <2>1, <2>3 DEF Limit
    <3> QED BY <3>1 DEF PromiseKept
  <2> QED BY <2>2, <2>3
<1> QED BY <1>1, <1>2, <1>3 DEF Next

(***************************************************************************)
(* "Try again in Ns" is wrong by less than a second, for every limit,      *)
(* window and clock resolution.                                            *)
(***************************************************************************)
THEOREM RetryWithinASecond == Spec => RetryBound
<1>1. Init => PromiseKept
  BY DEF Init, PromiseKept
<1>2. IInv /\ PromiseKept /\ [Next]_vars =>
        [\A p \in calls :
            (Limit(p) /\ MaxRequests > 0 /\ retryAt[p.user] # NoPromise)
               => p.now < retryAt[p.user] + TicksPerSecond]_vars
  <2> SUFFICES ASSUME IInv, PromiseKept, NEW p \in calls, Limit(p), MaxRequests > 0,
                      retryAt[p.user] # NoPromise
               PROVE  p.now < retryAt[p.user] + TicksPerSecond
    OBVIOUS
  <2> DEFINE e == Prune(state[p.user], p.now)
  <2>1. p.now <= e[1] + Window /\ e = state[p.user] /\ Len(state[p.user]) = MaxRequests
    BY LimitPromise
  <2>2. /\ p.user \in Users /\ p.now \in Times /\ retryAt[p.user] \in Int
        /\ state[p.user] \in Seq(Times)
    BY DEF IInv, TypeOK, Calls
  <2>3. e[1] + Window < retryAt[p.user] + TicksPerSecond
    BY <2>1, <2>2 DEF PromiseKept
  <2>4. e[1] \in Int /\ p.now \in Int
    <3>1. \A t \in Times : t \in Int
      BY MaxClockAssumption DEF Times
    <3>2. 1 \in 1..Len(state[p.user])
      BY <2>1, <2>2, MaxRequestsAssumption
    <3> QED BY <2>1, <2>2, <3>1, <3>2
  <2> HIDE DEF e
  <2> QED BY <2>1, <2>2, <2>3, <2>4, WindowType, TicksPerSecondAssumption
<1>3. IInv /\ PromiseKept /\ [Next]_vars => PromiseKept'
  BY NextPromiseKept
<1> QED BY IInvInvariant, <1>1, <1>2, <1>3, PTL DEF Spec, RetryBound

=============================================================================
