------------------------------ MODULE Lifecycle ------------------------------
(***************************************************************************)
(* The daemon as a whole: the channel providers (src/channel), the bounded *)
(* channel from them to the router, the router's loop and drain            *)
(* (Router::run, src/router.rs), and main's shutdown (src/startup.rs).     *)
(*                                                                         *)
(* A message is the i-th of a provider.  What a handler does with it is    *)
(* Router's subject; here a handler is a task that may or may not end.     *)
(***************************************************************************)
EXTENDS Integers, Sequences, FiniteSets

CONSTANTS
    Providers,
    Kind,      \* Kind[p]: the messaging platform of p
    Load,      \* Load[p]: how many messages the peers of p ever send
    Capacity   \* what mpsc::channel was given: 64 in main.rs

ASSUME KindAssumption == Kind \in [Providers -> {"telegram", "whatsapp", "slack"}]
ASSUME LoadAssumption == Load \in [Providers -> Nat]
ASSUME CapacityAssumption == Capacity \in Nat \ {0}

VARIABLES
    provider,  \* provider[p]: where start() of p is
    where,     \* where[m]: how far the message has come
    queue,     \* the channel
    router,    \* where Router::run is
    shutdown,  \* whether the cancellation token is cancelled
    exited     \* whether await_shutdown has returned

vars == <<provider, where, queue, router, shutdown, exited>>

Messages == UNION {{p} \X (1..Load[p]) : p \in Providers}
Stages == {"peer", "acking", "sending", "queued", "handling", "handled", "aborted", "lost"}
Spawned == {"handling", "handled", "aborted"}

At(stage) == {m \in Messages : where[m] = stage}

\* Providers that forward one message at a time, in the receiving loop itself.
Inline(p) == Kind[p] = "slack"

\* Any of the providers may be the configured ones; the others never run.
Init ==
    /\ \E configured \in (SUBSET Providers) \ {{}} :
          provider = [p \in Providers |-> CASE p \notin configured -> "stopped"
                                            [] p \in configured /\ Inline(p) -> "connecting"
                                            [] OTHER -> "open"]
    /\ where = [m \in Messages |-> "peer"]
    /\ queue = <<>>
    /\ router = "running"
    /\ shutdown = FALSE /\ exited = FALSE

-----------------------------------------------------------------------------
(* The providers.                                                          *)

\* The next message of p.  A slack envelope is read by the loop, which then
\* acknowledges it; the others run a task (telegram's dispatcher, one per
\* chat) or a request handler (whatsapp) that goes straight to tx.send.
Arrive(p) ==
    /\ provider[p] = "open"
    /\ \E i \in 1..Load[p] :
        /\ where[<<p, i>>] = "peer"
        /\ \A j \in 1..(i - 1) : where[<<p, j>>] # "peer"
        /\ where' = [where EXCEPT ![<<p, i>>] = IF Inline(p) THEN "acking" ELSE "sending"]
    /\ provider' = [provider EXCEPT ![p] = IF Inline(p) THEN "busy" ELSE @]
    /\ UNCHANGED <<queue, router, shutdown, exited>>

\* Mutant: the loop hands the message to a task and reads on.
AckAndDetach(p) ==
    \E m \in At("acking") :
        /\ m[1] = p
        /\ where' = [where EXCEPT ![m] = "sending"]
        /\ provider' = [provider EXCEPT ![p] = "open"]
        /\ UNCHANGED <<queue, router, shutdown, exited>>

\* The acknowledgement is written, or fails, which is only logged.
Ack(p) ==
    \E m \in At("acking") :
        /\ m[1] = p
        /\ where' = [where EXCEPT ![m] = "sending"]
        /\ UNCHANGED <<provider, queue, router, shutdown, exited>>

\* The loop of an inline provider goes on to its next read.
Resume(m) ==
    provider' = [provider EXCEPT ![m[1]] = IF @ = "busy" THEN "open" ELSE @]

\* Mutant: an unbounded channel.
EnqueueUnbounded(m) ==
    /\ where[m] = "sending"
    /\ router # "exited"
    /\ queue' = Append(queue, m)
    /\ where' = [where EXCEPT ![m] = "queued"]
    /\ Resume(m)
    /\ UNCHANGED <<router, shutdown, exited>>

\* tx.send waits for room.
Enqueue(m) ==
    /\ where[m] = "sending"
    /\ router # "exited" /\ Len(queue) < Capacity
    /\ queue' = Append(queue, m)
    /\ where' = [where EXCEPT ![m] = "queued"]
    /\ Resume(m)
    /\ UNCHANGED <<router, shutdown, exited>>

\* The receiver is gone: "router channel closed".
SendFails(m) ==
    /\ where[m] = "sending"
    /\ router = "exited"
    /\ where' = [where EXCEPT ![m] = "lost"]
    /\ Resume(m)
    /\ UNCHANGED <<queue, router, shutdown, exited>>

Goto(p, state) ==
    /\ provider' = [provider EXCEPT ![p] = state]
    /\ UNCHANGED <<where, queue, router, shutdown, exited>>

\* Each start() races its loop with shutdown.cancelled(), slack's only between
\* reads; whatsapp's server then waits for the requests it is serving.
StopProvider(p) ==
    /\ shutdown /\ provider[p] = "open"
    /\ Goto(p, IF Kind[p] = "whatsapp" THEN "stopping" ELSE "stopped")

ServerStopped(p) ==
    /\ provider[p] = "stopping"
    /\ \A m \in At("sending") : m[1] # p
    /\ Goto(p, "stopped")

\* start() ends by itself: the polling loop returns or panics, the webhook port
\* cannot be bound.
ProviderFails(p) ==
    /\ provider[p] = "open"
    /\ \/ Kind[p] = "telegram"
       \/ Kind[p] = "whatsapp" /\ \A i \in 1..Load[p] : where[<<p, i>>] = "peer"
    /\ Goto(p, "stopped")

\* slack: apps.connections.open, then the websocket, neither raced with anything.
Connect(p) == provider[p] = "connecting" /\ Goto(p, "open")
ConnectFails(p) == provider[p] = "connecting" /\ Goto(p, "backoff")
Disconnect(p) == Inline(p) /\ provider[p] = "open" /\ Goto(p, "backoff")

\* The pause is raced with shutdown, and the loop's head looks at it again.
BackoffEnds(p) ==
    /\ provider[p] = "backoff"
    /\ Goto(p, IF shutdown THEN "stopped" ELSE "connecting")

BackoffCut(p) == provider[p] = "backoff" /\ shutdown /\ Goto(p, "stopped")

-----------------------------------------------------------------------------
(* Router::run.                                                            *)

\* Mutant: handle(msg).await in the loop.
RecvInline ==
    /\ router = "running" /\ queue # <<>>
    /\ At("handling") = {}
    /\ where' = [where EXCEPT ![Head(queue)] = "handling"]
    /\ queue' = Tail(queue)
    /\ UNCHANGED <<provider, router, shutdown, exited>>

\* rx.recv() wins the select, which a cancelled token does not prevent.
Recv ==
    /\ router = "running" /\ queue # <<>>
    /\ where' = [where EXCEPT ![Head(queue)] = "handling"]
    /\ queue' = Tail(queue)
    /\ UNCHANGED <<provider, router, shutdown, exited>>

\* The clones of tx: one in each start(), one in each send it has under way.
SendersGone == (\A p \in Providers : provider[p] = "stopped") /\ At("sending") = {}

\* Mutants: the sends under way are forgotten; main keeps the original tx.
ReceiveClosedEarly ==
    /\ router = "running" /\ queue = <<>>
    /\ \A p \in Providers : provider[p] = "stopped"
    /\ router' = "draining"
    /\ UNCHANGED <<provider, where, queue, shutdown, exited>>

ReceiveClosedAfterMain ==
    /\ router = "running" /\ queue = <<>>
    /\ SendersGone /\ exited
    /\ router' = "draining"
    /\ UNCHANGED <<provider, where, queue, shutdown, exited>>

\* rx.recv() returns None.
ReceiveClosed ==
    /\ router = "running" /\ queue = <<>>
    /\ SendersGone
    /\ router' = "draining"
    /\ UNCHANGED <<provider, where, queue, shutdown, exited>>

StopRouter ==
    /\ router = "running" /\ shutdown
    /\ router' = "draining"
    /\ UNCHANGED <<provider, where, queue, shutdown, exited>>

\* run() returns: rx is dropped with what the channel still holds, and the
\* JoinSet aborts what is left of the handlers.
RouterReturns ==
    /\ router' = "exited"
    /\ queue' = <<>>
    /\ where' = [m \in Messages |->
                    CASE where[m] = "queued" -> "lost"
                      [] where[m] = "handling" -> "aborted"
                      [] OTHER -> where[m]]
    /\ UNCHANGED <<provider, shutdown, exited>>

DrainDone == router = "draining" /\ At("handling") = {} /\ RouterReturns

\* Mutant: the drain starts over.
DrainAgain == router = "draining" /\ At("handling") # {} /\ UNCHANGED vars

\* DRAIN_TIMEOUT elapses: abort_all.
DrainTimeout == router = "draining" /\ At("handling") # {} /\ RouterReturns

HandlerDone(m) ==
    /\ where[m] = "handling"
    /\ where' = [where EXCEPT ![m] = "handled"]
    /\ UNCHANGED <<provider, queue, router, shutdown, exited>>

-----------------------------------------------------------------------------
(* main.                                                                   *)

Signal ==
    /\ ~shutdown /\ ~exited
    /\ shutdown' = TRUE
    /\ UNCHANGED <<provider, where, queue, router, exited>>

\* await_shutdown has joined every provider and the router; the runtime drops
\* the sends that telegram's tasks still had under way.
MainExits ==
    /\ ~exited /\ router = "exited"
    /\ \A p \in Providers : provider[p] = "stopped"
    /\ exited' = TRUE
    /\ where' = [m \in Messages |-> IF where[m] = "sending" THEN "lost" ELSE where[m]]
    /\ UNCHANGED <<provider, queue, router, shutdown>>

PeerStep(p) == Ack(p) \/ Connect(p) \/ ConnectFails(p)
ProviderStep(p) == StopProvider(p) \/ ServerStopped(p) \/ BackoffEnds(p) \/ BackoffCut(p)
SendStep(m) == Enqueue(m) \/ SendFails(m)
DrainStep == DrainDone \/ DrainTimeout

Next ==
    \/ \E p \in Providers :
        \/ Arrive(p) \/ PeerStep(p) \/ ProviderStep(p)
        \/ ProviderFails(p) \/ Disconnect(p)
    \/ \E m \in Messages : SendStep(m) \/ HandlerDone(m)
    \/ Recv \/ ReceiveClosed \/ StopRouter \/ DrainStep
    \/ Signal \/ MainExits

Spec == Init /\ [][Next]_vars

\* The runtime polls every task that can go on, and its timers fire.  Nothing
\* is assumed of the CLI behind a handler.
FairSpec ==
    /\ Spec
    /\ \A p \in Providers : WF_vars(ProviderStep(p))
    /\ \A m \in Messages : WF_vars(SendStep(m))
    /\ WF_vars(Recv) /\ WF_vars(ReceiveClosed) /\ WF_vars(StopRouter)
    /\ WF_vars(DrainStep) /\ WF_vars(MainExits)

\* And the platforms' servers answer, one way or the other.
AnsweredSpec == FairSpec /\ \A p \in Providers : WF_vars(PeerStep(p))

-----------------------------------------------------------------------------

\* Types; the channel never holds more than its capacity, and exactly the
\* messages that are queued.
TypeOK ==
    /\ provider \in [Providers ->
            {"connecting", "open", "busy", "backoff", "stopping", "stopped"}]
    /\ where \in [Messages -> Stages]
    /\ queue \in Seq(Messages) /\ Len(queue) <= Capacity
    /\ \A m \in Messages : where[m] = "queued" <=> \E i \in 1..Len(queue) : queue[i] = m
    /\ router \in {"running", "draining", "exited"}
    /\ shutdown \in BOOLEAN /\ exited \in BOOLEAN

(***************************************************************************)
(* The daemon implements Delivery: through the bounded channel, backoffs,  *)
(* failing providers and the drain, every message that reaches it is given *)
(* to one handler, those of a provider that forwards inline in the order   *)
(* in which they arrived, and none is lost until the daemon is told to     *)
(* stop, even when every provider has failed and the router ends by itself.*)
(***************************************************************************)
Status(m) == CASE where[m] = "peer" -> "unsent"
               [] where[m] \in {"acking", "sending", "queued"} -> "accepted"
               [] where[m] = "handling" -> "started"
               [] where[m] \in {"handled", "aborted"} -> "ended"
               [] OTHER -> "lost"

Promise == INSTANCE Delivery WITH
    Ordered <- Inline, status <- [m \in Messages |-> Status(m)], stopping <- shutdown

Delivers == Promise!Spec

(***************************************************************************)
(* A provider waiting to forward a message is not held up by handlers that *)
(* never end: each message gets a handler of its own, or the daemon stops. *)
(***************************************************************************)
Delivered ==
    \A m \in Messages : where[m] = "sending" ~> where[m] \in Spawned \/ shutdown

(***************************************************************************)
(* "the router will see channel closure once all providers stop"           *)
(* (src/startup.rs:139): when every provider has ended, signal or none, so *)
(* does the daemon.                                                        *)
(***************************************************************************)
ClosureSeen == (\A p \in Providers : provider[p] = "stopped") ~> exited

(***************************************************************************)
(* A signal ends the daemon, whatever is in the channel, whichever sends   *)
(* are blocked on it, and however many handlers hang.                      *)
(***************************************************************************)
ShutdownCompletes == shutdown ~> exited

=============================================================================
