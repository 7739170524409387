------------------------------ MODULE Delivery ------------------------------
(***************************************************************************)
(* What the daemon promises of the messages that reach it, whatever its    *)
(* channel, its tasks and its shutdown do: an accepted message is started  *)
(* once, in the order of acceptance where the provider keeps one, and is   *)
(* given up only once the daemon has been told to stop.                    *)
(***************************************************************************)
EXTENDS Integers

CONSTANTS
    Messages,   \* <<p, i>>: the i-th message of provider p
    Ordered(_)  \* whether a provider keeps the order of its messages

VARIABLES
    status,     \* status[m]: what has become of m
    stopping    \* whether the daemon has been told to stop

vars == <<status, stopping>>

Statuses == {"unsent", "accepted", "started", "ended", "lost"}

Init == status = [m \in Messages |-> "unsent"] /\ stopping = FALSE

\* The messages of an ordered provider are accepted and started one after the other.
MayStart(m) ==
    Ordered(m[1]) => \A n \in Messages :
        n[1] = m[1] /\ n[2] < m[2] => status[n] \notin {"unsent", "accepted"}

Accept(m) ==
    /\ status[m] = "unsent"
    /\ status' = [status EXCEPT ![m] = "accepted"]
    /\ UNCHANGED stopping

Start(m) ==
    /\ status[m] = "accepted" /\ MayStart(m)
    /\ status' = [status EXCEPT ![m] = "started"]
    /\ UNCHANGED stopping

\* Handlers end, alone or together; with them, when the daemon stops, the
\* messages that will not be started any more.
End ==
    /\ \E ended \in SUBSET {m \in Messages : status[m] = "started"},
          lost \in SUBSET {m \in Messages : stopping /\ status[m] = "accepted"} :
           status' = [m \in Messages |-> CASE m \in ended -> "ended"
                                           [] m \in lost -> "lost"
                                           [] OTHER -> status[m]]
    /\ UNCHANGED stopping

Stop == ~stopping /\ stopping' = TRUE /\ UNCHANGED status

Next == Stop \/ End \/ \E m \in Messages : Accept(m) \/ Start(m)

Spec == Init /\ [][Next]_vars

=============================================================================
