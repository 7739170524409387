----------------------------- MODULE ConfigReload -----------------------------
(***************************************************************************)
(* The hot reload of the configuration: the file and whoever writes it,    *)
(* the notify watcher's thread, the task of src/config_reload.rs that      *)
(* debounces its events and reads the file, and the closure in             *)
(* src/startup.rs that takes the new limits over.                          *)
(*                                                                         *)
(* A configuration is a version; its limits are that version's.  The file  *)
(* system and notify are modelled from what the task relies on.            *)
(***************************************************************************)
EXTENDS Integers, Sequences

CONSTANTS
    MaxVersion, \* bound of the model: how often the file is written
    Capacity,   \* events the task's channel holds: 16 in the code
    Renames     \* whether a writer may rename a new file over the old one

ASSUME MaxVersionAssumption == MaxVersion \in Nat
ASSUME CapacityAssumption == Capacity \in Nat \ {0}
ASSUME RenamesAssumption == Renames \in BOOLEAN

VARIABLES
    version,   \* the configuration the file holds, or is being replaced with
    writing,   \* the file is truncated and not yet written
    valid,     \* history: the versions that load_from_path accepts
    watched,   \* the file at the path is the one the watch was placed on
    pending,   \* events that notify's thread has yet to pass on
    channel,   \* event_rx
    task,      \* where watch() is
    loaded,    \* what it read from the file
    shared,    \* the limits in the wrapper that the closure writes
    enforced,  \* the limits of the RateLimiter the router was built with
    shutdown

fs == <<version, writing, valid, watched>>
vars == <<fs, pending, channel, task, loaded, shared, enforced, shutdown>>

Versions == 0..MaxVersion
Rejected == -1
Ended == {"stopped", "failed"}

Init ==
    /\ version = 0 /\ writing = FALSE /\ valid = {0} /\ watched = TRUE
    /\ pending = <<>> /\ channel = <<>>
    /\ task = "starting" /\ loaded = Rejected
    /\ shared = 0 /\ enforced = 0
    /\ shutdown = FALSE

\* Events come from the watched file, once the watch is in place.
Notice(events) ==
    pending' = IF watched /\ task \notin {"starting"} \cup Ended
               THEN pending \o events ELSE pending

-----------------------------------------------------------------------------
(* Writers: an editor, or "config set".                                    *)

\* std::fs::write truncates the file ...
BeginWrite ==
    /\ ~writing /\ version < MaxVersion
    /\ writing' = TRUE
    /\ Notice(<<"modify">>)
    /\ UNCHANGED <<version, valid, watched, channel, task, loaded, shared, enforced, shutdown>>

NewVersion ==
    /\ version' = version + 1
    /\ valid' \in {valid, valid \cup {version + 1}}

\* ... writes it, and closes it.
EndWrite ==
    /\ writing
    /\ writing' = FALSE
    /\ NewVersion
    /\ Notice(<<"modify", "access">>)
    /\ UNCHANGED <<watched, channel, task, loaded, shared, enforced, shutdown>>

\* Another file takes the path.  The watched one loses its last link, which is
\* a change of its metadata, and is gone: the new file is not watched.
Replace ==
    /\ Renames
    /\ ~writing /\ version < MaxVersion
    /\ NewVersion
    /\ Notice(<<"modify", "remove">>)
    /\ watched' = FALSE
    /\ UNCHANGED <<writing, channel, task, loaded, shared, enforced, shutdown>>

-----------------------------------------------------------------------------
(* notify's thread.                                                        *)

\* Mutant: an unbounded channel.
DeliverUnbounded ==
    /\ pending # <<>>
    /\ channel' = Append(channel, Head(pending))
    /\ pending' = Tail(pending)
    /\ UNCHANGED <<fs, task, loaded, shared, enforced, shutdown>>

\* event_tx.blocking_send
Deliver ==
    /\ pending # <<>> /\ Len(channel) < Capacity
    /\ channel' = Append(channel, Head(pending))
    /\ pending' = Tail(pending)
    /\ UNCHANGED <<fs, task, loaded, shared, enforced, shutdown>>

-----------------------------------------------------------------------------
(* watch().                                                                *)

\* The watcher is created and placed on the path, or the task ends there.
Start ==
    /\ task = "starting"
    /\ task' \in {"idle", "failed"}
    /\ watched' = TRUE
    /\ UNCHANGED <<version, writing, valid, pending, channel, loaded, shared, enforced, shutdown>>

\* Mutant: any event counts as a change.
RecvAny ==
    /\ task = "idle" /\ channel # <<>>
    /\ task' = "debouncing"
    /\ channel' = Tail(channel)
    /\ UNCHANGED <<fs, pending, loaded, shared, enforced, shutdown>>

\* Only a modification starts a reload.
Recv ==
    /\ task = "idle" /\ channel # <<>>
    /\ task' = IF Head(channel) = "modify" THEN "debouncing" ELSE "idle"
    /\ channel' = Tail(channel)
    /\ UNCHANGED <<fs, pending, loaded, shared, enforced, shutdown>>

\* 300 ms later: while event_rx.try_recv().is_ok() {}
Drain ==
    /\ task = "debouncing"
    /\ task' = "reading"
    /\ channel' = <<>>
    /\ UNCHANGED <<fs, pending, loaded, shared, enforced, shutdown>>

\* Mutant: what was read is taken over as it is.
ReadUnchecked ==
    /\ task = "reading"
    /\ task' = "applying"
    /\ loaded' = version
    /\ Notice(<<"access">>)
    /\ UNCHANGED <<fs, channel, shared, enforced, shutdown>>

\* config::load_from_path.  Reading the file is an event of its own.
Read ==
    /\ task = "reading"
    /\ task' = "applying"
    /\ loaded' = IF ~writing /\ version \in valid THEN version ELSE Rejected
    /\ Notice(<<"access">>)
    /\ UNCHANGED <<fs, channel, shared, enforced, shutdown>>

\* Mutant: the events are drained only now.
ApplyAndDrain ==
    /\ task = "applying"
    /\ task' = "idle"
    /\ shared' = IF loaded = Rejected THEN shared ELSE loaded
    /\ channel' = <<>>
    /\ UNCHANGED <<fs, pending, loaded, enforced, shutdown>>

\* on_reload puts a new limiter into the wrapper (nothing else ever locks it,
\* so try_write succeeds); a configuration that was rejected changes nothing.
Apply ==
    /\ task = "applying"
    /\ task' = "idle"
    /\ shared' = IF loaded = Rejected THEN shared ELSE loaded
    /\ UNCHANGED <<fs, pending, channel, loaded, enforced, shutdown>>

\* Mutant: the token is looked at after an event.
StopAfterEvent ==
    /\ task = "idle" /\ shutdown /\ channel # <<>>
    /\ task' = "stopped"
    /\ pending' = <<>> /\ channel' = <<>>
    /\ UNCHANGED <<fs, loaded, shared, enforced, shutdown>>

\* shutdown.cancelled() wins the select; the watcher is dropped.
Stop ==
    /\ task = "idle" /\ shutdown
    /\ task' = "stopped"
    /\ pending' = <<>> /\ channel' = <<>>
    /\ UNCHANGED <<fs, loaded, shared, enforced, shutdown>>

Signal ==
    /\ ~shutdown
    /\ shutdown' = TRUE
    /\ UNCHANGED <<fs, pending, channel, task, loaded, shared, enforced>>

Watch == Start \/ Recv \/ Drain \/ Read \/ Apply \/ Stop

Next == BeginWrite \/ EndWrite \/ Replace \/ Deliver \/ Watch \/ Signal

\* The runtime runs the task, and notify its thread.  Where both an event and
\* the signal are ready the select takes either, so the signal in the end.
Spec ==
    /\ Init /\ [][Next]_vars
    /\ WF_vars(Watch) /\ WF_vars(Deliver) /\ SF_vars(Stop)

-----------------------------------------------------------------------------

TypeOK ==
    /\ version \in Versions /\ valid \subseteq Versions
    /\ writing \in BOOLEAN /\ watched \in BOOLEAN /\ shutdown \in BOOLEAN
    /\ pending \in Seq({"modify", "access", "remove"})
    /\ channel \in Seq({"modify", "access", "remove"}) /\ Len(channel) <= Capacity
    /\ task \in {"starting", "idle", "debouncing", "reading", "applying"} \cup Ended
    /\ loaded \in Versions \cup {Rejected}
    /\ shared \in Versions /\ enforced \in Versions

(***************************************************************************)
(* "Invalid configs ... are logged and the running config remains in       *)
(* effect" (docs/configuration.md:190), whenever the file is read in the   *)
(* middle of a write.                                                      *)
(***************************************************************************)
OnlyValid == shared \in valid

(***************************************************************************)
(* No change is missed: if the file in the end holds a valid version for   *)
(* good, and it changed while it was watched and has stayed the watched    *)
(* one, that version is taken over, however writes, debounce, drain and    *)
(* reads interleave.                                                       *)
(***************************************************************************)
Converges ==
    \A v \in Versions :
        <>[](version = v /\ ~writing /\ v \in valid /\ watched)
            => <>[](shared = v \/ task \in Ended) \/ <>(task = "starting" /\ version = v)

(***************************************************************************)
(* The reload does not feed itself: once nobody writes the file the task   *)
(* comes to rest, although each read of the file is an event too.          *)
(***************************************************************************)
ComesToRest == <>[](task \notin {"debouncing", "reading", "applying"})

(***************************************************************************)
(* "Returns when `shutdown` is cancelled" (src/config_reload.rs:22).       *)
(***************************************************************************)
WatcherStops == shutdown ~> task \in Ended

(***************************************************************************)
(* "Applied immediately -- the in-memory rate limiter is updated"          *)
(* (docs/configuration.md:183): the router enforces the limits that were   *)
(* taken over.                                                             *)
(***************************************************************************)
LimitsEnforced == enforced = shared

=============================================================================
