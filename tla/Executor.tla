------------------------------ MODULE Executor ------------------------------
(***************************************************************************)
(* Executor::run (src/executor.rs): one CLI process, its two output pipes, *)
(* the two readers that drain them, and the timer they race.               *)
(*                                                                         *)
(* The operating system's side is part of the model: a pipe holds at most  *)
(* Capacity chunks and blocks its writer when full, its reader sees the    *)
(* end of the output only when every process that holds the write end has  *)
(* closed it, and a killed process leaves its own children running.        *)
(***************************************************************************)
EXTENDS Integers, FiniteSets

CONSTANTS
    Capacity,    \* chunks a pipe holds
    MaxOutput,   \* bound of the model: chunks the CLI writes to one pipe
    ReadsFail,   \* whether reading a pipe may fail
    CallsFail,   \* whether the system may refuse to kill or to wait for the CLI
    Detaches,    \* whether the CLI may close its output and keep running
    Forks        \* whether the CLI may leave a helper that inherits its output

ASSUME CapacityAssumption == Capacity \in Nat \ {0}
ASSUME MaxOutputAssumption == MaxOutput \in Nat
ASSUME EnvironmentAssumption ==
    /\ ReadsFail \in BOOLEAN /\ CallsFail \in BOOLEAN
    /\ Detaches \in BOOLEAN /\ Forks \in BOOLEAN

VARIABLES
    task,      \* where run() is
    result,    \* what it returned
    expired,   \* whether timeout_dur has elapsed since the spawn
    child,     \* the CLI process
    helper,    \* a process the CLI left behind
    holds,     \* <<process, pipe>>: the process holds the write end of the pipe
    todo,      \* todo[p]: the chunks the CLI has yet to write to p
    buffer,    \* buffer[p]: chunks in the pipe
    written,   \* history: chunks the CLI has written to p
    collected, \* collected[p]: chunks read_to_end has appended to its buffer
    reader,    \* reader[p]: the read_to_end future of p
    refused    \* history: the call on the process that failed

os == <<child, helper, holds, todo, written>>
readers == <<collected, reader>>
vars == <<task, result, expired, os, buffer, readers, refused>>

Pipes == {"stdout", "stderr"}
Processes == {"child", "helper"}
Tasks == {"start", "draining", "waiting", "killing", "returned", "aborted"}
Ended == {"returned", "aborted"}
Results == {"none", "completed", "timed_out", "spawn_error", "io_error"}

HeldBy(process) == {h \in holds : h[1] = process}
Closed(p) == \A h \in holds : h[2] # p

-----------------------------------------------------------------------------

Init ==
    /\ task = "start" /\ result = "none" /\ expired = FALSE
    /\ child = "none" /\ helper = "none" /\ holds = {}
    /\ todo \in [Pipes -> 0..MaxOutput]
    /\ buffer = [p \in Pipes |-> 0]
    /\ written = [p \in Pipes |-> 0]
    /\ collected = [p \in Pipes |-> 0]
    /\ reader = [p \in Pipes |-> "reading"] /\ refused = "none"

\* cmd.spawn() with both pipes, and the timer starts.
Spawn ==
    /\ task = "start"
    /\ task' = "draining"
    /\ child' = "running"
    /\ holds' = {"child"} \X Pipes
    /\ UNCHANGED <<result, expired, helper, todo, buffer, written, readers, refused>>

SpawnFails ==
    /\ task = "start"
    /\ task' = "returned"
    /\ result' = "spawn_error"
    /\ UNCHANGED <<expired, os, buffer, readers, refused>>

-----------------------------------------------------------------------------
(* The process.                                                            *)

\* A write blocks while the pipe is full; without a reader it is discarded.
Write(p) ==
    /\ child = "running" /\ <<"child", p>> \in holds /\ todo[p] > 0
    /\ IF task = "draining" /\ reader[p] = "reading"
       THEN /\ buffer[p] < Capacity
            /\ buffer' = [buffer EXCEPT ![p] = @ + 1]
       ELSE UNCHANGED buffer
    /\ todo' = [todo EXCEPT ![p] = @ - 1]
    /\ written' = [written EXCEPT ![p] = @ + 1]
    /\ UNCHANGED <<task, result, expired, child, helper, holds, readers, refused>>

\* It exits once it has written what it had to, or at any time on a crash.
Exit ==
    /\ child = "running"
    /\ \A p \in Pipes : <<"child", p>> \in holds => todo[p] = 0
    /\ child' = "exited"
    /\ holds' = holds \ HeldBy("child")
    /\ UNCHANGED <<task, result, expired, helper, todo, written, buffer, readers, refused>>

Crash ==
    /\ child = "running"
    /\ child' = "exited"
    /\ holds' = holds \ HeldBy("child")
    /\ UNCHANGED <<task, result, expired, helper, todo, written, buffer, readers, refused>>

CloseOutput ==
    /\ Detaches
    /\ child = "running" /\ HeldBy("child") # {}
    /\ holds' = holds \ HeldBy("child")
    /\ UNCHANGED <<task, result, expired, child, helper, todo, written, buffer, readers, refused>>

Fork ==
    /\ Forks
    /\ child = "running" /\ helper = "none"
    /\ helper' = "running"
    /\ holds' = holds \cup {<<"helper", h[2]>> : h \in HeldBy("child")}
    /\ UNCHANGED <<task, result, expired, child, todo, written, buffer, readers, refused>>

HelperExits ==
    /\ helper = "running"
    /\ helper' = "exited"
    /\ holds' = holds \ HeldBy("helper")
    /\ UNCHANGED <<task, result, expired, child, todo, written, buffer, readers, refused>>

-----------------------------------------------------------------------------
(* run().                                                                  *)

\* Mutants: the reader does not advance; stderr is read only after stdout.
ReadAgain(p) ==
    /\ task = "draining" /\ reader[p] = "reading"
    /\ buffer[p] > 0
    /\ collected' = [collected EXCEPT ![p] = @ + 1]
    /\ UNCHANGED <<task, result, expired, os, buffer, reader, refused>>

ReadInOrder(p) ==
    /\ task = "draining" /\ reader[p] = "reading"
    /\ buffer[p] > 0 /\ (p = "stderr" => reader["stdout"] # "reading")
    /\ buffer' = [buffer EXCEPT ![p] = @ - 1]
    /\ collected' = [collected EXCEPT ![p] = @ + 1]
    /\ UNCHANGED <<task, result, expired, os, reader, refused>>

\* tokio::join! polls both readers, so each drains its pipe on its own.
Read(p) ==
    /\ task = "draining" /\ reader[p] = "reading"
    /\ buffer[p] > 0
    /\ buffer' = [buffer EXCEPT ![p] = @ - 1]
    /\ collected' = [collected EXCEPT ![p] = @ + 1]
    /\ UNCHANGED <<task, result, expired, os, reader, refused>>

ReadEnd(p) ==
    /\ task = "draining" /\ reader[p] = "reading"
    /\ buffer[p] = 0 /\ Closed(p)
    /\ reader' = [reader EXCEPT ![p] = "eof"]
    /\ UNCHANGED <<task, result, expired, os, buffer, collected, refused>>

ReadFails(p) ==
    /\ ReadsFail
    /\ task = "draining" /\ reader[p] = "reading"
    /\ reader' = [reader EXCEPT ![p] = "failed"]
    /\ UNCHANGED <<task, result, expired, os, buffer, collected, refused>>

\* Mutant: the first pipe to end is enough (a select in place of the join).
DrainedOne ==
    /\ task = "draining"
    /\ \E p \in Pipes : reader[p] # "reading"
    /\ task' = "waiting"
    /\ UNCHANGED <<result, expired, os, buffer, readers, refused>>

\* The select takes the output: on to child.wait(), which no timer covers.
Drained ==
    /\ task = "draining"
    /\ \A p \in Pipes : reader[p] # "reading"
    /\ task' = "waiting"
    /\ UNCHANGED <<result, expired, os, buffer, readers, refused>>

Reap ==
    /\ task = "waiting" /\ child = "exited"
    /\ child' = "reaped"
    /\ task' = "returned"
    /\ result' = IF \E p \in Pipes : reader[p] = "failed" THEN "io_error" ELSE "completed"
    /\ UNCHANGED <<expired, helper, holds, todo, written, buffer, readers, refused>>

\* child.wait() fails, and its error is returned.
WaitFails ==
    /\ CallsFail
    /\ task = "waiting"
    /\ task' = "returned"
    /\ result' = "io_error"
    /\ refused' = "wait"
    /\ UNCHANGED <<expired, os, buffer, readers>>

\* timeout_dur, the configured one or DEFAULT_TIMEOUT, elapses.
Expire ==
    /\ task \notin {"start", "returned", "aborted"}
    /\ ~expired
    /\ expired' = TRUE
    /\ UNCHANGED <<task, result, os, buffer, readers, refused>>

\* Mutants: bail! without the kill; a timer around wait() instead of the reads.
TimeOutWithoutKill ==
    /\ task = "draining" /\ expired
    /\ task' = "returned"
    /\ result' = "timed_out"
    /\ UNCHANGED <<expired, os, buffer, readers, refused>>

TimeOutOfWait ==
    /\ task = "waiting" /\ expired
    /\ task' = "killing"
    /\ child' = IF child = "running" THEN "exited" ELSE child
    /\ holds' = holds \ HeldBy("child")
    /\ UNCHANGED <<result, expired, helper, todo, written, buffer, readers, refused>>

\* The select takes the timer: the readers are dropped and the CLI is killed.
TimeOut ==
    /\ task = "draining" /\ expired
    /\ task' = "killing"
    /\ child' = IF child = "running" THEN "exited" ELSE child
    /\ holds' = holds \ HeldBy("child")
    /\ UNCHANGED <<result, expired, helper, todo, written, buffer, readers, refused>>

\* child.kill() has waited for the process; bail!.
Killed ==
    /\ task = "killing" /\ child = "exited"
    /\ child' = "reaped"
    /\ task' = "returned"
    /\ result' = "timed_out"
    /\ UNCHANGED <<expired, helper, holds, todo, written, buffer, readers, refused>>

\* child.kill() cannot signal the process, or not wait for it: .ok() drops the
\* error, and bail! all the same.
KillFails ==
    /\ CallsFail
    /\ \/ task = "draining" /\ expired /\ refused' = "kill"
       \/ task = "killing" /\ refused' = "wait"
    /\ task' = "returned"
    /\ result' = "timed_out"
    /\ UNCHANGED <<expired, os, buffer, readers>>

\* The router aborts the handler when its drain times out; the process is not
\* spawned with kill_on_drop, so it is left alone.
Abort ==
    /\ task \in {"draining", "waiting", "killing"}
    /\ task' = "aborted"
    /\ UNCHANGED <<result, expired, os, buffer, readers, refused>>

Run ==
    \/ \E p \in Pipes : Read(p) \/ ReadEnd(p)
    \/ Drained \/ Reap \/ TimeOut \/ Killed

Next ==
    \/ Spawn \/ SpawnFails
    \/ \E p \in Pipes : Write(p)
    \/ Exit \/ Crash \/ CloseOutput \/ Fork \/ HelperExits
    \/ (\E p \in Pipes : ReadFails(p)) \/ WaitFails \/ KillFails
    \/ Run \/ Expire \/ Abort

Spec == Init /\ [][Next]_vars

\* The runtime runs the task; the processes may do as they like.
FairSpec == Spec /\ WF_vars(Run)

\* What Finishes assumes of the CLI: it gets on with its work.
Working ==
    /\ WF_vars(Exit) /\ WF_vars(HelperExits)
    /\ \A p \in Pipes : WF_vars(Write(p))

-----------------------------------------------------------------------------

\* Types; a pipe never holds more than its capacity.
TypeOK ==
    /\ task \in Tasks /\ result \in Results /\ expired \in BOOLEAN
    /\ child \in {"none", "running", "exited", "reaped"}
    /\ helper \in {"none", "running", "exited"}
    /\ holds \subseteq Processes \X Pipes
    /\ todo \in [Pipes -> 0..MaxOutput]
    /\ buffer \in [Pipes -> 0..Capacity]
    /\ written \in [Pipes -> 0..MaxOutput]
    /\ collected \in [Pipes -> 0..MaxOutput]
    /\ reader \in [Pipes -> {"reading", "eof", "failed"}]
    /\ refused \in {"none", "kill", "wait"}

(***************************************************************************)
(* A completed run reports all the process wrote, on both pipes, however   *)
(* its writes, its end and the reads interleave.                           *)
(***************************************************************************)
OutputComplete ==
    result = "completed" => \A p \in Pipes : collected[p] = written[p]

(***************************************************************************)
(* run() leaves its process running or unreaped only with an error, and    *)
(* only when the system refused to kill it or to wait for it; otherwise    *)
(* only an aborted handler does.                                           *)
(***************************************************************************)
NoStrayProcess ==
    task = "returned" /\ child \notin {"none", "reaped"} =>
        refused # "none" /\ result \in {"timed_out", "io_error"}

(***************************************************************************)
(* A CLI that keeps writing to both pipes and then exits is not stopped by *)
(* a full pipe: with no help from the timer, run() comes to an end.        *)
(***************************************************************************)
Finishes == Working => (task = "draining" ~> task \in Ended)

(***************************************************************************)
(* Once the timeout has elapsed a CLI that keeps its output open does not  *)
(* hold up run(), whatever it and the helpers it leaves do: run() ends, or *)
(* both pipes had ended already and it waits for the exit of a process     *)
(* that has detached itself.                                               *)
(***************************************************************************)
TimeoutEndsReads ==
    expired ~> (task \in Ended \/ (task = "waiting" /\ child = "running"))

=============================================================================
