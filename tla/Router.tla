------------------------------- MODULE Router -------------------------------
(***************************************************************************)
(* Router::handle (src/router.rs) and the state it shares: the session     *)
(* store (src/session.rs) and the workspace handles that /use swaps.       *)
(*                                                                         *)
(* Every inbound message is handled by a task of its own, so the handlers  *)
(* of two messages interleave at every .await.  One action is the code     *)
(* between two awaits: the locks are taken for one access each and never   *)
(* nested, so an access is atomic, and the time the CLI process runs lies  *)
(* between Launch and CliReturns.                                          *)
(***************************************************************************)
EXTENDS Integers, FiniteSets

CONSTANTS
    Chats,              \* the ChatIds that write to the bot
    Workspaces,         \* the configured workspaces
    Backends,           \* the backend names of the configuration
    BackendOf,          \* BackendOf[w]: the backend of workspace w
    ContinuingBackends, \* backends that turn is_active into "-c" (claude-cli)
    Origins,            \* <<chat, w>>: the chat writes to a channel of w
    Messages,           \* the messages of a run; a bound of the model
    RateLimited,        \* whether a rate limiter is configured
    SpawnMayFail,       \* whether the CLI process may fail to start
    MaxInFlight,        \* bound of the model: the messages handled at once
    None

ASSUME WorkspacesAssumption == BackendOf \in [Workspaces -> Backends]
ASSUME ContinuingAssumption == ContinuingBackends \subseteq Backends
ASSUME OriginsAssumption == Origins \subseteq Chats \X Workspaces
ASSUME FlagsAssumption == RateLimited \in BOOLEAN /\ SpawnMayFail \in BOOLEAN
ASSUME MaxInFlightAssumption == MaxInFlight \in Nat
ASSUME NoneAssumption == None \notin Workspaces

VARIABLES
    workspace,  \* workspace[w]: what the Arc<RwLock<>> built for w now holds
    active,     \* active[c]: is_active of the session of chat c
    pc,         \* pc[m]: where the handler of m is
    request,    \* request[m]: the chat, the origin and the parsed command of m
    ws,         \* ws[m]: the workspace the handler read
    found,      \* found[m]: the is_active the handler read
    result,     \* result[m]: what Executor::run returned
    epoch,      \* history: epoch[c] counts the resets of chat c
    seen,       \* history: the epoch of its chat when m read the session
    marks,      \* history: the prompts that marked the session since the reset
    because,    \* history: because[m] are the marks when m read the session
    crossed     \* history: the /new and /use that changed the state m relies on

shared == <<workspace, active>>
local == <<pc, request, ws, found, result>>
history == <<epoch, seen, marks, because, crossed>>
vars == <<shared, local, history>>

Commands == {"new", "status", "help", "use", "prompt"}
Requests == [chat : Chats, origin : Workspaces, cmd : Commands,
             name : Workspaces \cup {None}]
NoRequest == [cmd |-> "none"]
Results == {"none", "completed", "timed_out", "spawn_error", "io_error"}
Ended == {"answered", "failed"}
PCs == {"unsent", "received", "half_read", "swapped", "allowed", "captured",
        "running", "returned", "replying"} \cup Ended

Chat(m) == request[m].chat
Origin(m) == request[m].origin
Is(m, cmd) == pc[m] # "unsent" /\ request[m].cmd = cmd
InFlight(m) == pc[m] \notin {"unsent"} \cup Ended

\* A handler that has read shared state and not yet used it for the last time.
Busy(m) == pc[m] \in {"half_read", "captured", "running", "returned"}

AtWork == {n \in Messages : Busy(n)}

\* The prompts behind the sessions of other chats, which a /use does not reset.
LeftAlone(m) == UNION {marks[c] : c \in Chats \ {Chat(m)}}

Cross(m, touched) ==
    crossed' = [n \in Messages |->
                   IF n \in touched THEN crossed[n] \cup {m} ELSE crossed[n]]

\* The first read of m may fall between the swap and the reset of a /use.
CrossOpen(m) ==
    crossed' = [crossed EXCEPT ![m] = @ \cup {u \in Messages : pc[u] = "swapped"}]

Goto(m, label) == pc' = [pc EXCEPT ![m] = label]

-----------------------------------------------------------------------------

Init ==
    /\ workspace = [w \in Workspaces |-> w]
    /\ active = [c \in Chats |-> FALSE]
    /\ pc = [m \in Messages |-> "unsent"]
    /\ request = [m \in Messages |-> NoRequest]
    /\ ws = [m \in Messages |-> None]
    /\ found = [m \in Messages |-> FALSE]
    /\ result = [m \in Messages |-> "none"]
    /\ epoch = [c \in Chats |-> 0]
    /\ seen = [m \in Messages |-> 0]
    /\ marks = [c \in Chats |-> {}]
    /\ because = [m \in Messages |-> {}]
    /\ crossed = [m \in Messages |-> {}]

\* run() receives a message and spawns its handler, which parses the command.
\* Only /use carries a name; a name that is not configured is None.
Receive(m) ==
    /\ pc[m] = "unsent"
    /\ Cardinality({n \in Messages : InFlight(n)}) < MaxInFlight
    /\ \E o \in Origins, cmd \in Commands, name \in Workspaces \cup {None} :
          /\ cmd # "use" => name = None
          /\ request' = [request EXCEPT ![m] =
                [chat |-> o[1], origin |-> o[2], cmd |-> cmd, name |-> name]]
    /\ Goto(m, "received")
    /\ UNCHANGED <<shared, ws, found, result, history>>

\* Mutant: the session is reset, and still active.
ResetKeepsActive(m) ==
    /\ UNCHANGED active
    /\ epoch' = [epoch EXCEPT ![Chat(m)] = @ + 1]
    /\ marks' = [marks EXCEPT ![Chat(m)] = {}]
    /\ Cross(m, AtWork)

\* SessionStore::reset, on behalf of the handler of m.
ResetSession(m) ==
    /\ active' = [active EXCEPT ![Chat(m)] = FALSE]
    /\ epoch' = [epoch EXCEPT ![Chat(m)] = @ + 1]
    /\ marks' = [marks EXCEPT ![Chat(m)] = {}]
    /\ Cross(m, AtWork)

\* SessionStore::get, into the handler of m.
ReadSession(m) ==
    /\ found' = [found EXCEPT ![m] = active[Chat(m)]]
    /\ seen' = [seen EXCEPT ![m] = epoch[Chat(m)]]
    /\ because' = [because EXCEPT ![m] = marks[Chat(m)]]

ReadWorkspace(m) == ws' = [ws EXCEPT ![m] = workspace[Origin(m)]]

\* /new
NewSession(m) ==
    /\ pc[m] = "received" /\ Is(m, "new")
    /\ ResetSession(m)
    /\ Goto(m, "replying")
    /\ UNCHANGED <<workspace, request, ws, found, result, seen, because>>

\* /status reads the session and then the workspace, under two locks.
StatusSession(m) ==
    /\ pc[m] = "received" /\ Is(m, "status")
    /\ ReadSession(m)
    /\ CrossOpen(m)
    /\ Goto(m, "half_read")
    /\ UNCHANGED <<shared, request, ws, result, epoch, marks>>

StatusWorkspace(m) ==
    /\ pc[m] = "half_read"
    /\ ReadWorkspace(m)
    /\ Goto(m, "replying")
    /\ UNCHANGED <<shared, request, found, result, history>>

\* /help, and /use with a name that is not configured, only reply.
ReplyOnly(m) ==
    /\ pc[m] = "received"
    /\ Is(m, "help") \/ (Is(m, "use") /\ request[m].name = None)
    /\ Goto(m, "replying")
    /\ UNCHANGED <<shared, request, ws, found, result, history>>

\* Mutant: the name is not looked up first.
SwapUnchecked(m) ==
    /\ pc[m] = "received" /\ Is(m, "use")
    /\ workspace' = [workspace EXCEPT ![Origin(m)] = request[m].name]
    /\ Cross(m, AtWork \cup LeftAlone(m))
    /\ Goto(m, "swapped")
    /\ UNCHANGED <<active, request, ws, found, result, epoch, seen, marks, because>>

\* /use: *ws = new_ws.clone() under the write lock of the workspace handle ...
Swap(m) ==
    /\ pc[m] = "received" /\ Is(m, "use") /\ request[m].name # None
    /\ workspace' = [workspace EXCEPT ![Origin(m)] = request[m].name]
    /\ Cross(m, AtWork \cup LeftAlone(m))
    /\ Goto(m, "swapped")
    /\ UNCHANGED <<active, request, ws, found, result, epoch, seen, marks, because>>

\* Mutant: /use forgets the reset.
KeepAfterSwap(m) ==
    /\ pc[m] = "swapped"
    /\ Goto(m, "replying")
    /\ UNCHANGED <<shared, request, ws, found, result, history>>

\* ... and then the session of this chat is reset under the store's lock.
ResetAfterSwap(m) ==
    /\ pc[m] = "swapped"
    /\ ResetSession(m)
    /\ Goto(m, "replying")
    /\ UNCHANGED <<workspace, request, ws, found, result, seen, because>>

\* A prompt within its rate limit goes on; the limiter is module RateLimiter.
PassLimiter(m) ==
    /\ pc[m] = "received" /\ Is(m, "prompt")
    /\ Goto(m, "allowed")
    /\ UNCHANGED <<shared, request, ws, found, result, history>>

\* One beyond the limit is told when to come back, and that is all.
Refuse(m) ==
    /\ RateLimited
    /\ pc[m] = "received" /\ Is(m, "prompt")
    /\ Goto(m, "replying")
    /\ UNCHANGED <<shared, request, ws, found, result, history>>

\* Read the workspace and look its backend up.  build_workspaces registers the
\* backend of every configured workspace and /use installs no other workspace,
\* so the lookup finds one.
CaptureWorkspace(m) ==
    /\ pc[m] = "allowed"
    /\ ReadWorkspace(m)
    /\ CrossOpen(m)
    /\ Goto(m, "captured")
    /\ UNCHANGED <<shared, request, found, result, epoch, seen, marks, because>>

\* Read the session and, with no await in between, spawn the CLI process.
Launch(m) ==
    /\ pc[m] = "captured"
    /\ ReadSession(m)
    /\ \/ Goto(m, "running") /\ UNCHANGED result
       \/ /\ SpawnMayFail
          /\ Goto(m, "returned")
          /\ result' = [result EXCEPT ![m] = "spawn_error"]
    /\ UNCHANGED <<shared, request, ws, epoch, marks, crossed>>

CliReturns(m) ==
    /\ pc[m] = "running"
    /\ \E r \in {"completed", "timed_out", "io_error"} :
          result' = [result EXCEPT ![m] = r]
    /\ Goto(m, "returned")
    /\ UNCHANGED <<shared, request, ws, found, history>>

\* Mutant: one session for every chat.
MarkEveryChat(m) ==
    /\ pc[m] = "returned"
    /\ active' = [c \in Chats |-> TRUE]
    /\ marks' = [c \in Chats |-> marks[c] \cup {m}]
    /\ Goto(m, IF result[m] \in {"completed", "timed_out"} THEN "replying" ELSE "failed")
    /\ UNCHANGED <<workspace, request, ws, found, result, epoch, seen, because, crossed>>

\* SessionStore::mark_active, whatever the outcome.  Only a timeout and a
\* process that ran are reported; any other error ends the handler unanswered.
MarkActive(m) ==
    /\ pc[m] = "returned"
    /\ active' = [active EXCEPT ![Chat(m)] = TRUE]
    /\ marks' = [marks EXCEPT ![Chat(m)] = @ \cup {m}]
    /\ Goto(m, IF result[m] \in {"completed", "timed_out"} THEN "replying" ELSE "failed")
    /\ UNCHANGED <<workspace, request, ws, found, result, epoch, seen, because, crossed>>

\* provider.send_response(..).await?
Reply(m) ==
    /\ pc[m] = "replying"
    /\ \E end \in Ended : Goto(m, end)
    /\ UNCHANGED <<shared, request, ws, found, result, history>>

Next ==
    \E m \in Messages :
        \/ Receive(m) \/ NewSession(m)
        \/ StatusSession(m) \/ StatusWorkspace(m)
        \/ ReplyOnly(m)
        \/ Swap(m) \/ ResetAfterSwap(m)
        \/ PassLimiter(m) \/ Refuse(m)
        \/ CaptureWorkspace(m) \/ Launch(m) \/ CliReturns(m) \/ MarkActive(m)
        \/ Reply(m)

Spec == Init /\ [][Next]_vars

-----------------------------------------------------------------------------

TypeOK ==
    /\ workspace \in [Workspaces -> Workspaces]
    /\ active \in [Chats -> BOOLEAN]
    /\ pc \in [Messages -> PCs]
    /\ request \in [Messages -> Requests \cup {NoRequest}]
    /\ \A m \in Messages : pc[m] # "unsent" => request[m] \in Requests
    /\ ws \in [Messages -> Workspaces \cup {None}]
    /\ found \in [Messages -> BOOLEAN]
    /\ result \in [Messages -> Results]
    /\ epoch \in [Chats -> Nat]
    /\ seen \in [Messages -> Nat]
    /\ marks \in [Chats -> SUBSET Messages]
    /\ because \in [Messages -> SUBSET Messages]
    /\ crossed \in [Messages -> SUBSET Messages]

\* The process of prompt q was started with "-c".
Continues(q) ==
    /\ Is(q, "prompt") /\ found[q] /\ result[q] # "spawn_error"
    /\ BackendOf[ws[q]] \in ContinuingBackends

\* The reply to /status names a workspace and calls the session active.
ReportsActive(q) == Is(q, "status") /\ found[q] /\ ws[q] # None

(***************************************************************************)
(* A prompt continues a conversation only if an earlier prompt of the same *)
(* chat has been executed since the session was last reset: no chat        *)
(* inherits the session of another, and no prompt continues itself.        *)
(***************************************************************************)
ContinuationJustified ==
    \A q \in Messages : Continues(q) =>
        \E p \in because[q] :
            p # q /\ Is(p, "prompt") /\ Chat(p) = Chat(q) /\ result[p] # "none"

(***************************************************************************)
(* "Session reset.  Next message will start a new conversation."           *)
(* (src/router.rs:123).  A session is found active only for prompts that   *)
(* read it after the reset: of the older ones, only a prompt that was      *)
(* being executed while a /new or /use of its chat reset the session can   *)
(* mark it active again.                                                   *)
(***************************************************************************)
ResetHonoured ==
    \A q \in Messages : found[q] =>
        /\ because[q] # {}
        /\ \A p \in because[q] :
              \/ seen[p] = seen[q]
              \/ \E r \in crossed[p] : Chat(r) = Chat(p)

\* A /use of the handle of m came while m was at work or its session lived.
Moved(m) == \E u \in crossed[m] : Is(u, "use") /\ Origin(u) = Origin(m)

\* What q found began in the workspace of q, or a /use crossed one of the two.
SameSession(q) ==
    \A p \in because[q] :
        Origin(p) = Origin(q) => ws[p] = ws[q] \/ Moved(p) \/ Moved(q)

(***************************************************************************)
(* "Session from the old workspace is meaningless in the new one."         *)
(* (src/router.rs:170).  On one channel, a prompt continues a conversation *)
(* of another workspace only if a /use crossed it: one between its swap    *)
(* and its reset while the prompt, or the one it continues, was being      *)
(* handled, or one of another chat, which leaves this session alone.       *)
(***************************************************************************)
WorkspaceKept == \A q \in Messages : Continues(q) => SameSession(q)

(***************************************************************************)
(* The workspace and the session that a reply to /status names belong      *)
(* together, although they are read under two locks, unless a /use came    *)
(* between the two reads or, as above, crossed the prompt that marked the  *)
(* session.                                                                *)
(***************************************************************************)
StatusHonest == \A q \in Messages : ReportsActive(q) => SameSession(q)

(***************************************************************************)
(* "Session from the old workspace is meaningless in the new one."         *)
(* (src/router.rs:170), as it stands: a prompt continues only a            *)
(* conversation begun in the workspace it runs in itself.                  *)
(***************************************************************************)
SameWorkspace ==
    \A q \in Messages : Continues(q) => \E p \in because[q] : ws[p] = ws[q]

=============================================================================
