---------------------------- MODULE RouterProofs ----------------------------
(***************************************************************************)
(* Proofs about Router for every set of chats, workspaces, backends and    *)
(* messages, and every way the chats are wired to the workspaces.          *)
(*                                                                         *)
(* Sound says what the handlers and the marks are; Settled relates what a  *)
(* handler has read to what the shared state holds by now, up to what has  *)
(* crossed the handler since.  Together they are inductive, whatever the   *)
(* users do and however the handlers interleave.                           *)
(***************************************************************************)
EXTENDS Router, TLAPS

Past == {"replying"} \cup Ended

\* Where a handler can be, by its command, and what it has read by then.
PcSound ==
    \A m \in Messages :
        /\ pc[m] \in {"allowed", "captured", "running", "returned"} => Is(m, "prompt")
        /\ pc[m] = "half_read" => Is(m, "status")
        /\ pc[m] = "swapped" => Is(m, "use")
        /\ pc[m] = "returned" => result[m] # "none"
        /\ pc[m] \in {"unsent", "received", "swapped", "allowed", "captured"} =>
              ~found[m] /\ because[m] = {}
        /\ pc[m] \in {"unsent", "received", "half_read", "swapped", "allowed"} => ws[m] = None
        /\ Is(m, "prompt") /\ (found[m] \/ pc[m] = "captured") => ws[m] \in Workspaces

\* A mark was left by a prompt of that chat which has been executed.
MarksSound ==
    \A c \in Chats : \A p \in marks[c] :
        Is(p, "prompt") /\ Chat(p) = c /\ pc[p] \in Past /\ result[p] # "none"

ActiveMarked == \A c \in Chats : active[c] => marks[c] # {}

BecauseSound ==
    \A q \in Messages :
        /\ found[q] => because[q] # {}
        /\ \A p \in because[q] :
              /\ p # q /\ Is(p, "prompt") /\ pc[p] \in Past
              /\ Chat(p) = Chat(q) /\ result[p] # "none"

\* Only what has been received has crossed anything.
CrossedSound == \A n \in Messages : \A u \in crossed[n] : pc[u] # "unsent"

Sound ==
    /\ TypeOK
    /\ PcSound
    /\ MarksSound
    /\ ActiveMarked
    /\ BecauseSound
    /\ CrossedSound

-----------------------------------------------------------------------------

LEMMA InitSound == Init => Sound
<1> SUFFICES ASSUME Init PROVE Sound
  OBVIOUS
<1>1. TypeOK
  BY DEF Init, TypeOK, PCs, Results, Ended
<1>2. PcSound /\ MarksSound /\ ActiveMarked /\ BecauseSound /\ CrossedSound
  BY DEF Init, PcSound, MarksSound, ActiveMarked, BecauseSound, CrossedSound
<1> QED BY <1>1, <1>2 DEF Sound

LEMMA ReceiveSound ==
    ASSUME Sound, NEW m \in Messages, Receive(m)
    PROVE  Sound'
<1> USE DEF Sound, Receive, Goto, shared, local, history
<1>1. TypeOK'
  BY OriginsAssumption DEF TypeOK, PCs, Results, Ended, Requests, Commands, Is, Chat, Origin
<1>2. PcSound'
  BY DEF TypeOK, PcSound, Is, Chat, Ended
<1>3. MarksSound'
  BY DEF TypeOK, PcSound, MarksSound, Is, Chat, Past, Ended
<1>4. ActiveMarked'
  BY DEF TypeOK, ActiveMarked
<1>5. BecauseSound'
  BY DEF TypeOK, PcSound, MarksSound, ActiveMarked, BecauseSound, Is, Chat, Past, Ended
<1>6. CrossedSound'
  BY DEF TypeOK, CrossedSound
<1> QED BY <1>1, <1>2, <1>3, <1>4, <1>5, <1>6

LEMMA NewSessionSound ==
    ASSUME Sound, NEW m \in Messages, NewSession(m)
    PROVE  Sound'
<1> USE DEF Sound, NewSession, ResetSession, Cross, Goto, shared, local, history
<1>1. TypeOK'
  BY OriginsAssumption DEF TypeOK, PCs, Results, Ended, Requests, Commands, Is, Chat, Origin
<1>2. PcSound'
  BY DEF TypeOK, PcSound, Is, Chat, Ended
<1>3. MarksSound'
  BY DEF TypeOK, PcSound, MarksSound, Is, Chat, Past, Ended
<1>4. ActiveMarked'
  BY DEF TypeOK, ActiveMarked
<1>5. BecauseSound'
  BY DEF TypeOK, PcSound, MarksSound, ActiveMarked, BecauseSound, Is, Chat, Past, Ended
<1>6. CrossedSound'
  BY DEF TypeOK, CrossedSound
<1> QED BY <1>1, <1>2, <1>3, <1>4, <1>5, <1>6

LEMMA StatusSessionSound ==
    ASSUME Sound, NEW m \in Messages, StatusSession(m)
    PROVE  Sound'
<1> USE DEF Sound, StatusSession, ReadSession, CrossOpen, Goto, shared, local, history
<1>1. TypeOK'
  BY OriginsAssumption DEF TypeOK, PCs, Results, Ended, Requests, Commands, Is, Chat, Origin
<1>2. PcSound'
  BY DEF TypeOK, PcSound, Is, Chat, Ended
<1>3. MarksSound'
  BY DEF TypeOK, PcSound, MarksSound, Is, Chat, Past, Ended
<1>4. ActiveMarked'
  BY DEF TypeOK, ActiveMarked
<1>5. BecauseSound'
  <2>1. /\ Chat(m) \in Chats /\ m \notin marks[Chat(m)]
        /\ found'[m] => because'[m] # {}
        /\ because'[m] = marks[Chat(m)]
    <3>1. Chat(m) \in Chats /\ pc[m] \notin Past
      BY DEF TypeOK, PcSound, Requests, Is, Chat, Past, Ended
    <3>2. m \notin marks[Chat(m)]
      BY <3>1 DEF MarksSound
    <3>3. because'[m] = marks[Chat(m)] /\ found'[m] = active[Chat(m)]
      BY DEF TypeOK
    <3> QED BY <3>1, <3>2, <3>3 DEF ActiveMarked
  <2>2. \A q \in Messages \ {m} : found'[q] = found[q] /\ because'[q] = because[q]
    BY DEF TypeOK
  <2>3. \A p \in Messages : pc[p] \in Past =>
          pc'[p] = pc[p] /\ result'[p] = result[p] /\ request'[p] = request[p]
    BY DEF TypeOK, Past, Ended
  <2>4. marks[Chat(m)] \subseteq Messages /\ \A q \in Messages : because[q] \subseteq Messages
    BY <2>1 DEF TypeOK
  <2>5. \A p \in because'[m] :
           /\ p # m /\ Is(p, "prompt")' /\ pc'[p] \in Past
           /\ Chat(p)' = Chat(m)' /\ result'[p] # "none"
    BY <2>1, <2>3, <2>4 DEF MarksSound, Is, Chat
  <2>6. \A q \in Messages \ {m} :
           /\ found'[q] => because'[q] # {}
           /\ \A p \in because'[q] :
                 /\ p # q /\ Is(p, "prompt")' /\ pc'[p] \in Past
                 /\ Chat(p)' = Chat(q)' /\ result'[p] # "none"
    BY <2>2, <2>3, <2>4 DEF BecauseSound, Is, Chat
  <2> QED BY <2>1, <2>5, <2>6 DEF BecauseSound, Past
<1>6. CrossedSound'
  BY DEF TypeOK, CrossedSound
<1> QED BY <1>1, <1>2, <1>3, <1>4, <1>5, <1>6

LEMMA StatusWorkspaceSound ==
    ASSUME Sound, NEW m \in Messages, StatusWorkspace(m)
    PROVE  Sound'
<1> USE DEF Sound, StatusWorkspace, ReadWorkspace, Goto, shared, local, history
<1>1. TypeOK'
  BY OriginsAssumption DEF TypeOK, PCs, Results, Ended, Requests, Commands, Is, Chat, Origin
<1>2. PcSound'
  BY DEF TypeOK, PcSound, Is, Chat, Ended
<1>3. MarksSound'
  BY DEF TypeOK, PcSound, MarksSound, Is, Chat, Past, Ended
<1>4. ActiveMarked'
  BY DEF TypeOK, ActiveMarked
<1>5. BecauseSound'
  BY DEF TypeOK, PcSound, MarksSound, ActiveMarked, BecauseSound, Is, Chat, Past, Ended
<1>6. CrossedSound'
  BY DEF TypeOK, CrossedSound
<1> QED BY <1>1, <1>2, <1>3, <1>4, <1>5, <1>6

LEMMA ReplyOnlySound ==
    ASSUME Sound, NEW m \in Messages, ReplyOnly(m)
    PROVE  Sound'
<1> USE DEF Sound, ReplyOnly, Goto, shared, local, history
<1>1. TypeOK'
  BY OriginsAssumption DEF TypeOK, PCs, Results, Ended, Requests, Commands, Is, Chat, Origin
<1>2. PcSound'
  BY DEF TypeOK, PcSound, Is, Chat, Ended
<1>3. MarksSound'
  BY DEF TypeOK, PcSound, MarksSound, Is, Chat, Past, Ended
<1>4. ActiveMarked'
  BY DEF TypeOK, ActiveMarked
<1>5. BecauseSound'
  BY DEF TypeOK, PcSound, MarksSound, ActiveMarked, BecauseSound, Is, Chat, Past, Ended
<1>6. CrossedSound'
  BY DEF TypeOK, CrossedSound
<1> QED BY <1>1, <1>2, <1>3, <1>4, <1>5, <1>6

LEMMA SwapSound ==
    ASSUME Sound, NEW m \in Messages, Swap(m)
    PROVE  Sound'
<1> USE DEF Sound, Swap, Cross, Goto, shared, local, history
<1>1. TypeOK'
  BY OriginsAssumption DEF TypeOK, PCs, Results, Ended, Requests, Commands, Is, Chat, Origin
<1>2. PcSound'
  BY DEF TypeOK, PcSound, Is, Chat, Ended
<1>3. MarksSound'
  BY DEF TypeOK, PcSound, MarksSound, Is, Chat, Past, Ended
<1>4. ActiveMarked'
  BY DEF TypeOK, ActiveMarked
<1>5. BecauseSound'
  BY DEF TypeOK, PcSound, MarksSound, ActiveMarked, BecauseSound, Is, Chat, Past, Ended
<1>6. CrossedSound'
  BY DEF TypeOK, CrossedSound
<1> QED BY <1>1, <1>2, <1>3, <1>4, <1>5, <1>6

LEMMA ResetAfterSwapSound ==
    ASSUME Sound, NEW m \in Messages, ResetAfterSwap(m)
    PROVE  Sound'
<1> USE DEF Sound, ResetAfterSwap, ResetSession, Cross, Goto, shared, local, history
<1>1. TypeOK'
  BY OriginsAssumption DEF TypeOK, PCs, Results, Ended, Requests, Commands, Is, Chat, Origin
<1>2. PcSound'
  BY DEF TypeOK, PcSound, Is, Chat, Ended
<1>3. MarksSound'
  BY DEF TypeOK, PcSound, MarksSound, Is, Chat, Past, Ended
<1>4. ActiveMarked'
  BY DEF TypeOK, ActiveMarked
<1>5. BecauseSound'
  BY DEF TypeOK, PcSound, MarksSound, ActiveMarked, BecauseSound, Is, Chat, Past, Ended
<1>6. CrossedSound'
  BY DEF TypeOK, CrossedSound
<1> QED BY <1>1, <1>2, <1>3, <1>4, <1>5, <1>6

LEMMA PassLimiterSound ==
    ASSUME Sound, NEW m \in Messages, PassLimiter(m)
    PROVE  Sound'
<1> USE DEF Sound, PassLimiter, Goto, shared, local, history
<1>1. TypeOK'
  BY OriginsAssumption DEF TypeOK, PCs, Results, Ended, Requests, Commands, Is, Chat, Origin
<1>2. PcSound'
  BY DEF TypeOK, PcSound, Is, Chat, Ended
<1>3. MarksSound'
  BY DEF TypeOK, PcSound, MarksSound, Is, Chat, Past, Ended
<1>4. ActiveMarked'
  BY DEF TypeOK, ActiveMarked
<1>5. BecauseSound'
  BY DEF TypeOK, PcSound, MarksSound, ActiveMarked, BecauseSound, Is, Chat, Past, Ended
<1>6. CrossedSound'
  BY DEF TypeOK, CrossedSound
<1> QED BY <1>1, <1>2, <1>3, <1>4, <1>5, <1>6

LEMMA RefuseSound ==
    ASSUME Sound, NEW m \in Messages, Refuse(m)
    PROVE  Sound'
<1> USE DEF Sound, Refuse, Goto, shared, local, history
<1>1. TypeOK'
  BY OriginsAssumption DEF TypeOK, PCs, Results, Ended, Requests, Commands, Is, Chat, Origin
<1>2. PcSound'
  BY DEF TypeOK, PcSound, Is, Chat, Ended
<1>3. MarksSound'
  BY DEF TypeOK, PcSound, MarksSound, Is, Chat, Past, Ended
<1>4. ActiveMarked'
  BY DEF TypeOK, ActiveMarked
<1>5. BecauseSound'
  BY DEF TypeOK, PcSound, MarksSound, ActiveMarked, BecauseSound, Is, Chat, Past, Ended
<1>6. CrossedSound'
  BY DEF TypeOK, CrossedSound
<1> QED BY <1>1, <1>2, <1>3, <1>4, <1>5, <1>6

LEMMA CaptureWorkspaceSound ==
    ASSUME Sound, NEW m \in Messages, CaptureWorkspace(m)
    PROVE  Sound'
<1> USE DEF Sound, CaptureWorkspace, ReadWorkspace, CrossOpen, Goto, shared, local, history
<1>1. TypeOK'
  BY OriginsAssumption DEF TypeOK, PCs, Results, Ended, Requests, Commands, Is, Chat, Origin
<1>2. PcSound'
  <2>1. ws'[m] \in Workspaces
    BY DEF TypeOK, PcSound, Requests, Is, Origin
  <2> QED BY <2>1 DEF TypeOK, PcSound, Is, Chat, Ended
<1>3. MarksSound'
  BY DEF TypeOK, PcSound, MarksSound, Is, Chat, Past, Ended
<1>4. ActiveMarked'
  BY DEF TypeOK, ActiveMarked
<1>5. BecauseSound'
  BY DEF TypeOK, PcSound, MarksSound, ActiveMarked, BecauseSound, Is, Chat, Past, Ended
<1>6. CrossedSound'
  BY DEF TypeOK, CrossedSound
<1> QED BY <1>1, <1>2, <1>3, <1>4, <1>5, <1>6

LEMMA LaunchSound ==
    ASSUME Sound, NEW m \in Messages, Launch(m)
    PROVE  Sound'
<1> USE DEF Sound, Launch, ReadSession, Goto, shared, local, history
<1>1. TypeOK'
  BY OriginsAssumption DEF TypeOK, PCs, Results, Ended, Requests, Commands, Is, Chat, Origin
<1>2. PcSound'
  BY DEF TypeOK, PcSound, Is, Chat, Ended
<1>3. MarksSound'
  BY DEF TypeOK, PcSound, MarksSound, Is, Chat, Past, Ended
<1>4. ActiveMarked'
  BY DEF TypeOK, ActiveMarked
<1>5. BecauseSound'
  <2>1. /\ Chat(m) \in Chats /\ m \notin marks[Chat(m)]
        /\ found'[m] => because'[m] # {}
        /\ because'[m] = marks[Chat(m)]
    <3>1. Chat(m) \in Chats /\ pc[m] \notin Past
      BY DEF TypeOK, PcSound, Requests, Is, Chat, Past, Ended
    <3>2. m \notin marks[Chat(m)]
      BY <3>1 DEF MarksSound
    <3>3. because'[m] = marks[Chat(m)] /\ found'[m] = active[Chat(m)]
      BY DEF TypeOK
    <3> QED BY <3>1, <3>2, <3>3 DEF ActiveMarked
  <2>2. \A q \in Messages \ {m} : found'[q] = found[q] /\ because'[q] = because[q]
    BY DEF TypeOK
  <2>3. \A p \in Messages : pc[p] \in Past =>
          pc'[p] = pc[p] /\ result'[p] = result[p] /\ request'[p] = request[p]
    BY DEF TypeOK, Past, Ended
  <2>4. marks[Chat(m)] \subseteq Messages /\ \A q \in Messages : because[q] \subseteq Messages
    BY <2>1 DEF TypeOK
  <2>5. \A p \in because'[m] :
           /\ p # m /\ Is(p, "prompt")' /\ pc'[p] \in Past
           /\ Chat(p)' = Chat(m)' /\ result'[p] # "none"
    BY <2>1, <2>3, <2>4 DEF MarksSound, Is, Chat
  <2>6. \A q \in Messages \ {m} :
           /\ found'[q] => because'[q] # {}
           /\ \A p \in because'[q] :
                 /\ p # q /\ Is(p, "prompt")' /\ pc'[p] \in Past
                 /\ Chat(p)' = Chat(q)' /\ result'[p] # "none"
    BY <2>2, <2>3, <2>4 DEF BecauseSound, Is, Chat
  <2> QED BY <2>1, <2>5, <2>6 DEF BecauseSound, Past
<1>6. CrossedSound'
  BY DEF TypeOK, CrossedSound
<1> QED BY <1>1, <1>2, <1>3, <1>4, <1>5, <1>6

LEMMA CliReturnsSound ==
    ASSUME Sound, NEW m \in Messages, CliReturns(m)
    PROVE  Sound'
<1> USE DEF Sound, CliReturns, Goto, shared, local, history
<1>1. TypeOK'
  BY OriginsAssumption DEF TypeOK, PCs, Results, Ended, Requests, Commands, Is, Chat, Origin
<1>2. PcSound'
  BY DEF TypeOK, PcSound, Is, Chat, Ended
<1>3. MarksSound'
  BY DEF TypeOK, PcSound, MarksSound, Is, Chat, Past, Ended
<1>4. ActiveMarked'
  BY DEF TypeOK, ActiveMarked
<1>5. BecauseSound'
  BY DEF TypeOK, PcSound, MarksSound, ActiveMarked, BecauseSound, Is, Chat, Past, Ended
<1>6. CrossedSound'
  BY DEF TypeOK, CrossedSound
<1> QED BY <1>1, <1>2, <1>3, <1>4, <1>5, <1>6

LEMMA MarkActiveSound ==
    ASSUME Sound, NEW m \in Messages, MarkActive(m)
    PROVE  Sound'
<1> USE DEF Sound, MarkActive, Goto, shared, local, history
<1>1. TypeOK'
  BY OriginsAssumption DEF TypeOK, PCs, Results, Ended, Requests, Commands, Is, Chat, Origin
<1>2. PcSound'
  BY DEF TypeOK, PcSound, Is, Chat, Ended
<1>3. MarksSound'
  BY DEF TypeOK, PcSound, MarksSound, Is, Chat, Past, Ended
<1>4. ActiveMarked'
  BY DEF TypeOK, ActiveMarked
<1>5. BecauseSound'
  BY DEF TypeOK, PcSound, MarksSound, ActiveMarked, BecauseSound, Is, Chat, Past, Ended
<1>6. CrossedSound'
  BY DEF TypeOK, CrossedSound
<1> QED BY <1>1, <1>2, <1>3, <1>4, <1>5, <1>6

LEMMA ReplySound ==
    ASSUME Sound, NEW m \in Messages, Reply(m)
    PROVE  Sound'
<1> USE DEF Sound, Reply, Goto, shared, local, history
<1>1. TypeOK'
  BY OriginsAssumption DEF TypeOK, PCs, Results, Ended, Requests, Commands, Is, Chat, Origin
<1>2. PcSound'
  BY DEF TypeOK, PcSound, Is, Chat, Ended
<1>3. MarksSound'
  BY DEF TypeOK, PcSound, MarksSound, Is, Chat, Past, Ended
<1>4. ActiveMarked'
  BY DEF TypeOK, ActiveMarked
<1>5. BecauseSound'
  BY DEF TypeOK, PcSound, MarksSound, ActiveMarked, BecauseSound, Is, Chat, Past, Ended
<1>6. CrossedSound'
  BY DEF TypeOK, CrossedSound, Ended
<1> QED BY <1>1, <1>2, <1>3, <1>4, <1>5, <1>6

LEMMA NextSound == Sound /\ [Next]_vars => Sound'
<1> SUFFICES ASSUME Sound, [Next]_vars PROVE Sound'
  OBVIOUS
<1>1. CASE UNCHANGED vars
  BY <1>1 DEF vars, shared, local, history, Sound, TypeOK, PcSound, MarksSound,
              ActiveMarked, BecauseSound, CrossedSound, Is, Chat
<1>2. CASE Next
  <2> SUFFICES ASSUME NEW m \in Messages,
                      Receive(m) \/ NewSession(m) \/ StatusSession(m) \/ StatusWorkspace(m) \/ ReplyOnly(m)
                        \/ Swap(m) \/ ResetAfterSwap(m) \/ PassLimiter(m) \/ Refuse(m) \/ CaptureWorkspace(m)
                        \/ Launch(m) \/ CliReturns(m) \/ MarkActive(m) \/ Reply(m)
               PROVE  Sound'
    BY <1>2 DEF Next
  <2> QED
    BY ReceiveSound, NewSessionSound, StatusSessionSound, StatusWorkspaceSound, ReplyOnlySound,
       SwapSound, ResetAfterSwapSound, PassLimiterSound, RefuseSound,
       CaptureWorkspaceSound, LaunchSound, CliReturnsSound, MarkActiveSound, ReplySound
<1> QED BY <1>1, <1>2

LEMMA SoundInvariant == Spec => []Sound
BY InitSound, NextSound, PTL DEF Spec

(***************************************************************************)
(* Types; in particular a workspace handle always holds a configured       *)
(* workspace, so the lookup of its backend finds one.                      *)
(***************************************************************************)
THEOREM TypeCorrect == Spec => []TypeOK
<1>1. Sound => TypeOK
  BY DEF Sound
<1> QED BY SoundInvariant, <1>1, PTL

(***************************************************************************)
(* However the handlers interleave, "-c" is passed only when a prompt of   *)
(* the same chat has been executed since the reset.                        *)
(***************************************************************************)
THEOREM NoStolenSession == Spec => []ContinuationJustified
<1>1. Sound => ContinuationJustified
  <2> SUFFICES ASSUME Sound, NEW q \in Messages, Continues(q)
               PROVE  \E p \in because[q] :
                        p # q /\ Is(p, "prompt") /\ Chat(p) = Chat(q) /\ result[p] # "none"
    BY DEF ContinuationJustified
  <2> QED BY DEF Sound, BecauseSound, Continues
<1> QED BY SoundInvariant, <1>1, PTL

-----------------------------------------------------------------------------

\* A reset of its own chat crossed p.
ResetCrossed(p) == \E r \in crossed[p] : Chat(r) = Chat(p)

\* A /use between its swap and its reset has crossed whoever is at work.
OpenSeen ==
    \A m, u \in Messages : Busy(m) /\ pc[u] = "swapped" => u \in crossed[m]

\* What is executing, and what has marked the session, read it after the last
\* reset, unless that reset crossed it.
ExecutingFresh ==
    \A m \in Messages : pc[m] \in {"running", "returned"} =>
        seen[m] = epoch[Chat(m)] \/ ResetCrossed(m)

MarksFresh ==
    \A c \in Chats : \A p \in marks[c] : seen[p] = epoch[c] \/ ResetCrossed(p)

BecauseFresh ==
    \A q \in Messages : \A p \in because[q] : seen[p] = seen[q] \/ ResetCrossed(p)

\* What the handler of a prompt has read is still what its handle holds, unless
\* a /use crossed it.
HandleCurrent ==
    \A m \in Messages : pc[m] \in {"captured", "running", "returned"} =>
        ws[m] = workspace[Origin(m)] \/ Moved(m)

\* The marks of a chat come from the present workspace of their handle, unless
\* a /use crossed them or one of their chat is between its swap and its reset.
MarksCurrent ==
    \A c \in Chats : \A p \in marks[c] :
        \/ ws[p] = workspace[Origin(p)]
        \/ Moved(p)
        \/ \E u \in Messages : pc[u] = "swapped" /\ Chat(u) = c /\ Origin(u) = Origin(p)

HalfReadCurrent ==
    \A q \in Messages : pc[q] = "half_read" =>
        \A p \in because[q] : Origin(p) = Origin(q) =>
            ws[p] = workspace[Origin(q)] \/ Moved(p) \/ Moved(q)

BecauseSame == \A q \in Messages : ws[q] # None => SameSession(q)

Settled ==
    /\ OpenSeen
    /\ ExecutingFresh /\ MarksFresh /\ BecauseFresh
    /\ HandleCurrent /\ MarksCurrent /\ HalfReadCurrent /\ BecauseSame

LEMMA InitSettled == Init => Settled
BY DEF Init, Settled, OpenSeen, ExecutingFresh, MarksFresh, BecauseFresh,
       HandleCurrent, MarksCurrent, HalfReadCurrent, BecauseSame, SameSession, Busy

\* What has crossed a handler stays on record, and so does its request.
LEMMA Lasting ==
    ASSUME Sound, Next, NEW n \in Messages, pc[n] # "unsent"
    PROVE  /\ request'[n] = request[n] /\ pc'[n] # "unsent"
           /\ crossed[n] \subseteq crossed'[n]
<1>1. PICK m \in Messages :
        \/ Receive(m) \/ NewSession(m) \/ StatusSession(m) \/ StatusWorkspace(m)
        \/ ReplyOnly(m) \/ Swap(m) \/ ResetAfterSwap(m) \/ PassLimiter(m) \/ Refuse(m)
        \/ CaptureWorkspace(m) \/ Launch(m) \/ CliReturns(m) \/ MarkActive(m) \/ Reply(m)
  BY DEF Next
<1> USE DEF Sound, TypeOK, Goto, shared, history
<1>2. CASE Receive(m)
  BY <1>1, <1>2 DEF Receive
<1>3. CASE NewSession(m) \/ ResetAfterSwap(m)
  BY <1>1, <1>3 DEF NewSession, ResetAfterSwap, ResetSession, Cross
<1>4. CASE StatusSession(m) \/ CaptureWorkspace(m)
  BY <1>1, <1>4 DEF StatusSession, CaptureWorkspace, CrossOpen
<1>5. CASE Swap(m)
  BY <1>1, <1>5 DEF Swap, Cross
<1>6. CASE StatusWorkspace(m) \/ Launch(m) \/ CliReturns(m) \/ MarkActive(m)
  BY <1>1, <1>6 DEF StatusWorkspace, Launch, CliReturns, MarkActive
<1>7. CASE ReplyOnly(m) \/ PassLimiter(m) \/ Refuse(m) \/ Reply(m)
  BY <1>1, <1>7 DEF ReplyOnly, PassLimiter, Refuse, Reply, Ended
<1> QED BY <1>1, <1>2, <1>3, <1>4, <1>5, <1>6, <1>7

LEMMA StillCrossed ==
    ASSUME Sound, Next, NEW n \in Messages, pc[n] # "unsent"
    PROVE  (ResetCrossed(n) => ResetCrossed(n)') /\ (Moved(n) => Moved(n)')
<1>1. /\ request'[n] = request[n] /\ crossed[n] \subseteq crossed'[n]
      /\ \A r \in crossed[n] :
            r \in Messages /\ pc[r] # "unsent" /\ request'[r] = request[r] /\ pc'[r] # "unsent"
  BY Lasting DEF Sound, TypeOK, CrossedSound
<1> QED BY <1>1 DEF ResetCrossed, Moved, Chat, Origin, Is

\* Marks, and what has been found, are prompts received long ago.
LEMMA PastMarks ==
    ASSUME Sound
    PROVE  /\ \A c \in Chats : \A p \in marks[c] :
                p \in Messages /\ pc[p] \in Past /\ pc[p] # "unsent" /\ ~Busy(p) /\ Chat(p) = c
           /\ \A q \in Messages : \A p \in because[q] :
                /\ p \in Messages /\ pc[p] \in Past /\ pc[p] # "unsent" /\ ~Busy(p)
                /\ Chat(p) = Chat(q)
BY DEF Sound, TypeOK, MarksSound, BecauseSound, Past, Ended, Busy

LEMMA ReceiveSettled ==
    ASSUME Sound, Settled, Next, NEW m \in Messages, Receive(m)
    PROVE  Settled'
<1>1. /\ pc[m] = "unsent" /\ pc' = [pc EXCEPT ![m] = "received"]
      /\ \A n \in Messages \ {m} : pc'[n] = pc[n] /\ request'[n] = request[n]
      /\ ws' = ws /\ workspace' = workspace /\ seen' = seen /\ epoch' = epoch
      /\ marks' = marks /\ because' = because /\ crossed' = crossed
  BY DEF Receive, Sound, TypeOK, Goto, shared, history
<1>2. /\ \A c \in Chats : marks[c] \subseteq Messages \ {m}
      /\ \A q \in Messages : because[q] \subseteq Messages \ {m}
  BY <1>1, PastMarks
<1>3. \A n \in Messages \ {m} : pc[n] # "unsent" =>
          (ResetCrossed(n) => ResetCrossed(n)') /\ (Moved(n) => Moved(n)')
  BY StillCrossed
<1>4. because[m] = {} /\ ws[m] = None
  BY <1>1 DEF Sound, PcSound
<1>5. OpenSeen'
  BY <1>1 DEF Settled, OpenSeen, Busy, Sound, TypeOK
<1>6. ExecutingFresh' /\ HandleCurrent'
  BY <1>1, <1>3 DEF Settled, ExecutingFresh, HandleCurrent, Chat, Origin, Sound, TypeOK
<1>7. MarksFresh' /\ BecauseFresh'
  BY <1>1, <1>2, <1>3, PastMarks DEF Settled, MarksFresh, BecauseFresh
<1>8. MarksCurrent'
  BY <1>1, <1>2, <1>3, PastMarks DEF Settled, MarksCurrent, Chat, Origin
<1>9. HalfReadCurrent'
  BY <1>1, <1>2, <1>3, PastMarks DEF Settled, HalfReadCurrent, Origin, Sound, TypeOK
<1>10. BecauseSame'
  <2> SUFFICES ASSUME NEW q \in Messages, ws'[q] # None, NEW p \in because'[q], Origin(p)' = Origin(q)'
               PROVE  ws'[p] = ws'[q] \/ Moved(p)' \/ Moved(q)'
    BY DEF BecauseSame, SameSession
  <2>1. q # m /\ p # m /\ p \in because[q] /\ pc[p] # "unsent" /\ pc[q] # "unsent"
    BY <1>1, <1>2, <1>4, PastMarks DEF Sound, PcSound
  <2>2. Origin(p) = Origin(q)
    BY <1>1, <1>2, <2>1 DEF Origin
  <2> QED BY <1>1, <1>2, <1>3, <2>1, <2>2 DEF Settled, BecauseSame, SameSession
<1> QED BY <1>5, <1>6, <1>7, <1>8, <1>9, <1>10 DEF Settled

\* The swap crosses whoever is at work and every mark of another chat; the marks
\* of its own chat wait for its reset.
LEMMA SwapSettled ==
    ASSUME Sound, Settled, Next, NEW m \in Messages, Swap(m)
    PROVE  Settled'
<1>1. /\ pc[m] = "received" /\ pc' = [pc EXCEPT ![m] = "swapped"]
      /\ Is(m, "use") /\ Is(m, "use")'
      /\ Origin(m) \in Workspaces /\ Chat(m) \in Chats
      /\ \A w \in Workspaces \ {Origin(m)} : workspace'[w] = workspace[w]
      /\ request' = request /\ ws' = ws /\ marks' = marks /\ because' = because
      /\ seen' = seen /\ epoch' = epoch
      /\ Cross(m, AtWork \cup LeftAlone(m))
  BY DEF Swap, Goto, local, Sound, TypeOK, Requests, Origin, Chat, Is
<1>2. \A n \in Messages \ {m} : pc'[n] = pc[n]
  BY <1>1 DEF Sound, TypeOK
<1>3. /\ \A n \in Messages : Busy(n) => m \in crossed'[n]
      /\ \A c \in Chats \ {Chat(m)} : \A p \in marks[c] : m \in crossed'[p]
  <2>1. \A n \in AtWork \cup LeftAlone(m) : n \in Messages => m \in crossed'[n]
    BY <1>1 DEF Cross
  <2>2. \A c \in Chats \ {Chat(m)} : \A p \in marks[c] : p \in LeftAlone(m) /\ p \in Messages
    BY PastMarks DEF LeftAlone
  <2> QED BY <2>1, <2>2 DEF AtWork
<1>4. \A n \in Messages : Origin(n) # Origin(m) /\ pc[n] # "unsent" =>
          workspace'[Origin(n)] = workspace[Origin(n)]
  BY <1>1 DEF Sound, TypeOK, Requests, Origin
<1>5. \A n \in Messages : Origin(n) = Origin(m) /\ m \in crossed'[n] => Moved(n)'
  BY <1>1 DEF Moved, Origin
<1>6. \A n \in Messages : pc[n] # "unsent" =>
          (ResetCrossed(n) => ResetCrossed(n)') /\ (Moved(n) => Moved(n)')
  BY StillCrossed
<1>7. OpenSeen'
  <2> SUFFICES ASSUME NEW n \in Messages, NEW u \in Messages, Busy(n)', pc'[u] = "swapped"
               PROVE  u \in crossed'[n]
    BY DEF OpenSeen
  <2>1. Busy(n) /\ n # m
    BY <1>1, <1>2 DEF Busy, Sound, TypeOK
  <2>2. CASE u = m
    BY <1>3, <2>1, <2>2
  <2>3. CASE u # m
    BY <1>1, <1>2, <2>1, <2>3, Lasting DEF Settled, OpenSeen, Busy
  <2> QED BY <2>2, <2>3
<1>8. ExecutingFresh' /\ MarksFresh' /\ BecauseFresh'
  <2>1. ExecutingFresh'
    BY <1>1, <1>2, <1>6 DEF Settled, ExecutingFresh, Chat, Sound, TypeOK
  <2>2. MarksFresh' /\ BecauseFresh'
    BY <1>1, <1>6, PastMarks DEF Settled, MarksFresh, BecauseFresh
  <2> QED BY <2>1, <2>2
<1>9. HandleCurrent'
  <2> SUFFICES ASSUME NEW n \in Messages, pc'[n] \in {"captured", "running", "returned"}
               PROVE  ws'[n] = workspace'[Origin(n)'] \/ Moved(n)'
    BY DEF HandleCurrent
  <2>1. n # m /\ pc[n] = pc'[n] /\ Busy(n) /\ pc[n] # "unsent" /\ Origin(n)' = Origin(n)
    BY <1>1, <1>2 DEF Sound, TypeOK, Busy, Origin
  <2> QED BY <1>1, <1>3, <1>4, <1>5, <1>6, <2>1 DEF Settled, HandleCurrent
<1>10. MarksCurrent'
  <2> SUFFICES ASSUME NEW c \in Chats, NEW p \in marks'[c]
               PROVE  \/ ws'[p] = workspace'[Origin(p)']
                      \/ Moved(p)'
                      \/ \E u \in Messages :
                            pc'[u] = "swapped" /\ Chat(u)' = c /\ Origin(u)' = Origin(p)'
    BY DEF MarksCurrent
  <2>1. /\ p \in marks[c] /\ p \in Messages /\ pc[p] # "unsent"
        /\ Origin(p)' = Origin(p) /\ pc'[m] = "swapped"
        /\ \A u \in Messages : Chat(u)' = Chat(u) /\ Origin(u)' = Origin(u)
    BY <1>1, PastMarks DEF Origin, Chat, Sound, TypeOK
  <2>2. CASE Origin(p) = Origin(m)
    <3>1. CASE c = Chat(m)
      BY <2>1, <2>2, <3>1
    <3>2. CASE c # Chat(m)
      BY <1>3, <1>5, <2>1, <2>2, <3>2
    <3> QED BY <3>1, <3>2
  <2>3. CASE Origin(p) # Origin(m)
    <3>1. ws'[p] = ws[p] /\ workspace'[Origin(p)] = workspace[Origin(p)]
      BY <1>1, <1>4, <2>1, <2>3
    <3>2. CASE \E u \in Messages : pc[u] = "swapped" /\ Chat(u) = c /\ Origin(u) = Origin(p)
      BY <1>1, <1>2, <2>1, <3>2
    <3> QED BY <1>6, <2>1, <3>1, <3>2 DEF Settled, MarksCurrent
  <2> QED BY <2>2, <2>3
<1>11. HalfReadCurrent'
  <2> SUFFICES ASSUME NEW q \in Messages, pc'[q] = "half_read",
                      NEW p \in because'[q], Origin(p)' = Origin(q)'
               PROVE  ws'[p] = workspace'[Origin(q)'] \/ Moved(p)' \/ Moved(q)'
    BY DEF HalfReadCurrent
  <2>1. /\ p \in because[q] /\ p \in Messages /\ pc[p] # "unsent"
        /\ pc[q] = "half_read" /\ Busy(q) /\ pc[q] # "unsent"
        /\ Origin(p)' = Origin(p) /\ Origin(q)' = Origin(q)
    BY <1>1, <1>2, PastMarks DEF Busy, Origin, Sound, TypeOK
  <2> QED BY <1>1, <1>3, <1>4, <1>5, <1>6, <2>1 DEF Settled, HalfReadCurrent
<1>12. BecauseSame'
  <2> SUFFICES ASSUME NEW q \in Messages, ws'[q] # None,
                      NEW p \in because'[q], Origin(p)' = Origin(q)'
               PROVE  ws'[p] = ws'[q] \/ Moved(p)' \/ Moved(q)'
    BY DEF BecauseSame, SameSession
  <2>1. p \in because[q] /\ p \in Messages /\ pc[p] # "unsent" /\ pc[q] # "unsent"
    BY <1>1, PastMarks DEF Sound, PcSound
  <2> QED BY <1>1, <1>6, <2>1 DEF Settled, BecauseSame, SameSession, Origin
<1> QED BY <1>7, <1>8, <1>9, <1>10, <1>11, <1>12 DEF Settled

\* The reset crosses whoever executes for its chat, and forgets its marks.
LEMMA ResetSettled ==
    ASSUME Sound, Settled, Next, NEW m \in Messages, NewSession(m) \/ ResetAfterSwap(m)
    PROVE  Settled'
<1>1. /\ Chat(m) \in Chats
      /\ marks' = [marks EXCEPT ![Chat(m)] = {}]
      /\ epoch' = [epoch EXCEPT ![Chat(m)] = @ + 1]
      /\ pc[m] \in {"received", "swapped"} /\ pc' = [pc EXCEPT ![m] = "replying"]
      /\ request' = request /\ ws' = ws /\ workspace' = workspace /\ because' = because
      /\ seen' = seen /\ Cross(m, AtWork)
  BY DEF NewSession, ResetAfterSwap, ResetSession, Goto, Sound, TypeOK, Requests, Chat
<1>2. \A n \in Messages : pc'[n] = IF n = m THEN "replying" ELSE pc[n]
  BY <1>1 DEF Sound, TypeOK
<1>3. \A n \in Messages : Busy(n) => m \in crossed'[n]
  BY <1>1 DEF Cross, AtWork
<1>4. \A n \in Messages : pc[n] # "unsent" =>
          (ResetCrossed(n) => ResetCrossed(n)') /\ (Moved(n) => Moved(n)')
  BY StillCrossed
<1>5. /\ \A n \in Messages : Chat(n)' = Chat(n) /\ Origin(n)' = Origin(n)
      /\ \A c \in Chats : c # Chat(m) => marks'[c] = marks[c] /\ epoch'[c] = epoch[c]
      /\ marks'[Chat(m)] = {}
  BY <1>1 DEF Chat, Origin, Sound, TypeOK
<1>6. OpenSeen'
  BY <1>1, <1>2, Lasting DEF Settled, OpenSeen, Busy
<1>7. ExecutingFresh'
  <2> SUFFICES ASSUME NEW n \in Messages, pc'[n] \in {"running", "returned"}
               PROVE  seen'[n] = epoch'[Chat(n)'] \/ ResetCrossed(n)'
    BY DEF ExecutingFresh
  <2>1. pc[n] = pc'[n] /\ Busy(n) /\ pc[n] # "unsent" /\ Chat(n) \in Chats
    BY <1>2 DEF Busy, Sound, TypeOK, Requests, Chat
  <2>2. CASE Chat(n) = Chat(m)
    <3>1. m \in crossed'[n] /\ Chat(m)' = Chat(n)'
      BY <1>3, <1>5, <2>1, <2>2
    <3> QED BY <3>1 DEF ResetCrossed
  <2>3. CASE Chat(n) # Chat(m)
    BY <1>1, <1>4, <1>5, <2>1, <2>3 DEF Settled, ExecutingFresh
  <2> QED BY <2>2, <2>3
<1>8. MarksFresh' /\ BecauseFresh'
  <2>1. MarksFresh'
    BY <1>1, <1>4, <1>5, PastMarks DEF Settled, MarksFresh
  <2>2. BecauseFresh'
    BY <1>1, <1>4, PastMarks DEF Settled, BecauseFresh
  <2> QED BY <2>1, <2>2
<1>9. HandleCurrent'
  BY <1>1, <1>2, <1>4, <1>5 DEF Settled, HandleCurrent
<1>10. MarksCurrent'
  <2> SUFFICES ASSUME NEW c \in Chats, NEW p \in marks'[c]
               PROVE  \/ ws'[p] = workspace'[Origin(p)']
                      \/ Moved(p)'
                      \/ \E u \in Messages :
                            pc'[u] = "swapped" /\ Chat(u)' = c /\ Origin(u)' = Origin(p)'
    BY DEF MarksCurrent
  <2>1. c # Chat(m) /\ p \in marks[c] /\ p \in Messages /\ pc[p] # "unsent"
    BY <1>5, PastMarks
  <2>2. CASE \E u \in Messages : pc[u] = "swapped" /\ Chat(u) = c /\ Origin(u) = Origin(p)
    BY <1>2, <1>5, <2>1, <2>2
  <2> QED BY <1>1, <1>4, <1>5, <2>1, <2>2 DEF Settled, MarksCurrent
<1>11. HalfReadCurrent'
  BY <1>1, <1>2, <1>4, <1>5, PastMarks DEF Settled, HalfReadCurrent
<1>12. BecauseSame'
  <2> SUFFICES ASSUME NEW q \in Messages, ws'[q] # None,
                      NEW p \in because'[q], Origin(p)' = Origin(q)'
               PROVE  ws'[p] = ws'[q] \/ Moved(p)' \/ Moved(q)'
    BY DEF BecauseSame, SameSession
  <2>1. p \in because[q] /\ p \in Messages /\ pc[p] # "unsent" /\ pc[q] # "unsent"
    BY <1>1, PastMarks DEF Sound, PcSound
  <2> QED BY <1>1, <1>4, <1>5, <2>1 DEF Settled, BecauseSame, SameSession
<1> QED BY <1>6, <1>7, <1>8, <1>9, <1>10, <1>11, <1>12 DEF Settled

\* A reader finds marks of its epoch, left by prompts of the workspace the handle
\* now holds, or crossed, or one /use that has crossed the reader is half done.
LEMMA ReadSettled ==
    ASSUME Sound, Settled, Next, NEW m \in Messages, StatusSession(m) \/ Launch(m)
    PROVE  Settled'
<1>1. /\ Chat(m) \in Chats
      /\ because' = [because EXCEPT ![m] = marks[Chat(m)]]
      /\ seen' = [seen EXCEPT ![m] = epoch[Chat(m)]]
      /\ request' = request /\ ws' = ws /\ workspace' = workspace /\ marks' = marks
      /\ epoch' = epoch
      /\ pc[m] \in {"received", "captured"}
      /\ pc[m] = "captured" =>
            /\ crossed' = crossed
            /\ pc' = [pc EXCEPT ![m] = "running"] \/ pc' = [pc EXCEPT ![m] = "returned"]
      /\ pc[m] = "received" => pc' = [pc EXCEPT ![m] = "half_read"] /\ CrossOpen(m)
  BY DEF StatusSession, Launch, ReadSession, Goto, shared, Sound, TypeOK, Requests, Chat
<1>2. /\ \A n \in Messages \ {m} : pc'[n] = pc[n] /\ because'[n] = because[n] /\ seen'[n] = seen[n]
      /\ because'[m] = marks[Chat(m)] /\ seen'[m] = epoch[Chat(m)]
      /\ pc'[m] \in {"half_read", "running", "returned"}
      /\ pc'[m] = "half_read" => pc[m] = "received"
      /\ pc'[m] # "half_read" => pc[m] = "captured"
      /\ \A n \in Messages : Chat(n)' = Chat(n) /\ Origin(n)' = Origin(n)
  BY <1>1 DEF Sound, TypeOK, Chat, Origin
<1>3. \A n \in Messages : pc[n] # "unsent" =>
          (ResetCrossed(n) => ResetCrossed(n)') /\ (Moved(n) => Moved(n)')
  BY StillCrossed
<1>4. \A u \in Messages : pc[u] = "swapped" => u \in crossed'[m]
  <2>1. CASE pc[m] = "captured"
    BY <1>1, <2>1 DEF Settled, OpenSeen, Busy
  <2>2. CASE pc[m] = "received"
    BY <1>1, <2>2 DEF CrossOpen, Sound, TypeOK
  <2> QED BY <1>1, <2>1, <2>2
<1>5. \A p \in marks[Chat(m)] :
          /\ p \in Messages /\ p # m /\ pc[p] # "unsent"
          /\ Origin(p) = Origin(m) => ws[p] = workspace[Origin(m)] \/ Moved(p)' \/ Moved(m)'
          /\ seen[p] = epoch[Chat(m)] \/ ResetCrossed(p)'
  <2> TAKE p \in marks[Chat(m)]
  <2>1. p \in Messages /\ p # m /\ pc[p] # "unsent"
    BY <1>1, PastMarks DEF Past, Ended
  <2>2. seen[p] = epoch[Chat(m)] \/ ResetCrossed(p)'
    BY <1>1, <1>3, <2>1 DEF Settled, MarksFresh
  <2>3. ASSUME Origin(p) = Origin(m)
        PROVE  ws[p] = workspace[Origin(m)] \/ Moved(p)' \/ Moved(m)'
    <3>1. ASSUME NEW u \in Messages, pc[u] = "swapped", Origin(u) = Origin(p)
          PROVE  Moved(m)'
      <4>1. u \in crossed'[m] /\ Origin(u)' = Origin(m)'
        BY <1>2, <1>4, <2>3, <3>1
      <4>2. Is(u, "use")'
        BY <3>1, Lasting DEF Sound, PcSound, Is
      <4> QED BY <4>1, <4>2 DEF Moved
    <3> QED BY <1>1, <1>3, <2>1, <2>3, <3>1 DEF Settled, MarksCurrent
  <2> QED BY <2>1, <2>2, <2>3
<1>6. OpenSeen'
  <2> SUFFICES ASSUME NEW n \in Messages, NEW u \in Messages, Busy(n)', pc'[u] = "swapped"
               PROVE  u \in crossed'[n]
    BY DEF OpenSeen
  <2>1. pc[u] = "swapped"
    BY <1>2
  <2>2. CASE n # m
    BY <1>2, <2>1, <2>2, Lasting DEF Settled, OpenSeen, Busy
  <2> QED BY <1>4, <2>1, <2>2
<1>7. ExecutingFresh'
  BY <1>1, <1>2, <1>3 DEF Settled, ExecutingFresh
<1>8. MarksFresh'
  <2> SUFFICES ASSUME NEW c \in Chats, NEW p \in marks[c]
               PROVE  seen'[p] = epoch[c] \/ ResetCrossed(p)'
    BY <1>1 DEF MarksFresh
  <2>1. p \in Messages /\ p # m /\ pc[p] # "unsent"
    BY <1>1, PastMarks DEF Past, Ended
  <2> QED BY <1>2, <1>3, <2>1 DEF Settled, MarksFresh
<1>9. BecauseFresh'
  <2> SUFFICES ASSUME NEW q \in Messages, NEW p \in because'[q]
               PROVE  seen'[p] = seen'[q] \/ ResetCrossed(p)'
    BY DEF BecauseFresh
  <2>1. CASE q = m
    BY <1>2, <1>5, <2>1
  <2>2. CASE q # m
    <3>1. p \in because[q] /\ p \in Messages /\ p # m /\ pc[p] # "unsent"
      BY <1>1, <1>2, <2>2, PastMarks DEF Past, Ended
    <3> QED BY <1>2, <1>3, <2>2, <3>1 DEF Settled, BecauseFresh
  <2> QED BY <2>1, <2>2
<1>10. HandleCurrent'
  <2> SUFFICES ASSUME NEW n \in Messages, pc'[n] \in {"captured", "running", "returned"}
               PROVE  ws[n] = workspace[Origin(n)] \/ Moved(n)'
    BY <1>1, <1>2 DEF HandleCurrent
  <2>1. pc[n] \in {"captured", "running", "returned"} /\ pc[n] # "unsent"
    BY <1>1, <1>2
  <2> QED BY <1>3, <2>1 DEF Settled, HandleCurrent
<1>11. MarksCurrent'
  <2> SUFFICES ASSUME NEW c \in Chats, NEW p \in marks[c]
               PROVE  \/ ws[p] = workspace[Origin(p)]
                      \/ Moved(p)'
                      \/ \E u \in Messages :
                            pc'[u] = "swapped" /\ Chat(u) = c /\ Origin(u) = Origin(p)
    BY <1>1, <1>2, PastMarks DEF MarksCurrent
  <2>1. p \in Messages /\ pc[p] # "unsent" /\ \A u \in Messages : pc[u] = "swapped" => pc'[u] = "swapped"
    BY <1>1, <1>2, PastMarks
  <2> QED BY <1>3, <2>1 DEF Settled, MarksCurrent
<1>12. HalfReadCurrent'
  <2> SUFFICES ASSUME NEW q \in Messages, pc'[q] = "half_read",
                      NEW p \in because'[q], Origin(p) = Origin(q)
               PROVE  ws[p] = workspace[Origin(q)] \/ Moved(p)' \/ Moved(q)'
    BY <1>1, <1>2, PastMarks DEF HalfReadCurrent, Origin
  <2>1. CASE q = m
    BY <1>2, <1>5, <2>1
  <2>2. CASE q # m
    <3>1. pc[q] = "half_read" /\ p \in because[q] /\ p \in Messages
          /\ pc[p] # "unsent" /\ pc[q] # "unsent"
      BY <1>2, <2>2, PastMarks
    <3> QED BY <1>3, <3>1 DEF Settled, HalfReadCurrent
  <2> QED BY <2>1, <2>2
<1>13. BecauseSame'
  <2> SUFFICES ASSUME NEW q \in Messages, ws[q] # None,
                      NEW p \in because'[q], Origin(p) = Origin(q)
               PROVE  ws[p] = ws[q] \/ Moved(p)' \/ Moved(q)'
    BY <1>1, <1>2, PastMarks DEF BecauseSame, SameSession, Origin
  <2>1. CASE q = m
    <3>1. pc[m] = "captured"
      BY <1>1, <2>1 DEF Sound, PcSound
    <3>2. ws[m] = workspace[Origin(m)] \/ Moved(m)'
      BY <1>3, <3>1 DEF Settled, HandleCurrent
    <3> QED BY <1>2, <1>5, <2>1, <3>2
  <2>2. CASE q # m
    <3>1. p \in because[q] /\ p \in Messages /\ pc[p] # "unsent" /\ pc[q] # "unsent"
      BY <1>2, <2>2, PastMarks DEF Sound, PcSound
    <3> QED BY <1>3, <3>1 DEF Settled, BecauseSame, SameSession
  <2> QED BY <2>1, <2>2
<1> QED BY <1>6, <1>7, <1>8, <1>9, <1>10, <1>11, <1>12, <1>13 DEF Settled

LEMMA ReadWorkspaceSettled ==
    ASSUME Sound, Settled, Next, NEW m \in Messages,
           StatusWorkspace(m) \/ CaptureWorkspace(m)
    PROVE  Settled'
<1>1. /\ ws' = [ws EXCEPT ![m] = workspace[Origin(m)]]
      /\ request' = request /\ workspace' = workspace /\ marks' = marks
      /\ because' = because /\ seen' = seen /\ epoch' = epoch
      /\ \/ pc[m] = "half_read" /\ pc' = [pc EXCEPT ![m] = "replying"]
         \/ pc[m] = "allowed" /\ pc' = [pc EXCEPT ![m] = "captured"] /\ CrossOpen(m)
  BY DEF StatusWorkspace, CaptureWorkspace, ReadWorkspace, Goto, shared, history
<1>2. /\ ws'[m] = workspace[Origin(m)] /\ pc[m] \in {"half_read", "allowed"}
      /\ pc'[m] \in {"replying", "captured"}
      /\ \A n \in Messages \ {m} : pc'[n] = pc[n] /\ ws'[n] = ws[n]
      /\ \A n \in Messages : Chat(n)' = Chat(n) /\ Origin(n)' = Origin(n)
  BY <1>1 DEF Sound, TypeOK, Chat, Origin
<1>3. \A n \in Messages : pc[n] # "unsent" =>
          (ResetCrossed(n) => ResetCrossed(n)') /\ (Moved(n) => Moved(n)')
  BY StillCrossed
<1>4. /\ \A c \in Chats : \A p \in marks[c] : p \in Messages /\ p # m /\ pc[p] # "unsent"
      /\ \A q \in Messages : \A p \in because[q] :
            p \in Messages /\ p # m /\ pc[p] # "unsent"
  BY <1>2, PastMarks DEF Past, Ended
<1>5. OpenSeen'
  <2> SUFFICES ASSUME NEW n \in Messages, NEW u \in Messages, Busy(n)', pc'[u] = "swapped"
               PROVE  u \in crossed'[n]
    BY DEF OpenSeen
  <2>1. pc[u] = "swapped"
    BY <1>2
  <2>2. CASE n = m
    <3>1. CrossOpen(m)
      BY <1>1, <2>2 DEF Busy, Sound, TypeOK
    <3> QED BY <2>1, <2>2, <3>1 DEF CrossOpen, Sound, TypeOK
  <2>3. CASE n # m
    BY <1>2, <2>1, <2>3, Lasting DEF Settled, OpenSeen, Busy
  <2> QED BY <2>2, <2>3
<1>6. ExecutingFresh' /\ MarksFresh' /\ BecauseFresh'
  <2>1. ExecutingFresh'
    BY <1>1, <1>2, <1>3 DEF Settled, ExecutingFresh
  <2>2. MarksFresh' /\ BecauseFresh'
    BY <1>1, <1>3, <1>4 DEF Settled, MarksFresh, BecauseFresh
  <2> QED BY <2>1, <2>2
<1>7. HandleCurrent'
  BY <1>1, <1>2, <1>3 DEF Settled, HandleCurrent
<1>8. MarksCurrent'
  <2> SUFFICES ASSUME NEW c \in Chats, NEW p \in marks[c]
               PROVE  \/ ws'[p] = workspace[Origin(p)]
                      \/ Moved(p)'
                      \/ \E u \in Messages :
                            pc'[u] = "swapped" /\ Chat(u) = c /\ Origin(u) = Origin(p)
    BY <1>1, <1>2, <1>4 DEF MarksCurrent
  <2>1. ws'[p] = ws[p] /\ pc[p] # "unsent" /\ p \in Messages
        /\ \A u \in Messages : pc[u] = "swapped" => pc'[u] = "swapped"
    BY <1>2, <1>4
  <2> QED BY <1>3, <2>1 DEF Settled, MarksCurrent
<1>9. HalfReadCurrent'
  <2> SUFFICES ASSUME NEW q \in Messages, pc'[q] = "half_read",
                      NEW p \in because[q], Origin(p) = Origin(q)
               PROVE  ws'[p] = workspace[Origin(q)] \/ Moved(p)' \/ Moved(q)'
    BY <1>1, <1>2, <1>4 DEF HalfReadCurrent
  <2>1. q # m /\ pc[q] = "half_read" /\ ws'[p] = ws[p] /\ pc[p] # "unsent" /\ p \in Messages
    BY <1>1, <1>2, <1>4
  <2> QED BY <1>3, <2>1 DEF Settled, HalfReadCurrent
<1>10. BecauseSame'
  <2> SUFFICES ASSUME NEW q \in Messages, ws'[q] # None,
                      NEW p \in because[q], Origin(p) = Origin(q)
               PROVE  ws'[p] = ws'[q] \/ Moved(p)' \/ Moved(q)'
    BY <1>1, <1>2, <1>4 DEF BecauseSame, SameSession
  <2>1. ws'[p] = ws[p] /\ pc[p] # "unsent" /\ p \in Messages
    BY <1>2, <1>4
  <2>2. CASE q = m
    <3>1. pc[m] = "half_read"
      BY <1>2, <2>2 DEF Sound, PcSound
    <3> QED BY <1>2, <1>3, <2>1, <2>2, <3>1 DEF Settled, HalfReadCurrent
  <2>3. CASE q # m
    <3>1. ws[q] # None /\ pc[q] # "unsent" /\ ws'[q] = ws[q]
      BY <1>2, <2>3 DEF Sound, PcSound
    <3> QED BY <1>3, <2>1, <3>1 DEF Settled, BecauseSame, SameSession
  <2> QED BY <2>2, <2>3
<1> QED BY <1>5, <1>6, <1>7, <1>8, <1>9, <1>10 DEF Settled

LEMMA MarkSettled ==
    ASSUME Sound, Settled, Next, NEW m \in Messages, MarkActive(m)
    PROVE  Settled'
<1>1. /\ pc[m] = "returned" /\ Chat(m) \in Chats
      /\ marks' = [marks EXCEPT ![Chat(m)] = @ \cup {m}]
      /\ \A n \in Messages \ {m} : pc'[n] = pc[n]
      /\ pc'[m] \in {"replying", "failed"}
      /\ request' = request /\ ws' = ws /\ workspace' = workspace /\ because' = because
      /\ seen' = seen /\ epoch' = epoch /\ crossed' = crossed
  BY DEF MarkActive, Goto, Sound, TypeOK, PcSound, Is, Requests, Chat
<1>2. /\ \A n \in Messages : Chat(n)' = Chat(n) /\ Origin(n)' = Origin(n)
      /\ \A u \in Messages : pc[u] = "swapped" <=> pc'[u] = "swapped"
      /\ \A c \in Chats : marks'[c] = IF c = Chat(m) THEN marks[c] \cup {m} ELSE marks[c]
  BY <1>1 DEF Chat, Origin, Sound, TypeOK
<1>3. \A n \in Messages : pc[n] # "unsent" =>
          (ResetCrossed(n) => ResetCrossed(n)') /\ (Moved(n) => Moved(n)')
  BY StillCrossed
<1>4. OpenSeen'
  BY <1>1, <1>2 DEF Settled, OpenSeen, Busy
<1>5. ExecutingFresh' /\ BecauseFresh'
  BY <1>1, <1>2, <1>3, PastMarks DEF Settled, ExecutingFresh, BecauseFresh
<1>6. MarksFresh'
  <2> SUFFICES ASSUME NEW c \in Chats, NEW p \in marks'[c]
               PROVE  seen[p] = epoch[c] \/ ResetCrossed(p)'
    BY <1>1 DEF MarksFresh
  <2>1. CASE p = m /\ c = Chat(m)
    BY <1>1, <1>3, <2>1 DEF Settled, ExecutingFresh
  <2>2. CASE p \in marks[c]
    BY <1>3, <2>2, PastMarks DEF Settled, MarksFresh
  <2> QED BY <1>2, <2>1, <2>2
<1>7. HandleCurrent'
  BY <1>1, <1>2, <1>3 DEF Settled, HandleCurrent
<1>8. MarksCurrent'
  <2> SUFFICES ASSUME NEW c \in Chats, NEW p \in marks'[c], p \in Messages
               PROVE  \/ ws[p] = workspace[Origin(p)]
                      \/ Moved(p)'
                      \/ \E u \in Messages :
                            pc'[u] = "swapped" /\ Chat(u) = c /\ Origin(u) = Origin(p)
    BY <1>1, <1>2, PastMarks DEF MarksCurrent
  <2>1. CASE p = m
    BY <1>1, <1>3, <2>1 DEF Settled, HandleCurrent
  <2>2. CASE p \in marks[c]
    BY <1>2, <1>3, <2>2, PastMarks DEF Settled, MarksCurrent
  <2> QED BY <1>2, <2>1, <2>2
<1>9. HalfReadCurrent'
  BY <1>1, <1>2, <1>3, PastMarks DEF Settled, HalfReadCurrent
<1>10. BecauseSame'
  <2> SUFFICES ASSUME NEW q \in Messages, ws[q] # None,
                      NEW p \in because[q], Origin(p) = Origin(q)
               PROVE  ws[p] = ws[q] \/ Moved(p)' \/ Moved(q)'
    BY <1>1, <1>2, PastMarks DEF BecauseSame, SameSession
  <2>1. pc[p] # "unsent" /\ pc[q] # "unsent" /\ p \in Messages
    BY PastMarks DEF Sound, PcSound
  <2> QED BY <1>3, <2>1 DEF Settled, BecauseSame, SameSession
<1> QED BY <1>4, <1>5, <1>6, <1>7, <1>8, <1>9, <1>10 DEF Settled

\* The other steps touch nothing Settled speaks of but the program counter.
LEMMA LocalSettled ==
    ASSUME Sound, Settled, NEW m \in Messages,
           ReplyOnly(m) \/ PassLimiter(m) \/ Refuse(m) \/ CliReturns(m) \/ Reply(m)
    PROVE  Settled'
<1>1. /\ \A n \in Messages \ {m} : pc'[n] = pc[n]
      /\ pc[m] \notin {"unsent", "half_read", "swapped"}
      /\ pc'[m] \notin {"unsent", "half_read", "swapped", "captured"}
      /\ pc'[m] \in {"running", "returned"} => pc[m] = "running"
      /\ request' = request /\ ws' = ws /\ workspace' = workspace
      /\ marks' = marks /\ because' = because /\ seen' = seen /\ epoch' = epoch
      /\ crossed' = crossed
  BY DEF ReplyOnly, PassLimiter, Refuse, CliReturns, Reply, Goto, shared, history,
         Sound, TypeOK, Ended
<1>2. /\ \A n \in Messages : Chat(n)' = Chat(n) /\ Origin(n)' = Origin(n)
      /\ \A u \in Messages : pc[u] = "swapped" <=> pc'[u] = "swapped"
      /\ \A n \in Messages : ResetCrossed(n)' <=> ResetCrossed(n)
      /\ \A u \in Messages : pc[u] # "unsent" <=> pc'[u] # "unsent"
  BY <1>1 DEF Chat, Origin, ResetCrossed
<1>3. \A n \in Messages : Moved(n)' <=> Moved(n)
  BY <1>1, <1>2 DEF Moved, Is, Sound, TypeOK, Origin
<1>4. OpenSeen' /\ ExecutingFresh' /\ HandleCurrent'
  BY <1>1, <1>2, <1>3 DEF Settled, OpenSeen, ExecutingFresh, HandleCurrent, Busy
<1>5. MarksFresh' /\ BecauseFresh' /\ HalfReadCurrent'
  BY <1>1, <1>2, <1>3, PastMarks DEF Settled, MarksFresh, BecauseFresh, HalfReadCurrent
<1>6. MarksCurrent'
  BY <1>1, <1>2, <1>3, PastMarks DEF Settled, MarksCurrent
<1>7. BecauseSame'
  BY <1>1, <1>2, <1>3, PastMarks DEF Settled, BecauseSame, SameSession
<1> QED BY <1>4, <1>5, <1>6, <1>7 DEF Settled

LEMMA NextSettled ==
    ASSUME Sound, Settled, [Next]_vars
    PROVE  Settled'
<1>1. CASE UNCHANGED vars
  BY <1>1 DEF vars, shared, local, history, Settled, OpenSeen, ExecutingFresh, MarksFresh,
              BecauseFresh, HandleCurrent, MarksCurrent, HalfReadCurrent, BecauseSame,
              SameSession, ResetCrossed, Moved, Busy, Is, Chat, Origin
<1>2. CASE Next
  BY <1>2, ReceiveSettled, SwapSettled, ResetSettled, ReadSettled, ReadWorkspaceSettled,
     MarkSettled, LocalSettled DEF Next
<1> QED BY <1>1, <1>2

LEMMA SettledInvariant == Spec => [](Sound /\ Settled)
<1>1. Sound /\ Settled /\ [Next]_vars => Settled'
  BY NextSettled
<1> QED BY InitSound, NextSound, InitSettled, <1>1, PTL DEF Spec

(***************************************************************************)
(* However the handlers interleave, a reset is lost only to a prompt that  *)
(* was being executed when a reset of its own chat crossed it.             *)
(***************************************************************************)
THEOREM ResetLostOnlyToRace == Spec => []ResetHonoured
<1>1. Sound /\ Settled => ResetHonoured
  <2> SUFFICES ASSUME Sound, Settled, NEW q \in Messages, found[q]
               PROVE  /\ because[q] # {}
                      /\ \A p \in because[q] : seen[p] = seen[q] \/ ResetCrossed(p)
    BY DEF ResetHonoured, ResetCrossed
  <2> QED BY DEF Sound, BecauseSound, Settled, BecauseFresh
<1> QED BY SettledInvariant, <1>1, PTL

(***************************************************************************)
(* On one channel no conversation passes from one workspace to another,    *)
(* unless a /use crossed one of its prompts ...                            *)
(***************************************************************************)
THEOREM ConversationStaysInWorkspace == Spec => []WorkspaceKept
<1>1. Sound /\ Settled => WorkspaceKept
  <2> SUFFICES ASSUME Sound, Settled, NEW q \in Messages, Continues(q)
               PROVE  SameSession(q)
    BY DEF WorkspaceKept
  <2>1. ws[q] # None
    <3>1. ws[q] \in Workspaces
      BY DEF Sound, PcSound, Continues
    <3> QED BY <3>1, NoneAssumption
  <2> QED BY <2>1 DEF Settled, BecauseSame
<1> QED BY SettledInvariant, <1>1, PTL

(***************************************************************************)
(* ... and /status tells of one workspace and its session, unless a /use   *)
(* crossed it or the prompts the session comes from.                       *)
(***************************************************************************)
THEOREM StatusTellsTheTruth == Spec => []StatusHonest
<1>1. Sound /\ Settled => StatusHonest
  BY DEF Settled, BecauseSame, StatusHonest, ReportsActive
<1> QED BY SettledInvariant, <1>1, PTL

=============================================================================
