----------------------------- MODULE InboundProofs -----------------------------
(***************************************************************************)
(* Proofs about Inbound for any envelopes and requests, any allowed users, *)
(* and any number of repeated deliveries: its types, that what the         *)
(* platform may forget was forwarded, and what thread a reply goes to.     *)
(***************************************************************************)
EXTENDS Inbound, FiniteSetTheorems, SequenceTheorems, TLAPS

\* Slack's loop deals with one envelope at a time.
OneAtATime == Slack => \A b, c \in UnderWay : b = c

\* A message is sent because it was accepted; an envelope is read before its
\* acknowledgement, which a request has only at its end.
Stages ==
    \A b \in Ids :
        /\ stage[b] = "sending" => done[b] < Len(posted[b]) /\ Accepted(Current(b))
        /\ stage[b] = "read" => Slack
        /\ acked[b] /\ (stage[b] = "away" \/ ~Slack) =>
               stage[b] = "away" /\ done[b] = Len(posted[b])

Has(b, i) == \E k \in 1..Len(tasks) : tasks[k].message = <<b, i>>

\* A delivery has forwarded the accepted messages it is past.
Forwarded ==
    open => \A b \in Ids : \A i \in 1..done[b] : Accepted(posted[b][i]) => Has(b, i)

\* The router's tasks are made from messages, and reply in the thread they have read.
Task == [message : Ids \X Nat, at : {"working", "sending"},
         thread_ts : Ids \cup {None}, sent : SUBSET (Ids \cup {None})]
Tasks ==
    /\ tasks \in Seq(Task)
    /\ \A k \in 1..Len(tasks) :
        /\ tasks[k].message[2] \in 1..Len(posted[tasks[k].message[1]])
        /\ tasks[k].sent \subseteq {tasks[k].thread_ts}
        /\ tasks[k].at = "working" => tasks[k].sent = {}

\* An allowed user's message in channel c, with a ts.
WrittenIn(ts, c) ==
    ts \in Ids /\ posted[ts][1].chat = c /\ posted[ts][1].user \in Allowed /\ posted[ts][1].ts

\* The thread is a message, and not older than that of the k-th task.
Recent(k, ts) == ts \in Ids /\ NotBefore(k, ts)

\* With threads the one remembered for a channel is not older than the messages of
\* its tasks that have a ts.
Remembered ==
    config.use_threads =>
        /\ \A c \in Chats : thread_map[c] # None => WrittenIn(thread_map[c], c)
        /\ \A b \in Ids : stage[b] = "sending" /\ Current(b).ts => thread_map[Current(b).chat] = b
        /\ \A k \in 1..Len(tasks) : MessageOf(k).ts => Recent(k, thread_map[MessageOf(k).chat])

\* So is the one a reply has read, for the messages up to the one it answers.
InThread ==
    \A k \in 1..Len(tasks) : tasks[k].at = "sending" =>
        /\ config.use_threads
        /\ tasks[k].thread_ts # None => WrittenIn(tasks[k].thread_ts, MessageOf(k).chat)
        /\ \A j \in 1..k :
              MessageOf(j).chat = MessageOf(k).chat /\ MessageOf(j).ts
                  => Recent(j, tasks[k].thread_ts)

Sound ==
    TypeOK /\ OneAtATime /\ Stages /\ Forwarded /\ Tasks /\ Remembered /\ InThread

-----------------------------------------------------------------------------

\* A set without two elements.
LEMMA AtMostOne ==
    ASSUME NEW S, \A x, y \in S : x = y
    PROVE  Cardinality(S) <= 1
<1>1. CASE S = {}
  BY <1>1, FS_EmptySet
<1>2. CASE S # {}
  <2>1. PICK x \in S : TRUE
    BY <1>2
  <2>2. S = {x}
    BY <2>1
  <2> QED BY <2>2, FS_Singleton
<1> QED BY <1>1, <1>2

\* What is posted is a sequence of envelopes or of requests, in known chats.
LEMMA PostedForm ==
    ASSUME config \in Configs, posted \in Postings
    PROVE  /\ Len(posted) \in Nat /\ Ids = 1..Len(posted) /\ None \notin Ids
           /\ config.use_threads => Slack
           /\ \A b \in Ids :
               /\ Len(posted[b]) \in Nat
               /\ Slack => Len(posted[b]) = 1
               /\ \A i \in 1..Len(posted[b]) : posted[b][i].chat \in Chats
<1>1. PICK n \in Nat : posted \in [1..n -> Envelopes \cup Requests]
  BY BoundsAssumption DEF Postings
<1>2. posted \in Seq(Envelopes \cup Requests) /\ Len(posted) = n
  BY <1>1
<1>3. Slack => posted \in [1..MaxEnvelopes -> Envelopes]
  BY DEF Postings
<1>4. config.use_threads => Slack
  BY DEF Configs, Slack
<1>5. ASSUME NEW b \in Ids, NEW i \in 1..Len(posted[b]) PROVE posted[b][i].chat \in Chats
  BY <1>1 DEF Ids, Chats
<1>6. \A b \in Ids : Slack => Len(posted[b]) = 1
  BY <1>1, <1>3, EnvelopesAssumption DEF Ids
<1>7. \A b \in Ids : Len(posted[b]) \in Nat
  BY <1>1, EnvelopesAssumption, RequestsAssumption DEF Ids
<1> QED BY <1>1, <1>2, <1>4, <1>5, <1>6, <1>7 DEF Ids, None

\* The facts of PostedForm where they are needed.
LEMMA SoundForm ==
    ASSUME Sound
    PROVE  /\ Len(posted) \in Nat /\ Ids = 1..Len(posted) /\ None \notin Ids
           /\ config.use_threads => Slack
           /\ \A b \in Ids :
               /\ Len(posted[b]) \in Nat /\ done[b] \in Nat
               /\ Slack => Len(posted[b]) = 1
               /\ \A i \in 1..Len(posted[b]) : posted[b][i].chat \in Chats
<1>1. config \in Configs /\ posted \in Postings /\ done \in [Ids -> Nat]
  BY DEF Sound, TypeOK
<1> QED BY <1>1, PostedForm

\* Nothing has been delivered.
LEMMA InitSound == Init => Sound
<1> SUFFICES ASSUME Init PROVE Sound
  OBVIOUS
<1>1. config \in Configs /\ posted \in Postings
  BY DEF Init
<1>2. /\ Len(posted) \in Nat /\ Ids = 1..Len(posted)
      /\ \A b \in Ids : Len(posted[b]) \in Nat
  BY <1>1, PostedForm
<1>3. /\ delivered = 0 /\ repeated = 0 /\ open = TRUE
      /\ stage = [b \in Ids |-> "away"] /\ done = [b \in Ids |-> 0]
      /\ acked = [b \in Ids |-> FALSE] /\ thread_map = [c \in Chats |-> None]
      /\ tasks = <<>>
  BY DEF Init
<1>4. UnderWay = {}
  BY <1>3 DEF UnderWay
<1>5. TypeOK
  <2>1. /\ stage \in [Ids -> {"away", "read", "looking", "sending"}]
        /\ done \in [Ids -> Nat] /\ acked \in [Ids -> BOOLEAN]
        /\ \A b \in Ids : done[b] <= Len(posted[b])
        /\ thread_map \in [Chats -> Ids \cup {None}]
    BY <1>2, <1>3
  <2>2. delivered \in 0..Len(posted) /\ repeated \in 0..MaxRepeated
    BY <1>2, <1>3, BoundsAssumption
  <2>3. \A k \in 1..Len(tasks) : tasks[k].sent \subseteq Ids \cup {None}
    BY <1>3
  <2>4. Cardinality(UnderWay) <= 1
    BY <1>4, FS_EmptySet
  <2> QED BY <1>1, <1>3, <2>1, <2>2, <2>3, <2>4 DEF TypeOK
<1>6. OneAtATime /\ Stages
  BY <1>3, <1>4 DEF OneAtATime, Stages
<1>7. Forwarded /\ Tasks /\ Remembered /\ InThread
  BY <1>3 DEF Forwarded, Tasks, Remembered, InThread
<1> QED BY <1>5, <1>6, <1>7 DEF Sound

\* The message of a task is one of those posted.
LEMMA TaskForm ==
    ASSUME Sound, NEW k \in 1..Len(tasks)
    PROVE  /\ tasks[k] \in Task /\ tasks[k].message[1] \in Ids
           /\ tasks[k].message[2] \in 1..Len(posted[tasks[k].message[1]])
           /\ MessageOf(k).chat \in Chats
<1>1. tasks[k] \in Task
  BY DEF Sound, Tasks
<1>2. tasks[k].message[1] \in Ids
  BY <1>1 DEF Task
<1>3. tasks[k].message[2] \in 1..Len(posted[tasks[k].message[1]])
  BY DEF Sound, Tasks
<1> QED BY <1>1, <1>2, <1>3, SoundForm DEF MessageOf

\* A task that came before another is a task.
LEMMA Earlier ==
    ASSUME Sound, NEW k \in 1..Len(tasks), NEW j \in 1..k
    PROVE  j \in 1..Len(tasks)
<1>1. Len(tasks) \in Nat
  BY DEF Sound, Tasks
<1> QED BY <1>1

\* A step that leaves the tasks alone, and no message in the middle of its send.
LEMMA RepliesKept ==
    ASSUME Sound, UNCHANGED <<config, posted, tasks, thread_map, open>>,
           \A b \in Ids : stage'[b] = "sending" <=> stage[b] = "sending",
           \A b \in Ids : stage[b] = "sending" => done'[b] = done[b]
    PROVE  Tasks' /\ Remembered' /\ InThread'
<1>1. Tasks'
  BY DEF Sound, Tasks, Task, Ids
<1>2. \A k \in 1..Len(tasks) : \A ts : Recent(k, ts) => Recent(k, ts)'
  BY DEF Recent, NotBefore, Ids
<1>3. \A ts, c : WrittenIn(ts, c) => WrittenIn(ts, c)'
  BY DEF WrittenIn, Ids
<1>4. \A k \in 1..Len(tasks) : MessageOf(k)' = MessageOf(k)
  BY DEF MessageOf
<1>5. Remembered'
  BY <1>2, <1>3, <1>4 DEF Sound, Remembered, Current, Ids
<1>6. InThread'
  BY <1>2, <1>3, <1>4, Earlier DEF Sound, InThread
<1> QED BY <1>1, <1>5, <1>6

\* The router's receiver is dropped.
LEMMA CloseSound ==
    ASSUME Sound, Close
    PROVE  Sound'
<1> USE DEF Close
<1>1. TypeOK'
  BY DEF Sound, TypeOK, Ids, Slack, Postings, UnderWay
<1>2. OneAtATime' /\ Stages'
  BY DEF Sound, OneAtATime, Stages, UnderWay, Ids, Slack, Current
<1>3. Forwarded' /\ Tasks'
  BY DEF Sound, Forwarded, Tasks, Task, Ids
<1>4. Remembered'
  BY DEF Sound, Remembered, Recent, NotBefore, WrittenIn, Current, MessageOf, Ids
<1>5. InThread'
  BY DEF Sound, InThread, Recent, NotBefore, WrittenIn, MessageOf, Ids
<1> QED BY <1>1, <1>2, <1>3, <1>4, <1>5 DEF Sound

\* A delivery begins: slack's while no other is under way.
LEMMA DeliverSound ==
    ASSUME Sound, NEW b \in Ids, Read(b) \/ Receive(b)
    PROVE  Sound'
<1>1. /\ ~acked[b] /\ stage[b] = "away"
      /\ done' = [done EXCEPT ![b] = 0]
      /\ UNCHANGED <<config, posted, acked, thread_map, tasks, open>>
      /\ \/ Slack /\ UnderWay = {} /\ stage' = [stage EXCEPT ![b] = "read"]
         \/ ~Slack /\ stage' = [stage EXCEPT ![b] = "looking"]
  BY DEF Read, Receive, Deliver, Goto
<1>2. delivered' \in 0..Len(posted) /\ repeated' \in 0..MaxRepeated
  BY SoundForm, BoundsAssumption DEF Read, Receive, Deliver, Sound, TypeOK
<1>3. stage' \in [Ids -> {"away", "read", "looking", "sending"}] /\ done' \in [Ids -> Nat]
  BY <1>1 DEF Sound, TypeOK
<1>4. /\ stage'[b] \in {"read", "looking"} /\ done'[b] = 0 /\ (stage'[b] = "read" => Slack)
      /\ \A c \in Ids : c # b => stage'[c] = stage[c] /\ done'[c] = done[c]
  BY <1>1 DEF Sound, TypeOK
<1>5. OneAtATime'
  BY <1>1, <1>4 DEF Sound, OneAtATime, UnderWay, Ids, Slack
<1>6. Stages'
  BY <1>1, <1>4 DEF Sound, Stages, Ids, Slack, Current
<1>7. TypeOK'
  <2>1. Slack' => Cardinality(UnderWay') <= 1
    BY <1>5, AtMostOne DEF OneAtATime
  <2>2. \A c \in Ids : done'[c] <= Len(posted[c])
    <3>1. \A c \in Ids : done[c] <= Len(posted[c])
      BY DEF Sound, TypeOK
    <3> QED BY <1>4, <3>1, SoundForm
  <2> QED BY <1>1, <1>2, <1>3, <2>1, <2>2 DEF Sound, TypeOK, Ids, Postings, Slack
<1>8. Forwarded'
  <2>1. \A c \in Ids : \A i \in 1..done'[c] : i \in 1..done[c]
    BY <1>4, SoundForm
  <2> QED BY <1>1, <2>1 DEF Sound, Forwarded, Has, Ids
<1>9. Tasks' /\ Remembered' /\ InThread'
  BY <1>1, <1>4, RepliesKept
<1> QED BY <1>5, <1>6, <1>7, <1>8, <1>9 DEF Sound

\* An envelope is acknowledged, before anything else is done with it.
LEMMA AckSound ==
    ASSUME Sound, NEW b \in Ids, Ack(b)
    PROVE  Sound'
<1>1. /\ stage[b] = "read" /\ stage' = [stage EXCEPT ![b] = "looking"]
      /\ UNCHANGED <<config, posted, delivered, repeated, done, thread_map, tasks, open>>
  BY DEF Ack, Goto
<1>2. PICK arrives \in BOOLEAN : acked' = [acked EXCEPT ![b] = arrives]
  BY DEF Ack
<1>3. /\ stage' \in [Ids -> {"away", "read", "looking", "sending"}]
      /\ acked' \in [Ids -> BOOLEAN]
      /\ stage'[b] = "looking" /\ \A c \in Ids : c # b => stage'[c] = stage[c] /\ acked'[c] = acked[c]
  BY <1>1, <1>2 DEF Sound, TypeOK
<1>4. UnderWay' = UnderWay
  BY <1>1, <1>3 DEF UnderWay, Ids
<1>5. Slack
  BY <1>1 DEF Sound, Stages
<1>6. TypeOK' /\ OneAtATime'
  BY <1>1, <1>3, <1>4 DEF Sound, TypeOK, OneAtATime, Ids, Postings, Slack
<1>7. Stages'
  BY <1>1, <1>3, <1>5 DEF Sound, Stages, Ids, Slack, Current
<1>8. Forwarded'
  BY <1>1 DEF Sound, Forwarded, Has, Ids
<1>9. Tasks' /\ Remembered' /\ InThread'
  BY <1>1, <1>3, RepliesKept
<1> QED BY <1>6, <1>7, <1>8, <1>9 DEF Sound

\* A message that is not accepted is passed over.
LEMMA SkipSound ==
    ASSUME Sound, NEW b \in Ids, Skip(b)
    PROVE  Sound'
<1>1. /\ stage[b] = "looking" /\ done[b] < Len(posted[b]) /\ ~Accepted(posted[b][done[b] + 1])
      /\ done' = [done EXCEPT ![b] = @ + 1]
      /\ UNCHANGED <<config, posted, delivered, repeated, stage, acked, thread_map, tasks, open>>
  BY DEF Skip, AtMessage, Current
<1>2. /\ done' \in [Ids -> Nat] /\ done'[b] = done[b] + 1
      /\ \A c \in Ids : c # b => done'[c] = done[c]
  BY <1>1 DEF Sound, TypeOK
<1>3. TypeOK' /\ OneAtATime'
  <2>1. \A c \in Ids : done'[c] <= Len(posted[c])
    BY <1>1, <1>2, SoundForm DEF Sound, TypeOK
  <2>2. UnderWay' = UnderWay
    BY <1>1 DEF UnderWay, Ids
  <2> QED BY <1>1, <1>2, <2>1, <2>2 DEF Sound, TypeOK, OneAtATime, Ids, Postings, Slack
<1>4. Stages'
  BY <1>1, <1>2 DEF Sound, Stages, Ids, Slack, Current
<1>5. Forwarded'
  <2> SUFFICES ASSUME open, NEW c \in Ids, NEW i \in 1..done'[c], Accepted(posted[c][i])
               PROVE  Has(c, i)
    BY <1>1 DEF Forwarded, Has, Ids
  <2>1. i \in 1..done[c]
    BY <1>1, <1>2, SoundForm
  <2> QED BY <2>1 DEF Sound, Forwarded
<1>6. Tasks' /\ Remembered' /\ InThread'
  BY <1>1, <1>2, RepliesKept
<1> QED BY <1>3, <1>4, <1>5, <1>6 DEF Sound

\* A delivery ends: what is acknowledged then is past all its messages.
LEMMA FinishSound ==
    ASSUME Sound, NEW b \in Ids, Finish(b) \/ Cut(b)
    PROVE  Sound'
<1>1. /\ b \in UnderWay /\ stage' = [stage EXCEPT ![b] = "away"]
      /\ UNCHANGED <<config, posted, delivered, repeated, done, thread_map, tasks, open>>
      /\ \/ stage[b] = "looking" /\ done[b] = Len(posted[b])
            /\ acked' = [acked EXCEPT ![b] = @ \/ ~Slack]
         \/ ~Slack /\ UNCHANGED acked
  BY DEF Finish, Cut, Goto, UnderWay
<1>2. /\ stage' \in [Ids -> {"away", "read", "looking", "sending"}]
      /\ acked' \in [Ids -> BOOLEAN]
      /\ stage'[b] = "away"
      /\ \A c \in Ids : c # b => stage'[c] = stage[c] /\ acked'[c] = acked[c]
  BY <1>1 DEF Sound, TypeOK
<1>3. UnderWay' \subseteq UnderWay
  BY <1>2, <1>1 DEF UnderWay, Ids
<1>4. OneAtATime'
  BY <1>1, <1>3 DEF Sound, OneAtATime, Slack
<1>5. TypeOK'
  <2>1. Slack' => Cardinality(UnderWay') <= 1
    BY <1>4, AtMostOne DEF OneAtATime
  <2> QED BY <1>1, <1>2, <2>1 DEF Sound, TypeOK, Ids, Postings, Slack
<1>6. Stages'
  BY <1>1, <1>2 DEF Sound, Stages, Ids, Slack, Current, UnderWay
<1>7. Forwarded'
  BY <1>1 DEF Sound, Forwarded, Has, Ids
<1>8. Tasks' /\ Remembered' /\ InThread'
  <2>1. CASE stage[b] = "looking"
    BY <1>1, <1>2, <2>1, RepliesKept
  <2>2. CASE ~Slack
    <3>1. ~config.use_threads
      BY <2>2, SoundForm
    <3>2. Tasks' /\ Remembered'
      BY <1>1, <3>1 DEF Sound, Tasks, Task, Remembered, Ids
    <3>3. InThread'
      BY <1>1, <3>1 DEF Sound, InThread
    <3> QED BY <3>2, <3>3
  <2> QED BY <1>1, <2>1, <2>2
<1> QED BY <1>4, <1>5, <1>6, <1>7, <1>8 DEF Sound

\* An accepted message becomes the thread of its channel before it is sent.
LEMMA AcceptSound ==
    ASSUME Sound, NEW b \in Ids, Accept(b)
    PROVE  Sound'
<1>1. /\ stage[b] = "looking" /\ done[b] < Len(posted[b]) /\ Accepted(Current(b))
      /\ stage' = [stage EXCEPT ![b] = "sending"]
      /\ thread_map' = IF config.use_threads /\ Current(b).ts
                       THEN [thread_map EXCEPT ![Current(b).chat] = b] ELSE thread_map
      /\ UNCHANGED <<config, posted, delivered, repeated, done, acked, tasks, open>>
  BY DEF Accept, AtMessage, Goto
<1>2. /\ stage' \in [Ids -> {"away", "read", "looking", "sending"}]
      /\ stage'[b] = "sending" /\ \A c \in Ids : c # b => stage'[c] = stage[c]
  BY <1>1 DEF Sound, TypeOK
<1>3. UnderWay' = UnderWay /\ b \in UnderWay
  BY <1>1, <1>2 DEF UnderWay, Ids
<1>4. done[b] + 1 \in 1..Len(posted[b]) /\ Current(b).chat \in Chats
  BY <1>1, SoundForm DEF Current
<1>5. thread_map' \in [Chats -> Ids \cup {None}]
  BY <1>1 DEF Sound, TypeOK
<1>6. TypeOK' /\ OneAtATime'
  BY <1>1, <1>2, <1>3, <1>5 DEF Sound, TypeOK, OneAtATime, Ids, Postings, Slack
<1>7. Stages'
  BY <1>1, <1>2 DEF Sound, Stages, Ids, Slack, Current
<1>8. Forwarded' /\ Tasks'
  BY <1>1 DEF Sound, Forwarded, Tasks, Task, Has, Ids
<1>9. \A k \in 1..Len(tasks) : \A ts : Recent(k, ts) => Recent(k, ts)'
  BY <1>1, <1>2 DEF Recent, NotBefore, Ids
<1>10. \A ts, c : WrittenIn(ts, c)' <=> WrittenIn(ts, c)
  BY <1>1 DEF WrittenIn, Ids
<1>11. \A k \in 1..Len(tasks) : MessageOf(k)' = MessageOf(k)
  BY <1>1 DEF MessageOf
<1>12. Remembered'
  <2> SUFFICES ASSUME config.use_threads PROVE Remembered'
    BY <1>1 DEF Remembered
  <2>1. Current(b)' = Current(b)
    BY <1>1 DEF Current
  <2>2. \A c \in Ids : stage'[c] = "sending" => c = b
    BY <1>2, <1>3, SoundForm DEF Sound, OneAtATime, UnderWay
  <2>3. CASE ~Current(b).ts
    <3>1. UNCHANGED thread_map
      BY <1>1, <2>3
    <3>2. \A k \in 1..Len(tasks) :
             MessageOf(k).ts => Recent(k, thread_map[MessageOf(k).chat])'
      BY <1>9, <1>11, <3>1 DEF Sound, Remembered
    <3>3. \A c \in Chats : thread_map[c] # None => WrittenIn(thread_map[c], c)'
      BY <1>10, <3>1 DEF Sound, Remembered
    <3> QED BY <1>1, <1>11, <2>1, <2>2, <2>3, <3>1, <3>2, <3>3 DEF Remembered, Ids
  <2>4. CASE Current(b).ts
    <3>1. /\ thread_map'[Current(b).chat] = b
          /\ \A c \in Chats : c # Current(b).chat => thread_map'[c] = thread_map[c]
      BY <1>1, <1>4, <2>4 DEF Sound, TypeOK
    <3>2. WrittenIn(b, Current(b).chat) /\ b # None
      <4>1. done[b] + 1 = 1 /\ Current(b) = posted[b][1]
        BY <1>4, SoundForm DEF Current
      <4> QED BY <1>1, <2>4, <4>1, SoundForm DEF WrittenIn, Accepted, is_allowed
    <3>3. \A c \in Chats : thread_map'[c] # None => WrittenIn(thread_map'[c], c)
      BY <3>1, <3>2 DEF Sound, Remembered
    <3>4. ASSUME NEW k \in 1..Len(tasks), MessageOf(k).ts
          PROVE  \E ts \in Ids : thread_map'[MessageOf(k).chat] = ts /\ Recent(k, ts)'
      <4>1. CASE MessageOf(k).chat = Current(b).chat
        <5>1. Recent(k, b)'
          BY <1>1, <1>2 DEF Recent, NotBefore, Ids
        <5> QED BY <3>1, <4>1, <5>1
      <4>2. CASE MessageOf(k).chat # Current(b).chat
        <5>1. PICK ts \in Ids : thread_map[MessageOf(k).chat] = ts /\ Recent(k, ts)
          BY <3>4 DEF Sound, Remembered, Recent
        <5>2. thread_map'[MessageOf(k).chat] = ts
          BY <3>1, <4>2, <5>1, TaskForm
        <5> QED BY <1>9, <5>1, <5>2
      <4> QED BY <4>1, <4>2
    <3>5. \A k \in 1..Len(tasks') :
             MessageOf(k)'.ts => Recent(k, thread_map[MessageOf(k).chat])'
      BY <1>1, <1>11, <3>4 DEF Recent, NotBefore, Ids
    <3>6. \A c \in Chats : thread_map'[c] # None => WrittenIn(thread_map[c], c)'
      BY <1>10, <3>3 DEF WrittenIn
    <3> QED BY <1>1, <2>1, <2>2, <3>1, <3>5, <3>6 DEF Remembered, Ids
  <2> QED BY <2>3, <2>4
<1>13. InThread'
  BY <1>1, <1>9, <1>10, <1>11, Earlier DEF Sound, InThread
<1> QED BY <1>6, <1>7, <1>8, <1>12, <1>13 DEF Sound

\* The message is handed to the router, which makes a task of it.
LEMMA ForwardSound ==
    ASSUME Sound, NEW b \in Ids, Forward(b)
    PROVE  Sound'
<1> DEFINE task == [message |-> <<b, done[b] + 1>>, at |-> "working",
                    thread_ts |-> None, sent |-> {}]
<1>1. /\ stage[b] = "sending" /\ stage' = [stage EXCEPT ![b] = "looking"]
      /\ done' = [done EXCEPT ![b] = @ + 1]
      /\ tasks' = IF open THEN Append(tasks, task) ELSE tasks
      /\ UNCHANGED <<config, posted, delivered, repeated, acked, thread_map, open>>
  BY DEF Forward, Goto
<1>2. /\ done[b] < Len(posted[b]) /\ Accepted(Current(b))
      /\ done[b] \in Nat /\ done[b] + 1 \in 1..Len(posted[b])
  BY <1>1, SoundForm DEF Sound, Stages
<1>3. /\ stage' \in [Ids -> {"away", "read", "looking", "sending"}] /\ done' \in [Ids -> Nat]
      /\ stage'[b] = "looking" /\ done'[b] = done[b] + 1
      /\ \A c \in Ids : c # b => stage'[c] = stage[c] /\ done'[c] = done[c]
  BY <1>1 DEF Sound, TypeOK
<1>4. UnderWay' = UnderWay
  BY <1>1, <1>3 DEF UnderWay, Ids
<1>5. task \in Task /\ task.message = <<b, done[b] + 1>> /\ task.at = "working" /\ task.sent = {}
  BY <1>2 DEF Task
<1> HIDE DEF task
<1>6. /\ Len(tasks) \in Nat /\ tasks' \in Seq(Task)
      /\ Len(tasks') = IF open THEN Len(tasks) + 1 ELSE Len(tasks)
      /\ \A k \in 1..Len(tasks) : tasks'[k] = tasks[k]
      /\ open => tasks'[Len(tasks) + 1] = task
  BY <1>1, <1>5 DEF Sound, Tasks
<1>7. \A k \in 1..Len(tasks') : k \in 1..Len(tasks) \/ (open /\ k = Len(tasks) + 1)
  BY <1>6
<1>8. Tasks'
  <2>1. \A k \in 1..Len(tasks) :
           /\ tasks'[k].message[2] \in 1..Len(posted[tasks'[k].message[1]])
           /\ tasks'[k].sent \subseteq {tasks'[k].thread_ts}
           /\ tasks'[k].at = "working" => tasks'[k].sent = {}
    BY <1>6 DEF Sound, Tasks
  <2>2. Task' = Task
    BY <1>1 DEF Task, Ids
  <2> QED BY <1>1, <1>2, <1>5, <1>6, <1>7, <2>1, <2>2 DEF Tasks
<1>9. TypeOK' /\ OneAtATime'
  <2>1. \A c \in Ids : done'[c] <= Len(posted[c])
    <3>1. \A c \in Ids : done[c] <= Len(posted[c])
      BY DEF Sound, TypeOK
    <3> QED BY <1>2, <1>3, <3>1, SoundForm
  <2>2. \A k \in 1..Len(tasks') : tasks'[k].sent \subseteq Ids \cup {None}
    BY <1>5, <1>6, <1>7 DEF Sound, TypeOK
  <2> QED BY <1>1, <1>3, <1>4, <2>1, <2>2 DEF Sound, TypeOK, OneAtATime, Ids, Postings, Slack
<1>10. Stages'
  BY <1>1, <1>3 DEF Sound, Stages, Ids, Slack, Current
<1>11. Forwarded'
  <2> SUFFICES ASSUME open, NEW c \in Ids, NEW i \in 1..done'[c], Accepted(posted[c][i])
               PROVE  Has(c, i)'
    BY <1>1 DEF Forwarded, Ids, Accepted
  <2>1. CASE c = b /\ i = done[b] + 1
    <3>1. Len(tasks) + 1 \in 1..Len(tasks') /\ tasks'[Len(tasks) + 1].message = <<c, i>>
      BY <1>5, <1>6, <2>1
    <3> QED BY <3>1 DEF Has
  <2>2. CASE ~(c = b /\ i = done[b] + 1)
    <3>1. i \in 1..done[c]
      BY <1>2, <1>3, <2>2, SoundForm
    <3>2. Has(c, i)
      BY <3>1 DEF Sound, Forwarded
    <3> QED BY <1>6, <3>2 DEF Has
  <2> QED BY <2>1, <2>2
<1>12. \A k \in 1..Len(tasks) : \A ts : Recent(k, ts) => Recent(k, ts)'
  <2> SUFFICES ASSUME NEW k \in 1..Len(tasks), NEW ts \in Ids, NotBefore(k, ts), open
               PROVE  NotBefore(k, ts)'
    BY <1>1 DEF Recent, NotBefore, Ids
  <2>1. CASE \E j \in k..Len(tasks) : tasks[j].message[1] = ts
    BY <1>6, <2>1 DEF NotBefore
  <2>2. CASE stage[ts] = "sending" /\ ts # b
    BY <1>3, <2>2 DEF NotBefore
  <2>3. CASE ts = b
    <3>1. Len(tasks) + 1 \in k..Len(tasks') /\ tasks'[Len(tasks) + 1].message[1] = ts
      BY <1>5, <1>6, <2>3
    <3> QED BY <3>1 DEF NotBefore
  <2> QED BY <2>1, <2>2, <2>3 DEF NotBefore
<1>13. \A ts, c : WrittenIn(ts, c)' <=> WrittenIn(ts, c)
  BY <1>1 DEF WrittenIn, Ids
<1>14. \A k \in 1..Len(tasks) : MessageOf(k)' = MessageOf(k)
  BY <1>1, <1>6 DEF MessageOf
<1>15. Remembered'
  <2> SUFFICES ASSUME config.use_threads PROVE Remembered'
    BY <1>1 DEF Remembered
  <2>1. \A c \in Ids : stage'[c] = "sending" => c # b /\ stage[c] = "sending" /\ Current(c)' = Current(c)
    BY <1>1, <1>3 DEF Current
  <2>2. ASSUME NEW k \in 1..Len(tasks), MessageOf(k).ts
        PROVE  \E ts \in Ids : thread_map[MessageOf(k).chat] = ts /\ Recent(k, ts)'
    <3>1. PICK ts \in Ids : thread_map[MessageOf(k).chat] = ts /\ Recent(k, ts)
      BY <2>2 DEF Sound, Remembered, Recent
    <3> QED BY <1>12, <3>1
  <2>3. ASSUME open, NEW n \in 1..Len(tasks'), n = Len(tasks) + 1
        PROVE  /\ MessageOf(n)' = Current(b)
               /\ Current(b).ts => thread_map[Current(b).chat] = b
               /\ Recent(n, b)'
    <3>1. tasks'[n].message[1] = b /\ tasks'[n].message[2] = done[b] + 1 /\ n \in n..Len(tasks')
      BY <1>5, <1>6, <2>3
    <3>2. MessageOf(n)' = Current(b)
      BY <1>1, <3>1 DEF MessageOf, Current
    <3>3. Current(b).ts => thread_map[Current(b).chat] = b
      BY <1>1 DEF Sound, Remembered
    <3>4. Recent(n, b)'
      BY <1>1, <3>1 DEF Recent, NotBefore, Ids
    <3> QED BY <3>2, <3>3, <3>4
  <2>4. ASSUME NEW k \in 1..Len(tasks'), MessageOf(k)'.ts
        PROVE  \E ts \in Ids : thread_map[MessageOf(k)'.chat] = ts /\ Recent(k, ts)'
    <3>1. CASE k \in 1..Len(tasks)
      BY <1>14, <2>2, <2>4, <3>1
    <3>2. CASE open /\ k = Len(tasks) + 1
      BY <2>3, <2>4, <3>2
    <3> QED BY <1>7, <3>1, <3>2
  <2>5. \A k \in 1..Len(tasks') :
           MessageOf(k)'.ts => Recent(k, thread_map[MessageOf(k).chat])'
    BY <1>1, <2>4 DEF Recent, NotBefore, Ids
  <2>6. \A c \in Chats : thread_map'[c] # None => WrittenIn(thread_map[c], c)'
    BY <1>1, <1>13 DEF Sound, Remembered, WrittenIn
  <2> QED BY <1>1, <2>1, <2>5, <2>6 DEF Sound, Remembered, Ids
<1>16. InThread'
  <2> SUFFICES ASSUME NEW k \in 1..Len(tasks'), tasks'[k].at = "sending"
               PROVE  /\ config.use_threads
                      /\ tasks'[k].thread_ts # None
                             => WrittenIn(tasks[k].thread_ts, MessageOf(k).chat)'
                      /\ \A j \in 1..k :
                            MessageOf(j)'.chat = MessageOf(k)'.chat /\ MessageOf(j)'.ts
                                => Recent(j, tasks[k].thread_ts)'
    BY <1>1 DEF InThread
  <2>1. k \in 1..Len(tasks) /\ tasks'[k] = tasks[k]
    BY <1>5, <1>6, <1>7
  <2>2. PICK ts : ts = tasks[k].thread_ts
    OBVIOUS
  <2>3. config.use_threads /\ (ts # None => WrittenIn(ts, MessageOf(k)'.chat))
    BY <1>14, <2>1, <2>2 DEF Sound, InThread
  <2>4. \A j \in 1..k : MessageOf(j)'.chat = MessageOf(k)'.chat /\ MessageOf(j)'.ts
                             => Recent(j, ts)'
    BY <1>12, <1>14, <2>1, <2>2, Earlier DEF Sound, InThread
  <2>5. ts # None => WrittenIn(tasks[k].thread_ts, MessageOf(k).chat)'
    BY <1>13, <2>1, <2>2, <2>3 DEF WrittenIn
  <2>6. \A j \in 1..k : Recent(j, ts)' => Recent(j, tasks[k].thread_ts)'
    BY <2>1, <2>2 DEF Recent, NotBefore
  <2> QED BY <2>1, <2>2, <2>3, <2>4, <2>5, <2>6
<1> QED BY <1>8, <1>9, <1>10, <1>11, <1>15, <1>16 DEF Sound

\* A reply reads its thread, or posts one more chunk in it.
LEMMA ReplySound ==
    ASSUME Sound, NEW k \in 1..Len(tasks), BeginReply(k) \/ PostChunk(k)
    PROVE  Sound'
<1>1. UNCHANGED <<config, posted, delivered, repeated, stage, done, acked, thread_map, open>>
  BY DEF BeginReply, PostChunk, OnlyTask
<1> DEFINE ts == IF tasks[k].at = "working" THEN thread_map[MessageOf(k).chat]
                 ELSE tasks[k].thread_ts
<1>2. PICK task : /\ tasks' = [tasks EXCEPT ![k] = task]
                  /\ task \in Task /\ task.message = tasks[k].message /\ task.at = "sending"
                  /\ task.thread_ts = ts /\ task.sent \subseteq {ts}
                  /\ config.use_threads
  <2>1. /\ tasks[k] \in Task /\ MessageOf(k).chat \in Chats
        /\ tasks[k].sent \subseteq {tasks[k].thread_ts}
        /\ tasks[k].at = "working" => tasks[k].sent = {}
    BY TaskForm DEF Sound, Tasks
  <2>2. CASE BeginReply(k)
    <3> DEFINE new == [tasks[k] EXCEPT !.at = "sending", !.thread_ts = ts]
    <3>1. tasks' = [tasks EXCEPT ![k] = new] /\ config.use_threads /\ tasks[k].at = "working"
      BY <2>2 DEF BeginReply, OnlyTask
    <3>2. ts \in Ids \cup {None}
      BY <2>1, <3>1 DEF Sound, TypeOK
    <3>3. /\ new \in Task /\ new.message = tasks[k].message /\ new.at = "sending"
          /\ new.thread_ts = ts /\ new.sent \subseteq {ts}
      BY <2>1, <3>1, <3>2 DEF Task
    <3> QED BY <3>1, <3>3
  <2>3. CASE PostChunk(k)
    <3> DEFINE new == [tasks[k] EXCEPT !.sent = @ \cup {tasks[k].thread_ts}]
    <3>1. tasks' = [tasks EXCEPT ![k] = new] /\ tasks[k].at = "sending"
      BY <2>3 DEF PostChunk, OnlyTask
    <3>2. /\ new \in Task /\ new.message = tasks[k].message /\ new.at = "sending"
          /\ new.thread_ts = ts /\ new.sent \subseteq {ts}
      BY <2>1, <3>1 DEF Task
    <3>3. config.use_threads
      BY <3>1 DEF Sound, InThread
    <3> QED BY <3>1, <3>2, <3>3
  <2> QED BY <2>2, <2>3
<1>3. /\ Len(tasks) \in Nat /\ tasks' \in Seq(Task) /\ Len(tasks') = Len(tasks)
      /\ tasks'[k] = task /\ \A j \in 1..Len(tasks) : j # k => tasks'[j] = tasks[j]
      /\ \A j \in 1..Len(tasks) : tasks'[j].message = tasks[j].message
  BY <1>2 DEF Sound, Tasks
<1>4. /\ ts \in Ids \cup {None} /\ (ts # None => WrittenIn(ts, MessageOf(k).chat))
      /\ \A j \in 1..k : MessageOf(j).chat = MessageOf(k).chat /\ MessageOf(j).ts
                           => Recent(j, ts)
  <2>1. CASE tasks[k].at = "working"
    <3>1. MessageOf(k).chat \in Chats
      BY TaskForm
    <3> QED BY <1>2, <2>1, <3>1, Earlier DEF Sound, TypeOK, Remembered
  <2>2. CASE tasks[k].at # "working"
    <3>1. tasks[k].at = "sending" /\ ts \in Ids \cup {None}
      BY <2>2, TaskForm DEF Task
    <3> QED BY <2>2, <3>1 DEF Sound, InThread
  <2> QED BY <2>1, <2>2
<1> HIDE DEF ts
<1>5. Tasks'
  <2>1. Task' = Task
    BY <1>1 DEF Task, Ids
  <2> QED BY <1>1, <1>2, <1>3, <2>1 DEF Sound, Tasks
<1>6. TypeOK' /\ OneAtATime' /\ Stages'
  <2>1. \A j \in 1..Len(tasks') : tasks'[j].sent \subseteq Ids \cup {None}
    BY <1>2, <1>3, <1>4 DEF Sound, TypeOK
  <2>2. UnderWay' = UnderWay
    BY <1>1 DEF UnderWay, Ids
  <2>3. Stages'
    BY <1>1 DEF Sound, Stages, Ids, Slack, Current
  <2> QED BY <1>1, <2>1, <2>2, <2>3 DEF Sound, TypeOK, OneAtATime, Ids, Postings, Slack
<1>7. Forwarded'
  <2>1. \A b, i : Has(b, i)' <=> Has(b, i)
    BY <1>3 DEF Has
  <2> QED BY <1>1, <2>1 DEF Sound, Forwarded, Ids
<1>8. \A j \in 1..Len(tasks) : \A t : Recent(j, t) => Recent(j, t)'
  BY <1>1, <1>3 DEF Recent, NotBefore, Ids
<1>9. \A t, c : WrittenIn(t, c)' <=> WrittenIn(t, c)
  BY <1>1 DEF WrittenIn, Ids
<1>10. \A j \in 1..Len(tasks) : MessageOf(j)' = MessageOf(j)
  BY <1>1, <1>3 DEF MessageOf
<1>11. Remembered'
  <2>1. \A b \in Ids : Current(b)' = Current(b)
    BY <1>1 DEF Current
  <2>2. \A c \in Chats : thread_map[c] # None /\ WrittenIn(thread_map[c], c)
                         => WrittenIn(thread_map[c], c)'
    BY <1>1, <1>9 DEF WrittenIn, Ids
  <2>3. \A j \in 1..Len(tasks) :
          Recent(j, thread_map[MessageOf(j).chat]) => Recent(j, thread_map[MessageOf(j).chat])'
    BY <1>1, <1>8, <1>10 DEF Recent, NotBefore, Ids
  <2> QED BY <1>1, <1>3, <1>10, <2>1, <2>2, <2>3 DEF Sound, Remembered, Ids
<1>12. InThread'
  <2> SUFFICES ASSUME NEW n \in 1..Len(tasks), tasks'[n].at = "sending"
               PROVE  \E t \in Ids \cup {None} :
                         /\ tasks'[n].thread_ts = t
                         /\ t # None => WrittenIn(t, MessageOf(n).chat)
                         /\ \A j \in 1..n :
                               MessageOf(j).chat = MessageOf(n).chat /\ MessageOf(j).ts
                                   => Recent(j, t)
    <3>1. \A n \in 1..Len(tasks) : \A j \in 1..n : j \in 1..Len(tasks)
      BY Earlier
    <3> QED BY <1>1, <1>2, <1>3, <1>8, <1>10, <3>1 DEF InThread, WrittenIn, Recent, NotBefore, Ids
  <2>1. CASE n = k
    BY <1>2, <1>3, <1>4, <2>1
  <2>2. CASE n # k
    <3>1. tasks[n].thread_ts \in Ids \cup {None}
      BY TaskForm DEF Task
    <3> QED BY <1>3, <2>2, <3>1 DEF Sound, InThread
  <2> QED BY <2>1, <2>2
<1> QED BY <1>5, <1>6, <1>7, <1>11, <1>12 DEF Sound

\* Every step keeps the invariant.
LEMMA StepSound == Sound /\ [Next]_vars => Sound'
<1> SUFFICES ASSUME Sound, [Next]_vars PROVE Sound'
  OBVIOUS
<1>1. CASE Close
  BY <1>1, CloseSound
<1>2. ASSUME NEW b \in Ids,
             Read(b) \/ Receive(b) \/ Ack(b) \/ Skip(b) \/ Accept(b)
                 \/ Forward(b) \/ Finish(b) \/ Cut(b)
      PROVE  Sound'
  BY <1>2, DeliverSound, AckSound, SkipSound, AcceptSound, ForwardSound, FinishSound
<1>3. ASSUME NEW k \in 1..Len(tasks), BeginReply(k) \/ PostChunk(k)
      PROVE  Sound'
  BY <1>3, ReplySound
<1>4. CASE UNCHANGED vars
  <2> USE <1>4 DEF vars
  <2>1. TypeOK' /\ OneAtATime' /\ Stages'
    BY DEF Sound, TypeOK, OneAtATime, Stages, UnderWay, Current, Ids, Slack, Postings
  <2>2. Forwarded' /\ Tasks'
    BY DEF Sound, Forwarded, Has, Tasks, Task, Ids
  <2>3. Remembered' /\ InThread'
    BY RepliesKept
  <2> QED BY <2>1, <2>2, <2>3 DEF Sound
<1> QED BY <1>1, <1>2, <1>3, <1>4 DEF Next

\* The invariant holds in every reachable state.
LEMMA AlwaysSound == Spec => []Sound
<1> QED BY InitSound, StepSound, PTL DEF Spec

-----------------------------------------------------------------------------

\* The types of the providers' state, and slack's one envelope at a time.
THEOREM TypeCorrect == Spec => []TypeOK
<1>1. Sound => TypeOK
  BY DEF Sound
<1> QED BY <1>1, AlwaysSound, PTL

\* Whatever the platform delivers again, or cuts short: what it may forget has
\* reached the router, as long as that receives.
THEOREM NothingForgotten == Spec => []AckedMeansForwarded
<1>1. Sound => AckedMeansForwarded
  <2> SUFFICES ASSUME Sound, open, NEW b \in Ids, acked[b], b \notin UnderWay,
                      NEW i \in 1..Len(posted[b]), Accepted(posted[b][i])
               PROVE  Has(b, i)
    BY DEF AckedMeansForwarded, Has
  <2>1. stage[b] = "away"
    BY DEF Sound, TypeOK, UnderWay
  <2>2. done[b] = Len(posted[b])
    BY <2>1 DEF Sound, Stages
  <2> QED BY <2>2 DEF Sound, Forwarded
<1> QED BY <1>1, AlwaysSound, PTL

\* All chunks of a reply go to the thread that was read at its beginning.
THEOREM RepliesInOneThread == Spec => []OneThread
<1>1. Sound => OneThread
  <2> SUFFICES ASSUME Sound, NEW k \in 1..Len(tasks) PROVE Cardinality(tasks[k].sent) <= 1
    BY DEF OneThread
  <2>1. \A x, y \in tasks[k].sent : x = y
    BY DEF Sound, Tasks
  <2> QED BY <2>1, AtMostOne
<1> QED BY <1>1, AlwaysSound, PTL

\* The thread is an allowed user's message in the channel of the one answered, no
\* older than any message with a ts that was taken up to that; there is none only
\* if no such message was taken.
THEOREM RepliesToTheRightThread == Spec => []ThreadOfReply
<1>1. Sound => ThreadOfReply
  <2> SUFFICES ASSUME Sound, NEW k \in 1..Len(tasks), NEW ts \in tasks[k].sent
               PROVE  /\ ts # None => WrittenIn(ts, MessageOf(k).chat)
                      /\ \A j \in 1..k :
                            MessageOf(j).chat = MessageOf(k).chat /\ MessageOf(j).ts
                                => Recent(j, ts)
    BY SoundForm DEF ThreadOfReply, WrittenIn, Recent
  <2>1. tasks[k].at = "sending" /\ ts = tasks[k].thread_ts
    BY TaskForm DEF Sound, Tasks, Task
  <2> QED BY <2>1 DEF Sound, InThread
<1> QED BY <1>1, AlwaysSound, PTL

=============================================================================
