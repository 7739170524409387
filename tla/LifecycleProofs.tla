--------------------------- MODULE LifecycleProofs ---------------------------
(***************************************************************************)
(* Proofs about Lifecycle for every set of providers, whatever their kinds *)
(* and loads, and every capacity of the channel: its types, and that it    *)
(* implements Delivery.                                                    *)
(*                                                                         *)
(* TypeOK and the refinement need to know more: that a provider which      *)
(* forwards inline has one message under way, the last one it has taken,   *)
(* that the channel keeps the order of its messages, and that a router     *)
(* which was not told to stop has left nothing behind.                     *)
(***************************************************************************)
EXTENDS Lifecycle, TLAPS

UnderWay == {"acking", "sending"}

\* The message an inline provider is busy with is the last it has taken.
OneAtATime ==
    \A m \in Messages : Inline(m[1]) /\ where[m] \in UnderWay =>
        /\ provider[m[1]] = "busy"
        /\ \A n \in Messages : n[1] = m[1] /\ n # m =>
              where[n] \notin UnderWay /\ (m[2] < n[2] => where[n] = "peer")

\* Only inline providers acknowledge.
AckingInline == \A m \in Messages : where[m] = "acking" => Inline(m[1])

\* Messages are taken in order.
PeersLast ==
    \A m, n \in Messages : n[1] = m[1] /\ n[2] < m[2] /\ where[n] = "peer" => where[m] = "peer"

\* The channel holds a message once, and those of an inline provider in order.
QueueOrdered ==
    \A i, j \in 1..Len(queue) : i < j =>
        /\ queue[i] # queue[j]
        /\ Inline(queue[i][1]) /\ queue[i][1] = queue[j][1] => queue[i][2] < queue[j][2]

\* A router that stopped by itself was the last to stop.
Closed ==
    router # "running" /\ ~shutdown =>
        /\ \A p \in Providers : provider[p] = "stopped"
        /\ At("sending") = {} /\ queue = <<>>

Emptied == router = "exited" => queue = <<>>

Sound ==
    /\ TypeOK /\ OneAtATime /\ AckingInline /\ PeersLast /\ QueueOrdered /\ Closed /\ Emptied

-----------------------------------------------------------------------------

\* A message is a pair of a provider and a number.
LEMMA MessageForm ==
    /\ \A m \in Messages : /\ m[1] \in Providers /\ m[2] \in 1..Load[m[1]] /\ m[2] \in Nat
                           /\ m = <<m[1], m[2]>>
    /\ \A p \in Providers : \A i \in 1..Load[p] : <<p, i>> \in Messages
<1>1. ASSUME NEW m \in Messages
      PROVE  m[1] \in Providers /\ m[2] \in 1..Load[m[1]] /\ m[2] \in Nat /\ m = <<m[1], m[2]>>
  <2>1. PICK p \in Providers : m \in {p} \X (1..Load[p])
    BY DEF Messages
  <2>2. m[1] = p /\ m[2] \in 1..Load[p] /\ m = <<m[1], m[2]>>
    BY <2>1
  <2> QED BY <2>2, LoadAssumption
<1>2. ASSUME NEW p \in Providers, NEW i \in 1..Load[p] PROVE <<p, i>> \in Messages
  BY <1>2 DEF Messages
<1> QED BY <1>1, <1>2

\* Whichever providers are configured, the daemon starts Sound.
LEMMA InitSound == Init => Sound
<1> SUFFICES ASSUME Init PROVE Sound
  OBVIOUS
<1>1. TypeOK
  <2>1. provider \in [Providers ->
            {"connecting", "open", "busy", "backoff", "stopping", "stopped"}]
    BY DEF Init
  <2>2. queue \in Seq(Messages) /\ Len(queue) <= Capacity /\ queue = <<>>
    BY CapacityAssumption DEF Init
  <2>3. where = [m \in Messages |-> "peer"]
    BY DEF Init
  <2>4. router = "running" /\ shutdown = FALSE /\ exited = FALSE
    BY DEF Init
  <2>5. where \in [Messages -> Stages]
    BY <2>3 DEF Stages
  <2>6. \A m \in Messages : where[m] = "queued" <=> \E i \in 1..Len(queue) : queue[i] = m
    <3>1. \A m \in Messages : where[m] # "queued"
      BY <2>3
    <3> QED BY <2>2, <3>1
  <2> QED BY <2>1, <2>2, <2>4, <2>5, <2>6 DEF TypeOK
<1>2. OneAtATime /\ AckingInline /\ PeersLast
  BY DEF Init, OneAtATime, AckingInline, PeersLast, UnderWay
<1>3. QueueOrdered /\ Closed /\ Emptied
  BY DEF Init, QueueOrdered, Closed, Emptied
<1> QED BY <1>1, <1>2, <1>3 DEF Sound

\* A message is taken from its peer: an inline provider had none under way.
LEMMA ArriveSound ==
    ASSUME Sound, NEW p \in Providers, Arrive(p)
    PROVE  Sound'
<1>1. PICK i \in 1..Load[p] :
        /\ where[<<p, i>>] = "peer"
        /\ \A j \in 1..(i - 1) : where[<<p, j>>] # "peer"
        /\ where' = [where EXCEPT ![<<p, i>>] = IF Inline(p) THEN "acking" ELSE "sending"]
  BY DEF Arrive
<1> DEFINE new == <<p, i>>
<1>2. new \in Messages /\ new[1] = p /\ new[2] = i /\ i \in Nat
  BY MessageForm, LoadAssumption
<1>3. /\ provider[p] = "open"
      /\ provider' = [provider EXCEPT ![p] = IF Inline(p) THEN "busy" ELSE @]
      /\ UNCHANGED <<queue, router, shutdown, exited>>
  BY DEF Arrive
<1> HIDE DEF new
<1>4. /\ where[new] = "peer"
      /\ where' = [where EXCEPT ![new] = IF Inline(p) THEN "acking" ELSE "sending"]
  BY <1>1 DEF new
<1>5. \A n \in Messages : n[1] = p /\ n[2] < i => where[n] # "peer"
  <2> SUFFICES ASSUME NEW n \in Messages, n[1] = p, n[2] < i PROVE where[n] # "peer"
    OBVIOUS
  <2>1. n = <<p, n[2]>> /\ n[2] \in 1..(i - 1)
    BY MessageForm, <1>2, LoadAssumption
  <2> QED BY <2>1, <1>1
<1>6. \A n \in Messages : n[1] = p /\ i < n[2] => where[n] = "peer"
  BY <1>2, <1>4 DEF Sound, PeersLast
<1>7. \A n \in Messages : n # new => where'[n] = where[n]
  BY <1>4 DEF Sound, TypeOK
<1>8. where'[new] \in UnderWay /\ (where'[new] = "acking" => Inline(p))
  BY <1>2, <1>4 DEF Sound, TypeOK, UnderWay
<1>9. TypeOK'
  <2>1. where' \in [Messages -> Stages]
    BY <1>4 DEF Sound, TypeOK, Stages
  <2>2. provider' \in [Providers ->
            {"connecting", "open", "busy", "backoff", "stopping", "stopped"}]
    BY <1>3 DEF Sound, TypeOK
  <2>3. \A m \in Messages : where'[m] = "queued" <=> where[m] = "queued"
    BY <1>4, <1>7, <1>8 DEF UnderWay
  <2> QED BY <1>3, <2>1, <2>2, <2>3 DEF Sound, TypeOK
<1>10. OneAtATime'
  <2> SUFFICES ASSUME NEW m \in Messages, Inline(m[1]), where'[m] \in UnderWay
               PROVE  /\ provider'[m[1]] = "busy"
                      /\ \A n \in Messages : n[1] = m[1] /\ n # m =>
                            where'[n] \notin UnderWay /\ (m[2] < n[2] => where'[n] = "peer")
    BY DEF OneAtATime, Inline
  <2>1. CASE m = new
    <3>1. provider'[p] = "busy"
      BY <1>2, <1>3, <2>1 DEF Sound, TypeOK
    <3>2. \A n \in Messages : n[1] = p => where[n] \notin UnderWay
      BY <1>2, <1>3, <2>1 DEF Sound, OneAtATime
    <3> QED BY <1>2, <1>6, <1>7, <2>1, <3>1, <3>2
  <2>2. CASE m # new
    <3>1. provider[m[1]] = "busy" /\ m[1] # p
      BY <1>3, <1>7, <2>2 DEF Sound, OneAtATime
    <3>2. \A n \in Messages : n[1] = m[1] => n # new
      BY <1>2, <3>1
    <3> QED BY <1>3, <1>7, <2>2, <3>1, <3>2, MessageForm DEF Sound, TypeOK, OneAtATime
  <2> QED BY <2>1, <2>2
<1>11. AckingInline'
  BY <1>2, <1>7, <1>8 DEF Sound, AckingInline, Inline
<1>12. PeersLast'
  <2> SUFFICES ASSUME NEW m \in Messages, NEW n \in Messages,
                      n[1] = m[1], n[2] < m[2], where'[n] = "peer"
               PROVE  where'[m] = "peer"
    BY DEF PeersLast
  <2>1. n # new /\ where[n] = "peer"
    BY <1>7, <1>8 DEF UnderWay
  <2>2. m # new
    BY <1>2, <1>5, <2>1
  <2> QED BY <1>7, <2>1, <2>2 DEF Sound, PeersLast
<1>13. QueueOrdered' /\ Emptied'
  BY <1>3 DEF Sound, QueueOrdered, Emptied, Inline
<1>14. Closed'
  BY <1>3 DEF Sound, Closed
<1> QED BY <1>9, <1>10, <1>11, <1>12, <1>13, <1>14 DEF Sound

\* An inline provider goes from acknowledging to sending, still busy.
LEMMA AckSound ==
    ASSUME Sound, NEW p \in Providers, Ack(p)
    PROVE  Sound'
<1>1. PICK m \in Messages :
        /\ where[m] = "acking" /\ m[1] = p
        /\ where' = [where EXCEPT ![m] = "sending"]
        /\ UNCHANGED <<provider, queue, router, shutdown, exited>>
  BY DEF Ack, At
<1>2. Inline(m[1]) /\ provider[m[1]] = "busy"
  BY <1>1 DEF Sound, AckingInline, OneAtATime, UnderWay
<1>3. where'[m] = "sending" /\ \A n \in Messages : n # m => where'[n] = where[n]
  BY <1>1 DEF Sound, TypeOK
<1>4. \A n \in Messages : where'[n] \in UnderWay <=> where[n] \in UnderWay
  BY <1>1, <1>3 DEF UnderWay
<1>5. \A n \in Messages : where'[n] = "peer" <=> where[n] = "peer"
  BY <1>1, <1>3
<1>6. TypeOK'
  <2>1. where' \in [Messages -> Stages]
    BY <1>1 DEF Sound, TypeOK, Stages
  <2>2. \A n \in Messages : where'[n] = "queued" <=> where[n] = "queued"
    BY <1>1, <1>3
  <2> QED BY <1>1, <2>1, <2>2 DEF Sound, TypeOK
<1>7. OneAtATime'
  BY <1>1, <1>4, <1>5 DEF Sound, OneAtATime, Inline
<1>8. AckingInline' /\ PeersLast'
  BY <1>3, <1>5 DEF Sound, AckingInline, PeersLast, Inline
<1>9. QueueOrdered' /\ Emptied'
  BY <1>1 DEF Sound, QueueOrdered, Emptied, Inline
<1>10. Closed'
  BY <1>1, <1>2, MessageForm DEF Sound, Closed
<1> QED BY <1>6, <1>7, <1>8, <1>9, <1>10 DEF Sound

\* What a provider does between messages leaves the messages alone.
LEMMA GotoSound ==
    ASSUME Sound, NEW p \in Providers,
           NEW state \in {"connecting", "open", "backoff", "stopping", "stopped"},
           provider[p] \notin {"busy", "stopped"}, Goto(p, state)
    PROVE  Sound'
<1>1. /\ provider' = [provider EXCEPT ![p] = state]
      /\ UNCHANGED <<where, queue, router, shutdown, exited>>
  BY DEF Goto
<1>2. TypeOK'
  <2>1. provider' \in [Providers ->
            {"connecting", "open", "busy", "backoff", "stopping", "stopped"}]
    BY <1>1 DEF Sound, TypeOK
  <2> QED BY <1>1, <2>1 DEF Sound, TypeOK
<1>3. OneAtATime'
  <2>1. \A m \in Messages : provider[m[1]] = "busy" => provider'[m[1]] = "busy"
    BY <1>1, MessageForm DEF Sound, TypeOK
  <2> QED BY <1>1, <2>1 DEF Sound, OneAtATime, Inline
<1>4. AckingInline' /\ PeersLast' /\ QueueOrdered' /\ Emptied'
  BY <1>1 DEF Sound, AckingInline, PeersLast, QueueOrdered, Emptied, Inline
<1>5. Closed'
  BY <1>1 DEF Sound, Closed
<1> QED BY <1>2, <1>3, <1>4, <1>5 DEF Sound

\* The steps of a provider that are such a move.
LEMMA ProviderSound ==
    ASSUME Sound, NEW p \in Providers,
           \/ Connect(p) \/ ConnectFails(p) \/ Disconnect(p)
           \/ ProviderStep(p) \/ ProviderFails(p)
    PROVE  Sound'
<1> DEFINE States == {"connecting", "open", "backoff", "stopping", "stopped"}
<1>1. \E state \in States : provider[p] \notin {"busy", "stopped"} /\ Goto(p, state)
  <2>1. CASE Connect(p) \/ ConnectFails(p) \/ Disconnect(p)
    BY <2>1 DEF Connect, ConnectFails, Disconnect
  <2>2. CASE StopProvider(p)
    BY <2>2 DEF StopProvider
  <2>3. CASE ServerStopped(p) \/ ProviderFails(p)
    BY <2>3 DEF ServerStopped, ProviderFails
  <2>4. CASE BackoffEnds(p) \/ BackoffCut(p)
    BY <2>4 DEF BackoffEnds, BackoffCut
  <2> QED BY <2>1, <2>2, <2>3, <2>4 DEF ProviderStep
<1> QED BY <1>1, GotoSound

\* A message leaves its provider's hands: the provider may read on.
LEMMA ResumeKeeps ==
    ASSUME Sound, NEW m \in Messages, where[m] = "sending", Resume(m),
           NEW stage \in {"queued", "lost"}, where' = [where EXCEPT ![m] = stage]
    PROVE  /\ provider' \in [Providers ->
                  {"connecting", "open", "busy", "backoff", "stopping", "stopped"}]
           /\ where' \in [Messages -> Stages]
           /\ where'[m] = stage /\ \A n \in Messages : n # m => where'[n] = where[n]
           /\ \A p \in Providers : provider[p] = "stopped" => provider'[p] = "stopped"
           /\ OneAtATime' /\ AckingInline' /\ PeersLast'
<1>1. /\ provider' = [provider EXCEPT ![m[1]] = IF @ = "busy" THEN "open" ELSE @]
      /\ provider \in [Providers ->
            {"connecting", "open", "busy", "backoff", "stopping", "stopped"}]
  BY DEF Resume, Sound, TypeOK
<1>2. /\ provider' \in [Providers ->
            {"connecting", "open", "busy", "backoff", "stopping", "stopped"}]
      /\ \A p \in Providers : provider[p] = "stopped" => provider'[p] = "stopped"
      /\ \A p \in Providers : p # m[1] => provider'[p] = provider[p]
  BY <1>1, MessageForm
<1>3. where' \in [Messages -> Stages]
  BY DEF Sound, TypeOK, Stages
<1>4. where'[m] = stage /\ \A n \in Messages : n # m => where'[n] = where[n]
  BY DEF Sound, TypeOK
<1>5. \A n \in Messages : where'[n] = "peer" <=> where[n] = "peer"
  BY <1>4
<1>6. OneAtATime'
  <2> SUFFICES ASSUME NEW n \in Messages, Inline(n[1]), where'[n] \in UnderWay
               PROVE  /\ provider'[n[1]] = "busy"
                      /\ \A o \in Messages : o[1] = n[1] /\ o # n =>
                            where'[o] \notin UnderWay /\ (n[2] < o[2] => where'[o] = "peer")
    BY DEF OneAtATime, Inline
  <2>1. n # m /\ where[n] \in UnderWay
    BY <1>4 DEF UnderWay
  <2>2. /\ provider[n[1]] = "busy"
        /\ \A o \in Messages : o[1] = n[1] /\ o # n =>
              where[o] \notin UnderWay /\ (n[2] < o[2] => where[o] = "peer")
    BY <2>1 DEF Sound, OneAtATime
  <2>3. n[1] # m[1]
    BY <2>1, <2>2 DEF UnderWay
  <2>4. provider'[n[1]] = "busy"
    BY <1>2, <2>2, <2>3, MessageForm
  <2>5. \A o \in Messages : where'[o] \in UnderWay => where[o] \in UnderWay
    BY <1>4 DEF UnderWay
  <2> QED BY <1>5, <2>2, <2>4, <2>5
<1>7. AckingInline'
  BY <1>4 DEF Sound, AckingInline, Inline
<1>8. PeersLast'
  BY <1>5 DEF Sound, PeersLast
<1> QED BY <1>2, <1>3, <1>4, <1>6, <1>7, <1>8

\* A send fails: the message is lost, the channel is as it was.
LEMMA SendFailsSound ==
    ASSUME Sound, NEW m \in Messages, SendFails(m)
    PROVE  Sound'
<1>1. /\ where[m] = "sending" /\ where' = [where EXCEPT ![m] = "lost"] /\ Resume(m)
      /\ UNCHANGED <<queue, router, shutdown, exited>>
  BY DEF SendFails
<1>2. /\ provider' \in [Providers ->
                  {"connecting", "open", "busy", "backoff", "stopping", "stopped"}]
      /\ where' \in [Messages -> Stages]
      /\ where'[m] = "lost" /\ \A n \in Messages : n # m => where'[n] = where[n]
      /\ \A p \in Providers : provider[p] = "stopped" => provider'[p] = "stopped"
      /\ OneAtATime' /\ AckingInline' /\ PeersLast'
  BY <1>1, ResumeKeeps
<1>3. TypeOK'
  <2>1. \A n \in Messages : where'[n] = "queued" <=> where[n] = "queued"
    BY <1>1, <1>2
  <2> QED BY <1>1, <1>2, <2>1 DEF Sound, TypeOK
<1>4. QueueOrdered' /\ Emptied'
  BY <1>1 DEF Sound, QueueOrdered, Emptied, Inline
<1>5. Closed'
  BY <1>1, <1>2 DEF Sound, Closed, At
<1> QED BY <1>2, <1>3, <1>4, <1>5 DEF Sound

\* A send succeeds: the channel gets the last message its inline provider has taken.
LEMMA EnqueueSound ==
    ASSUME Sound, NEW m \in Messages, Enqueue(m)
    PROVE  Sound'
<1>1. /\ where[m] = "sending" /\ where' = [where EXCEPT ![m] = "queued"] /\ Resume(m)
      /\ router # "exited" /\ Len(queue) < Capacity /\ queue' = Append(queue, m)
      /\ UNCHANGED <<router, shutdown, exited>>
  BY DEF Enqueue
<1>2. /\ provider' \in [Providers ->
                  {"connecting", "open", "busy", "backoff", "stopping", "stopped"}]
      /\ where' \in [Messages -> Stages]
      /\ where'[m] = "queued" /\ \A n \in Messages : n # m => where'[n] = where[n]
      /\ OneAtATime' /\ AckingInline' /\ PeersLast'
  BY <1>1, ResumeKeeps
<1>3. /\ queue \in Seq(Messages) /\ Len(queue) \in Nat
      /\ queue' \in Seq(Messages) /\ Len(queue') = Len(queue) + 1
      /\ queue'[Len(queue) + 1] = m
      /\ \A i \in 1..Len(queue) : queue'[i] = queue[i] /\ queue[i] \in Messages
  BY <1>1 DEF Sound, TypeOK
<1>4. \A i \in 1..Len(queue) : where[queue[i]] = "queued" /\ queue[i] # m
  BY <1>1, <1>3 DEF Sound, TypeOK
<1>5. TypeOK'
  <2>1. \A n \in Messages : where'[n] = "queued" <=> \E i \in 1..Len(queue') : queue'[i] = n
    <3> SUFFICES ASSUME NEW n \in Messages
                 PROVE  where'[n] = "queued" <=> \E i \in 1..Len(queue') : queue'[i] = n
      OBVIOUS
    <3>1. CASE n = m
      BY <1>2, <1>3, <3>1
    <3>2. CASE n # m
      <4>1. where'[n] = "queued" <=> \E i \in 1..Len(queue) : queue[i] = n
        BY <1>2, <3>2 DEF Sound, TypeOK
      <4> QED BY <1>3, <3>2, <4>1
    <3> QED BY <3>1, <3>2
  <2>2. Len(queue') <= Capacity
    BY <1>1, <1>3, CapacityAssumption
  <2> QED BY <1>1, <1>2, <1>3, <2>1, <2>2 DEF Sound, TypeOK
<1>6. QueueOrdered'
  <2> SUFFICES ASSUME NEW i \in 1..Len(queue'), NEW j \in 1..Len(queue'), i < j
               PROVE  /\ queue'[i] # queue'[j]
                      /\ Inline(queue'[i][1]) /\ queue'[i][1] = queue'[j][1]
                            => queue'[i][2] < queue'[j][2]
    BY DEF QueueOrdered, Inline
  <2>1. i \in 1..Len(queue) /\ queue'[i] = queue[i] /\ queue[i] \in Messages
    BY <1>3
  <2>2. CASE j \in 1..Len(queue)
    <3>1. queue'[j] = queue[j]
      BY <1>3, <2>2
    <3> QED BY <2>1, <2>2, <3>1 DEF Sound, QueueOrdered
  <2>3. CASE j = Len(queue) + 1
    <3>1. queue'[j] = m /\ queue[i] # m /\ where[queue[i]] = "queued"
      BY <1>3, <1>4, <2>1, <2>3
    <3>2. ASSUME Inline(m[1]), queue[i][1] = m[1] PROVE queue[i][2] < m[2]
      <4>1. ~(m[2] < queue[i][2])
        BY <1>1, <2>1, <3>1, <3>2 DEF Sound, OneAtATime, UnderWay
      <4>2. m[2] # queue[i][2]
        BY <2>1, <3>1, <3>2, MessageForm
      <4> QED BY <2>1, <4>1, <4>2, MessageForm
    <3> QED BY <2>1, <3>1, <3>2
  <2> QED BY <1>3, <2>2, <2>3
<1>7. Closed' /\ Emptied'
  BY <1>1 DEF Sound, Closed, Emptied, At
<1> QED BY <1>2, <1>5, <1>6, <1>7 DEF Sound

\* The router takes the first message of the channel.
LEMMA RecvSound ==
    ASSUME Sound, Recv
    PROVE  Sound'
<1>1. /\ router = "running" /\ queue # <<>>
      /\ where' = [where EXCEPT ![Head(queue)] = "handling"] /\ queue' = Tail(queue)
      /\ UNCHANGED <<provider, router, shutdown, exited>>
  BY DEF Recv
<1> DEFINE head == queue[1]
<1>2. /\ queue \in Seq(Messages) /\ Len(queue) \in Nat /\ 1 \in 1..Len(queue)
      /\ head \in Messages /\ Head(queue) = head
      /\ queue' \in Seq(Messages) /\ Len(queue') = Len(queue) - 1
      /\ \A i \in 1..Len(queue') :
            queue'[i] = queue[i + 1] /\ i + 1 \in 1..Len(queue) /\ queue[i + 1] \in Messages
  BY <1>1 DEF Sound, TypeOK
<1> HIDE DEF head
<1>3. where[head] = "queued"
  BY <1>2 DEF Sound, TypeOK, head
<1>4. /\ where'[head] = "handling"
      /\ \A n \in Messages : n # head => where'[n] = where[n]
  BY <1>1, <1>2 DEF Sound, TypeOK
<1>5. \A n \in Messages : where'[n] \in UnderWay <=> where[n] \in UnderWay
  BY <1>3, <1>4 DEF UnderWay
<1>6. \A n \in Messages : where'[n] = "peer" <=> where[n] = "peer"
  BY <1>3, <1>4
<1>7. \A i \in 2..Len(queue) : queue[i] # head
  BY <1>2 DEF Sound, QueueOrdered, head
<1>8. TypeOK'
  <2>1. where' \in [Messages -> Stages]
    BY <1>1 DEF Sound, TypeOK, Stages
  <2>2. \A n \in Messages : where'[n] = "queued" <=> \E i \in 1..Len(queue') : queue'[i] = n
    <3> SUFFICES ASSUME NEW n \in Messages
                 PROVE  where'[n] = "queued" <=> \E i \in 1..Len(queue') : queue'[i] = n
      OBVIOUS
    <3>1. CASE n = head
      <4>1. \A i \in 1..Len(queue') : queue'[i] # head
        BY <1>2, <1>7
      <4> QED BY <1>4, <3>1, <4>1
    <3>2. CASE n # head
      <4>1. where'[n] = "queued" <=> \E i \in 1..Len(queue) : queue[i] = n
        BY <1>4, <3>2 DEF Sound, TypeOK
      <4>2. ASSUME NEW i \in 1..Len(queue), queue[i] = n
            PROVE  \E j \in 1..Len(queue') : queue'[j] = n
        <5>1. i # 1
          BY <3>2, <4>2 DEF head
        <5>2. i - 1 \in 1..Len(queue') /\ (i - 1) + 1 = i
          BY <1>2, <5>1
        <5> QED BY <1>2, <4>2, <5>2
      <4> QED BY <1>2, <4>1, <4>2
    <3> QED BY <3>1, <3>2
  <2>3. Len(queue') <= Capacity
    BY <1>2, CapacityAssumption DEF Sound, TypeOK
  <2> QED BY <1>1, <1>2, <2>1, <2>2, <2>3 DEF Sound, TypeOK
<1>9. OneAtATime'
  BY <1>1, <1>5, <1>6 DEF Sound, OneAtATime, Inline
<1>10. AckingInline' /\ PeersLast'
  BY <1>4, <1>6 DEF Sound, AckingInline, PeersLast, Inline
<1>11. QueueOrdered'
  <2> SUFFICES ASSUME NEW i \in 1..Len(queue'), NEW j \in 1..Len(queue'), i < j
               PROVE  /\ queue'[i] # queue'[j]
                      /\ Inline(queue'[i][1]) /\ queue'[i][1] = queue'[j][1]
                            => queue'[i][2] < queue'[j][2]
    BY DEF QueueOrdered, Inline
  <2>1. /\ i + 1 \in 1..Len(queue) /\ j + 1 \in 1..Len(queue) /\ i + 1 < j + 1
        /\ queue'[i] = queue[i + 1] /\ queue'[j] = queue[j + 1]
    BY <1>2
  <2> QED BY <2>1 DEF Sound, QueueOrdered
<1>12. Closed' /\ Emptied'
  BY <1>1 DEF Closed, Emptied
<1> QED BY <1>8, <1>9, <1>10, <1>11, <1>12 DEF Sound

\* The router's loop ends: told to, or because there is no sender left.
LEMMA LoopEndSound ==
    ASSUME Sound, ReceiveClosed \/ StopRouter
    PROVE  Sound'
<1>1. /\ router' = "draining"
      /\ UNCHANGED <<provider, where, queue, shutdown, exited>>
      /\ shutdown \/ (SendersGone /\ queue = <<>>)
  BY DEF ReceiveClosed, StopRouter
<1>2. TypeOK'
  BY <1>1 DEF Sound, TypeOK
<1>3. OneAtATime' /\ AckingInline' /\ PeersLast' /\ QueueOrdered'
  BY <1>1 DEF Sound, OneAtATime, AckingInline, PeersLast, QueueOrdered, Inline
<1>4. Closed' /\ Emptied'
  BY <1>1 DEF Closed, Emptied, SendersGone, At
<1> QED BY <1>2, <1>3, <1>4 DEF Sound

\* Steps that take no message from its peer, give none to a provider and put
\* none into the channel.
LEMMA StageSound ==
    ASSUME Sound, where' \in [Messages -> Stages],
           \A n \in Messages : where'[n] # where[n] =>
               /\ where[n] \notin {"peer", "acking"}
               /\ where'[n] \notin {"peer", "acking", "sending", "queued"},
           UNCHANGED provider
    PROVE  OneAtATime' /\ AckingInline' /\ PeersLast'
<1>1. \A n \in Messages : where'[n] = "peer" <=> where[n] = "peer"
  OBVIOUS
<1>2. \A n \in Messages : where'[n] \in UnderWay => where'[n] = where[n]
  BY DEF UnderWay
<1>3. OneAtATime'
  BY <1>1, <1>2 DEF Sound, OneAtATime, Inline
<1>4. AckingInline' /\ PeersLast'
  BY <1>1 DEF Sound, AckingInline, PeersLast, Inline
<1> QED BY <1>3, <1>4

\* The drain ends, with all handlers or without the last ones.
LEMMA DrainSound ==
    ASSUME Sound, DrainStep
    PROVE  Sound'
<1>1. /\ router = "draining" /\ router' = "exited" /\ queue' = <<>>
      /\ where' = [m \in Messages |->
                    CASE where[m] = "queued" -> "lost"
                      [] where[m] = "handling" -> "aborted"
                      [] OTHER -> where[m]]
      /\ UNCHANGED <<provider, shutdown, exited>>
  BY DEF DrainStep, DrainDone, DrainTimeout, RouterReturns
<1>2. \A m \in Messages :
        /\ where[m] = "queued" => where'[m] = "lost"
        /\ where[m] = "handling" => where'[m] = "aborted"
        /\ where[m] \notin {"queued", "handling"} => where'[m] = where[m]
  BY <1>1
<1>3. where' \in [Messages -> Stages]
  <2>1. \A m \in Messages : where'[m] \in Stages
    BY <1>2 DEF Sound, TypeOK, Stages
  <2>2. where' = [m \in Messages |-> where'[m]]
    BY <1>1
  <2> QED BY <2>1, <2>2
<1>4. OneAtATime' /\ AckingInline' /\ PeersLast'
  BY <1>1, <1>2, <1>3, StageSound
<1>5. TypeOK'
  <2>1. queue' \in Seq(Messages) /\ Len(queue') = 0 /\ Len(queue') <= Capacity
    BY <1>1, CapacityAssumption
  <2>2. \A m \in Messages : where'[m] # "queued"
    BY <1>2
  <2> QED BY <1>1, <1>3, <2>1, <2>2 DEF Sound, TypeOK
<1>6. QueueOrdered' /\ Emptied'
  BY <1>1 DEF QueueOrdered, Emptied
<1>7. Closed'
  BY <1>1, <1>2 DEF Sound, Closed, At
<1> QED BY <1>4, <1>5, <1>6, <1>7 DEF Sound

\* A handler ends.
LEMMA HandlerDoneSound ==
    ASSUME Sound, NEW m \in Messages, HandlerDone(m)
    PROVE  Sound'
<1>1. /\ where[m] = "handling" /\ where' = [where EXCEPT ![m] = "handled"]
      /\ UNCHANGED <<provider, queue, router, shutdown, exited>>
  BY DEF HandlerDone
<1>2. where'[m] = "handled" /\ \A n \in Messages : n # m => where'[n] = where[n]
  BY <1>1 DEF Sound, TypeOK
<1>3. where' \in [Messages -> Stages]
  BY <1>1 DEF Sound, TypeOK, Stages
<1>4. OneAtATime' /\ AckingInline' /\ PeersLast'
  BY <1>1, <1>2, <1>3, StageSound
<1>5. TypeOK'
  <2>1. \A n \in Messages : where'[n] = "queued" <=> where[n] = "queued"
    BY <1>1, <1>2
  <2> QED BY <1>1, <1>3, <2>1 DEF Sound, TypeOK
<1>6. QueueOrdered' /\ Emptied'
  BY <1>1 DEF Sound, QueueOrdered, Emptied, Inline
<1>7. Closed'
  BY <1>1, <1>2 DEF Sound, Closed, At
<1> QED BY <1>4, <1>5, <1>6, <1>7 DEF Sound

\* The token is cancelled, which releases Closed.
LEMMA SignalSound ==
    ASSUME Sound, Signal
    PROVE  Sound'
<1>1. shutdown' = TRUE /\ UNCHANGED <<provider, where, queue, router, exited>>
  BY DEF Signal
<1>2. TypeOK'
  BY <1>1 DEF Sound, TypeOK
<1>3. OneAtATime' /\ AckingInline' /\ PeersLast' /\ QueueOrdered'
  BY <1>1 DEF Sound, OneAtATime, AckingInline, PeersLast, QueueOrdered, Inline
<1>4. Closed' /\ Emptied'
  BY <1>1 DEF Sound, Closed, Emptied
<1> QED BY <1>2, <1>3, <1>4 DEF Sound

\* The process ends, and the sends under way with it.
LEMMA MainExitsSound ==
    ASSUME Sound, MainExits
    PROVE  Sound'
<1>1. /\ router = "exited" /\ exited' = TRUE
      /\ where' = [m \in Messages |-> IF where[m] = "sending" THEN "lost" ELSE where[m]]
      /\ UNCHANGED <<provider, queue, router, shutdown>>
  BY DEF MainExits
<1>2. \A m \in Messages : where'[m] = IF where[m] = "sending" THEN "lost" ELSE where[m]
  BY <1>1
<1>3. where' \in [Messages -> Stages]
  BY <1>1 DEF Sound, TypeOK, Stages
<1>4. OneAtATime' /\ AckingInline' /\ PeersLast'
  BY <1>1, <1>2, <1>3, StageSound
<1>5. TypeOK'
  <2>1. \A n \in Messages : where'[n] = "queued" <=> where[n] = "queued"
    BY <1>2
  <2> QED BY <1>1, <1>3, <2>1 DEF Sound, TypeOK
<1>6. QueueOrdered' /\ Emptied'
  BY <1>1 DEF Sound, QueueOrdered, Emptied, Inline
<1>7. Closed'
  BY <1>1, <1>2 DEF Sound, Closed, At
<1> QED BY <1>4, <1>5, <1>6, <1>7 DEF Sound

\* Every step of the daemon keeps it Sound.
LEMMA StepSound == Sound /\ [Next]_vars => Sound'
<1> SUFFICES ASSUME Sound, [Next]_vars PROVE Sound'
  OBVIOUS
<1>1. ASSUME NEW p \in Providers, Arrive(p) PROVE Sound'
  BY <1>1, ArriveSound
<1>2. ASSUME NEW p \in Providers, PeerStep(p) PROVE Sound'
  BY <1>2, AckSound, ProviderSound DEF PeerStep
<1>3. ASSUME NEW p \in Providers, ProviderStep(p) \/ ProviderFails(p) \/ Disconnect(p)
      PROVE  Sound'
  BY <1>3, ProviderSound
<1>4. ASSUME NEW m \in Messages, SendStep(m) \/ HandlerDone(m) PROVE Sound'
  BY <1>4, EnqueueSound, SendFailsSound, HandlerDoneSound DEF SendStep
<1>5. CASE Recv \/ ReceiveClosed \/ StopRouter \/ DrainStep
  BY <1>5, RecvSound, LoopEndSound, DrainSound
<1>6. CASE Signal \/ MainExits
  BY <1>6, SignalSound, MainExitsSound
<1>7. CASE UNCHANGED vars
  BY <1>7 DEF vars, Sound, TypeOK, OneAtATime, AckingInline, PeersLast, QueueOrdered,
     Closed, Emptied, Inline, At
<1> QED BY <1>1, <1>2, <1>3, <1>4, <1>5, <1>6, <1>7 DEF Next

\* The inductive invariant holds.
LEMMA AlwaysSound == Spec => []Sound
<1> QED BY InitSound, StepSound, PTL DEF Spec

\* The types of the daemon's state, the bound of its channel, and that the
\* channel holds exactly the queued messages.
THEOREM TypeCorrect == Spec => []TypeOK
<1>1. Sound => TypeOK
  BY DEF Sound
<1> QED BY <1>1, AlwaysSound, PTL

-----------------------------------------------------------------------------
(* The refinement.                                                         *)

StatusMap == [m \in Messages |-> Status(m)]

\* The mapping changes with the stages, and with nothing else.
LEMMA StatusOf ==
    /\ \A m \in Messages : StatusMap[m] = Status(m)
    /\ \A m \in Messages : StatusMap'[m] = Status(m)'
    /\ \A m \in Messages : where'[m] = where[m] => Status(m)' = Status(m)
<1> QED BY DEF StatusMap, Status

\* A step that changes no message's status is a stutter of Delivery.
LEMMA Stutter ==
    ASSUME \A m \in Messages : Status(m)' = Status(m), UNCHANGED shutdown
    PROVE  UNCHANGED Promise!vars
<1>1. StatusMap' = StatusMap
  BY DEF StatusMap
<1> QED BY <1>1 DEF StatusMap, Promise!vars

\* Messages end with their handlers and are lost only under a shutdown.
LEMMA EndStep ==
    ASSUME UNCHANGED shutdown,
           \A n \in Messages :
               \/ where'[n] = where[n]
               \/ where[n] = "handling" /\ where'[n] \in {"handled", "aborted"}
               \/ shutdown /\ where[n] \in {"sending", "queued"} /\ where'[n] = "lost"
    PROVE  Promise!Next
<1> DEFINE over == {n \in Messages : where'[n] # where[n] /\ where[n] = "handling"}
           gone == {n \in Messages : where'[n] # where[n] /\ where[n] \in {"sending", "queued"}}
<1>1. over \in SUBSET {n \in Messages : StatusMap[n] = "started"}
  BY DEF StatusMap, Status
<1>2. gone \in SUBSET {n \in Messages : shutdown /\ StatusMap[n] = "accepted"}
  BY DEF StatusMap, Status
<1>3. StatusMap' = [n \in Messages |-> CASE n \in over -> "ended"
                                          [] n \in gone -> "lost"
                                          [] OTHER -> StatusMap[n]]
  <2>1. ASSUME NEW n \in Messages
        PROVE  Status(n)' = CASE n \in over -> "ended"
                              [] n \in gone -> "lost"
                              [] OTHER -> StatusMap[n]
    <3>1. CASE where'[n] = where[n]
      BY <3>1, StatusOf
    <3>2. CASE where'[n] # where[n] /\ where[n] = "handling"
      <4>1. n \in over /\ Status(n)' = "ended"
        BY <3>2 DEF Status
      <4> QED BY <4>1
    <3>3. CASE where'[n] # where[n] /\ where[n] # "handling"
      <4>1. n \in gone /\ n \notin over /\ Status(n)' = "lost"
        BY <3>3 DEF Status
      <4> QED BY <4>1
    <3> QED BY <3>1, <3>2, <3>3
  <2> QED BY <2>1 DEF StatusMap
<1> HIDE DEF over, gone
<1>4. Promise!End
  BY <1>1, <1>2, <1>3 DEF StatusMap, Promise!End
<1> QED BY <1>4 DEF Promise!Next

\* One message changes its status.
LEMMA OneStatus ==
    ASSUME NEW m \in Messages, NEW new, Status(m)' = new,
           \A n \in Messages : n # m => where'[n] = where[n]
    PROVE  StatusMap' = [StatusMap EXCEPT ![m] = new]
<1>1. \A n \in Messages : n # m => Status(n)' = Status(n)
  BY StatusOf
<1> QED BY <1>1 DEF StatusMap

\* To take a message from its peer is to accept it.
LEMMA ArriveAccepts ==
    ASSUME Sound, NEW p \in Providers, Arrive(p)
    PROVE  Promise!Next
<1>1. PICK i \in 1..Load[p] :
        /\ where[<<p, i>>] = "peer"
        /\ where' = [where EXCEPT ![<<p, i>>] = IF Inline(p) THEN "acking" ELSE "sending"]
        /\ UNCHANGED shutdown
  BY DEF Arrive
<1>2. PICK m \in Messages :
        /\ where[m] = "peer" /\ UNCHANGED shutdown
        /\ where' = [where EXCEPT ![m] = IF Inline(p) THEN "acking" ELSE "sending"]
  BY <1>1, MessageForm
<1>3. /\ where'[m] \in {"acking", "sending"}
      /\ \A n \in Messages : n # m => where'[n] = where[n]
  BY <1>2 DEF Sound, TypeOK
<1>4. Status(m) = "unsent" /\ Status(m)' = "accepted"
  BY <1>2, <1>3 DEF Status
<1>5. StatusMap' = [StatusMap EXCEPT ![m] = "accepted"] /\ StatusMap[m] = "unsent"
  BY <1>3, <1>4, OneStatus, StatusOf
<1>6. Promise!Accept(m)
  BY <1>2, <1>5 DEF StatusMap, Promise!Accept
<1> QED BY <1>6 DEF Promise!Next

\* The first message of the channel is the first of its inline provider that
\* was not given to a handler.
LEMMA RecvStarts ==
    ASSUME Sound, Recv
    PROVE  Promise!Next
<1>1. /\ queue # <<>> /\ UNCHANGED shutdown
      /\ where' = [where EXCEPT ![Head(queue)] = "handling"]
  BY DEF Recv
<1>0. PICK m \in Messages : m = queue[1]
  BY <1>1 DEF Sound, TypeOK
<1>2. /\ queue \in Seq(Messages) /\ 1 \in 1..Len(queue) /\ Len(queue) \in Nat
      /\ queue[1] = m /\ Head(queue) = m
  BY <1>1, <1>0 DEF Sound, TypeOK
<1>3. where[m] = "queued"
  BY <1>2 DEF Sound, TypeOK
<1>4. ASSUME Inline(m[1]), NEW n \in Messages, n[1] = m[1], n[2] < m[2]
      PROVE  StatusMap[n] \notin {"unsent", "accepted"}
  <2>1. where[n] # "peer"
    BY <1>2, <1>3, <1>4 DEF Sound, PeersLast
  <2>2. where[n] \notin UnderWay
    BY <1>3, <1>4, MessageForm DEF Sound, OneAtATime
  <2>3. where[n] # "queued"
    <3> SUFFICES ASSUME where[n] = "queued" PROVE FALSE
      OBVIOUS
    <3>1. PICK i \in 1..Len(queue) : queue[i] = n
      BY DEF Sound, TypeOK
    <3>2. 1 < i
      <4>1. i # 1
        BY <1>2, <1>4, <3>1, MessageForm
      <4> QED BY <1>2, <4>1
    <3>3. m[2] < n[2]
      BY <1>2, <1>4, <3>1, <3>2 DEF Sound, QueueOrdered
    <3> QED BY <1>2, <1>4, <3>3, MessageForm
  <2>4. where[n] \in Stages
    BY DEF Sound, TypeOK
  <2> QED BY <2>1, <2>2, <2>3, <2>4, StatusOf DEF Status, Stages, UnderWay
<1>5. where'[m] = "handling" /\ \A n \in Messages : n # m => where'[n] = where[n]
  BY <1>1, <1>2 DEF Sound, TypeOK
<1>6. Status(m) = "accepted" /\ Status(m)' = "started"
  BY <1>3, <1>5 DEF Status
<1>7. StatusMap' = [StatusMap EXCEPT ![m] = "started"] /\ StatusMap[m] = "accepted"
  BY <1>2, <1>5, <1>6, OneStatus, StatusOf
<1>8. Promise!MayStart(m)
  BY <1>2, <1>4 DEF StatusMap, Promise!MayStart
<1>9. Promise!Start(m)
  BY <1>1, <1>2, <1>7, <1>8 DEF StatusMap, Promise!Start
<1> QED BY <1>2, <1>9 DEF Promise!Next

\* A failed send, a finished handler, the end of the drain and of main end messages.
LEMMA Ends ==
    ASSUME Sound,
           \/ \E m \in Messages : SendFails(m) \/ HandlerDone(m)
           \/ DrainStep \/ MainExits
    PROVE  Promise!Next
<1>1. ASSUME NEW m \in Messages, HandlerDone(m) PROVE Promise!Next
  <2>1. /\ UNCHANGED shutdown /\ where[m] = "handling"
        /\ where' = [where EXCEPT ![m] = "handled"]
    BY <1>1 DEF HandlerDone
  <2>2. where'[m] = "handled" /\ \A n \in Messages : n # m => where'[n] = where[n]
    BY <2>1 DEF Sound, TypeOK
  <2> QED BY <2>1, <2>2, EndStep
<1>2. ASSUME NEW m \in Messages, SendFails(m) PROVE Promise!Next
  <2>1. /\ UNCHANGED shutdown /\ where[m] = "sending" /\ router = "exited"
        /\ where' = [where EXCEPT ![m] = "lost"]
    BY <1>2 DEF SendFails
  <2>2. where'[m] = "lost" /\ \A n \in Messages : n # m => where'[n] = where[n]
    BY <2>1 DEF Sound, TypeOK
  <2>3. shutdown
    BY <2>1 DEF Sound, Closed, At
  <2> QED BY <2>1, <2>2, <2>3, EndStep
<1>3. CASE DrainStep
  <2>1. /\ UNCHANGED shutdown /\ router = "draining"
        /\ where' = [m \in Messages |->
                        CASE where[m] = "queued" -> "lost"
                          [] where[m] = "handling" -> "aborted"
                          [] OTHER -> where[m]]
    BY <1>3 DEF DrainStep, DrainDone, DrainTimeout, RouterReturns
  <2>2. \A m \in Messages :
        /\ where[m] = "queued" => where'[m] = "lost"
        /\ where[m] = "handling" => where'[m] = "aborted"
        /\ where[m] \notin {"queued", "handling"} => where'[m] = where[m]
    BY <2>1
  <2>3. ASSUME NEW m \in Messages, where[m] = "queued" PROVE shutdown
    <3>1. queue # <<>>
      BY <2>3 DEF Sound, TypeOK
    <3> QED BY <2>1, <3>1 DEF Sound, Closed
  <2> QED BY <2>1, <2>2, <2>3, EndStep
<1>4. CASE MainExits
  <2>1. /\ UNCHANGED shutdown /\ router = "exited"
        /\ \A m \in Messages :
              where'[m] = IF where[m] = "sending" THEN "lost" ELSE where[m]
    BY <1>4 DEF MainExits
  <2>2. ASSUME NEW m \in Messages, where[m] = "sending" PROVE shutdown
    BY <2>1, <2>2 DEF Sound, Closed, At
  <2> QED BY <2>1, <2>2, EndStep
<1> QED BY <1>1, <1>2, <1>3, <1>4

\* What a provider does around its messages, and the channel, are not Delivery's business.
LEMMA Hidden ==
    ASSUME Sound,
           \/ \E p \in Providers :
                PeerStep(p) \/ ProviderStep(p) \/ ProviderFails(p) \/ Disconnect(p)
           \/ \E m \in Messages : Enqueue(m)
           \/ ReceiveClosed \/ StopRouter \/ UNCHANGED vars
    PROVE  UNCHANGED Promise!vars
<1>1. ASSUME NEW p \in Providers, Ack(p) PROVE UNCHANGED Promise!vars
  <2>1. PICK m \in Messages : /\ where[m] = "acking" /\ UNCHANGED shutdown
                              /\ where' = [where EXCEPT ![m] = "sending"]
    BY <1>1 DEF Ack, At
  <2>2. where'[m] = "sending" /\ \A n \in Messages : n # m => where'[n] = where[n]
    BY <2>1 DEF Sound, TypeOK
  <2>3. Status(m)' = Status(m)
    BY <2>1, <2>2 DEF Status
  <2> QED BY <2>1, <2>2, <2>3, StatusOf, Stutter
<1>2. ASSUME NEW m \in Messages, Enqueue(m) PROVE UNCHANGED Promise!vars
  <2>1. /\ where[m] = "sending" /\ UNCHANGED shutdown
        /\ where' = [where EXCEPT ![m] = "queued"]
    BY <1>2 DEF Enqueue
  <2>2. where'[m] = "queued" /\ \A n \in Messages : n # m => where'[n] = where[n]
    BY <2>1 DEF Sound, TypeOK
  <2>3. Status(m)' = Status(m)
    BY <2>1, <2>2 DEF Status
  <2> QED BY <2>1, <2>2, <2>3, StatusOf, Stutter
<1>3. ASSUME UNCHANGED <<where, shutdown>> PROVE UNCHANGED Promise!vars
  BY <1>3, StatusOf, Stutter
<1>4. ASSUME NEW p \in Providers,
             \/ Connect(p) \/ ConnectFails(p) \/ Disconnect(p)
             \/ ProviderStep(p) \/ ProviderFails(p)
      PROVE  UNCHANGED <<where, shutdown>>
  BY <1>4 DEF Connect, ConnectFails, Disconnect, ProviderStep, StopProvider, ServerStopped,
     BackoffEnds, BackoffCut, ProviderFails, Goto
<1>5. CASE ReceiveClosed \/ StopRouter \/ UNCHANGED vars
  <2>1. UNCHANGED <<where, shutdown>>
    BY <1>5 DEF ReceiveClosed, StopRouter, vars
  <2> QED BY <2>1, <1>3
<1> QED BY <1>1, <1>2, <1>3, <1>4, <1>5 DEF PeerStep

\* Every step of the daemon is one of Delivery or changes nothing it speaks of.
LEMMA StepImplements == Sound /\ [Next]_vars => [Promise!Next]_(Promise!vars)
<1> SUFFICES ASSUME Sound, [Next]_vars PROVE Promise!Next \/ UNCHANGED Promise!vars
  OBVIOUS
<1>1. CASE \E p \in Providers : Arrive(p)
  BY <1>1, ArriveAccepts
<1>2. CASE \E p \in Providers : PeerStep(p) \/ ProviderStep(p) \/ ProviderFails(p) \/ Disconnect(p)
  BY <1>2, Hidden
<1>3. CASE \E m \in Messages : SendStep(m) \/ HandlerDone(m)
  BY <1>3, Hidden, Ends DEF SendStep
<1>4. CASE Recv
  BY <1>4, RecvStarts
<1>5. CASE ReceiveClosed \/ StopRouter \/ UNCHANGED vars
  BY <1>5, Hidden
<1>6. CASE DrainStep \/ MainExits
  BY <1>6, Ends
<1>7. CASE Signal
  <2>1. ~shutdown /\ shutdown' = TRUE /\ where' = where
    BY <1>7 DEF Signal
  <2>2. StatusMap' = StatusMap
    BY <2>1 DEF StatusMap, Status
  <2>3. Promise!Stop
    BY <2>1, <2>2 DEF StatusMap, Promise!Stop
  <2> QED BY <2>3 DEF Promise!Next
<1> QED BY <1>1, <1>2, <1>3, <1>4, <1>5, <1>6, <1>7 DEF Next

\* The daemon starts with every message unsent and nothing told to stop.
LEMMA InitImplements == Init => Promise!Init
<1> SUFFICES ASSUME Init PROVE Promise!Init
  OBVIOUS
<1>1. where = [m \in Messages |-> "peer"] /\ shutdown = FALSE
  BY DEF Init
<1>2. StatusMap = [m \in Messages |-> "unsent"]
  BY <1>1 DEF StatusMap, Status
<1> QED BY <1>1, <1>2 DEF StatusMap, Promise!Init

\* The daemon implements Delivery, for any providers, loads and capacity: every
\* message that reaches it is given to one handler, in order where its provider
\* keeps one, and none is given up before the daemon is told to stop.
THEOREM ImplementsDelivery == Spec => Delivers
<1> QED BY AlwaysSound, StepImplements, InitImplements, PTL DEF Spec, Delivers, Promise!Spec

=============================================================================
