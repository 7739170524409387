------------------------------- MODULE Inbound -------------------------------
(***************************************************************************)
(* How slack (src/channel/slack.rs) and whatsapp (src/channel/whatsapp.rs) *)
(* receive: both are sent every message at least once.  Slack posts        *)
(* envelopes of one message to a loop that reads one at a time and         *)
(* acknowledges each before looking at it; whatsapp posts requests of      *)
(* several messages to handlers that run side by side, and an answer of    *)
(* 200 is the acknowledgement.  What is not acknowledged comes again.      *)
(*                                                                         *)
(* The slack provider remembers the ts of the last message of each channel *)
(* that has one, and send_response replies in that thread.  The ts of a    *)
(* message is here the number of its envelope; m.ts says whether it has    *)
(* one, since the provider takes an event without it as well.              *)
(***************************************************************************)
EXTENDS Integers, Sequences, FiniteSets

CONSTANTS
    Allowed,       \* what resolve_users made of allowed_users
    Envelopes,     \* the envelopes Slack may post, each of one message
    Requests,      \* the requests whatsapp may post
    MaxEnvelopes,  \* bounds of the model: envelopes, requests,
    MaxRequests,
    MaxRepeated    \* and how often anything is delivered again

ASSUME BoundsAssumption == {MaxEnvelopes, MaxRequests, MaxRepeated} \subseteq Nat
ASSUME EnvelopesAssumption == \A e \in Envelopes : Len(e) = 1
ASSUME RequestsAssumption == \A r \in Requests : Len(r) \in Nat

VARIABLES
    config,      \* the provider: its kind, and use_threads
    posted,      \* posted[b]: the messages of envelope or request b
    delivered,   \* how many have been delivered, in the order of their numbers
    repeated,    \* how often one has been delivered again
    stage,       \* stage[b]: where the provider is with b
    done,        \* done[b]: how many of its messages this delivery is past
    acked,       \* whether the acknowledgement of b has reached the platform
    thread_map,  \* thread_map[c]: the ts remembered for c, None if there is none
    tasks,       \* the messages handed to the router, each with its reply
    open         \* whether the router still receives

vars == <<config, posted, delivered, repeated, stage, done, acked, thread_map, tasks, open>>

Configs == [kind : {"slack"}, use_threads : BOOLEAN]
               \cup {[kind |-> "whatsapp", use_threads |-> FALSE]}
Slack == config.kind = "slack"
Postings == IF Slack THEN [1..MaxEnvelopes -> Envelopes] ELSE [1..MaxRequests -> Requests]
Ids == DOMAIN posted
None == 0
Chats == {m.chat : m \in UNION {{b[i] : i \in 1..Len(b)} : b \in Envelopes \cup Requests}}
UnderWay == {b \in Ids : stage[b] \in {"read", "looking", "sending"}}

Init ==
    /\ config \in Configs
    /\ posted \in Postings
    /\ delivered = 0 /\ repeated = 0
    /\ stage = [b \in Ids |-> "away"]
    /\ done = [b \in Ids |-> 0]
    /\ acked = [b \in Ids |-> FALSE]
    /\ thread_map = [c \in Chats |-> None]
    /\ tasks = <<>>
    /\ open = TRUE

\* SecurityGate::is_allowed
is_allowed(user) == user \in Allowed

\* A text message of a person (no bot, no subtype, not blank) who is allowed.
Accepted(m) == m.plain /\ is_allowed(m.user)

-----------------------------------------------------------------------------
(* The platform.                                                           *)

\* For the first time, or again because it is not acknowledged.
Deliver(b) ==
    /\ ~acked[b] /\ stage[b] = "away"
    /\ \/ b = delivered + 1 /\ delivered' = b /\ UNCHANGED repeated
       \/ b <= delivered /\ repeated < MaxRepeated /\ repeated' = repeated + 1 /\ UNCHANGED delivered
    /\ done' = [done EXCEPT ![b] = 0]
    /\ UNCHANGED <<config, posted, acked, thread_map, tasks, open>>

\* Router::run returns and drops the receiver, which the provider may outlive.
Close ==
    /\ open /\ open' = FALSE
    /\ UNCHANGED <<config, posted, delivered, repeated, stage, done, acked, thread_map, tasks>>

-----------------------------------------------------------------------------
(* The provider.                                                           *)

Goto(b, s) == stage' = [stage EXCEPT ![b] = s]

\* Mutant: an envelope is read while another is being dealt with.
ReadAtOnce(b) == Slack /\ Deliver(b) /\ Goto(b, "read")

\* read.next() in slack's loop, which is at the head of the loop.
Read(b) == Slack /\ UnderWay = {} /\ Deliver(b) /\ Goto(b, "read")

\* axum runs handle_inbound for each request.
Receive(b) == ~Slack /\ Deliver(b) /\ Goto(b, "looking")

\* The acknowledgement comes first.  It may fail, which is only logged.
Ack(b) ==
    /\ stage[b] = "read" /\ Goto(b, "looking")
    /\ \E arrives \in BOOLEAN : acked' = [acked EXCEPT ![b] = arrives]
    /\ UNCHANGED <<config, posted, delivered, repeated, done, thread_map, tasks, open>>

Current(b) == posted[b][done[b] + 1]
AtMessage(b) == stage[b] = "looking" /\ done[b] < Len(posted[b])

\* Mutant: a message that is not accepted ends the whole request.
SkipRest(b) ==
    /\ AtMessage(b) /\ ~Accepted(Current(b))
    /\ done' = [done EXCEPT ![b] = Len(posted[b])]
    /\ UNCHANGED <<config, posted, delivered, repeated, stage, acked, thread_map, tasks, open>>

\* "continue": not a text message, or not of an allowed user.
Skip(b) ==
    /\ AtMessage(b) /\ ~Accepted(Current(b))
    /\ done' = [done EXCEPT ![b] = @ + 1]
    /\ UNCHANGED <<config, posted, delivered, repeated, stage, acked, thread_map, tasks, open>>

\* Mutant: an event without a ts is remembered as well.
AcceptEmptyTs(b) ==
    /\ AtMessage(b) /\ Accepted(Current(b)) /\ Goto(b, "sending")
    /\ thread_map' = IF config.use_threads
                     THEN [thread_map EXCEPT ![Current(b).chat] =
                               IF Current(b).ts THEN b ELSE None] ELSE thread_map
    /\ UNCHANGED <<config, posted, delivered, repeated, done, acked, tasks, open>>

\* The message passes the gate; slack remembers its ts, if it has one, before
\* forwarding it.
Accept(b) ==
    /\ AtMessage(b) /\ Accepted(Current(b)) /\ Goto(b, "sending")
    /\ thread_map' = IF config.use_threads /\ Current(b).ts
                     THEN [thread_map EXCEPT ![Current(b).chat] = b] ELSE thread_map
    /\ UNCHANGED <<config, posted, delivered, repeated, done, acked, tasks, open>>

\* tx.send(inbound) ends, with an error that is only logged when nothing
\* receives any more.
Forward(b) ==
    /\ stage[b] = "sending" /\ Goto(b, "looking")
    /\ tasks' = IF open
                THEN Append(tasks, [message |-> <<b, done[b] + 1>>, at |-> "working",
                                    thread_ts |-> None, sent |-> {}])
                ELSE tasks
    /\ done' = [done EXCEPT ![b] = @ + 1]
    /\ UNCHANGED <<config, posted, delivered, repeated, acked, thread_map, open>>

\* slack's loop goes on to the next envelope; whatsapp answers 200.
Finish(b) ==
    /\ stage[b] = "looking" /\ done[b] = Len(posted[b]) /\ Goto(b, "away")
    /\ acked' = [acked EXCEPT ![b] = @ \/ ~Slack]
    /\ UNCHANGED <<config, posted, delivered, repeated, done, thread_map, tasks, open>>

\* whatsapp does not wait for the answer: the connection is closed and the
\* handler dropped where it is.
Cut(b) ==
    /\ ~Slack /\ b \in UnderWay /\ Goto(b, "away")
    /\ UNCHANGED <<config, posted, delivered, repeated, done, acked, thread_map, tasks, open>>

-----------------------------------------------------------------------------
(* Slack's send_response, at the end of a handler, when there are threads. *)
(* A handler that fails, or a call that does, just goes no further.        *)

MessageOf(k) == posted[tasks[k].message[1]][tasks[k].message[2]]
OnlyTask(k, task) ==
    /\ tasks' = [tasks EXCEPT ![k] = task]
    /\ UNCHANGED <<config, posted, delivered, repeated, stage, done, acked, thread_map, open>>

\* It reads the thread once ...
BeginReply(k) ==
    /\ config.use_threads /\ tasks[k].at = "working"
    /\ OnlyTask(k, [tasks[k] EXCEPT !.at = "sending",
                                    !.thread_ts = thread_map[MessageOf(k).chat]])

\* Mutant: the thread is looked up for each chunk.
PostChunkLookingUp(k) ==
    /\ tasks[k].at = "sending"
    /\ OnlyTask(k, [tasks[k] EXCEPT !.sent = @ \cup {thread_map[MessageOf(k).chat]}])

\* ... and posts every chunk in it.
PostChunk(k) ==
    /\ tasks[k].at = "sending"
    /\ OnlyTask(k, [tasks[k] EXCEPT !.sent = @ \cup {tasks[k].thread_ts}])

Next ==
    \/ Close
    \/ \E b \in Ids :
        \/ Read(b) \/ Receive(b) \/ Ack(b)
        \/ Skip(b) \/ Accept(b) \/ Forward(b) \/ Finish(b) \/ Cut(b)
    \/ \E k \in 1..Len(tasks) : BeginReply(k) \/ PostChunk(k)

Spec == Init /\ [][Next]_vars

-----------------------------------------------------------------------------

\* Types; slack's loop has one envelope at a time.
TypeOK ==
    /\ config \in Configs
    /\ posted \in Postings
    /\ delivered \in 0..Len(posted) /\ repeated \in 0..MaxRepeated
    /\ stage \in [Ids -> {"away", "read", "looking", "sending"}]
    /\ done \in [Ids -> Nat] /\ acked \in [Ids -> BOOLEAN]
    /\ \A b \in Ids : done[b] <= Len(posted[b])
    /\ thread_map \in [Chats -> Ids \cup {None}]
    /\ \A k \in 1..Len(tasks) : tasks[k].sent \subseteq Ids \cup {None}
    /\ open \in BOOLEAN
    /\ Slack => Cardinality(UnderWay) <= 1

(***************************************************************************)
(* What the platform may forget was dealt with as a whole: every message   *)
(* of a request answered with 200, or of an envelope acknowledged and not  *)
(* under way, that an allowed user wrote has reached the router, however   *)
(* many requests were cut short or delivered again meanwhile, until the    *)
(* router stops.                                                           *)
(***************************************************************************)
AckedMeansForwarded ==
    open => \A b \in Ids :
        acked[b] /\ b \notin UnderWay
            => \A i \in 1..Len(posted[b]) :
                   Accepted(posted[b][i]) => \E k \in 1..Len(tasks) : tasks[k].message = <<b, i>>

(***************************************************************************)
(* A reply goes to one thread as a whole, whatever arrives, or arrives     *)
(* again, while its chunks are being posted.                               *)
(***************************************************************************)
OneThread == \A k \in 1..Len(tasks) : Cardinality(tasks[k].sent) <= 1

\* The message was taken for the router after the k-th task was, or again.
NotBefore(k, ts) ==
    \/ \E j \in k..Len(tasks) : tasks[j].message[1] = ts
    \/ stage[ts] = "sending"
    \/ ~open

(***************************************************************************)
(* With use_threads that thread is a message of the same channel which an  *)
(* allowed user wrote, never one the gate dropped.  It is at least as      *)
(* recent as the last message with a ts that was taken from the channel up *)
(* to the one answered, and a reply goes to no thread only if there was no *)
(* such message.                                                           *)
(***************************************************************************)
ThreadOfReply ==
    \A k \in 1..Len(tasks) : \A ts \in tasks[k].sent :
        /\ ts # None => /\ posted[ts][1].chat = MessageOf(k).chat
                        /\ posted[ts][1].user \in Allowed
                        /\ posted[ts][1].ts
        /\ \A j \in 1..k :
              MessageOf(j).chat = MessageOf(k).chat /\ MessageOf(j).ts
                  => ts # None /\ NotBefore(j, ts)

(***************************************************************************)
(* What the documentation says of use_threads, "reply in-thread"           *)
(* (docs/configuration.md:46): the reply to a message that has a ts goes   *)
(* to the thread of that message.  It does not hold: one thread per        *)
(* channel is remembered, and a later message replaces it.                 *)
(***************************************************************************)
ReplyInThread ==
    \A k \in 1..Len(tasks) :
        MessageOf(k).ts => tasks[k].sent \subseteq {tasks[k].message[1]}

=============================================================================
