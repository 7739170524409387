-------------------------- MODULE ConfigReloadProofs --------------------------
(***************************************************************************)
(* Proofs about ConfigReload for any number of writes, in place or by      *)
(* renaming, and a channel of any size: its types, and that the limits     *)
(* taken over are always those of a valid configuration.                   *)
(*                                                                         *)
(* A version never stops being valid, so what was read is still valid when *)
(* it is applied, whatever has been written in between.                    *)
(***************************************************************************)
EXTENDS ConfigReload, TLAPS

\* What the task has read, and has yet to apply, was valid.
LoadedValid == loaded = Rejected \/ loaded \in valid

\* A write that has begun may still end.
RoomToWrite == writing => version < MaxVersion

Sound == TypeOK /\ LoadedValid /\ RoomToWrite /\ OnlyValid

Kinds == {"modify", "access", "remove"}

-----------------------------------------------------------------------------

\* notify's events are of the three kinds.
LEMMA NoticeTypes ==
    ASSUME TypeOK, NEW events \in Seq(Kinds), Notice(events)
    PROVE  pending' \in Seq(Kinds)
<1>1. pending \in Seq(Kinds)
  BY DEF TypeOK, Kinds
<1> QED BY <1>1 DEF Notice

\* The daemon starts with the limits of the file it has loaded.
LEMMA InitSound == Init => Sound
<1> SUFFICES ASSUME Init PROVE Sound
  OBVIOUS
<1>1. 0 \in Versions
  BY MaxVersionAssumption DEF Versions
<1>2. /\ pending = <<>> /\ channel = <<>> /\ pending \in Seq(Kinds) /\ channel \in Seq(Kinds)
      /\ Len(channel) <= Capacity
  BY CapacityAssumption DEF Init
<1>3. /\ version = 0 /\ valid = {0} /\ loaded = Rejected /\ shared = 0 /\ enforced = 0
      /\ task = "starting"
      /\ writing \in BOOLEAN /\ watched \in BOOLEAN /\ shutdown \in BOOLEAN
  BY DEF Init
<1>4. TypeOK
  BY <1>1, <1>2, <1>3 DEF TypeOK, Kinds
<1>5. LoadedValid /\ OnlyValid /\ RoomToWrite
  BY <1>3 DEF LoadedValid, OnlyValid, RoomToWrite, Init
<1> QED BY <1>4, <1>5 DEF Sound

\* A write leaves what was valid valid.
LEMMA WriteSound ==
    ASSUME Sound, BeginWrite \/ EndWrite \/ Replace
    PROVE  Sound'
<1>1. pending' \in Seq(Kinds)
  <2>1. /\ <<"modify">> \in Seq(Kinds) /\ <<"modify", "access">> \in Seq(Kinds)
        /\ <<"modify", "remove">> \in Seq(Kinds)
    BY DEF Kinds
  <2> QED BY <2>1, NoticeTypes DEF BeginWrite, EndWrite, Replace, Sound
<1>2. version' \in Versions /\ valid \subseteq valid' /\ valid' \subseteq Versions
  <2>1. CASE BeginWrite
    BY <2>1 DEF BeginWrite, Sound, TypeOK
  <2>2. CASE EndWrite \/ Replace
    <3>1. version + 1 \in Versions
      BY <2>2, MaxVersionAssumption
      DEF EndWrite, Replace, Sound, TypeOK, Versions, RoomToWrite
    <3> QED BY <2>2, <3>1 DEF EndWrite, Replace, NewVersion, Sound, TypeOK
  <2> QED BY <2>1, <2>2
<1>3. /\ writing' \in BOOLEAN /\ watched' \in BOOLEAN
      /\ UNCHANGED <<channel, task, loaded, shared, enforced, shutdown>>
  BY DEF BeginWrite, EndWrite, Replace, Sound, TypeOK
<1>4. TypeOK'
  BY <1>1, <1>2, <1>3 DEF Sound, TypeOK, Kinds
<1>5. LoadedValid' /\ OnlyValid'
  BY <1>2, <1>3 DEF Sound, LoadedValid, OnlyValid
<1>6. RoomToWrite'
  BY DEF BeginWrite, EndWrite, Replace, Sound, RoomToWrite
<1> QED BY <1>4, <1>5, <1>6 DEF Sound

\* An event moves from notify's thread to the task, or is dropped there.
LEMMA EventSound ==
    ASSUME Sound, Deliver \/ Recv \/ Drain
    PROVE  Sound'
<1>1. /\ UNCHANGED <<version, writing, valid, watched, loaded, shared, enforced, shutdown>>
      /\ task' \in {task, "idle", "debouncing", "reading"}
  BY DEF Deliver, Recv, Drain, fs
<1>2. /\ pending \in Seq(Kinds) /\ channel \in Seq(Kinds) /\ Len(channel) <= Capacity
      /\ Capacity \in Nat
  BY CapacityAssumption DEF Sound, TypeOK, Kinds
<1>3. pending' \in Seq(Kinds) /\ channel' \in Seq(Kinds) /\ Len(channel') <= Capacity
  <2>1. CASE Deliver
    <3>1. /\ Head(pending) \in Kinds /\ Tail(pending) \in Seq(Kinds)
          /\ Len(channel) < Capacity /\ Len(channel) \in Nat
          /\ channel' = Append(channel, Head(pending)) /\ pending' = Tail(pending)
      BY <1>2, <2>1 DEF Deliver
    <3> QED BY <1>2, <3>1
  <2>2. CASE Recv
    BY <1>2, <2>2 DEF Recv
  <2>3. CASE Drain
    BY <1>2, <2>3 DEF Drain
  <2> QED BY <2>1, <2>2, <2>3
<1>4. TypeOK'
  BY <1>1, <1>3 DEF Sound, TypeOK, Kinds
<1> QED BY <1>1, <1>4 DEF Sound, LoadedValid, RoomToWrite, OnlyValid

\* The file is read: a version counts if it is valid and was written as a whole.
LEMMA ReadSound ==
    ASSUME Sound, Read
    PROVE  Sound'
<1>1. pending' \in Seq(Kinds)
  <2>1. <<"access">> \in Seq(Kinds)
    BY DEF Kinds
  <2> QED BY <2>1, NoticeTypes DEF Read, Sound
<1>2. /\ UNCHANGED <<version, writing, valid, watched, channel, shared, enforced, shutdown>>
      /\ task' = "applying"
      /\ loaded' = Rejected \/ (loaded' = version /\ version \in valid)
  BY DEF Read, fs
<1>3. TypeOK'
  BY <1>1, <1>2 DEF Sound, TypeOK, Kinds
<1> QED BY <1>2, <1>3 DEF Sound, LoadedValid, RoomToWrite, OnlyValid

\* The task is started, applies what it has read, or stops; a signal comes.
LEMMA OtherSound ==
    ASSUME Sound, Start \/ Apply \/ Stop \/ Signal
    PROVE  Sound'
<1>1. /\ UNCHANGED <<version, writing, valid, loaded, enforced>>
      /\ watched' \in BOOLEAN /\ shutdown' \in BOOLEAN
      /\ task' \in {task, "idle"} \cup Ended
      /\ shared' = shared \/ (loaded # Rejected /\ shared' = loaded)
      /\ UNCHANGED <<pending, channel>> \/ (pending' = <<>> /\ channel' = <<>>)
  BY DEF Start, Apply, Stop, Signal, fs, Ended, Sound, TypeOK
<1>2. pending' \in Seq(Kinds) /\ channel' \in Seq(Kinds) /\ Len(channel') <= Capacity
  <2>1. CASE UNCHANGED <<pending, channel>>
    BY <2>1 DEF Sound, TypeOK, Kinds
  <2>2. CASE pending' = <<>> /\ channel' = <<>>
    BY <2>2, CapacityAssumption
  <2> QED BY <1>1, <2>1, <2>2
<1>3. TypeOK'
  BY <1>1, <1>2 DEF Sound, TypeOK, Kinds, LoadedValid
<1> QED BY <1>1, <1>3 DEF Sound, LoadedValid, RoomToWrite, OnlyValid

\* Every step keeps the limits valid.
LEMMA StepSound == Sound /\ [Next]_vars => Sound'
<1> SUFFICES ASSUME Sound, [Next]_vars PROVE Sound'
  OBVIOUS
<1>1. CASE UNCHANGED vars
  BY <1>1 DEF vars, fs, Sound, TypeOK, LoadedValid, RoomToWrite, OnlyValid
<1> QED BY <1>1, WriteSound, EventSound, ReadSound, OtherSound DEF Next, Watch

\* The inductive invariant holds.
LEMMA AlwaysSound == Spec => []Sound
<1> QED BY InitSound, StepSound, PTL DEF Spec

\* The types of file, events and task; the channel holds no more than its capacity.
THEOREM TypeCorrect == Spec => []TypeOK
<1>1. Sound => TypeOK
  BY DEF Sound
<1> QED BY <1>1, AlwaysSound, PTL

\* Whenever the file is read, in the middle of a write too, the limits in effect
\* are those of a version that load_from_path accepts.
THEOREM InvalidNeverApplied == Spec => []OnlyValid
<1>1. Sound => OnlyValid
  BY DEF Sound
<1> QED BY <1>1, AlwaysSound, PTL

=============================================================================
