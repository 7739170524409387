----------------------------- MODULE OutputProofs -----------------------------
(***************************************************************************)
(* Proofs about what a user gets of a CLI's output: Executor collects it   *)
(* and Formatter splits it into messages.                                  *)
(*                                                                         *)
(* Executor, for pipes of any size, outputs of any length and every kind   *)
(* of CLI: its types, that a completed run reports all that was written,   *)
(* and that run() returns only when its process is gone, or the system has *)
(* refused to kill it or to wait for it.                                   *)
(* What is written either is collected, or still in a pipe somebody reads, *)
(* or went into a pipe without a reader - and then the run cannot complete *)
(* any more.  The end of a pipe is final because nobody who might write to *)
(* it can get hold of it again.                                            *)
(*                                                                         *)
(* Formatter, for every output and all limits: nothing is lost, a message  *)
(* too long for the limit is a single character, no character is cut and   *)
(* no closed code block either.  The output consists of whole characters;  *)
(* every cut is at the end of one, so what a loop cuts off and what it     *)
(* leaves do too, and a rule for the loops gives what all of them push.    *)
(* Fences are closed when their number is even: a block takes two of them, *)
(* and leaves an even number to the rest.                                  *)
(***************************************************************************)
EXTENDS Executor, Formatter, SequenceTheorems, FiniteSetTheorems, WellFoundedInduction, TLAPS


\* Nothing is lost between a pipe that is read and its reader.
Accounted ==
    \A p \in Pipes :
        /\ todo[p] + written[p] <= MaxOutput
        /\ collected[p] + buffer[p] <= written[p]
        /\ task \in {"start", "draining"} /\ reader[p] = "reading"
               => collected[p] + buffer[p] = written[p]

\* A pipe whose end was read stays closed, and was read as a whole.
EndIsFinal ==
    \A p \in Pipes : reader[p] = "eof" => Closed(p) /\ collected[p] = written[p]

\* Where run() is says what has become of its process and of the readers.
Progress ==
    /\ result = "completed" => task = "returned" /\ \A p \in Pipes : reader[p] = "eof"
    /\ task = "start" => child = "none" /\ \A p \in Pipes : reader[p] = "reading"
    /\ task = "waiting" => \A p \in Pipes : reader[p] # "reading"
    /\ NoStrayProcess

Sound == TypeOK /\ Accounted /\ EndIsFinal /\ Progress

-----------------------------------------------------------------------------

\* Before the spawn nothing is written, read or running.
LEMMA InitSound == Init => Sound
<1> SUFFICES ASSUME Init PROVE Sound
  OBVIOUS
<1>1. TypeOK
  <2>1. 0 \in 0..Capacity /\ 0 \in 0..MaxOutput
    BY CapacityAssumption, MaxOutputAssumption
  <2>2. /\ buffer \in [Pipes -> 0..Capacity]
        /\ todo \in [Pipes -> 0..MaxOutput] /\ written \in [Pipes -> 0..MaxOutput]
        /\ collected \in [Pipes -> 0..MaxOutput]
        /\ reader \in [Pipes -> {"reading", "eof", "failed"}]
    BY <2>1 DEF Init
  <2>3. /\ task \in Tasks /\ result \in Results /\ expired \in BOOLEAN
        /\ child = "none" /\ helper = "none" /\ holds \subseteq Processes \X Pipes
        /\ refused = "none"
    BY DEF Init, Tasks, Results
  <2> QED BY <2>2, <2>3 DEF TypeOK
<1>2. Accounted
  BY MaxOutputAssumption DEF Init, Accounted
<1>3. EndIsFinal /\ Progress
  BY DEF Init, EndIsFinal, Progress, NoStrayProcess
<1> QED BY <1>1, <1>2, <1>3 DEF Sound

\* The process is started, or is not.
LEMMA SpawnSound ==
    ASSUME Sound, Spawn \/ SpawnFails
    PROVE  Sound'
<1> USE DEF Sound, TypeOK, Spawn, SpawnFails, os, readers
<1>1. TypeOK'
  BY DEF Tasks, Results, Processes
<1>2. Accounted'
  BY DEF Accounted, Tasks
<1>3. EndIsFinal'
  BY DEF EndIsFinal, Progress, Closed
<1>4. Progress'
  BY DEF Progress, NoStrayProcess
<1> QED BY <1>1, <1>2, <1>3, <1>4

\* A write goes to a pipe that its process holds, so whose end was not read.
LEMMA WriteSound ==
    ASSUME Sound, NEW p \in Pipes, Write(p)
    PROVE  Sound'
<1> USE DEF Sound, TypeOK, Write, readers
<1>1. TypeOK'
  <2>1. todo[p] - 1 \in 0..MaxOutput /\ written[p] + 1 \in 0..MaxOutput
    BY MaxOutputAssumption DEF Accounted
  <2>2. todo' \in [Pipes -> 0..MaxOutput] /\ written' \in [Pipes -> 0..MaxOutput]
    BY <2>1
  <2>3. buffer' \in [Pipes -> 0..Capacity]
    <3>1. CASE UNCHANGED buffer
      BY <3>1
    <3>2. CASE buffer[p] < Capacity /\ buffer' = [buffer EXCEPT ![p] = @ + 1]
      <4>1. buffer[p] + 1 \in 0..Capacity
        BY <3>2, CapacityAssumption
      <4> QED BY <3>2, <4>1
    <3> QED BY <3>1, <3>2
  <2> QED BY <2>2, <2>3
<1>2. Accounted'
  <2>1. /\ todo[p] \in Nat /\ written[p] \in Nat /\ collected[p] \in Nat /\ buffer[p] \in Nat
        /\ todo'[p] = todo[p] - 1 /\ written'[p] = written[p] + 1
        /\ task # "start" /\ UNCHANGED <<task, collected, reader>>
    BY CapacityAssumption, MaxOutputAssumption DEF Progress
  <2>2. \/ task = "draining" /\ reader[p] = "reading" /\ buffer'[p] = buffer[p] + 1
        \/ ~(task = "draining" /\ reader[p] = "reading") /\ buffer'[p] = buffer[p]
    OBVIOUS
  <2>3. \A q \in Pipes : q # p => /\ todo'[q] = todo[q] /\ written'[q] = written[q]
                                 /\ buffer'[q] = buffer[q]
    OBVIOUS
  <2> QED BY <2>1, <2>2, <2>3, MaxOutputAssumption DEF Accounted
<1>3. EndIsFinal'
  BY DEF EndIsFinal, Closed
<1>4. Progress'
  BY DEF Progress, NoStrayProcess
<1> QED BY <1>1, <1>2, <1>3, <1>4

\* Processes let go of pipes, and pass on those they hold.
LEMMA ProcessSound ==
    ASSUME Sound, Exit \/ Crash \/ CloseOutput \/ Fork \/ HelperExits
    PROVE  Sound'
<1> USE DEF Sound, TypeOK, Exit, Crash, CloseOutput, Fork, HelperExits, HeldBy, readers
<1>1. TypeOK'
  BY DEF Processes
<1>2. Accounted'
  BY DEF Accounted
<1>3. EndIsFinal'
  <2>1. \A q \in Pipes : Closed(q) => Closed(q)'
    BY DEF Closed
  <2> QED BY <2>1 DEF EndIsFinal
<1>4. Progress'
  BY DEF Progress, NoStrayProcess
<1> QED BY <1>1, <1>2, <1>3, <1>4

\* A reader takes a chunk, sees the end, or fails.
LEMMA ReadSound ==
    ASSUME Sound, NEW p \in Pipes, Read(p) \/ ReadEnd(p) \/ ReadFails(p)
    PROVE  Sound'
<1> USE DEF Sound, TypeOK, Read, ReadEnd, ReadFails, os
<1>1. TypeOK'
  BY CapacityAssumption, MaxOutputAssumption DEF Accounted
<1>2. Accounted'
  <2>1. CASE Read(p)
    <3>1. /\ buffer'[p] = buffer[p] - 1 /\ collected'[p] = collected[p] + 1
          /\ \A q \in Pipes : q # p => buffer'[q] = buffer[q] /\ collected'[q] = collected[q]
          /\ UNCHANGED <<task, todo, written, reader>>
      BY <2>1
    <3>2. buffer[p] \in Nat /\ collected[p] \in Nat
      BY CapacityAssumption, MaxOutputAssumption
    <3> QED BY <2>1, <3>1, <3>2, MaxOutputAssumption DEF Accounted
  <2>2. CASE ReadEnd(p) \/ ReadFails(p)
    BY <2>2, CapacityAssumption, MaxOutputAssumption DEF Accounted
  <2> QED BY <2>1, <2>2
<1>3. EndIsFinal'
  BY DEF EndIsFinal, Closed, Accounted
<1>4. Progress'
  BY DEF Progress, NoStrayProcess
<1> QED BY <1>1, <1>2, <1>3, <1>4

\* run() goes on when both readers have ended, and returns what they read or that
\* the wait failed.
LEMMA DrainedSound ==
    ASSUME Sound, Drained \/ Reap \/ WaitFails
    PROVE  Sound'
<1> USE DEF Sound, TypeOK, Drained, Reap, WaitFails, os, readers
<1>1. TypeOK'
  BY DEF Tasks, Results
<1>2. Accounted'
  BY DEF Accounted
<1>3. EndIsFinal'
  BY DEF EndIsFinal, Closed
<1>4. Progress'
  BY DEF Progress, NoStrayProcess
<1> QED BY <1>1, <1>2, <1>3, <1>4

\* The timer elapses, wins the select, kills or fails to, or the handler is aborted.
LEMMA TimerSound ==
    ASSUME Sound, Expire \/ TimeOut \/ Killed \/ KillFails \/ Abort
    PROVE  Sound'
<1> USE DEF Sound, TypeOK, Expire, TimeOut, Killed, KillFails, Abort, os, readers, HeldBy
<1>1. TypeOK'
  BY DEF Tasks, Results
<1>2. Accounted'
  BY DEF Accounted
<1>3. EndIsFinal'
  BY DEF EndIsFinal, Closed
<1>4. Progress'
  BY DEF Progress, NoStrayProcess
<1> QED BY <1>1, <1>2, <1>3, <1>4

\* Every step keeps the account.
LEMMA StepSound == Sound /\ [Next]_vars => Sound'
<1> SUFFICES ASSUME Sound, [Next]_vars PROVE Sound'
  OBVIOUS
<1>1. CASE Spawn \/ SpawnFails
  BY <1>1, SpawnSound
<1>2. ASSUME NEW p \in Pipes, Write(p) PROVE Sound'
  BY <1>2, WriteSound
<1>3. CASE Exit \/ Crash \/ CloseOutput \/ Fork \/ HelperExits
  BY <1>3, ProcessSound
<1>4. ASSUME NEW p \in Pipes, ReadFails(p) \/ Read(p) \/ ReadEnd(p) PROVE Sound'
  BY <1>4, ReadSound
<1>5. CASE Drained \/ Reap \/ WaitFails
  BY <1>5, DrainedSound
<1>6. CASE TimeOut \/ Killed \/ KillFails \/ Expire \/ Abort
  BY <1>6, TimerSound
<1>7. CASE UNCHANGED vars
  BY <1>7 DEF vars, os, readers, Sound, TypeOK, Accounted, EndIsFinal, Progress,
     NoStrayProcess, Closed
<1> QED BY <1>1, <1>2, <1>3, <1>4, <1>5, <1>6, <1>7 DEF Next, Run

\* The inductive invariant holds.
LEMMA AlwaysSound == Spec => []Sound
<1> QED BY InitSound, StepSound, PTL DEF Spec

\* The types of task, processes, pipes and readers; no pipe holds more than its
\* capacity.
THEOREM TypeCorrect == Spec => []TypeOK
<1>1. Sound => TypeOK
  BY DEF Sound
<1> QED BY <1>1, AlwaysSound, PTL

\* A completed run() returns everything the process wrote to its pipes, whatever
\* the order of writes, reads, forks and exits.
THEOREM AllOutputReported == Spec => []OutputComplete
<1>1. Sound => OutputComplete
  BY DEF Sound, Progress, EndIsFinal, OutputComplete
<1> QED BY <1>1, AlwaysSound, PTL

\* run() returns only when its process was never started or has been waited for,
\* or with an error after the system has refused to kill it or to wait for it.
THEOREM ProcessReaped == Spec => []NoStrayProcess
<1>1. Sound => NoStrayProcess
  BY DEF Sound, Progress
<1> QED BY <1>1, AlwaysSound, PTL

(* Induction.                                                              *)

\* A set that holds 0 and, with each number below n, the next holds 0..n.
LEMMA UpTo ==
    ASSUME NEW n \in Nat, NEW S, 0 \in S, \A i \in 0..n - 1 : i \in S => i + 1 \in S
    PROVE  0..n \subseteq S
<1> DEFINE T == {i \in Nat : i <= n /\ i \notin S}
           R == OpToRel(<, Nat)
<1>1. IsWellFoundedOn(R, Nat)
  BY NatLessThanWellFounded
<1>2. \A x, y \in Nat : y < x => <<y, x>> \in R
  BY DEF OpToRel
<1> HIDE DEF R
<1>3. CASE T # {}
  <2>1. PICK m \in T : \A k \in T : <<k, m>> \notin R
    BY <1>1, <1>3, WFMin, T \subseteq Nat
  <2>2. m \in Nat /\ m <= n /\ m \notin S /\ m # 0
    OBVIOUS
  <2>3. PICK k \in Nat : k + 1 = m
    BY <2>2
  <2>4. k \notin T
    <3>1. <<k, m>> \in R
      BY <1>2, <2>2, <2>3
    <3> QED BY <2>1, <3>1
  <2>5. k \in 0..n - 1 /\ k \in S
    BY <2>2, <2>3, <2>4
  <2> QED BY <2>2, <2>3, <2>5
<1> QED BY <1>3

\* Numbers have a least one, and those up to n a greatest.
LEMMA MinMax ==
    ASSUME NEW n \in Nat, NEW S, S \subseteq 0..n, S # {}
    PROVE  /\ Min(S) \in S /\ \A x \in S : Min(S) <= x
           /\ Max(S) \in S /\ \A x \in S : x <= Max(S)
<1> DEFINE Below(i) == \A x \in S : i <= x
           Above(i) == \A x \in S : x <= n - i
           L == {i \in 0..n : Below(i) \/ \E x \in S : Below(x)}
           H == {i \in 0..n : Above(i) \/ \E x \in S : \A y \in S : y <= x}
<1>1. \E x \in S : Below(x)
  <2>1. 0 \in L
    OBVIOUS
  <2>2. ASSUME NEW i \in 0..n - 1, i \in L PROVE i + 1 \in L
    <3>1. CASE i \in S
      BY <2>2, <3>1
    <3>2. CASE i \notin S
      BY <2>2, <3>2
    <3> QED BY <3>1, <3>2
  <2> HIDE DEF L
  <2>3. n \in L
    BY <2>1, <2>2, UpTo
  <2>4. Below(n) => \E x \in S : Below(x)
    <3>1. PICK x : x \in S
      OBVIOUS
    <3> QED BY <3>1
  <2> HIDE DEF Below
  <2> QED BY <2>3, <2>4 DEF L
<1>2. \E x \in S : \A y \in S : y <= x
  <2>1. 0 \in H
    OBVIOUS
  <2>2. ASSUME NEW i \in 0..n - 1, i \in H PROVE i + 1 \in H
    <3>1. CASE n - i \in S
      BY <2>2, <3>1
    <3>2. CASE n - i \notin S
      BY <2>2, <3>2
    <3> QED BY <3>1, <3>2
  <2> HIDE DEF H
  <2>3. n \in H
    BY <2>1, <2>2, UpTo
  <2>4. Above(n) => \E x \in S : \A y \in S : y <= x
    <3>1. PICK x : x \in S
      OBVIOUS
    <3> QED BY <3>1
  <2> HIDE DEF Above
  <2> QED BY <2>3, <2>4 DEF H
<1>3. \A x, y \in S : x <= y <=> y >= x
  OBVIOUS
<1> QED BY <1>1, <1>2, <1>3 DEF Min, Max

\* A function whose value at n is made, by op, of its value at a smaller number.
Recursive(f, N, base, next, op) ==
    f = [n \in 0..N |-> IF n = 0 THEN base ELSE op[n][f[next[n]]]]

\* There is one.
LEMMA RecursionExists ==
    ASSUME NEW N \in Nat, NEW V, NEW base \in V, NEW next, NEW op,
           \A n \in 1..N : next[n] \in 0..n - 1,
           \A n \in 1..N : \A v \in V : op[n][v] \in V
    PROVE  \E f \in [0..N -> V] : Recursive(f, N, base, next, op)
<1> DEFINE Is(m, f) == /\ f \in [0..m -> V]
                       /\ \A n \in 0..m : f[n] = IF n = 0 THEN base ELSE op[n][f[next[n]]]
           S == {m \in 0..N : \E f : Is(m, f)}
<1>1. 0 \in S
  <2>1. Is(0, [n \in 0..0 |-> base]) /\ 0 \in 0..N
    OBVIOUS
  <2> HIDE DEF Is
  <2> QED BY <2>1
<1>2. ASSUME NEW m \in 0..N - 1, NEW f, Is(m, f) PROVE \E g : Is(m + 1, g)
  <2> DEFINE last == op[m + 1][f[next[m + 1]]]
             g == [n \in 0..m + 1 |-> IF n = m + 1 THEN last ELSE f[n]]
  <2>1. m + 1 \in 1..N /\ next[m + 1] \in 0..m
    OBVIOUS
  <2>2. last \in V
    BY <1>2, <2>1
  <2> HIDE DEF last
  <2>3. g \in [0..m + 1 -> V] /\ g[m + 1] = last /\ \A n \in 0..m : g[n] = f[n]
    BY <1>2, <2>2
  <2> HIDE DEF g
  <2>4. \A n \in 1..m : next[n] \in 0..m
    OBVIOUS
  <2>5. \A n \in 0..m : g[n] = IF n = 0 THEN base ELSE op[n][g[next[n]]]
    BY <1>2, <2>3, <2>4
  <2>6. g[m + 1] = op[m + 1][g[next[m + 1]]]
    BY <2>1, <2>3 DEF last
  <2>7. \A n \in 0..m + 1 : n \in 0..m \/ (n = m + 1 /\ n # 0)
    OBVIOUS
  <2>8. Is(m + 1, g)
    BY <2>3, <2>5, <2>6, <2>7
  <2> QED BY <2>8
<1>3. ASSUME NEW m \in 0..N - 1, m \in S PROVE m + 1 \in S
  <2>1. m + 1 \in 0..N
    OBVIOUS
  <2> HIDE DEF Is
  <2> QED BY <1>2, <1>3, <2>1
<1> HIDE DEF S
<1>4. N \in S
  BY <1>1, <1>3, UpTo
<1>5. PICK f : Is(N, f)
  BY <1>4 DEF S
<1>6. f = [n \in 0..N |-> f[n]]
  BY <1>5
<1>7. Recursive(f, N, base, next, op)
  BY <1>5, <1>6 DEF Recursive
<1> QED BY <1>5, <1>7

-----------------------------------------------------------------------------
(* Sequences.                                                              *)

\* A sequence is what is taken of it and what is dropped with that.
LEMMA TakeDrop ==
    ASSUME NEW T, NEW t \in Seq(T), NEW n \in 0..Len(t)
    PROVE  /\ Len(t) \in Nat
           /\ Take(t, n) \in Seq(T) /\ Len(Take(t, n)) = n
           /\ \A i \in 1..n : Take(t, n)[i] = t[i]
           /\ Drop(t, n) \in Seq(T) /\ Len(Drop(t, n)) = Len(t) - n
           /\ \A i \in 1..Len(t) - n : Drop(t, n)[i] = t[n + i]
           /\ Take(t, n) \o Drop(t, n) = t
           /\ Take(t, Len(t)) = t /\ Drop(t, 0) = t
<1>1. Len(t) \in Nat /\ \A i \in 1..Len(t) : t[i] \in T
  OBVIOUS
<1>2. Take(t, n) \in Seq(T) /\ Len(Take(t, n)) = n /\ \A i \in 1..n : Take(t, n)[i] = t[i]
  BY <1>1 DEF Take
<1>3. /\ Drop(t, n) \in Seq(T) /\ Len(Drop(t, n)) = Len(t) - n
      /\ \A i \in 1..Len(t) - n : Drop(t, n)[i] = t[n + i]
  <2>1. \A i \in n + 1..Len(t) : t[i] \in T
    BY <1>1
  <2>2. n + 1 \in Int /\ Len(t) \in Int
    BY <1>1
  <2>3. /\ SubSeq(t, n + 1, Len(t)) \in Seq(T)
        /\ Len(SubSeq(t, n + 1, Len(t))) = IF n + 1 <= Len(t) THEN Len(t) - (n + 1) + 1 ELSE 0
        /\ \A i \in 1..Len(t) - (n + 1) + 1 :
               SubSeq(t, n + 1, Len(t))[i] = t[n + 1 + i - 1]
    BY <2>1, <2>2, SubSeqProperties
  <2>4. Len(t) - (n + 1) + 1 = Len(t) - n /\ \A i \in 1..Len(t) - n : n + 1 + i - 1 = n + i
    BY <1>1
  <2> QED BY <1>1, <2>3, <2>4 DEF Drop
<1>4. Take(t, n) \o Drop(t, n) = t
  <2>1. SubSeq(t, 1, n) \o SubSeq(t, n + 1, Len(t)) = SubSeq(t, 1, Len(t))
    BY <1>1, ConcatAdjacentSubSeq, 1 \in 1..Len(t) + 1, n \in 1 - 1..Len(t), Len(t) \in n..Len(t)
  <2> QED BY <2>1, SubSeqFull DEF Take, Drop
<1>5. Take(t, Len(t)) = t /\ Drop(t, 0) = t
  BY <1>1, SubSeqFull DEF Take, Drop
<1> QED BY <1>1, <1>2, <1>3, <1>4, <1>5

\* What is dropped in two steps can be dropped in one.
LEMMA DropDrop ==
    ASSUME NEW T, NEW t \in Seq(T), NEW n \in 0..Len(t), NEW m \in 0..Len(t) - n
    PROVE  Drop(Drop(t, n), m) = Drop(t, n + m)
<1>1. PICK d, e, f : d = Drop(t, n) /\ e = Drop(d, m) /\ f = Drop(t, n + m)
  OBVIOUS
<1>2. d \in Seq(T) /\ Len(d) = Len(t) - n /\ \A i \in 1..Len(t) - n : d[i] = t[n + i]
  BY <1>1, TakeDrop
<1>3. e \in Seq(T) /\ Len(e) = Len(d) - m /\ \A i \in 1..Len(d) - m : e[i] = d[m + i]
  <2>1. m \in 0..Len(d)
    BY <1>2
  <2> QED BY <1>1, <1>2, <2>1, TakeDrop
<1>4. n + m \in 0..Len(t)
  OBVIOUS
<1>5. /\ f \in Seq(T) /\ Len(f) = Len(t) - (n + m)
      /\ \A i \in 1..Len(t) - (n + m) : f[i] = t[(n + m) + i]
  BY <1>1, <1>4, TakeDrop
<1>6. ASSUME NEW i \in 1..Len(e) PROVE e[i] = f[i]
  <2>1. m + i \in 1..Len(t) - n /\ i \in 1..Len(d) - m /\ i \in 1..Len(t) - (n + m)
        /\ n + (m + i) = (n + m) + i
    BY <1>2, <1>3
  <2> QED BY <1>2, <1>3, <1>5, <2>1
<1>7. Len(e) = Len(f)
  BY <1>2, <1>3, <1>5
<1>8. e = f
  BY <1>3, <1>5, <1>6, <1>7, SeqEqual
<1> QED BY <1>1, <1>8

\* The last n bytes.
LEMMA RemainingForm ==
    ASSUME NEW T, NEW t \in Seq(T)
    PROVE  /\ Remaining(t, Len(t)) = t
           /\ \A n \in 0..Len(t) : /\ Remaining(t, n) \in Seq(T) /\ Len(Remaining(t, n)) = n
                                   /\ \A m \in 0..n : Drop(Remaining(t, n), m) = Remaining(t, n - m)
<1>1. Len(t) \in Nat /\ Len(t) - Len(t) = 0
  OBVIOUS
<1>2. Remaining(t, Len(t)) = t
  BY <1>1, TakeDrop DEF Remaining
<1>3. ASSUME NEW n \in 0..Len(t)
      PROVE  /\ Remaining(t, n) \in Seq(T) /\ Len(Remaining(t, n)) = n
             /\ \A m \in 0..n : Drop(Remaining(t, n), m) = Remaining(t, n - m)
  <2>1. PICK k : k = Len(t) - n
    OBVIOUS
  <2>2. k \in 0..Len(t) /\ Len(t) - k = n
    BY <1>1, <2>1
  <2>3. Drop(t, k) \in Seq(T) /\ Len(Drop(t, k)) = n
    BY <2>2, TakeDrop
  <2>4. ASSUME NEW m \in 0..n PROVE Drop(Remaining(t, n), m) = Remaining(t, n - m)
    <3>1. k + m = Len(t) - (n - m)
      BY <1>1, <2>1
    <3> QED BY <2>1, <2>2, <3>1, DropDrop DEF Remaining
  <2> QED BY <2>1, <2>3, <2>4 DEF Remaining
<1> QED BY <1>2, <1>3

\* The rule for the code's loops: what holds of nothing pushed when nothing remains, and
\* of a round's push before all that its rest makes, holds of the loop.
LEMMA LoopRule ==
    ASSUME NEW T, NEW t \in Seq(T), NEW V, NEW push, NEW cut, NEW P,
           \A n \in 1..Len(t) : push[n] \in V /\ cut[n] \in 1..n,
           <<0, <<>>>> \in P,
           \A n \in 1..Len(t) : \A s \in Seq(V) :
               <<n - cut[n], s>> \in P => <<n, <<push[n]>> \o s>> \in P
    PROVE  Loop(t, push, cut) \in Seq(V) /\ <<Len(t), Loop(t, push, cut)>> \in P
<1> DEFINE left(n) == Len(Rest(Remaining(t, n), cut[n]))
           next == [n \in 1..Len(t) |-> n - cut[n]]
           op == [n \in 1..Len(t) |-> [s \in Seq(V) |-> <<push[n]>> \o s]]
<1>1. Len(t) \in Nat
  OBVIOUS
<1>2. ASSUME NEW n \in 1..Len(t)
      PROVE  left(n) = next[n] /\ next[n] \in 0..n - 1 /\ next[n] = n - cut[n]
  <2>1. n \in 0..Len(t) /\ cut[n] \in 0..n /\ n - cut[n] \in 0..n - 1 /\ n - cut[n] \in 0..Len(t)
    OBVIOUS
  <2>2. left(n) = n - cut[n]
    BY <2>1, RemainingForm DEF Rest
  <2> QED BY <2>1, <2>2
<1>3. ASSUME NEW n \in 1..Len(t), NEW s \in Seq(V)
      PROVE  op[n][s] = <<push[n]>> \o s /\ op[n][s] \in Seq(V)
  <2>1. <<push[n]>> \in Seq(V)
    OBVIOUS
  <2>2. <<push[n]>> \o s \in Seq(V)
    BY <2>1, ConcatProperties
  <2> QED BY <2>2
<1> HIDE DEF left, next, op
<1>4. \E f \in [0..Len(t) -> Seq(V)] : Recursive(f, Len(t), <<>>, next, op)
  <2>1. PICK W, b, N : W = Seq(V) /\ b = <<>> /\ N = Len(t)
    OBVIOUS
  <2>2. b \in W
    BY <2>1
  <2>5. ASSUME NEW n \in 1..N, NEW s \in W PROVE op[n][s] \in W
    <3>1. n \in 1..Len(t) /\ s \in Seq(V)
      BY <2>1, <2>5
    <3>2. op[n][s] \in Seq(V)
      BY <1>3, <3>1
    <3> QED BY <2>1, <3>2
  <2>3. N \in Nat /\ \A n \in 1..N : next[n] \in 0..n - 1
    BY <1>1, <1>2, <2>1
  <2>4. \E f \in [0..N -> W] : Recursive(f, N, b, next, op)
    BY <2>2, <2>3, <2>5, RecursionExists
  <2> QED BY <2>1, <2>4
<1> DEFINE Is(f) == f = [n \in 0..Len(t) |-> IF n = 0 THEN <<>> ELSE <<push[n]>> \o f[left(n)]]
<1>5. ASSUME NEW f \in [0..Len(t) -> Seq(V)], Recursive(f, Len(t), <<>>, next, op)
      PROVE  Is(f)
  <2>1. \A n \in 0..Len(t) : n # 0 =>
            n \in 1..Len(t) /\ left(n) = next[n] /\ next[n] \in 0..Len(t)
    BY <1>1, <1>2
  <2>2. ASSUME NEW n \in 0..Len(t), n # 0 PROVE op[n][f[next[n]]] = <<push[n]>> \o f[left(n)]
    <3>1. n \in 1..Len(t) /\ left(n) = next[n] /\ f[next[n]] \in Seq(V)
      BY <1>5, <2>1, <2>2
    <3> QED BY <1>3, <3>1
  <2>3. \A n \in 0..Len(t) : f[n] = IF n = 0 THEN <<>> ELSE op[n][f[next[n]]]
    BY <1>5 DEF Recursive
  <2>4. f = [n \in 0..Len(t) |-> f[n]]
    BY <1>5
  <2>5. \A n \in 0..Len(t) : f[n] = IF n = 0 THEN <<>> ELSE <<push[n]>> \o f[left(n)]
    BY <2>2, <2>3
  <2> QED BY <2>4, <2>5
<1>6. \E f : Is(f)
  <2> HIDE DEF Is
  <2> QED BY <1>4, <1>5
<1>7. PICK f : Is(f) /\ Loop(t, push, cut) = f[Len(t)]
  <2>1. Is(CHOOSE f : Is(f))
    <3> HIDE DEF Is
    <3> QED BY <1>6
  <2>2. Loop(t, push, cut) = (CHOOSE f : Is(f))[Len(t)]
    BY DEF Loop, left
  <2> HIDE DEF Is
  <2> QED BY <2>1, <2>2
<1>8. f[0] = <<>> /\ \A n \in 1..Len(t) : f[n] = <<push[n]>> \o f[next[n]]
  <2>1. \A n \in 0..Len(t) : f[n] = IF n = 0 THEN <<>> ELSE <<push[n]>> \o f[left(n)]
    BY <1>7
  <2>2. ASSUME NEW n \in 1..Len(t) PROVE f[n] = <<push[n]>> \o f[next[n]]
    <3>1. n \in 0..Len(t) /\ n # 0 /\ left(n) = next[n]
      BY <1>1, <1>2
    <3> QED BY <2>1, <3>1
  <2>3. f[0] = <<>>
    <3>1. 0 \in 0..Len(t)
      BY <1>1
    <3> QED BY <2>1, <3>1, Zenon
  <2> QED BY <2>2, <2>3
<1> DEFINE S == {n \in 0..Len(t) : \A m \in 0..n : f[m] \in Seq(V) /\ <<m, f[m]>> \in P}
<1>9. 0 \in S
  <2>1. f[0] \in Seq(V) /\ <<0, f[0]>> \in P
    BY <1>8
  <2>2. 0 \in 0..Len(t) /\ \A m \in 0..0 : m = 0
    BY <1>1
  <2> QED BY <2>1, <2>2
<1>10. ASSUME NEW n \in 0..Len(t) - 1, n \in S PROVE n + 1 \in S
  <2>1. n + 1 \in 1..Len(t) /\ n + 1 \in 0..Len(t) /\ (n + 1) - 1 = n
    BY <1>1
  <2>2. next[n + 1] \in 0..n
    BY <1>2, <2>1
  <2>3. f[next[n + 1]] \in Seq(V) /\ <<next[n + 1], f[next[n + 1]]>> \in P
    BY <1>10, <2>2
  <2>4. f[n + 1] \in Seq(V) /\ <<n + 1, f[n + 1]>> \in P
    <3>1. PICK k, s : k = n + 1 /\ s = f[next[k]]
      OBVIOUS
    <3>2. k \in 1..Len(t) /\ s \in Seq(V) /\ <<k - cut[k], s>> \in P
      BY <1>2, <2>1, <2>3, <3>1
    <3>3. <<k, <<push[k]>> \o s>> \in P /\ <<push[k]>> \o s \in Seq(V)
      BY <1>3, <3>2
    <3>4. f[k] = <<push[k]>> \o s
      BY <1>8, <3>1, <3>2
    <3> QED BY <3>1, <3>3, <3>4
  <2>5. \A m \in 0..n + 1 : m \in 0..n \/ m = n + 1
    OBVIOUS
  <2> QED BY <1>10, <2>1, <2>4, <2>5
<1> HIDE DEF S
<1>11. Len(t) \in S
  <2>1. 0..Len(t) \subseteq S
    BY <1>1, <1>9, <1>10, UpTo
  <2> QED BY <1>1, <2>1
<1>12. f[Len(t)] \in Seq(V) /\ <<Len(t), f[Len(t)]>> \in P
  BY <1>1, <1>11 DEF S
<1> QED BY <1>7, <1>12

\* f[n] is the first n sequences of ss, put together.
Joined(f, ss, V) ==
    /\ f \in [0..Len(ss) -> Seq(V)]
    /\ f[0] = <<>> /\ \A n \in 1..Len(ss) : f[n] = f[n - 1] \o ss[n]

\* FlattenSeq puts all of them together.
LEMMA FlattenForm ==
    ASSUME NEW V, NEW ss \in Seq(Seq(V))
    PROVE  \E f : Joined(f, ss, V) /\ FlattenSeq(ss) = f[Len(ss)]
<1> DEFINE next == [n \in 1..Len(ss) |-> n - 1]
           op == [n \in 1..Len(ss) |-> [s \in Seq(V) |-> s \o ss[n]]]
<1>1. Len(ss) \in Nat /\ \A n \in 1..Len(ss) : ss[n] \in Seq(V)
  OBVIOUS
<1>2. ASSUME NEW n \in 1..Len(ss), NEW s \in Seq(V)
      PROVE  op[n][s] = s \o ss[n] /\ op[n][s] \in Seq(V)
  <2>1. s \o ss[n] \in Seq(V)
    BY <1>1, ConcatProperties
  <2> QED BY <2>1
<1>3. \A n \in 1..Len(ss) : next[n] = n - 1 /\ next[n] \in 0..n - 1
  OBVIOUS
<1> HIDE DEF next, op
<1>4. PICK f \in [0..Len(ss) -> Seq(V)] : Recursive(f, Len(ss), <<>>, next, op)
  <2>1. PICK W, b, N : W = Seq(V) /\ b = <<>> /\ N = Len(ss)
    OBVIOUS
  <2>2. b \in W /\ N \in Nat /\ \A n \in 1..N : next[n] \in 0..n - 1
    BY <1>1, <1>3, <2>1
  <2>3. ASSUME NEW n \in 1..N, NEW s \in W PROVE op[n][s] \in W
    <3>1. n \in 1..Len(ss) /\ s \in Seq(V)
      BY <2>1, <2>3
    <3>2. op[n][s] \in Seq(V)
      BY <1>2, <3>1
    <3> QED BY <2>1, <3>2
  <2>4. \E f \in [0..N -> W] : Recursive(f, N, b, next, op)
    BY <2>2, <2>3, RecursionExists
  <2> QED BY <2>1, <2>4
<1>5. Joined(f, ss, V)
  <2>1. \A n \in 0..Len(ss) : f[n] = IF n = 0 THEN <<>> ELSE op[n][f[next[n]]]
    BY <1>4 DEF Recursive
  <2>2. f[0] = <<>>
    <3>1. 0 \in 0..Len(ss)
      BY <1>1
    <3> QED BY <2>1, <3>1, Zenon
  <2>3. ASSUME NEW n \in 1..Len(ss) PROVE f[n] = f[n - 1] \o ss[n]
    <3>1. n \in 0..Len(ss) /\ n # 0 /\ n - 1 \in 0..Len(ss) /\ next[n] = n - 1
      BY <1>1, <1>3
    <3>2. f[n] = op[n][f[n - 1]]
      BY <2>1, <3>1
    <3>3. f[n - 1] \in Seq(V)
      BY <1>4, <3>1
    <3> QED BY <1>2, <3>2, <3>3
  <2> QED BY <1>4, <2>2, <2>3 DEF Joined
<1>6. CASE Len(ss) = 0
  <2>1. FlattenSeq(ss) = <<>>
    BY <1>6 DEF FlattenSeq
  <2> QED BY <1>5, <1>6, <2>1 DEF Joined
<1>7. CASE Len(ss) # 0
  <2> DEFINE Is(g) == g = [i \in 1..Len(ss) |-> IF i = 1 THEN ss[i] ELSE g[i - 1] \o ss[i]]
             first == [i \in 1..Len(ss) |-> f[i]]
  <2>1. \A i \in 1..Len(ss) : f[i] = IF i = 1 THEN ss[i] ELSE f[i - 1] \o ss[i]
    <3> SUFFICES ASSUME NEW i \in 1..Len(ss) PROVE f[i] = IF i = 1 THEN ss[i] ELSE f[i - 1] \o ss[i]
      OBVIOUS
    <3>1. f[i] = f[i - 1] \o ss[i] /\ f[0] = <<>>
      BY <1>5 DEF Joined
    <3>2. <<>> \o ss[i] = ss[i]
      BY <1>1, ConcatEmptySeq
    <3>3. i = 1 => i - 1 = 0
      OBVIOUS
    <3>4. CASE i = 1
      BY <3>1, <3>2, <3>3, <3>4
    <3>5. CASE i # 1
      BY <3>1, <3>5
    <3> QED BY <3>4, <3>5
  <2>2. Is(first)
    <3>1. \A i \in 1..Len(ss) : i # 1 => first[i - 1] = f[i - 1]
      BY <1>1
    <3> QED BY <2>1, <3>1
  <2> HIDE DEF first
  <2>3. PICK g : Is(g) /\ FlattenSeq(ss) = g[Len(ss)]
    <3>1. Is(CHOOSE g : Is(g))
      <4> HIDE DEF Is
      <4> QED BY <2>2
    <3>2. FlattenSeq(ss) = (CHOOSE g : Is(g))[Len(ss)]
      BY <1>7 DEF FlattenSeq
    <3> HIDE DEF Is
    <3> QED BY <3>1, <3>2
  <2>4. \A i \in 1..Len(ss) : g[i] = IF i = 1 THEN ss[i] ELSE g[i - 1] \o ss[i]
    BY <2>3
  <2> DEFINE S == {i \in 0..Len(ss) : i # 0 => g[i] = f[i]}
  <2>5. 0 \in S
    BY <1>1
  <2>6. ASSUME NEW i \in 0..Len(ss) - 1, i \in S PROVE i + 1 \in S
    <3>1. i + 1 \in 1..Len(ss) /\ i + 1 \in 0..Len(ss) /\ (i + 1) - 1 = i /\ (i = 0 <=> i + 1 = 1)
      BY <1>1
    <3>2. CASE i = 0
      BY <2>1, <2>4, <3>1, <3>2
    <3>3. CASE i # 0
      <4>1. g[i + 1] = g[i] \o ss[i + 1] /\ f[i + 1] = f[i] \o ss[i + 1] /\ g[i] = f[i]
        BY <2>1, <2>4, <2>6, <3>1, <3>3
      <4> QED BY <3>1, <4>1
    <3> QED BY <3>2, <3>3
  <2> HIDE DEF S
  <2>7. Len(ss) \in S
    BY <1>1, <2>5, <2>6, UpTo, Len(ss) \in 0..Len(ss)
  <2> QED BY <1>5, <1>7, <2>3, <2>7 DEF S
<1> QED BY <1>6, <1>7

\* It does so part by part.
LEMMA FlattenConcat ==
    ASSUME NEW V, NEW a \in Seq(Seq(V)), NEW b \in Seq(Seq(V))
    PROVE  /\ FlattenSeq(a) \in Seq(V) /\ FlattenSeq(a \o b) \in Seq(V)
           /\ FlattenSeq(a \o b) = FlattenSeq(a) \o FlattenSeq(b)
<1>1. PICK c, m, n : c = a \o b /\ m = Len(a) /\ n = Len(b)
  OBVIOUS
<1>2. /\ c \in Seq(Seq(V)) /\ m \in Nat /\ n \in Nat /\ Len(c) = m + n
      /\ \A i \in 1..m : c[i] = a[i] /\ a[i] \in Seq(V)
      /\ \A i \in 1..n : c[m + i] = b[i] /\ b[i] \in Seq(V)
  <2>1. PICK W : W = Seq(V)
    OBVIOUS
  <2>2. a \in Seq(W) /\ b \in Seq(W)
    BY <2>1
  <2>3. /\ c \in Seq(W) /\ m \in Nat /\ n \in Nat /\ Len(c) = m + n
        /\ \A i \in 1..m : c[i] = a[i] /\ a[i] \in W
        /\ \A i \in 1..n : c[m + i] = b[i] /\ b[i] \in W
    <3>1. m \in Nat /\ n \in Nat /\ (\A i \in 1..m : a[i] \in W) /\ \A i \in 1..n : b[i] \in W
      BY <1>1, <2>2
    <3>2. /\ c \in Seq(W) /\ Len(c) = m + n
          /\ \A i \in 1..m + n : c[i] = IF i <= m THEN a[i] ELSE b[i - m]
      BY <1>1, <2>2, ConcatProperties
    <3>3. \A i \in 1..m : i \in 1..m + n /\ i <= m
      BY <3>1
    <3>4. \A i \in 1..n : m + i \in 1..m + n /\ ~(m + i <= m) /\ (m + i) - m = i
      BY <3>1
    <3> QED BY <3>1, <3>2, <3>3, <3>4
  <2> QED BY <2>1, <2>3
<1>3. PICK f : Joined(f, a, V) /\ FlattenSeq(a) = f[m]
  BY <1>1, FlattenForm
<1>4. PICK g : Joined(g, b, V) /\ FlattenSeq(b) = g[n]
  BY <1>1, FlattenForm
<1>5. PICK h : Joined(h, c, V) /\ FlattenSeq(c) = h[m + n]
  BY <1>2, FlattenForm
<1>6. /\ f[0] = <<>> /\ \A i \in 1..m : f[i] = f[i - 1] \o a[i]
      /\ g[0] = <<>> /\ \A i \in 1..n : g[i] = g[i - 1] \o b[i]
      /\ h[0] = <<>> /\ \A i \in 1..m + n : h[i] = h[i - 1] \o c[i]
      /\ \A i \in 0..m : f[i] \in Seq(V)
      /\ \A i \in 0..n : g[i] \in Seq(V)
      /\ \A i \in 0..m + n : h[i] \in Seq(V)
  BY <1>1, <1>2, <1>3, <1>4, <1>5 DEF Joined
<1> DEFINE S == {i \in 0..m : h[i] = f[i]}
<1>7. 0 \in S
  BY <1>2, <1>6
<1>8. ASSUME NEW i \in 0..m - 1, i \in S PROVE i + 1 \in S
  <2>1. i + 1 \in 1..m /\ i + 1 \in 1..m + n /\ i + 1 \in 0..m /\ (i + 1) - 1 = i
    BY <1>2
  <2>2. PICK k : k = i + 1
    OBVIOUS
  <2>3. h[k] = h[i] \o c[k] /\ f[k] = f[i] \o a[k] /\ c[k] = a[k]
    BY <1>2, <1>6, <2>1, <2>2
  <2> QED BY <1>8, <2>1, <2>2, <2>3
<1> HIDE DEF S
<1>9. h[m] = f[m]
  <2>1. 0..m \subseteq S
    BY <1>2, <1>7, <1>8, UpTo
  <2>2. m \in S
    BY <1>2, <2>1
  <2> QED BY <2>2 DEF S
<1> DEFINE R == {i \in 0..n : h[m + i] = f[m] \o g[i]}
<1>10. 0 \in R
  <2>1. f[m] \in Seq(V) /\ m + 0 = m /\ 0 \in 0..n
    BY <1>2, <1>6
  <2>2. f[m] \o <<>> = f[m]
    BY <2>1, ConcatEmptySeq
  <2> QED BY <1>6, <1>9, <2>1, <2>2
<1>11. ASSUME NEW i \in 0..n - 1, i \in R PROVE i + 1 \in R
  <2>1. PICK k, l : k = i + 1 /\ l = m + k
    OBVIOUS
  <2>2. k \in 1..n /\ k \in 0..n /\ k - 1 = i /\ i \in 0..n /\ l \in 1..m + n /\ l - 1 = m + i
        /\ m \in 0..m
    BY <1>2, <2>1
  <2>3. h[l] = h[m + i] \o b[k] /\ g[k] = g[i] \o b[k]
    BY <1>2, <1>6, <2>1, <2>2
  <2>4. PICK x, y, z : x = f[m] /\ y = g[i] /\ z = b[k]
    OBVIOUS
  <2>5. x \in Seq(V) /\ y \in Seq(V) /\ z \in Seq(V)
    BY <1>2, <1>6, <2>2, <2>4
  <2>6. (x \o y) \o z = x \o (y \o z)
    BY <2>5, ConcatAssociative
  <2>7. h[m + i] = x \o y
    BY <1>11, <2>4
  <2>8. h[l] = f[m] \o g[k]
    BY <2>3, <2>4, <2>6, <2>7
  <2> QED BY <2>1, <2>2, <2>8
<1> HIDE DEF R
<1>12. h[m + n] = f[m] \o g[n]
  <2>1. 0..n \subseteq R
    BY <1>2, <1>10, <1>11, UpTo
  <2>2. n \in R
    BY <1>2, <2>1
  <2> QED BY <2>2 DEF R
<1>13. f[m] \in Seq(V) /\ h[m + n] \in Seq(V)
  BY <1>2, <1>6, m \in 0..m, m + n \in 0..m + n
<1> QED BY <1>1, <1>3, <1>4, <1>5, <1>12, <1>13

\* Of nothing it makes nothing, of a single sequence that sequence.
LEMMA FlattenShort ==
    FlattenSeq(<<>>) = <<>> /\ \A V : \A s \in Seq(V) : FlattenSeq(<<s>>) = s
<1>1. FlattenSeq(<<>>) = <<>>
  BY DEF FlattenSeq
<1>2. ASSUME NEW V, NEW s \in Seq(V) PROVE FlattenSeq(<<s>>) = s
  <2>1. PICK ss : ss = <<s>>
    OBVIOUS
  <2>2. ss \in Seq(Seq(V)) /\ Len(ss) = 1 /\ ss[1] = s
    BY <2>1
  <2>3. PICK f : Joined(f, ss, V) /\ FlattenSeq(ss) = f[1]
    BY <2>2, FlattenForm
  <2>4. f[1] = f[1 - 1] \o ss[1] /\ f[0] = <<>>
    BY <2>2, <2>3, 1 \in 1..1 DEF Joined
  <2>5. <<>> \o s = s
    BY ConcatEmptySeq
  <2> QED BY <2>1, <2>2, <2>3, <2>4, <2>5
<1> QED BY <1>1, <1>2

-----------------------------------------------------------------------------
(* Characters.                                                             *)

\* A text of whole characters, none longer than HardLimit.
WellFormed(t) ==
    /\ t \in Seq(STRING)
    /\ t # <<>> => t[1] # Continuation
    /\ \A i \in 1..Len(t) - 1 : t[i] \in Marks => t[i + 1] # Continuation
    /\ \A i \in 1..Len(t) - HardLimit : \E j \in i + 1..i + HardLimit : t[j] # Continuation

\* One character is one, and so is a text with one more character.
LEMMA GrowWellFormed ==
    ASSUME NEW t, WellFormed(t), NEW c, IsCharacter(c), Len(c) <= HardLimit
    PROVE  WellFormed(t \o c)
<1>1. PICK u, m, n : u = t \o c /\ m = Len(t) /\ n = Len(c)
  OBVIOUS
<1>2. /\ t \in Seq(STRING) /\ c \in Seq(STRING) /\ u \in Seq(STRING)
      /\ m \in Nat /\ n \in Nat /\ n >= 1 /\ Len(u) = m + n /\ HardLimit \in Nat /\ n <= HardLimit
      /\ \A i \in 1..m + n : u[i] = IF i <= m THEN t[i] ELSE c[i - m]
  <2>1. t \in Seq(STRING) /\ c \in Seq(STRING) /\ c # <<>>
    BY DEF WellFormed, IsCharacter
  <2>2. m \in Nat /\ n \in Nat /\ n >= 1
    BY <1>1, <2>1
  <2> QED BY <1>1, <2>1, <2>2, ConcatProperties, HardLimitAssumption
<1>3. /\ \A i \in 1..m : u[i] = t[i]
      /\ \A i \in 1..n : u[m + i] = c[i]
  <2>1. \A i \in 1..m : i \in 1..m + n /\ i <= m
    BY <1>2
  <2>2. \A i \in 1..n : m + i \in 1..m + n /\ ~(m + i <= m) /\ (m + i) - m = i
    BY <1>2
  <2> QED BY <1>2, <2>1, <2>2
<1>4. /\ c[1] # Continuation
      /\ \A i \in 2..n : c[i] = Continuation
      /\ n > 1 => c[1] \notin Marks
      /\ Continuation \notin Marks
  BY <1>1 DEF IsCharacter, Marks, Continuation
<1>5. u[m + 1] # Continuation
  BY <1>2, <1>3, <1>4, 1 \in 1..n
<1>6. u[1] # Continuation
  <2>1. CASE m = 0
    BY <1>2, <1>5, <2>1, m + 1 = 1
  <2>2. CASE m # 0
    <3>1. 1 \in 1..m /\ t # <<>>
      BY <1>1, <1>2, <2>2
    <3> QED BY <1>3, <3>1 DEF WellFormed
  <2> QED BY <2>1, <2>2
<1>7. ASSUME NEW i \in 1..Len(u) - 1, u[i] \in Marks PROVE u[i + 1] # Continuation
  <2>1. CASE i < m
    <3>1. i \in 1..Len(t) - 1 /\ i \in 1..m /\ i + 1 \in 1..m
      BY <1>1, <1>2, <2>1
    <3> QED BY <1>3, <1>7, <3>1 DEF WellFormed
  <2>2. CASE i = m
    BY <1>5, <2>2
  <2>3. CASE i > m
    <3>1. PICK k \in 1..n - 1 : i = m + k
      <4>1. i - m \in 1..n - 1 /\ i = m + (i - m)
        BY <1>2, <2>3
      <4> QED BY <4>1
    <3>2. u[i] = c[k] /\ n > 1 /\ k \in 1..n
      BY <1>2, <1>3, <3>1
    <3>3. c[k] \notin Marks
      BY <1>4, <3>2
    <3> QED BY <1>7, <3>2, <3>3
  <2> QED BY <1>2, <2>1, <2>2, <2>3
<1>8. ASSUME NEW i \in 1..Len(u) - HardLimit
      PROVE  \E j \in i + 1..i + HardLimit : u[j] # Continuation
  <2>1. CASE i + HardLimit <= m
    <3>1. i \in 1..Len(t) - HardLimit
      BY <1>1, <1>2, <2>1
    <3>2. PICK j \in i + 1..i + HardLimit : t[j] # Continuation
      BY <3>1 DEF WellFormed
    <3>3. j \in 1..m
      BY <1>2, <2>1
    <3> QED BY <1>3, <3>2, <3>3
  <2>2. CASE i + HardLimit > m
    <3>1. m + 1 \in i + 1..i + HardLimit
      BY <1>2, <2>2
    <3> QED BY <1>5, <3>1
  <2> QED BY <1>2, <2>1, <2>2
<1> QED BY <1>1, <1>2, <1>6, <1>7, <1>8 DEF WellFormed

\* The beginning of such a text is one, and so is its rest from a boundary on.
LEMMA CutWellFormed ==
    ASSUME NEW t, WellFormed(t), NEW n \in 0..Len(t)
    PROVE  /\ WellFormed(Take(t, n))
           /\ IsCharBoundary(t, n) => WellFormed(Drop(t, n))
<1>1. PICK a, b : a = Take(t, n) /\ b = Drop(t, n)
  OBVIOUS
<1>2. /\ t \in Seq(STRING) /\ Len(t) \in Nat /\ n \in Nat /\ n <= Len(t) /\ HardLimit \in Nat
      /\ a \in Seq(STRING) /\ Len(a) = n /\ \A i \in 1..n : a[i] = t[i]
      /\ b \in Seq(STRING) /\ Len(b) = Len(t) - n /\ \A i \in 1..Len(t) - n : b[i] = t[n + i]
  <2>1. t \in Seq(STRING)
    BY DEF WellFormed
  <2>2. Len(t) \in Nat /\ n \in Nat /\ n <= Len(t) /\ HardLimit \in Nat
    BY <2>1, HardLimitAssumption
  <2> QED BY <1>1, <2>1, <2>2, TakeDrop
<1>3. WellFormed(a)
  <2>1. a # <<>> => a[1] # Continuation
    <3> SUFFICES ASSUME a # <<>> PROVE a[1] # Continuation
      OBVIOUS
    <3>1. 1 \in 1..n /\ t # <<>>
      BY <1>2
    <3> QED BY <1>2, <3>1 DEF WellFormed
  <2>2. ASSUME NEW i \in 1..Len(a) - 1, a[i] \in Marks PROVE a[i + 1] # Continuation
    <3>1. i \in 1..Len(t) - 1 /\ i \in 1..n /\ i + 1 \in 1..n
      BY <1>2
    <3> QED BY <1>2, <2>2, <3>1 DEF WellFormed
  <2>3. ASSUME NEW i \in 1..Len(a) - HardLimit
        PROVE  \E j \in i + 1..i + HardLimit : a[j] # Continuation
    <3>1. i \in 1..Len(t) - HardLimit
      BY <1>2
    <3>2. PICK j \in i + 1..i + HardLimit : t[j] # Continuation
      BY <3>1 DEF WellFormed
    <3>3. j \in 1..n
      BY <1>2
    <3> QED BY <1>2, <3>2, <3>3
  <2> QED BY <1>2, <2>1, <2>2, <2>3 DEF WellFormed
<1>4. ASSUME IsCharBoundary(t, n) PROVE WellFormed(b)
  <2>1. ASSUME b # <<>> PROVE b[1] # Continuation
    <3>1. n # Len(t) /\ 1 \in 1..Len(t) - n /\ t # <<>>
      BY <1>2, <2>1
    <3>2. b[1] = t[n + 1]
      BY <1>2, <3>1
    <3>3. CASE n = 0
      <4>1. n + 1 = 1
        BY <3>3
      <4> QED BY <3>1, <3>2, <4>1 DEF WellFormed
    <3>4. CASE n # 0
      BY <1>4, <3>1, <3>2, <3>4 DEF IsCharBoundary
    <3> QED BY <3>3, <3>4
  <2>2. ASSUME NEW i \in 1..Len(b) - 1, b[i] \in Marks PROVE b[i + 1] # Continuation
    <3>1. /\ n + i \in 1..Len(t) - 1 /\ i \in 1..Len(t) - n /\ i + 1 \in 1..Len(t) - n
          /\ (n + i) + 1 = n + (i + 1)
      BY <1>2
    <3>2. b[i] = t[n + i] /\ b[i + 1] = t[(n + i) + 1]
      BY <1>2, <3>1
    <3> QED BY <2>2, <3>1, <3>2 DEF WellFormed
  <2>3. ASSUME NEW i \in 1..Len(b) - HardLimit
        PROVE  \E j \in i + 1..i + HardLimit : b[j] # Continuation
    <3>1. PICK k : k = n + i
      OBVIOUS
    <3>2. k \in 1..Len(t) - HardLimit
      BY <1>2, <3>1
    <3>3. PICK j \in k + 1..k + HardLimit : t[j] # Continuation
      BY <3>2 DEF WellFormed
    <3>4. j - n \in i + 1..i + HardLimit /\ j - n \in 1..Len(t) - n /\ n + (j - n) = j
      BY <1>2, <3>1, <3>2
    <3> QED BY <1>2, <3>3, <3>4
  <2> QED BY <1>2, <2>1, <2>2, <2>3 DEF WellFormed
<1> QED BY <1>1, <1>3, <1>4

\* A text begins, at i, with pat.
LEMMA OccurrencesForm ==
    ASSUME NEW t \in Seq(STRING), NEW pat \in Seq(Marks), NEW i
    PROVE  i \in Occurrences(t, pat) <=> /\ i \in 0..Len(t) - Len(pat)
                                         /\ \A k \in 1..Len(pat) : t[i + k] = pat[k]
<1> SUFFICES ASSUME i \in 0..Len(t) - Len(pat)
             PROVE  SubSeq(t, i + 1, i + Len(pat)) = pat <=> \A k \in 1..Len(pat) : t[i + k] = pat[k]
  BY DEF Occurrences
<1>1. Len(t) \in Nat /\ Len(pat) \in Nat /\ i \in Nat
  OBVIOUS
<1> DEFINE T == STRING \cup Marks
<1>5. t \in Seq(T) /\ pat \in Seq(T)
  BY SeqMonotonic, STRING \subseteq T, Marks \subseteq T
<1> HIDE DEF T
<1>2. PICK s : s = SubSeq(t, i + 1, i + Len(pat))
  OBVIOUS
<1>3. s \in Seq(T) /\ Len(s) = Len(pat) /\ \A k \in 1..Len(pat) : s[k] = t[i + k]
  <2>1. \A k \in i + 1..i + Len(pat) : t[k] \in T
    BY <1>1, <1>5
  <2>2. i + 1 \in Int /\ i + Len(pat) \in Int
    BY <1>1
  <2>3. /\ s \in Seq(T)
        /\ Len(s) = IF i + 1 <= i + Len(pat) THEN i + Len(pat) - (i + 1) + 1 ELSE 0
        /\ \A k \in 1..i + Len(pat) - (i + 1) + 1 : s[k] = t[i + 1 + k - 1]
    BY <1>2, <2>1, <2>2, SubSeqProperties
  <2>4. i + Len(pat) - (i + 1) + 1 = Len(pat) /\ \A k \in 1..Len(pat) : i + 1 + k - 1 = i + k
    BY <1>1
  <2> QED BY <1>1, <2>3, <2>4
<1>4. s = pat <=> \A k \in 1..Len(pat) : t[i + k] = pat[k]
  BY <1>3, <1>5, SeqEqual
<1> QED BY <1>2, <1>4

-----------------------------------------------------------------------------
(* Cutting.                                                                *)

\* The last boundary within a limit.
LEMMA FloorForm ==
    ASSUME NEW t \in Seq(STRING), NEW pos \in Nat
    PROVE  LET floor == CharBoundaryFloor(t, pos)
           IN  /\ floor \in 0..Len(t) /\ floor <= pos /\ IsCharBoundary(t, floor)
               /\ \A b \in 0..Len(t) : b <= pos /\ IsCharBoundary(t, b) => b <= floor
<1> DEFINE S == {b \in 0..Len(t) : b <= pos /\ IsCharBoundary(t, b)}
<1>1. Len(t) \in Nat /\ S \subseteq 0..Len(t)
  OBVIOUS
<1>2. 0 \in S
  BY <1>1 DEF IsCharBoundary
<1>3. Max(S) \in S /\ \A b \in S : b <= Max(S)
  <2> HIDE DEF S
  <2> QED BY <1>1, <1>2, MinMax
<1> QED BY <1>3 DEF CharBoundaryFloor

\* The first n bytes are a single character.
Single(t, n) == \A i \in 2..n : t[i] = Continuation

\* The hard cut is at a boundary, within the limit or after the first character.
LEMMA HardCutForm ==
    ASSUME NEW t \in Seq(STRING), t # <<>>, NEW limit \in Nat
    PROVE  LET cut == HardCut(t, limit)
           IN  /\ cut \in 1..Len(t) /\ IsCharBoundary(t, cut)
               /\ cut <= limit \/ Single(t, cut)
<1> DEFINE floor == CharBoundaryFloor(t, limit)
           S == {b \in 1..Len(t) : IsCharBoundary(t, b)}
<1>1. Len(t) \in Nat /\ Len(t) \in 1..Len(t)
  OBVIOUS
<1>2. floor \in 0..Len(t) /\ floor <= limit /\ IsCharBoundary(t, floor)
  BY FloorForm
<1>3. Len(t) \in S /\ S \subseteq 0..Len(t)
  BY <1>1 DEF IsCharBoundary
<1>4. Min(S) \in S /\ \A b \in S : Min(S) <= b
  <2> HIDE DEF S
  <2> QED BY <1>1, <1>3, MinMax
<1>5. Single(t, Min(S))
  <2> SUFFICES ASSUME NEW i \in 2..Min(S), t[i] # Continuation PROVE FALSE
    BY DEF Single
  <2>1. Min(S) \in Nat /\ Min(S) <= Len(t)
    BY <1>1, <1>4
  <2>2. i - 1 \in 1..Len(t) /\ (i - 1) + 1 = i /\ ~(Min(S) <= i - 1)
    BY <1>1, <2>1
  <2>3. i - 1 \in S
    BY <2>2 DEF IsCharBoundary
  <2> QED BY <1>4, <2>2, <2>3
<1>6. HardCut(t, limit) = IF floor = 0 THEN Min(S) ELSE floor
  BY DEF HardCut
<1> HIDE DEF floor, S
<1>7. CASE floor = 0
  BY <1>4, <1>5, <1>6, <1>7 DEF S
<1>8. CASE floor # 0
  <2>1. floor \in 1..Len(t)
    BY <1>1, <1>2, <1>8
  <2> QED BY <1>2, <1>6, <1>8, <2>1
<1> QED BY <1>7, <1>8

\* A break ends with a character of its own.
LEMMA BreaksForm ==
    \A k \in 1..3 : /\ Breaks[k] \in Seq(Marks) /\ Len(Breaks[k]) \in 1..2
                    /\ Breaks[k][Len(Breaks[k])] \in Marks
<1>1. /\ Breaks[1] = <<"n", "n">> /\ Breaks[2] = <<"n">> /\ Breaks[3] = <<".", " ">>
  BY DEF Breaks
<1>2. \A k \in 1..3 : k = 1 \/ k = 2 \/ k = 3
  OBVIOUS
<1>3. {"n", ".", " "} \subseteq Marks
  BY DEF Marks
<1>4. \A a, b \in Marks : <<a, b>> \in Seq(Marks) /\ Len(<<a, b>>) = 2 /\ <<a, b>>[2] = b
  OBVIOUS
<1>5. \A a \in Marks : <<a>> \in Seq(Marks) /\ Len(<<a>>) = 1 /\ <<a>>[1] = a
  OBVIOUS
<1>6. ASSUME NEW k \in 1..3
      PROVE  \/ \E a, b \in Marks : Breaks[k] = <<a, b>>
             \/ \E a \in Marks : Breaks[k] = <<a>>
  BY <1>1, <1>2, <1>3
<1>7. ASSUME NEW s, \/ \E a, b \in Marks : s = <<a, b>>
                   \/ \E a \in Marks : s = <<a>>
      PROVE  s \in Seq(Marks) /\ Len(s) \in 1..2 /\ s[Len(s)] \in Marks
  <2>1. 1 \in 1..2 /\ 2 \in 1..2
    OBVIOUS
  <2>2. ASSUME NEW a \in Marks, NEW b \in Marks, s = <<a, b>>
        PROVE  s \in Seq(Marks) /\ Len(s) \in 1..2 /\ s[Len(s)] \in Marks
    BY <1>4, <2>1, <2>2
  <2>3. ASSUME NEW a \in Marks, s = <<a>>
        PROVE  s \in Seq(Marks) /\ Len(s) \in 1..2 /\ s[Len(s)] \in Marks
    BY <1>5, <2>1, <2>3
  <2> QED BY <1>7, <2>2, <2>3
<1> QED BY <1>6, <1>7

\* Every round of the loops cuts off something, so they end: within the limit or a single
\* character, and at a boundary, for the breaks that prose is cut after are whole characters.
THEOREM CutForm ==
    ASSUME NEW t \in Seq(STRING), t # <<>>, NEW limit \in Nat, NEW strategy
    PROVE  LET cut == Cut(t, limit, strategy)
           IN  /\ cut \in 1..Len(t)
               /\ WellFormed(t) => IsCharBoundary(t, cut)
               /\ cut <= limit \/ Single(t, cut)
<1>1. Len(t) \in Nat /\ Len(t) \in 1..Len(t)
  OBVIOUS
<1>2. CASE Len(t) <= limit
  BY <1>1, <1>2 DEF Cut, IsCharBoundary
<1>3. CASE ~(Len(t) <= limit) /\ strategy = "fixed"
  BY <1>3, HardCutForm DEF Cut
<1>4. CASE ~(Len(t) <= limit) /\ strategy # "fixed"
  <2> DEFINE floor == CharBoundaryFloor(t, limit)
             candidate == Take(t, floor)
             present == {k \in 1..3 : Occurrences(candidate, Breaks[k]) # {}}
             break == Breaks[Min(present)]
             places == Occurrences(candidate, break)
  <2>1. Cut(t, limit, strategy) =
            IF present = {} THEN HardCut(t, limit) ELSE Max(places) + Len(break)
    BY <1>4 DEF Cut, ProseCut
  <2>2. floor \in 0..Len(t) /\ floor <= limit
    BY FloorForm
  <2>3. candidate \in Seq(STRING) /\ Len(candidate) = floor /\ \A i \in 1..floor : candidate[i] = t[i]
    BY <2>2, TakeDrop
  <2> HIDE DEF floor, candidate
  <2>4. CASE present = {}
    BY <2>1, <2>4, HardCutForm
  <2>5. CASE present # {}
    <3>1. Min(present) \in present
      <4>1. present \subseteq 0..3 /\ 3 \in Nat
        OBVIOUS
      <4> HIDE DEF present
      <4> QED BY <2>5, <4>1, MinMax
    <3>2. Min(present) \in 1..3 /\ places # {}
      BY <3>1
    <3>3. break \in Seq(Marks) /\ Len(break) \in 1..2 /\ break[Len(break)] \in Marks
      BY <3>2, BreaksForm
    <3> HIDE DEF break, present
    <3>4. places \subseteq 0..floor
      <4> SUFFICES ASSUME NEW i \in places PROVE i \in 0..floor
        OBVIOUS
      <4>1. i \in 0..Len(candidate) - Len(break)
        BY <2>3, <3>3, OccurrencesForm
      <4> QED BY <2>2, <2>3, <3>3, <4>1
    <3>5. Max(places) \in places
      <4>1. floor \in Nat
        BY <2>2
      <4> HIDE DEF places
      <4> QED BY <3>2, <3>4, <4>1, MinMax
    <3>6. PICK i : i = Max(places)
      OBVIOUS
    <3>7. i \in 0..Len(candidate) - Len(break) /\ \A k \in 1..Len(break) : candidate[i + k] = break[k]
      BY <2>3, <3>3, <3>5, <3>6, OccurrencesForm
    <3>8. PICK cut : cut = i + Len(break)
      OBVIOUS
    <3>9. cut \in 1..floor /\ Len(break) \in 1..Len(break)
      <4>1. PICK l : l = Len(break)
        OBVIOUS
      <4>2. floor \in Nat /\ l \in 1..2 /\ i \in 0..floor - l /\ cut = i + l
        BY <2>2, <2>3, <3>3, <3>7, <3>8, <4>1
      <4>3. cut \in 1..floor /\ l \in 1..l
        BY <4>2
      <4> QED BY <4>1, <4>3
    <3>10. t[cut] \in Marks
      BY <2>3, <3>3, <3>7, <3>8, <3>9
    <3>11. cut \in 1..Len(t) /\ cut <= limit
      BY <1>1, <2>2, <3>9
    <3>12. ASSUME WellFormed(t) PROVE IsCharBoundary(t, cut)
      <4>1. CASE cut = Len(t)
        BY <4>1 DEF IsCharBoundary
      <4>2. CASE cut # Len(t)
        <5>1. cut \in 1..Len(t) - 1
          BY <1>1, <3>11, <4>2
        <5>2. t[cut + 1] # Continuation
          BY <3>10, <3>12, <5>1 DEF WellFormed
        <5> QED BY <5>2 DEF IsCharBoundary
      <4> QED BY <4>1, <4>2
    <3>13. Cut(t, limit, strategy) = cut
      BY <2>1, <2>5, <3>6, <3>8
    <3> QED BY <3>11, <3>12, <3>13
  <2> QED BY <2>4, <2>5
<1> QED BY <1>2, <1>3, <1>4

\* What a message of pieces may be.
IsPiece(p, limit) ==
    /\ p # <<>> /\ WellFormed(p)
    /\ Len(p) <= limit \/ Single(p, Len(p))

\* p occurs in t.
Within(p, t) == \E n \in 0..Len(t) : \E m \in 0..Len(t) - n : p = Take(Drop(t, n), m)

\* Splitting makes pieces of a text, which put together are the text.
LEMMA PiecesForm ==
    ASSUME NEW t, WellFormed(t), NEW limit \in Nat, NEW strategy
    PROVE  LET pieces == Pieces(t, limit, strategy)
           IN  /\ pieces \in Seq({p \in Seq(STRING) : IsPiece(p, limit) /\ Within(p, t)})
               /\ FlattenSeq(pieces) = t
<1> DEFINE R(n) == Remaining(t, n)
           cut == [n \in 1..Len(t) |-> Cut(R(n), limit, strategy)]
           push == [n \in 1..Len(t) |-> Take(R(n), cut[n])]
           Good == {p \in Seq(STRING) : IsPiece(p, limit) /\ Within(p, t)}
           P == {q \in (0..Len(t)) \X Seq(Seq(STRING)) :
                     WellFormed(R(q[1])) => q[2] \in Seq(Good) /\ FlattenSeq(q[2]) = R(q[1])}
<1>1. t \in Seq(STRING) /\ Len(t) \in Nat
  BY DEF WellFormed
<1>2. /\ R(Len(t)) = t
      /\ \A n \in 0..Len(t) : /\ R(n) \in Seq(STRING) /\ Len(R(n)) = n
                              /\ \A m \in 0..n : Drop(R(n), m) = R(n - m)
  BY <1>1, RemainingForm
<1>3. ASSUME NEW n \in 1..Len(t)
      PROVE  /\ cut[n] \in 1..n /\ push[n] = Take(R(n), cut[n]) /\ push[n] \in Seq(STRING)
             /\ cut[n] <= limit \/ Single(R(n), cut[n])
             /\ WellFormed(R(n)) => IsCharBoundary(R(n), cut[n])
  <2>1. PICK r : r = R(n)
    OBVIOUS
  <2>2. r \in Seq(STRING) /\ Len(r) = n /\ r # <<>>
    BY <1>1, <1>2, <2>1
  <2>3. cut[n] = Cut(r, limit, strategy) /\ push[n] = Take(r, cut[n])
    BY <2>1
  <2> HIDE DEF R, cut, push
  <2>4. /\ cut[n] \in 1..n
        /\ cut[n] <= limit \/ Single(r, cut[n])
        /\ WellFormed(r) => IsCharBoundary(r, cut[n])
    BY <2>2, <2>3, CutForm
  <2>5. push[n] \in Seq(STRING)
    <3>1. cut[n] \in 0..Len(r)
      BY <2>2, <2>4
    <3> QED BY <2>2, <2>3, <3>1, TakeDrop
  <2> QED BY <2>1, <2>3, <2>4, <2>5
<1>4. Pieces(t, limit, strategy) = Loop(t, push, cut)
  BY DEF Pieces
<1> HIDE DEF cut, push
<1>5. <<0, <<>>>> \in P
  <2>1. R(0) = <<>>
    BY <1>1, <1>2
  <2>2. <<>> \in Seq(Good) /\ <<>> \in Seq(Seq(STRING)) /\ 0 \in 0..Len(t)
    BY <1>1
  <2> HIDE DEF Good, R
  <2> QED BY <2>1, <2>2, FlattenShort
<1>6. ASSUME NEW n \in 1..Len(t), NEW s \in Seq(Seq(STRING)), <<n - cut[n], s>> \in P
      PROVE  <<n, <<push[n]>> \o s>> \in P
  <2>1. PICK r, c, p, w : r = R(n) /\ c = cut[n] /\ p = push[n] /\ w = <<p>> \o s
    OBVIOUS
  <2>2. /\ r \in Seq(STRING) /\ Len(r) = n /\ c \in 1..n /\ c \in 0..Len(r) /\ p = Take(r, c)
        /\ p \in Seq(STRING) /\ Drop(r, c) = R(n - c) /\ n - c \in 0..Len(t)
    <3>1. n \in 0..Len(t) /\ c \in 1..n /\ c \in 0..n
      BY <1>1, <1>3, <2>1
    <3>2. /\ r \in Seq(STRING) /\ Len(r) = n /\ p = Take(r, c) /\ p \in Seq(STRING)
          /\ Drop(r, c) = R(n - c)
      BY <1>2, <1>3, <2>1, <3>1
    <3>3. n - c \in 0..Len(t)
      BY <1>1, <3>1
    <3> QED BY <3>1, <3>2, <3>3
  <2>3. <<p>> \in Seq(Seq(STRING)) /\ w \in Seq(Seq(STRING))
    BY <2>1, <2>2, ConcatProperties
  <2>4. ASSUME WellFormed(r)
        PROVE  w \in Seq(Good) /\ FlattenSeq(w) = r
    <3>1. WellFormed(p) /\ WellFormed(Drop(r, c))
      BY <1>3, <2>1, <2>2, <2>4, CutWellFormed
    <3>2. s \in Seq(Good) /\ FlattenSeq(s) = Drop(r, c)
      BY <1>6, <2>1, <2>2, <3>1
    <3>3. p \in Good
      <4>1. Len(p) = c /\ p # <<>> /\ \A i \in 1..c : p[i] = r[i]
        <5>1. Len(p) = c /\ \A i \in 1..c : p[i] = r[i]
          BY <2>2, TakeDrop
        <5>2. c # 0
          BY <2>2
        <5> QED BY <5>1, <5>2
      <4>2. Len(p) <= limit \/ Single(p, Len(p))
        BY <1>3, <2>1, <2>2, <4>1 DEF Single
      <4>3. Within(p, t)
        <5>1. PICK k : k = Len(t) - n
          OBVIOUS
        <5>2. k \in 0..Len(t) /\ c \in 0..Len(t) - k /\ p = Take(Drop(t, k), c)
          BY <1>1, <2>1, <2>2, <5>1 DEF Remaining
        <5> QED BY <5>2 DEF Within
      <4> QED BY <2>2, <3>1, <4>1, <4>2, <4>3 DEF IsPiece
    <3> HIDE DEF Good
    <3>4. w \in Seq(Good)
      <4>1. <<p>> \in Seq(Good)
        BY <3>3
      <4> QED BY <2>1, <3>2, <4>1, ConcatProperties
    <3>5. FlattenSeq(w) = r
      <4>1. FlattenSeq(w) = FlattenSeq(<<p>>) \o FlattenSeq(s)
        BY <2>1, <2>3, FlattenConcat
      <4>2. FlattenSeq(<<p>>) = p
        BY <2>2, FlattenShort
      <4>3. p \o Drop(r, c) = r
        BY <2>2, TakeDrop
      <4> QED BY <3>2, <4>1, <4>2, <4>3
    <3> QED BY <3>4, <3>5
  <2> HIDE DEF Good
  <2>5. n \in 0..Len(t)
    BY <1>1
  <2>6. <<n, w>> \in P
    BY <2>1, <2>3, <2>4, <2>5
  <2> QED BY <2>1, <2>6
<1> HIDE DEF P
<1>7. <<Len(t), Loop(t, push, cut)>> \in P
  <2>1. PICK V : V = Seq(STRING)
    OBVIOUS
  <2>2. \A n \in 1..Len(t) : push[n] \in V /\ cut[n] \in 1..n
    BY <1>3, <2>1
  <2>3. \A n \in 1..Len(t) : \A s \in Seq(V) :
            <<n - cut[n], s>> \in P => <<n, <<push[n]>> \o s>> \in P
    BY <1>6, <2>1
  <2> QED BY <1>1, <1>5, <2>2, <2>3, LoopRule
<1> QED BY <1>1, <1>2, <1>4, <1>7 DEF P

-----------------------------------------------------------------------------
(* Fences.                                                                 *)

Fences(t) == Occurrences(t, Fence)

\* A fence is three backticks.
LEMMA FencesForm ==
    ASSUME NEW t \in Seq(STRING)
    PROVE  /\ Fences(t) \subseteq 0..Len(t)
           /\ \A i : i \in Fences(t) <=> /\ i \in 0..Len(t) - 3
                                         /\ \A k \in 1..3 : t[i + k] = "tick"
<1>1. Len(t) \in Nat
  OBVIOUS
<1>2. Fence \in Seq(Marks) /\ Len(Fence) = 3 /\ \A k \in 1..3 : Fence[k] = "tick"
  <2>1. "tick" \in Marks
    BY DEF Marks
  <2>2. \A a \in Marks : <<a, a, a>> \in Seq(Marks) /\ Len(<<a, a, a>>) = 3
                         /\ \A k \in 1..3 : <<a, a, a>>[k] = a
    OBVIOUS
  <2> QED BY <2>1, <2>2 DEF Fence
<1>3. ASSUME NEW i
      PROVE  i \in Fences(t) <=> /\ i \in 0..Len(t) - 3
                                 /\ \A k \in 1..3 : t[i + k] = "tick"
  <2>1. i \in Fences(t) <=> /\ i \in 0..Len(t) - Len(Fence)
                            /\ \A k \in 1..Len(Fence) : t[i + k] = Fence[k]
    BY <1>2, OccurrencesForm DEF Fences
  <2> QED BY <1>2, <2>1
<1>4. Fences(t) \subseteq 0..Len(t)
  BY <1>1, <1>3
<1> QED BY <1>3, <1>4

\* The fences of a part of a text are those of the text that lie in it.
LEMMA FencesOfPart ==
    ASSUME NEW t \in Seq(STRING), NEW n \in 0..Len(t)
    PROVE  /\ \A i : i \in Fences(Drop(t, n)) <=> i \in Nat /\ n + i \in Fences(t)
           /\ \A i : i \in Fences(Take(t, n)) <=> i \in Fences(t) /\ i + 3 <= n
<1>1. PICK a, b : a = Take(t, n) /\ b = Drop(t, n)
  OBVIOUS
<1>2. /\ Len(t) \in Nat /\ n \in Nat /\ n <= Len(t)
      /\ a \in Seq(STRING) /\ Len(a) = n /\ \A i \in 1..n : a[i] = t[i]
      /\ b \in Seq(STRING) /\ Len(b) = Len(t) - n /\ \A i \in 1..Len(t) - n : b[i] = t[n + i]
  <2>1. Len(t) \in Nat /\ n \in Nat /\ n <= Len(t)
    OBVIOUS
  <2> QED BY <1>1, <2>1, TakeDrop
<1>3. ASSUME NEW i PROVE i \in Fences(b) <=> i \in Nat /\ n + i \in Fences(t)
  <2>1. i \in Fences(b) <=> i \in 0..Len(b) - 3 /\ \A k \in 1..3 : b[i + k] = "tick"
    BY <1>2, FencesForm
  <2>2. n + i \in Fences(t) <=> n + i \in 0..Len(t) - 3 /\ \A k \in 1..3 : t[(n + i) + k] = "tick"
    BY FencesForm
  <2>3. i \in 0..Len(b) - 3 <=> i \in Nat /\ n + i \in 0..Len(t) - 3
    BY <1>2
  <2>4. ASSUME i \in 0..Len(b) - 3, NEW k \in 1..3 PROVE b[i + k] = t[(n + i) + k]
    <3>1. i + k \in 1..Len(t) - n /\ n + (i + k) = (n + i) + k
      BY <1>2, <2>4
    <3> QED BY <1>2, <3>1
  <2> QED BY <2>1, <2>2, <2>3, <2>4
<1>4. ASSUME NEW i PROVE i \in Fences(a) <=> i \in Fences(t) /\ i + 3 <= n
  <2>1. i \in Fences(a) <=> i \in 0..Len(a) - 3 /\ \A k \in 1..3 : a[i + k] = "tick"
    BY <1>2, FencesForm
  <2>2. i \in Fences(t) <=> i \in 0..Len(t) - 3 /\ \A k \in 1..3 : t[i + k] = "tick"
    BY FencesForm
  <2>3. i \in 0..Len(a) - 3 <=> i \in 0..Len(t) - 3 /\ i + 3 <= n
    BY <1>2
  <2>4. ASSUME i \in 0..Len(a) - 3, NEW k \in 1..3 PROVE a[i + k] = t[i + k]
    <3>1. i + k \in 1..n
      BY <1>2, <2>4
    <3> QED BY <1>2, <3>1
  <2> QED BY <2>1, <2>2, <2>3, <2>4
<1> QED BY <1>1, <1>3, <1>4

\* count[n] is the number of fences of the last n bytes.
Counts(count, t) ==
    /\ count \in [0..Len(t) -> Nat]
    /\ \A n \in 0..Len(t) :
           LET fences == Fences(Remaining(t, n))
           IN  IF fences = {} THEN count[n] = 0
               ELSE n - Min(fences) - 3 \in 0..n - 1 /\ count[n] = 1 + count[n - Min(fences) - 3]

\* FenceCount counts like that.
LEMMA CountsExist ==
    ASSUME NEW t \in Seq(STRING)
    PROVE  \E count : Counts(count, t) /\ FenceCount(t) = count[Len(t)]
<1> DEFINE F(n) == Fences(Remaining(t, n))
           rest(n) == n - Min(F(n)) - 3
           next == [n \in 1..Len(t) |-> IF F(n) = {} THEN 0 ELSE rest(n)]
           op == [n \in 1..Len(t) |-> [v \in Nat |-> IF F(n) = {} THEN 0 ELSE 1 + v]]
           Is(f) == f = [n \in 0..Len(t) |-> IF F(n) = {} THEN 0 ELSE 1 + f[rest(n)]]
<1>1. Len(t) \in Nat
  OBVIOUS
<1>2. ASSUME NEW n \in 0..Len(t), F(n) # {} PROVE rest(n) \in 0..n - 1
  <2>1. PICK r : r = Remaining(t, n)
    OBVIOUS
  <2>2. r \in Seq(STRING) /\ Len(r) = n
    BY <2>1, RemainingForm
  <2>3. Fences(r) \subseteq 0..n /\ \A i \in Fences(r) : i \in 0..n - 3
    BY <2>2, FencesForm
  <2>4. Min(Fences(r)) \in Fences(r)
    BY <1>2, <2>1, <2>3, MinMax
  <2>5. PICK m : m = Min(Fences(r))
    OBVIOUS
  <2>6. m \in 0..n - 3
    BY <2>3, <2>4, <2>5
  <2>7. n - m - 3 \in 0..n - 1
    BY <1>1, <2>6
  <2> QED BY <2>1, <2>5, <2>7
<1>3. F(0) = {}
  <2>1. PICK r : r = Remaining(t, 0)
    OBVIOUS
  <2>2. r \in Seq(STRING) /\ Len(r) = 0
    BY <1>1, <2>1, RemainingForm
  <2>3. \A i : i \in Fences(r) => i \in 0..0 - 3
    BY <2>2, FencesForm
  <2>4. Fences(r) = {}
    BY <2>3
  <2> QED BY <2>1, <2>4
<1> HIDE DEF F, rest
<1>4. \A n \in 1..Len(t) : next[n] \in 0..n - 1
  BY <1>1, <1>2
<1>5. \A n \in 1..Len(t) : \A v \in Nat :
          op[n][v] = (IF F(n) = {} THEN 0 ELSE 1 + v) /\ op[n][v] \in Nat
  OBVIOUS
<1>6. \A n \in 1..Len(t) : next[n] = IF F(n) = {} THEN 0 ELSE rest(n)
  OBVIOUS
<1> HIDE DEF next, op
<1>7. PICK f \in [0..Len(t) -> Nat] : Recursive(f, Len(t), 0, next, op)
  BY <1>1, <1>4, <1>5, RecursionExists
<1>8. Is(f)
  <2>1. \A n \in 0..Len(t) : f[n] = IF n = 0 THEN 0 ELSE op[n][f[next[n]]]
    BY <1>7 DEF Recursive
  <2>2. ASSUME NEW n \in 0..Len(t) PROVE f[n] = IF F(n) = {} THEN 0 ELSE 1 + f[rest(n)]
    <3>1. CASE n = 0
      BY <1>3, <2>1, <3>1
    <3>2. CASE n # 0
      <4>1. n \in 1..Len(t) /\ next[n] \in 0..Len(t)
        BY <1>1, <1>4, <3>2
      <4>2. f[next[n]] \in Nat
        BY <4>1
      <4>3. f[n] = IF F(n) = {} THEN 0 ELSE 1 + f[next[n]]
        BY <1>5, <2>1, <3>2, <4>1, <4>2
      <4> QED BY <1>6, <4>1, <4>3
    <3> QED BY <3>1, <3>2
  <2>3. f = [n \in 0..Len(t) |-> f[n]]
    BY <1>7
  <2> QED BY <2>2, <2>3
<1>9. PICK g : Is(g) /\ FenceCount(t) = g[Len(t)]
  <2>1. Is(CHOOSE g : Is(g))
    <3> HIDE DEF Is
    <3> QED BY <1>8
  <2>2. FenceCount(t) = (CHOOSE g : Is(g))[Len(t)]
    BY DEF FenceCount, F, rest, Fences
  <2> HIDE DEF Is
  <2> QED BY <2>1, <2>2
<1>10. \A n \in 0..Len(t) : g[n] = IF F(n) = {} THEN 0 ELSE 1 + g[rest(n)]
  BY <1>9
<1> DEFINE S == {n \in 0..Len(t) : \A m \in 0..n : g[m] \in Nat}
<1>11. 0 \in S
  <2>1. g[0] = 0 /\ 0 \in 0..Len(t) /\ \A m \in 0..0 : m = 0
    BY <1>1, <1>3, <1>10
  <2> QED BY <2>1
<1>12. ASSUME NEW n \in 0..Len(t) - 1, n \in S PROVE n + 1 \in S
  <2>1. PICK k : k = n + 1
    OBVIOUS
  <2>2. k \in 0..Len(t) /\ k - 1 = n /\ \A m \in 0..k : m \in 0..n \/ m = k
    BY <1>1, <2>1
  <2>3. g[k] = IF F(k) = {} THEN 0 ELSE 1 + g[rest(k)]
    BY <1>10, <2>2
  <2>4. F(k) # {} => rest(k) \in 0..n
    BY <1>2, <2>2
  <2>5. g[k] \in Nat
    BY <1>12, <2>3, <2>4
  <2> QED BY <1>12, <2>1, <2>2, <2>5
<1> HIDE DEF S
<1>13. 0..Len(t) \subseteq S
  BY <1>1, <1>11, <1>12, UpTo
<1>14. \A n \in 0..Len(t) : g[n] \in Nat
  BY <1>13 DEF S
<1>15. g \in [0..Len(t) -> Nat]
  BY <1>9, <1>14
<1>16. Counts(g, t)
  <2>1. ASSUME NEW n \in 0..Len(t)
        PROVE  IF F(n) = {} THEN g[n] = 0 ELSE rest(n) \in 0..n - 1 /\ g[n] = 1 + g[rest(n)]
    BY <1>2, <1>10
  <2> QED BY <1>15, <2>1 DEF Counts, F, rest
<1> QED BY <1>9, <1>16

\* The first fence of a text is followed by the others.
LEMMA FenceCountForm ==
    ASSUME NEW t \in Seq(STRING)
    PROVE  /\ FenceCount(t) \in Nat
           /\ Fences(t) = {} => FenceCount(t) = 0
           /\ \A i \in Fences(t) : (\A j \in Fences(t) : i <= j) =>
                  FenceCount(t) = 1 + FenceCount(Drop(t, i + 3))
<1>1. PICK f : Counts(f, t) /\ FenceCount(t) = f[Len(t)]
  BY CountsExist
<1>2. Len(t) \in Nat /\ Len(t) \in 0..Len(t) /\ Remaining(t, Len(t)) = t
  BY RemainingForm
<1>3. /\ f[Len(t)] \in Nat
      /\ Fences(t) = {} => f[Len(t)] = 0
      /\ Fences(t) # {} => f[Len(t)] = 1 + f[Len(t) - Min(Fences(t)) - 3]
  BY <1>1, <1>2 DEF Counts
<1>4. ASSUME NEW i \in Fences(t), \A j \in Fences(t) : i <= j
      PROVE  FenceCount(t) = 1 + FenceCount(Drop(t, i + 3))
  <2>1. i \in 0..Len(t) - 3 /\ Fences(t) \subseteq 0..Len(t)
    BY FencesForm
  <2>2. Min(Fences(t)) = i
    <3>1. Min(Fences(t)) \in Fences(t) /\ Min(Fences(t)) <= i
      BY <1>2, <2>1, MinMax
    <3> QED BY <1>4, <2>1, <3>1
  <2>3. PICK k, u : k = i + 3 /\ u = Drop(t, k)
    OBVIOUS
  <2>4. k \in 0..Len(t) /\ Len(t) - i - 3 = Len(t) - k /\ Len(t) - k \in 0..Len(t)
    BY <1>2, <2>1, <2>3
  <2>5. u \in Seq(STRING) /\ Len(u) = Len(t) - k
    BY <2>3, <2>4, TakeDrop
  <2>6. PICK g : Counts(g, u) /\ FenceCount(u) = g[Len(u)]
    BY <2>5, CountsExist
  <2>7. \A n \in 0..Len(u) : Remaining(u, n) = Remaining(t, n)
    <3> SUFFICES ASSUME NEW n \in 0..Len(u) PROVE Remaining(u, n) = Remaining(t, n)
      OBVIOUS
    <3>1. PICK m : m = Len(u) - n
      OBVIOUS
    <3>2. m \in 0..Len(t) - k /\ k + m = Len(t) - n
      BY <1>2, <2>4, <2>5, <3>1
    <3>3. Drop(u, m) = Drop(t, k + m)
      BY <2>3, <2>4, <3>2, DropDrop
    <3> QED BY <3>1, <3>2, <3>3 DEF Remaining
  <2> DEFINE S == {n \in 0..Len(u) : \A m \in 0..n : g[m] = f[m]}
             F(n) == Fences(Remaining(t, n))
             rest(n) == n - Min(F(n)) - 3
  <2>8. \A n \in 0..Len(u) :
            IF F(n) = {} THEN g[n] = 0 /\ f[n] = 0
            ELSE rest(n) \in 0..n - 1 /\ g[n] = 1 + g[rest(n)] /\ f[n] = 1 + f[rest(n)]
    <3> SUFFICES ASSUME NEW n \in 0..Len(u)
                 PROVE  IF F(n) = {} THEN g[n] = 0 /\ f[n] = 0
                        ELSE rest(n) \in 0..n - 1 /\ g[n] = 1 + g[rest(n)] /\ f[n] = 1 + f[rest(n)]
      OBVIOUS
    <3>1. n \in 0..Len(t) /\ Remaining(u, n) = Remaining(t, n)
      BY <1>2, <2>4, <2>5, <2>7
    <3> QED BY <1>1, <2>6, <3>1 DEF Counts
  <2> HIDE DEF F, rest
  <2>9. Len(u) \in Nat
    BY <2>5
  <2>10. 0 \in S
    <3>1. 0 \in 0..Len(u) /\ \A m \in 0..0 : m = 0
      BY <2>9
    <3>2. F(0) = {}
      BY <2>8, <3>1
    <3> QED BY <2>8, <3>1, <3>2
  <2>11. ASSUME NEW n \in 0..Len(u) - 1, n \in S PROVE n + 1 \in S
    <3>1. PICK m : m = n + 1
      OBVIOUS
    <3>2. m \in 0..Len(u) /\ m - 1 = n /\ \A j \in 0..m : j \in 0..n \/ j = m
      BY <2>9, <3>1
    <3>3. g[m] = f[m]
      BY <2>8, <2>11, <3>2
    <3> QED BY <2>11, <3>1, <3>2, <3>3
  <2> HIDE DEF S
  <2>12. 0..Len(u) \subseteq S
    BY <2>9, <2>10, <2>11, UpTo
  <2>13. g[Len(u)] = f[Len(u)]
    BY <2>9, <2>12 DEF S
  <2> QED BY <1>1, <1>3, <2>2, <2>3, <2>4, <2>5, <2>6, <2>13
<1> QED BY <1>1, <1>3, <1>4

\* There is none where there is nothing.
LEMMA NothingLeft ==
    ASSUME NEW t \in Seq(STRING)
    PROVE  Drop(t, Len(t)) = <<>> /\ FenceCount(Drop(t, Len(t))) = 0
<1>1. Drop(t, Len(t)) = <<>>
  BY SubSeqEmpty, Len(t) + 1 \in Int, Len(t) \in Int, Len(t) < Len(t) + 1 DEF Drop
<1>2. PICK e : e = Drop(t, Len(t))
  OBVIOUS
<1>3. e \in Seq(STRING) /\ Len(e) = 0
  BY <1>1, <1>2
<1>4. \A i : i \in Fences(e) => i \in 0..0 - 3
  BY <1>3, FencesForm
<1>5. Fences(e) = {}
  BY <1>4
<1> QED BY <1>1, <1>2, <1>3, <1>5, FenceCountForm

\* A fence at the start and the next one that follows it are counted as two.
LEMMA TwoFences ==
    ASSUME NEW t \in Seq(STRING), 0 \in Fences(t),
           NEW m \in Fences(t), m >= 3, \A i \in Fences(t) : i >= 3 => m <= i
    PROVE  FenceCount(t) = 2 + FenceCount(Drop(t, m + 3))
<1>1. Len(t) \in Nat /\ Fences(t) \subseteq 0..Len(t) /\ m \in 0..Len(t) - 3 /\ 3 \in 0..Len(t)
  <2>1. m \in 0..Len(t) - 3 /\ Fences(t) \subseteq 0..Len(t)
    BY FencesForm
  <2> QED BY <2>1
<1>2. PICK u, k : u = Drop(t, 3) /\ k = m - 3
  OBVIOUS
<1>3. u \in Seq(STRING) /\ k \in Nat /\ 3 + k = m /\ k + 3 = m /\ 3 + (k + 3) = m + 3
      /\ k + 3 \in 0..Len(t) - 3
  BY <1>1, <1>2, TakeDrop
<1>4. FenceCount(t) = 1 + FenceCount(u)
  <2>1. \A j \in Fences(t) : 0 <= j
    BY <1>1
  <2>2. 0 + 3 = 3
    OBVIOUS
  <2> QED BY <1>2, <2>1, <2>2, FenceCountForm
<1>5. FenceCount(u) = 1 + FenceCount(Drop(u, k + 3))
  <2>1. \A i : i \in Fences(u) <=> i \in Nat /\ 3 + i \in Fences(t)
    BY <1>1, <1>2, FencesOfPart
  <2>2. k \in Fences(u)
    BY <1>3, <2>1
  <2>3. ASSUME NEW j \in Fences(u) PROVE k <= j
    <3>1. j \in Nat /\ 3 + j \in Fences(t) /\ 3 + j >= 3
      BY <2>1
    <3>2. m <= 3 + j
      BY <3>1
    <3> QED BY <1>3, <3>1, <3>2
  <2> QED BY <1>3, <2>2, <2>3, FenceCountForm
<1>6. Drop(u, k + 3) = Drop(t, m + 3)
  BY <1>1, <1>2, <1>3, DropDrop
<1>7. FenceCount(Drop(t, m + 3)) \in Nat
  <2>1. m + 3 \in 0..Len(t)
    BY <1>1
  <2> QED BY <2>1, TakeDrop, FenceCountForm
<1> QED BY <1>4, <1>5, <1>6, <1>7

\* A whole block, or a text without fences.
IsBlock(t) == FenceCount(t) = 2 /\ Take(t, 3) = Fence /\ Drop(t, Len(t) - 3) = Fence
Even(t) == FenceCount(t) % 2 = 0

\* Three backticks make a fence.
LEMMA IsFence ==
    ASSUME NEW t \in Seq(STRING), Len(t) = 3, \A k \in 1..3 : t[k] = "tick"
    PROVE  t = Fence
<1> DEFINE T == STRING \cup {"tick"}
<1>1. t \in Seq(T)
  BY SeqMonotonic, STRING \subseteq T
<1>2. Fence \in Seq(T) /\ Len(Fence) = 3 /\ \A k \in 1..3 : Fence[k] = "tick"
  <2>1. "tick" \in T
    OBVIOUS
  <2>2. \A a \in T : <<a, a, a>> \in Seq(T) /\ Len(<<a, a, a>>) = 3
                     /\ \A k \in 1..3 : <<a, a, a>>[k] = a
    OBVIOUS
  <2> QED BY <2>1, <2>2 DEF Fence
<1> QED BY <1>1, <1>2, SeqEqual

\* The first segment of a text is cut off at a boundary.  When every fence of the text is
\* closed the same is true of the rest, and the segment is prose without fences or a block.
LEMMA SegmentForm ==
    ASSUME NEW t \in Seq(STRING), t # <<>>
    PROVE  LET s == NextSegment(t)
               n == Len(s.bytes)
           IN  /\ s \in [code : BOOLEAN, bytes : Seq(STRING)]
               /\ n \in 1..Len(t) /\ s.bytes = Take(t, n)
               /\ WellFormed(t) => IsCharBoundary(t, n)
               /\ Even(t) => /\ Even(Drop(t, n))
                             /\ IF s.code THEN IsBlock(s.bytes) ELSE Fences(s.bytes) = {}
<1> DEFINE s == NextSegment(t)
           start == Min(Fences(t))
           closing == {i \in Fences(t) : i >= 3}
           Good(n, code) ==
               /\ n \in 1..Len(t)
               /\ WellFormed(t) => IsCharBoundary(t, n)
               /\ Even(t) => /\ Even(Drop(t, n))
                             /\ IF code THEN IsBlock(Take(t, n)) ELSE Fences(Take(t, n)) = {}
<1>1. Len(t) \in Nat /\ Len(t) \in 1..Len(t) /\ Take(t, Len(t)) = t
  <2>1. Len(t) \in Nat /\ Len(t) \in 1..Len(t)
    OBVIOUS
  <2> QED BY <2>1, TakeDrop
<1>2. Fences(t) \subseteq 0..Len(t) /\ \A i : i \in Fences(t) <=> /\ i \in 0..Len(t) - 3
                                                                 /\ \A k \in 1..3 : t[i + k] = "tick"
  BY <1>1, FencesForm
<1>3. ASSUME NEW n \in 1..Len(t), NEW code \in BOOLEAN, s = Segment(code, Take(t, n)), Good(n, code)
      PROVE  /\ s \in [code : BOOLEAN, bytes : Seq(STRING)]
             /\ Len(s.bytes) = n /\ s.bytes = Take(t, n) /\ s.code = code
  <2>1. n \in 0..Len(t)
    BY <1>1
  <2>2. Take(t, n) \in Seq(STRING) /\ Len(Take(t, n)) = n
    BY <1>1, <2>1, TakeDrop
  <2>3. s.bytes = Take(t, n) /\ s.code = code
    BY <1>3 DEF Segment
  <2>4. s \in [code : BOOLEAN, bytes : Seq(STRING)]
    BY <1>3, <2>2 DEF Segment
  <2> QED BY <2>2, <2>3, <2>4
<1>4. IsCharBoundary(t, Len(t)) /\ Even(Drop(t, Len(t)))
  BY <1>1, NothingLeft DEF IsCharBoundary, Even
<1>5. CASE Fences(t) = {}
  <2>1. s = Segment(FALSE, Take(t, Len(t)))
    BY <1>1, <1>5 DEF NextSegment, Fences
  <2>2. Good(Len(t), FALSE)
    BY <1>1, <1>4, <1>5
  <2> QED BY <1>1, <1>3, <2>1, <2>2
<1>6. CASE Fences(t) # {} /\ 0 \notin Fences(t)
  <2>1. start \in Fences(t) /\ \A i \in Fences(t) : start <= i
    BY <1>1, <1>2, <1>6, MinMax
  <2>2. PICK n : n = start
    OBVIOUS
  <2>3. s = Segment(FALSE, Take(t, n))
    BY <1>6, <2>2 DEF NextSegment, Fences
  <2>4. n \in 1..Len(t) /\ n \in 0..Len(t) /\ n + 3 \in 0..Len(t) /\ 0 + 3 = 3 /\ n + 0 = n
        /\ 3 \in 0..Len(t) - n
    BY <1>1, <1>2, <1>6, <2>1, <2>2
  <2>5. IsCharBoundary(t, n)
    <3>1. t[n + 1] = "tick"
      BY <1>2, <2>1, <2>2
    <3> QED BY <3>1 DEF IsCharBoundary, Continuation
  <2>6. Fences(Take(t, n)) = {}
    <3>1. \A i : i \in Fences(Take(t, n)) => i \in Fences(t) /\ i + 3 <= n
      BY <1>1, <2>4, FencesOfPart
    <3>2. \A i \in Fences(t) : i \in Nat /\ ~(i + 3 <= n)
      BY <1>2, <2>1, <2>2
    <3> QED BY <3>1, <3>2
  <2>7. FenceCount(Drop(t, n)) = FenceCount(t)
    <3>1. PICK u : u = Drop(t, n)
      OBVIOUS
    <3>2. u \in Seq(STRING) /\ \A i : i \in Fences(u) <=> i \in Nat /\ n + i \in Fences(t)
      BY <1>1, <2>4, <3>1, TakeDrop, FencesOfPart
    <3>3. 0 \in Fences(u) /\ \A i \in Fences(u) : 0 <= i
      <4>1. PICK z : z = 0 /\ n + z = n
        BY <2>4
      <4>2. z \in Fences(u)
        BY <2>1, <2>2, <3>2, <4>1
      <4> QED BY <3>2, <4>1, <4>2
    <3>4. FenceCount(u) = 1 + FenceCount(Drop(u, 3))
      BY <2>4, <3>2, <3>3, FenceCountForm
    <3>5. FenceCount(t) = 1 + FenceCount(Drop(t, n + 3))
      BY <1>1, <2>1, <2>2, FenceCountForm
    <3>6. Drop(u, 3) = Drop(t, n + 3)
      BY <1>1, <2>4, <3>1, DropDrop
    <3> QED BY <3>1, <3>4, <3>5, <3>6
  <2>8. Good(n, FALSE)
    BY <2>4, <2>5, <2>6, <2>7 DEF Even
  <2> QED BY <1>3, <2>3, <2>4, <2>8
<1>7. CASE 0 \in Fences(t) /\ closing = {}
  <2>1. BlockEnd(t) = 0
    BY <1>7 DEF BlockEnd, Fences
  <2>2. s = Segment(FALSE, Take(t, Len(t)))
    BY <1>1, <1>7, <2>1 DEF NextSegment, Fences
  <2>3. ~Even(t)
    <3>1. PICK u : u = Drop(t, 3)
      OBVIOUS
    <3>2. 3 \in 0..Len(t) /\ 0 + 3 = 3
      BY <1>1, <1>2, <1>7
    <3>3. u \in Seq(STRING) /\ \A i : i \in Fences(u) <=> i \in Nat /\ 3 + i \in Fences(t)
      BY <1>1, <3>1, <3>2, TakeDrop, FencesOfPart
    <3>4. \A i \in Nat : 3 + i >= 3
      OBVIOUS
    <3>5. Fences(u) = {}
      BY <1>7, <3>3, <3>4
    <3>6. FenceCount(u) = 0
      BY <3>3, <3>5, FenceCountForm
    <3>7. \A j \in Fences(t) : 0 <= j
      BY <1>2
    <3>8. FenceCount(t) = 1 + FenceCount(u)
      BY <1>1, <1>7, <3>1, <3>2, <3>7, FenceCountForm
    <3> QED BY <3>6, <3>8 DEF Even
  <2>4. Good(Len(t), FALSE)
    BY <1>1, <1>4, <2>3
  <2> QED BY <1>1, <1>3, <2>2, <2>4
<1>8. CASE 0 \in Fences(t) /\ closing # {}
  <2>1. PICK m : m = Min(closing)
    OBVIOUS
  <2>2. m \in Fences(t) /\ m >= 3 /\ \A i \in Fences(t) : i >= 3 => m <= i
    <3>1. closing \subseteq 0..Len(t)
      BY <1>2
    <3>2. Min(closing) \in closing /\ \A i \in closing : Min(closing) <= i
      <4> HIDE DEF closing
      <4> QED BY <1>1, <1>8, <3>1, MinMax
    <3> QED BY <2>1, <3>2
  <2>3. PICK n : n = m + 3
    OBVIOUS
  <2>4. n \in 1..Len(t) /\ n \in 0..Len(t) /\ n >= 6 /\ m \in Nat
    BY <1>1, <1>2, <2>2, <2>3
  <2>5. s = Segment(TRUE, Take(t, n))
    <3>1. BlockEnd(t) = n
      BY <1>8, <2>1, <2>3 DEF BlockEnd, Fences
    <3>2. n # 0
      BY <2>4
    <3> QED BY <1>8, <3>1, <3>2 DEF NextSegment, Fences
  <2>6. ASSUME WellFormed(t) PROVE IsCharBoundary(t, n)
    <3>1. CASE n = Len(t)
      BY <3>1 DEF IsCharBoundary
    <3>2. CASE n # Len(t)
      <4>1. n \in 1..Len(t) - 1
        BY <1>1, <2>4, <3>2
      <4>2. t[n] = "tick"
        BY <1>2, <2>2, <2>3, 3 \in 1..3
      <4>3. t[n + 1] # Continuation
        BY <2>6, <4>1, <4>2 DEF WellFormed, Marks
      <4> QED BY <4>3 DEF IsCharBoundary
    <3> QED BY <3>1, <3>2
  <2>7. FenceCount(t) = 2 + FenceCount(Drop(t, n)) /\ FenceCount(Drop(t, n)) \in Nat
    <3>1. FenceCount(t) = 2 + FenceCount(Drop(t, n))
      BY <1>1, <1>8, <2>2, <2>3, TwoFences
    <3>2. Drop(t, n) \in Seq(STRING)
      BY <1>1, <2>4, TakeDrop
    <3> QED BY <3>1, <3>2, FenceCountForm
  <2>8. Even(t) => Even(Drop(t, n))
    BY <2>7 DEF Even
  <2>9. IsBlock(Take(t, n))
    <3>1. PICK b : b = Take(t, n)
      OBVIOUS
    <3>2. b \in Seq(STRING) /\ Len(b) = n /\ \A i \in 1..n : b[i] = t[i]
      <4>1. n \in 0..Len(t)
        BY <2>4
      <4> QED BY <3>1, <4>1, TakeDrop
    <3>3. \A i : i \in Fences(b) <=> i \in Fences(t) /\ i + 3 <= n
      BY <1>1, <2>4, <3>1, FencesOfPart
    <3>4. 0 \in Fences(b) /\ m \in Fences(b) /\ \A i \in Fences(b) : i >= 3 => m <= i
      BY <1>8, <2>2, <2>3, <2>4, <3>3
    <3>5. FenceCount(b) = 2 + FenceCount(Drop(b, n))
      BY <2>2, <2>3, <3>2, <3>4, TwoFences
    <3>6. FenceCount(Drop(b, n)) = 0
      BY <3>2, NothingLeft
    <3>7. Take(b, 3) = Fence
      <4>1. 3 \in 0..Len(b) /\ \A k \in 1..3 : k \in 1..n /\ 0 + k = k
        BY <2>4, <3>2
      <4>2. PICK c : c = Take(b, 3)
        OBVIOUS
      <4>3. c \in Seq(STRING) /\ Len(c) = 3 /\ \A k \in 1..3 : c[k] = b[k]
        BY <3>2, <4>1, <4>2, TakeDrop
      <4>4. \A k \in 1..3 : b[k] = "tick"
        BY <1>2, <1>8, <3>2, <4>1
      <4> QED BY <4>2, <4>3, <4>4, IsFence
    <3>8. Drop(b, Len(b) - 3) = Fence
      <4>1. Len(b) - 3 = m /\ m \in 0..Len(b) /\ Len(b) - m = 3 /\ \A k \in 1..3 : m + k \in 1..n
        BY <2>3, <2>4, <3>2
      <4>2. PICK c : c = Drop(b, m)
        OBVIOUS
      <4>3. c \in Seq(STRING) /\ Len(c) = 3 /\ \A k \in 1..3 : c[k] = b[m + k]
        <5>1. /\ c \in Seq(STRING) /\ Len(c) = Len(b) - m
              /\ \A k \in 1..Len(b) - m : c[k] = b[m + k]
          BY <3>2, <4>1, <4>2, TakeDrop
        <5> QED BY <4>1, <5>1
      <4>4. \A k \in 1..3 : b[m + k] = "tick"
        BY <1>2, <2>2, <3>2, <4>1
      <4>5. c = Fence
        BY <4>3, <4>4, IsFence
      <4> QED BY <4>1, <4>2, <4>5
    <3> QED BY <3>1, <3>5, <3>6, <3>7, <3>8 DEF IsBlock
  <2>10. Good(n, TRUE)
    BY <2>4, <2>6, <2>8, <2>9
  <2> QED BY <1>3, <2>4, <2>5, <2>10
<1> QED BY <1>5, <1>6, <1>7, <1>8

-----------------------------------------------------------------------------
(* Messages.                                                               *)

Chunks == [kind : {"text", "file"}, content : Seq(STRING)]

\* What a message may be.
IsMessage(c, limit) ==
    /\ WellFormed(c.content)
    /\ c.kind = "text" => \/ Len(c.content) <= limit
                          \/ c.content # <<>> /\ Single(c.content, Len(c.content))
Messages(limit) == {c \in Chunks : IsMessage(c, limit)}

\* Messages that leave blocks whole.
Wholes == {c \in Chunks : FenceCount(c.content) = 0 \/ IsBlock(c.content)}

Mapped(s, F) == [i \in 1..Len(s) |-> F[s[i]]]

\* What a sequence is mapped to.
LEMMA MapForm ==
    ASSUME NEW U, NEW W, NEW F \in [U -> W], NEW s \in Seq(U)
    PROVE  /\ Mapped(s, F) \in Seq(W) /\ Len(Mapped(s, F)) = Len(s)
           /\ \A i \in 1..Len(s) : Mapped(s, F)[i] = F[s[i]]
<1>1. Len(s) \in Nat /\ \A i \in 1..Len(s) : F[s[i]] \in W
  OBVIOUS
<1> QED BY <1>1 DEF Mapped

\* A sequence can be mapped part by part.
LEMMA MapConcat ==
    ASSUME NEW U, NEW W, NEW F \in [U -> W], NEW a \in Seq(U), NEW b \in Seq(U),
           NEW c, c = a \o b
    PROVE  Mapped(c, F) = Mapped(a, F) \o Mapped(b, F)
<1>1. PICK x, y, z, m, n :
          /\ m = Len(a) /\ n = Len(b)
          /\ x = Mapped(a, F) /\ y = Mapped(b, F) /\ z = Mapped(c, F)
  OBVIOUS
<1>2. /\ c \in Seq(U) /\ m \in Nat /\ n \in Nat /\ Len(c) = m + n
      /\ \A i \in 1..m + n : c[i] = IF i <= m THEN a[i] ELSE b[i - m]
  BY <1>1, ConcatProperties
<1>3. /\ x \in Seq(W) /\ Len(x) = m /\ \A i \in 1..m : x[i] = F[a[i]]
      /\ y \in Seq(W) /\ Len(y) = n /\ \A i \in 1..n : y[i] = F[b[i]]
      /\ z \in Seq(W) /\ Len(z) = m + n /\ \A i \in 1..m + n : z[i] = F[c[i]]
  <2>1. ASSUME NEW s \in Seq(U), NEW r, r = Mapped(s, F)
        PROVE  r \in Seq(W) /\ Len(r) = Len(s) /\ \A i \in 1..Len(s) : r[i] = F[s[i]]
    BY <2>1, MapForm
  <2>2. x \in Seq(W) /\ Len(x) = m /\ \A i \in 1..m : x[i] = F[a[i]]
    BY <1>1, <2>1
  <2>3. y \in Seq(W) /\ Len(y) = n /\ \A i \in 1..n : y[i] = F[b[i]]
    BY <1>1, <2>1
  <2>4. z \in Seq(W) /\ Len(z) = m + n /\ \A i \in 1..m + n : z[i] = F[c[i]]
    <3>1. z \in Seq(W) /\ Len(z) = Len(c) /\ \A i \in 1..Len(c) : z[i] = F[c[i]]
      BY <1>1, <1>2, <2>1
    <3> QED BY <1>2, <3>1
  <2> QED BY <2>2, <2>3, <2>4
<1>4. PICK w : w = x \o y
  OBVIOUS
<1>5. /\ w \in Seq(W) /\ Len(w) = m + n
      /\ \A i \in 1..m + n : w[i] = IF i <= m THEN x[i] ELSE y[i - m]
  <2>1. x \in Seq(W) /\ y \in Seq(W) /\ Len(x) = m /\ Len(y) = n
    BY <1>3
  <2>2. /\ w \in Seq(W) /\ Len(w) = Len(x) + Len(y)
        /\ \A i \in 1..Len(x) + Len(y) : w[i] = IF i <= Len(x) THEN x[i] ELSE y[i - Len(x)]
    BY <1>4, <2>1, ConcatProperties
  <2> QED BY <2>1, <2>2
<1>6. ASSUME NEW i \in 1..m + n PROVE z[i] = w[i]
  <2>1. CASE i <= m
    <3>1. i \in 1..m
      BY <1>2, <2>1
    <3>2. c[i] = a[i] /\ w[i] = x[i]
      BY <1>2, <1>5, <2>1
    <3>3. z[i] = F[c[i]] /\ x[i] = F[a[i]]
      BY <1>3, <3>1
    <3> QED BY <3>2, <3>3
  <2>2. CASE ~(i <= m)
    <3>1. i - m \in 1..n
      BY <1>2, <2>2
    <3>2. c[i] = b[i - m] /\ w[i] = y[i - m]
      BY <1>2, <1>5, <2>2
    <3>3. z[i] = F[c[i]] /\ y[i - m] = F[b[i - m]]
      BY <1>3, <3>1
    <3> QED BY <3>2, <3>3
  <2> QED BY <2>1, <2>2
<1>7. z = w
  BY <1>3, <1>5, <1>6, SeqEqual
<1> QED BY <1>1, <1>3, <1>4, <1>7

\* The contents of messages, part by part, and of a single one.
LEMMA ContentsForm ==
    /\ Contents(<<>>) = <<>>
    /\ \A a, b \in Seq(Chunks) : Contents(a \o b) = Contents(a) \o Contents(b)
    /\ \A c \in Chunks : Contents(<<c>>) = c.content
<1> DEFINE F == [c \in Chunks |-> c.content]
<1>1. F \in [Chunks -> Seq(STRING)] /\ \A c \in Chunks : F[c] = c.content
  BY DEF Chunks
<1> HIDE DEF F
<1>2. ASSUME NEW a \in Seq(Chunks)
      PROVE  Contents(a) = FlattenSeq(Mapped(a, F)) /\ Mapped(a, F) \in Seq(Seq(STRING))
  <2>1. \A i \in 1..Len(a) : a[i] \in Chunks
    OBVIOUS
  <2>2. [i \in 1..Len(a) |-> a[i].content] = [i \in 1..Len(a) |-> F[a[i]]]
    BY <1>1, <2>1
  <2>3. Mapped(a, F) \in Seq(Seq(STRING))
    <3>1. PICK W : W = Seq(STRING)
      OBVIOUS
    <3>2. Mapped(a, F) \in Seq(W)
      BY <1>1, <3>1, MapForm
    <3> QED BY <3>1, <3>2
  <2> QED BY <2>2, <2>3 DEF Contents, Mapped
<1>3. Contents(<<>>) = <<>>
  <2>1. <<>> \in Seq(Chunks)
    OBVIOUS
  <2>2. Mapped(<<>>, F) = <<>>
    BY DEF Mapped
  <2> QED BY <1>2, <2>1, <2>2, FlattenShort
<1>4. ASSUME NEW a \in Seq(Chunks), NEW b \in Seq(Chunks)
      PROVE  Contents(a \o b) = Contents(a) \o Contents(b)
  <2>1. a \o b \in Seq(Chunks)
    BY ConcatProperties
  <2>2. Mapped(a \o b, F) = Mapped(a, F) \o Mapped(b, F)
    <3>1. PICK U, W, c : U = Chunks /\ W = Seq(STRING) /\ c = a \o b
      OBVIOUS
    <3>2. F \in [U -> W] /\ a \in Seq(U) /\ b \in Seq(U) /\ c = a \o b
      BY <1>1, <3>1
    <3>3. Mapped(c, F) = Mapped(a, F) \o Mapped(b, F)
      BY <3>2, MapConcat
    <3> QED BY <3>1, <3>3
  <2>3. FlattenSeq(Mapped(a, F) \o Mapped(b, F)) = FlattenSeq(Mapped(a, F)) \o FlattenSeq(Mapped(b, F))
    BY <1>2, FlattenConcat
  <2> QED BY <1>2, <2>1, <2>2, <2>3
<1>5. ASSUME NEW c \in Chunks PROVE Contents(<<c>>) = c.content
  <2>1. PICK a : a = <<c>>
    OBVIOUS
  <2>2. a \in Seq(Chunks) /\ Len(a) = 1 /\ a[1] = c
    BY <2>1
  <2>3. PICK w : w = c.content
    OBVIOUS
  <2>4. w \in Seq(STRING) /\ F[c] = w
    BY <1>1, <2>3 DEF Chunks
  <2>5. Mapped(a, F) = <<w>>
    <3>1. Mapped(a, F) = [i \in 1..1 |-> w]
      BY <2>2, <2>4 DEF Mapped
    <3> QED BY <3>1
  <2> QED BY <1>2, <2>1, <2>2, <2>3, <2>4, <2>5, FlattenShort
<1> QED BY <1>3, <1>4, <1>5

\* Pieces as messages.
LEMMA TextsForm ==
    ASSUME NEW A, A \subseteq Seq(STRING), NEW pieces \in Seq(A)
    PROVE  /\ Texts(pieces) \in Seq({Text(p) : p \in A})
           /\ Contents(Texts(pieces)) = FlattenSeq(pieces)
<1>1. PICK chunks, W : chunks = Texts(pieces) /\ W = {Text(p) : p \in A}
  OBVIOUS
<1>2. Len(pieces) \in Nat /\ \A i \in 1..Len(pieces) : Text(pieces[i]) \in W
  <2>1. Len(pieces) \in Nat /\ \A i \in 1..Len(pieces) : pieces[i] \in A
    OBVIOUS
  <2> QED BY <1>1, <2>1
<1>3. chunks \in Seq(W) /\ Len(chunks) = Len(pieces)
      /\ \A i \in 1..Len(pieces) : chunks[i] = Text(pieces[i])
  <2>1. chunks = [i \in 1..Len(pieces) |-> Text(pieces[i])]
    BY <1>1 DEF Texts
  <2> QED BY <1>2, <2>1
<1>4. ASSUME NEW i \in 1..Len(pieces) PROVE chunks[i].content = pieces[i]
  <2>1. chunks[i] = Text(pieces[i])
    BY <1>3
  <2>2. Text(pieces[i]).content = pieces[i]
    BY DEF Text
  <2> QED BY <2>1, <2>2
<1>5. [i \in 1..Len(chunks) |-> chunks[i].content] = pieces
  <2>1. [i \in 1..Len(chunks) |-> chunks[i].content] = [i \in 1..Len(pieces) |-> pieces[i]]
    BY <1>3, <1>4
  <2>2. [i \in 1..Len(pieces) |-> pieces[i]] = pieces
    OBVIOUS
  <2> QED BY <2>1, <2>2
<1>6. Contents(chunks) = FlattenSeq(pieces)
  BY <1>5 DEF Contents
<1> QED BY <1>1, <1>3, <1>6

\* A split text makes messages; without fences, messages without fences.
LEMMA PieceMessages ==
    ASSUME NEW t, WellFormed(t), NEW limit \in Nat, NEW strategy
    PROVE  LET chunks == Texts(Pieces(t, limit, strategy))
           IN  /\ chunks \in Seq(Messages(limit)) /\ Contents(chunks) = t
               /\ Fences(t) = {} => chunks \in Seq(Wholes)
<1> DEFINE pieces == Pieces(t, limit, strategy)
           A == {p \in Seq(STRING) : IsPiece(p, limit) /\ Within(p, t)}
<1>1. pieces \in Seq(A) /\ FlattenSeq(pieces) = t
  BY PiecesForm
<1>2. Texts(pieces) \in Seq({Text(p) : p \in A}) /\ Contents(Texts(pieces)) = t
  <2>1. A \subseteq Seq(STRING)
    OBVIOUS
  <2> HIDE DEF A, pieces
  <2> QED BY <1>1, <2>1, TextsForm
<1>3. \A p \in A : Text(p) \in Chunks /\ Text(p).content = p /\ Text(p).kind = "text"
  BY DEF Text, Chunks
<1>4. {Text(p) : p \in A} \subseteq Messages(limit)
  BY <1>3 DEF IsPiece, IsMessage, Messages
<1>5. Texts(pieces) \in Seq(Messages(limit))
  <2> HIDE DEF A, pieces
  <2> QED BY <1>2, <1>4, SeqMonotonic
<1>6. ASSUME Fences(t) = {} PROVE Texts(pieces) \in Seq(Wholes)
  <2>1. ASSUME NEW p \in A PROVE FenceCount(p) = 0
    <3>1. PICK n \in 0..Len(t) : \E m \in 0..Len(t) - n : p = Take(Drop(t, n), m)
      BY DEF Within
    <3>2. PICK m \in 0..Len(t) - n : p = Take(Drop(t, n), m)
      BY <3>1
    <3>3. PICK d : d = Drop(t, n)
      OBVIOUS
    <3>4. t \in Seq(STRING) /\ p \in Seq(STRING)
      BY DEF WellFormed
    <3>5. d \in Seq(STRING) /\ m \in 0..Len(d)
      BY <3>3, <3>4, TakeDrop
    <3>6. \A i : i \in Fences(d) => n + i \in Fences(t)
      BY <3>3, <3>4, FencesOfPart
    <3>7. \A i : i \in Fences(p) => i \in Fences(d)
      BY <3>2, <3>3, <3>5, FencesOfPart
    <3>8. Fences(p) = {}
      BY <1>6, <3>6, <3>7
    <3> QED BY <3>4, <3>8, FenceCountForm
  <2>2. {Text(p) : p \in A} \subseteq Wholes
    BY <1>3, <2>1 DEF Wholes
  <2> HIDE DEF A, pieces
  <2> QED BY <1>2, <2>2, SeqMonotonic
<1> QED BY <1>2, <1>5, <1>6

\* The segments a text is made of.
IsSegment(s) == s \in [code : BOOLEAN, bytes : Seq(STRING)] /\ WellFormed(s.bytes)

\* A segment makes messages, one of a block.
LEMMA SegmentMessages ==
    ASSUME NEW s, IsSegment(s), NEW limit \in Nat
    PROVE  LET chunks == SegmentChunks(s, limit)
           IN  /\ chunks \in Seq(Messages(limit)) /\ chunks \in Seq(Chunks)
               /\ Contents(chunks) = s.bytes
               /\ (IF s.code THEN IsBlock(s.bytes) ELSE Fences(s.bytes) = {}) =>
                      chunks \in Seq(Wholes)
<1>1. PICK t : t = s.bytes
  OBVIOUS
<1>2. WellFormed(t) /\ t \in Seq(STRING) /\ Len(t) \in Nat /\ s.code \in BOOLEAN
  <2>1. WellFormed(t) /\ s.code \in BOOLEAN
    BY <1>1 DEF IsSegment
  <2>2. t \in Seq(STRING)
    BY <2>1 DEF WellFormed
  <2> QED BY <2>1, <2>2
<1>3. CASE s.code
  <2>1. PICK c : c = IF Len(t) > limit THEN File(t) ELSE Text(t)
    OBVIOUS
  <2>2. c \in Chunks /\ c.content = t /\ (c.kind = "text" => Len(t) <= limit)
    BY <1>2, <2>1 DEF Chunks, File, Text
  <2>3. SegmentChunks(s, limit) = <<c>>
    BY <1>1, <1>3, <2>1 DEF SegmentChunks
  <2>4. c \in Messages(limit)
    BY <1>2, <2>2 DEF Messages, IsMessage
  <2>5. IsBlock(t) => c \in Wholes
    BY <2>2 DEF Wholes
  <2>6. Contents(<<c>>) = t
    BY <2>2, ContentsForm
  <2> QED BY <1>1, <1>3, <2>2, <2>3, <2>4, <2>5, <2>6
<1>4. CASE ~s.code
  <2>1. SegmentChunks(s, limit) = Texts(Pieces(t, limit, "natural"))
    BY <1>1, <1>4 DEF SegmentChunks
  <2>2. Messages(limit) \subseteq Chunks
    BY DEF Messages
  <2>3. SegmentChunks(s, limit) \in Seq(Messages(limit))
    BY <1>2, <2>1, PieceMessages
  <2>4. SegmentChunks(s, limit) \in Seq(Chunks)
    BY <2>2, <2>3, SeqMonotonic
  <2> QED BY <1>1, <1>2, <1>4, <2>1, <2>3, <2>4, PieceMessages
<1> QED BY <1>2, <1>3, <1>4


\* The segments of texts.
TextSegments == {s \in [code : BOOLEAN, bytes : Seq(STRING)] : WellFormed(s.bytes)}

\* The messages that segments make.
Chunked(segments, limit) ==
    FlattenSeq([i \in 1..Len(segments) |-> SegmentChunks(segments[i], limit)])

\* They are made segment by segment.
LEMMA ChunkedForm ==
    ASSUME NEW limit \in Nat
    PROVE  /\ Chunked(<<>>, limit) = <<>>
           /\ \A s \in TextSegments : \A rest \in Seq(TextSegments) :
                  Chunked(<<s>> \o rest, limit) = SegmentChunks(s, limit) \o Chunked(rest, limit)
<1> DEFINE F == [s \in TextSegments |-> SegmentChunks(s, limit)]
<1>1. F \in [TextSegments -> Seq(Chunks)] /\ \A s \in TextSegments : F[s] = SegmentChunks(s, limit)
  <2>1. ASSUME NEW s \in TextSegments PROVE SegmentChunks(s, limit) \in Seq(Chunks)
    <3>1. IsSegment(s)
      BY DEF TextSegments, IsSegment
    <3> QED BY <3>1, SegmentMessages
  <2> QED BY <2>1
<1> HIDE DEF F
<1>2. ASSUME NEW a \in Seq(TextSegments)
      PROVE  Chunked(a, limit) = FlattenSeq(Mapped(a, F)) /\ Mapped(a, F) \in Seq(Seq(Chunks))
  <2>1. \A i \in 1..Len(a) : a[i] \in TextSegments
    OBVIOUS
  <2>2. [i \in 1..Len(a) |-> SegmentChunks(a[i], limit)] = [i \in 1..Len(a) |-> F[a[i]]]
    BY <1>1, <2>1
  <2>3. Mapped(a, F) \in Seq(Seq(Chunks))
    <3>1. PICK W : W = Seq(Chunks)
      OBVIOUS
    <3>2. Mapped(a, F) \in Seq(W)
      BY <1>1, <3>1, MapForm
    <3> QED BY <3>1, <3>2
  <2> QED BY <2>2, <2>3 DEF Chunked, Mapped
<1>3. Chunked(<<>>, limit) = <<>>
  <2>1. <<>> \in Seq(TextSegments)
    OBVIOUS
  <2>2. Mapped(<<>>, F) = <<>>
    BY DEF Mapped
  <2> QED BY <1>2, <2>1, <2>2, FlattenShort
<1>4. ASSUME NEW s \in TextSegments, NEW b \in Seq(TextSegments)
      PROVE  Chunked(<<s>> \o b, limit) = SegmentChunks(s, limit) \o Chunked(b, limit)
  <2>1. PICK a, c, w : a = <<s>> /\ c = a \o b /\ w = SegmentChunks(s, limit)
    OBVIOUS
  <2>2. a \in Seq(TextSegments) /\ Len(a) = 1 /\ a[1] = s
    BY <2>1
  <2>3. c \in Seq(TextSegments)
    BY <2>1, <2>2, ConcatProperties
  <2>4. Mapped(c, F) = Mapped(a, F) \o Mapped(b, F)
    <3>1. PICK U, W : U = TextSegments /\ W = Seq(Chunks)
      OBVIOUS
    <3>2. F \in [U -> W] /\ a \in Seq(U) /\ b \in Seq(U) /\ c = a \o b
      BY <1>1, <2>1, <2>2, <3>1
    <3> QED BY <3>2, MapConcat
  <2>5. FlattenSeq(Mapped(a, F) \o Mapped(b, F)) = FlattenSeq(Mapped(a, F)) \o FlattenSeq(Mapped(b, F))
    BY <1>2, <2>2, FlattenConcat
  <2>6. w \in Seq(Chunks) /\ F[s] = w
    BY <1>1, <2>1
  <2>7. Mapped(a, F) = <<w>>
    <3>1. Mapped(a, F) = [i \in 1..1 |-> w]
      BY <2>2, <2>6 DEF Mapped
    <3> QED BY <3>1
  <2>8. FlattenSeq(Mapped(a, F)) = w
    BY <2>6, <2>7, FlattenShort
  <2>9. Chunked(c, limit) = w \o Chunked(b, limit)
    BY <1>2, <2>3, <2>4, <2>5, <2>8
  <2> QED BY <2>1, <2>9
<1> QED BY <1>3, <1>4

\* The segments make messages that put together are t, and leave its blocks whole.
Makes(segments, t, limit) ==
    LET chunks == Chunked(segments, limit)
    IN  /\ segments \in Seq(TextSegments)
        /\ chunks \in Seq(Messages(limit)) /\ Contents(chunks) = t
        /\ Even(t) => chunks \in Seq(Wholes)

\* The first segment of a text makes it with those of the rest.
LEMMA NextMakes ==
    ASSUME NEW t, WellFormed(t), t # <<>>, NEW limit \in Nat, NEW s, s = NextSegment(t),
           NEW rest, Makes(rest, Drop(t, Len(s.bytes)), limit)
    PROVE  Makes(<<s>> \o rest, t, limit)
<1>1. PICK n, d : n = Len(s.bytes) /\ d = Drop(t, n)
  OBVIOUS
<1>2. t \in Seq(STRING) /\ Len(t) \in Nat
  BY DEF WellFormed
<1>3. /\ s \in [code : BOOLEAN, bytes : Seq(STRING)]
      /\ n \in 1..Len(t) /\ s.bytes = Take(t, n) /\ IsCharBoundary(t, n)
      /\ Even(t) => /\ Even(d)
                    /\ IF s.code THEN IsBlock(s.bytes) ELSE Fences(s.bytes) = {}
  BY <1>1, <1>2, SegmentForm
<1>4. n \in 0..Len(t) /\ WellFormed(s.bytes) /\ WellFormed(d) /\ s.bytes \o d = t
  <2>1. n \in 0..Len(t)
    BY <1>2, <1>3
  <2>2. WellFormed(Take(t, n)) /\ WellFormed(d)
    BY <1>1, <1>3, <2>1, CutWellFormed
  <2>3. Take(t, n) \o d = t
    BY <1>1, <1>2, <2>1, TakeDrop
  <2> QED BY <1>3, <2>1, <2>2, <2>3
<1>5. s \in TextSegments /\ IsSegment(s)
  BY <1>3, <1>4 DEF TextSegments, IsSegment
<1>6. PICK a, b, c, w : a = SegmentChunks(s, limit) /\ b = Chunked(rest, limit)
                        /\ w = <<s>> \o rest /\ c = Chunked(w, limit)
  OBVIOUS
<1>7. /\ rest \in Seq(TextSegments) /\ b \in Seq(Messages(limit)) /\ Contents(b) = d
      /\ Even(d) => b \in Seq(Wholes)
  BY <1>1, <1>6 DEF Makes
<1>8. /\ a \in Seq(Messages(limit)) /\ Contents(a) = s.bytes
      /\ Even(t) => a \in Seq(Wholes)
  BY <1>3, <1>5, <1>6, SegmentMessages
<1>9. c = a \o b
  BY <1>5, <1>6, <1>7, ChunkedForm
<1>10. w \in Seq(TextSegments)
  <2>1. <<s>> \in Seq(TextSegments)
    BY <1>5
  <2> QED BY <1>6, <1>7, <2>1, ConcatProperties
<1>11. c \in Seq(Messages(limit))
  BY <1>7, <1>8, <1>9, ConcatProperties
<1>12. Contents(c) = t
  <2>1. Messages(limit) \subseteq Chunks
    BY DEF Messages
  <2>2. a \in Seq(Chunks) /\ b \in Seq(Chunks)
    BY <1>7, <1>8, <2>1, SeqMonotonic
  <2>3. Contents(a \o b) = Contents(a) \o Contents(b)
    BY <2>2, ContentsForm
  <2> QED BY <1>4, <1>7, <1>8, <1>9, <2>3
<1>13. ASSUME Even(t) PROVE c \in Seq(Wholes)
  <2>1. a \in Seq(Wholes) /\ b \in Seq(Wholes)
    BY <1>3, <1>7, <1>8, <1>13
  <2> QED BY <1>9, <2>1, ConcatProperties
<1>14. Makes(w, t, limit)
  BY <1>6, <1>10, <1>11, <1>12, <1>13 DEF Makes
<1> QED BY <1>6, <1>14

\* So does the empty sequence of segments of nothing.
LEMMA NothingMakes ==
    ASSUME NEW limit \in Nat
    PROVE  Makes(<<>>, <<>>, limit)
<1>1. PICK e : e = <<>>
  OBVIOUS
<1>2. e \in Seq(TextSegments) /\ e \in Seq(Messages(limit)) /\ e \in Seq(Wholes)
  BY <1>1
<1>3. Chunked(e, limit) = e /\ Contents(e) = e
  BY <1>1, ChunkedForm, ContentsForm
<1>4. Makes(e, e, limit)
  BY <1>2, <1>3 DEF Makes
<1> QED BY <1>1, <1>4

\* The loop makes the whole text.
LEMMA SegmentsForm ==
    ASSUME NEW t, WellFormed(t), NEW limit \in Nat
    PROVE  Makes(Segments(t), t, limit)
<1> DEFINE R(n) == Remaining(t, n)
           push == [n \in 1..Len(t) |-> NextSegment(R(n))]
           cut == [n \in 1..Len(t) |-> Len(push[n].bytes)]
           V == [code : BOOLEAN, bytes : Seq(STRING)]
           P == {q \in (0..Len(t)) \X Seq(V) : WellFormed(R(q[1])) => Makes(q[2], R(q[1]), limit)}
<1>1. t \in Seq(STRING) /\ Len(t) \in Nat
  BY DEF WellFormed
<1>2. /\ R(Len(t)) = t
      /\ \A n \in 0..Len(t) : /\ R(n) \in Seq(STRING) /\ Len(R(n)) = n
                              /\ \A m \in 0..n : Drop(R(n), m) = R(n - m)
  BY <1>1, RemainingForm
<1>3. ASSUME NEW n \in 1..Len(t)
      PROVE  /\ push[n] \in V /\ cut[n] \in 1..n
             /\ push[n] = NextSegment(R(n)) /\ cut[n] = Len(push[n].bytes)
             /\ WellFormed(R(n)) => WellFormed(R(n - cut[n]))
             /\ R(n - cut[n]) = Drop(R(n), cut[n])
  <2>1. PICK r, s, c : r = R(n) /\ s = push[n] /\ c = cut[n]
    OBVIOUS
  <2>2. r \in Seq(STRING) /\ Len(r) = n /\ r # <<>>
    BY <1>1, <1>2, <2>1
  <2>3. s = NextSegment(r) /\ c = Len(s.bytes)
    BY <2>1
  <2> HIDE DEF R, cut, push
  <2>4. s \in V /\ c \in 1..n /\ (WellFormed(r) => IsCharBoundary(r, c))
    BY <2>2, <2>3, SegmentForm
  <2>5. c \in 0..Len(r) /\ c \in 0..n /\ n \in 0..Len(t)
    BY <1>1, <2>2, <2>4
  <2>6. WellFormed(r) => WellFormed(Drop(r, c))
    BY <2>4, <2>5, CutWellFormed
  <2>7. Drop(r, c) = R(n - c)
    BY <1>2, <2>1, <2>5
  <2> QED BY <2>1, <2>3, <2>4, <2>6, <2>7
<1>4. Segments(t) = Loop(t, push, cut)
  BY DEF Segments
<1> HIDE DEF cut, push
<1>5. <<0, <<>>>> \in P
  <2>1. R(0) = <<>>
    BY <1>1, <1>2
  <2>2. <<>> \in Seq(V) /\ 0 \in 0..Len(t)
    BY <1>1
  <2> HIDE DEF R, V
  <2> QED BY <2>1, <2>2, NothingMakes
<1>6. ASSUME NEW n \in 1..Len(t), NEW s \in Seq(V), <<n - cut[n], s>> \in P
      PROVE  <<n, <<push[n]>> \o s>> \in P
  <2>1. PICK r, p, w : r = R(n) /\ p = push[n] /\ w = <<p>> \o s
    OBVIOUS
  <2>2. r \in Seq(STRING) /\ r # <<>> /\ n \in 0..Len(t)
    BY <1>1, <1>2, <2>1
  <2>3. p \in V /\ p = NextSegment(r)
    BY <1>3, <2>1
  <2>4. ASSUME WellFormed(r) PROVE Makes(w, r, limit)
    <3>1. Makes(s, Drop(r, Len(p.bytes)), limit)
      BY <1>3, <1>6, <2>1, <2>4
    <3> QED BY <2>1, <2>2, <2>3, <2>4, <3>1, NextMakes
  <2>5. w \in Seq(V)
    <3> HIDE DEF V
    <3>1. <<p>> \in Seq(V)
      BY <2>3
    <3> QED BY <2>1, <3>1, ConcatProperties
  <2>6. <<n, w>> \in P
    <3> HIDE DEF R, V
    <3> QED BY <2>1, <2>2, <2>4, <2>5
  <2> QED BY <2>1, <2>6
<1> HIDE DEF P
<1>7. <<Len(t), Loop(t, push, cut)>> \in P
  <2> HIDE DEF V
  <2>1. \A n \in 1..Len(t) : push[n] \in V /\ cut[n] \in 1..n
    BY <1>3
  <2> QED BY <1>1, <1>5, <1>6, <2>1, LoopRule
<1> QED BY <1>1, <1>2, <1>4, <1>7 DEF P


-----------------------------------------------------------------------------
(* format().                                                               *)

\* The output and the settings are what the code can have.
FormatterSound == maxChars \in Nat /\ threshold \in Int /\ WellFormed(output)

\* Nothing and a text that is too long for messages make one message.
LEMMA OneMessage ==
    ASSUME NEW t, WellFormed(t), NEW limit \in Nat
    PROVE  /\ <<File(t)>> \in Seq(Messages(limit)) /\ Contents(<<File(t)>>) = t
           /\ t = <<>> => LET chunks == <<Text(t)>>
                          IN  /\ chunks \in Seq(Messages(limit)) /\ Contents(chunks) = t
                              /\ chunks \in Seq(Wholes)
<1>1. t \in Seq(STRING) /\ Len(t) \in Nat
  BY DEF WellFormed
<1>2. ASSUME NEW c \in {File(t), Text(t)}
      PROVE  c \in Chunks /\ c.content = t /\ Contents(<<c>>) = t
  <2>1. c \in Chunks /\ c.content = t
    BY <1>1 DEF File, Text, Chunks
  <2> QED BY <2>1, ContentsForm
<1>3. File(t) \in Messages(limit)
  BY <1>2 DEF Messages, IsMessage, File
<1>4. ASSUME t = <<>> PROVE Text(t) \in Messages(limit) /\ Text(t) \in Wholes
  <2>1. Len(t) = 0
    BY <1>4
  <2>2. FenceCount(t) = 0
    <3>1. \A i : i \in Fences(t) => i \in 0..0 - 3
      BY <1>1, <2>1, FencesForm
    <3>2. Fences(t) = {}
      BY <3>1
    <3> QED BY <1>1, <3>2, FenceCountForm
  <2>3. PICK c : c = Text(t)
    OBVIOUS
  <2>4. c \in Chunks /\ c.content = t
    BY <1>2, <2>3
  <2> QED BY <2>1, <2>2, <2>3, <2>4 DEF Messages, IsMessage, Wholes
<1> QED BY <1>2, <1>3, <1>4

\* What format() makes of an output.
LEMMA FormatForm ==
    ASSUME FormatterSound, NEW s \in Strategies
    PROVE  /\ Format(output, s) \in Seq(Messages(maxChars))
           /\ Contents(Format(output, s)) = output
           /\ s = "natural" /\ Len(output) <= threshold /\ Even(output)
                  => Format(output, s) \in Seq(Wholes)
<1> USE DEF FormatterSound
<1>1. output \in Seq(STRING) /\ Len(output) \in Nat
  BY DEF WellFormed
<1>2. CASE Len(output) > threshold
  <2>1. Format(output, s) = <<File(output)>>
    BY <1>2 DEF Format
  <2>2. ~(Len(output) <= threshold)
    BY <1>1, <1>2
  <2> QED BY <2>1, <2>2, OneMessage
<1>3. CASE ~(Len(output) > threshold) /\ output = <<>>
  <2>1. Format(output, s) = <<Text(output)>>
    BY <1>3 DEF Format, FixedChunks, NaturalChunks
  <2> QED BY <1>3, <2>1, OneMessage
<1>4. CASE ~(Len(output) > threshold) /\ output # <<>> /\ s = "fixed"
  <2>1. Format(output, s) = Texts(Pieces(output, maxChars, "fixed"))
    BY <1>4 DEF Format, FixedChunks
  <2>2. s # "natural"
    BY <1>4
  <2> QED BY <2>1, <2>2, PieceMessages
<1>5. CASE ~(Len(output) > threshold) /\ output # <<>> /\ s # "fixed"
  <2>1. Format(output, s) = Chunked(Segments(output), maxChars)
    BY <1>5 DEF Format, NaturalChunks, Chunked
  <2>2. Makes(Segments(output), output, maxChars)
    BY SegmentsForm
  <2> QED BY <2>1, <2>2 DEF Makes
<1> QED BY <1>2, <1>3, <1>4, <1>5

\* What the platform is sent of a message.
LEMMA EnforceForm ==
    ASSUME NEW t \in Seq(STRING)
    PROVE  /\ Len(EnforceLimit(t)) <= HardLimit
           /\ Len(t) <= HardLimit => EnforceLimit(t) = t
<1>1. CASE Len(t) <= HardLimit
  BY <1>1 DEF EnforceLimit
<1>2. CASE ~(Len(t) <= HardLimit)
  <2>1. PICK room, n, a : /\ room = HardLimit - Len(Suffix)
                          /\ n = CharBoundaryFloor(t, room) /\ a = Take(t, n)
    OBVIOUS
  <2>2. /\ Len(t) \in Nat /\ HardLimit \in Nat /\ Suffix \in Seq(STRING) /\ Len(Suffix) \in Nat
        /\ room \in Nat /\ room + Len(Suffix) = HardLimit
    BY <2>1, HardLimitAssumption
  <2>3. n \in 0..Len(t) /\ n <= room
    BY <2>1, <2>2, FloorForm
  <2>4. a \in Seq(STRING) /\ Len(a) = n
    BY <2>1, <2>3, TakeDrop
  <2>5. PICK b : b = a \o Suffix
    OBVIOUS
  <2>6. Len(b) = Len(a) + Len(Suffix)
    BY <2>2, <2>4, <2>5, ConcatProperties
  <2>7. EnforceLimit(t) = b
    BY <1>2, <2>1, <2>5 DEF EnforceLimit
  <2> QED BY <1>2, <2>2, <2>3, <2>4, <2>6, <2>7
<1> QED BY <1>1, <1>2

\* A text that is a single character has one, and is not longer than the platform takes.
LEMMA SingleForm ==
    ASSUME NEW t, WellFormed(t), t # <<>>, Single(t, Len(t))
    PROVE  CharCount(t) = 1 /\ Len(t) <= HardLimit
<1>1. t \in Seq(STRING) /\ Len(t) \in Nat /\ Len(t) >= 1 /\ t[1] # Continuation /\ HardLimit \in Nat
  <2>1. t \in Seq(STRING)
    BY DEF WellFormed
  <2> QED BY <2>1, HardLimitAssumption DEF WellFormed
<1>2. {i \in 1..Len(t) : t[i] # Continuation} = {1}
  BY <1>1 DEF Single
<1>3. CharCount(t) = 1
  BY <1>2, FS_Singleton DEF CharCount
<1>4. ASSUME Len(t) > HardLimit PROVE FALSE
  <2>1. 1 \in 1..Len(t) - HardLimit
    BY <1>1, <1>4
  <2>2. PICK j \in 1 + 1..1 + HardLimit : t[j] # Continuation
    BY <2>1 DEF WellFormed
  <2>3. j \in 2..Len(t)
    BY <1>1, <1>4
  <2> QED BY <2>2, <2>3 DEF Single
<1> QED BY <1>1, <1>3, <1>4

\* The four properties follow.
LEMMA FormatterSoundImplies ==
    FormatterSound => NothingLost /\ WithinLimit /\ WholeCharacters /\ BlocksWhole
<1> SUFFICES ASSUME FormatterSound
             PROVE  NothingLost /\ WithinLimit /\ WholeCharacters /\ BlocksWhole
  OBVIOUS
<1>1. NothingLost
  BY FormatForm DEF NothingLost
<1>2. ASSUME NEW s \in Strategies, NEW i \in 1..Len(Format(output, s))
      PROVE  Format(output, s)[i] \in Messages(maxChars)
  BY FormatForm
<1>3. ASSUME NEW c \in Messages(maxChars)
      PROVE  /\ WellFormed(c.content) /\ c.content \in Seq(STRING)
             /\ c.kind = "text" =>
                    \/ Len(c.content) <= maxChars
                    \/ CharCount(c.content) = 1 /\ Len(c.content) <= HardLimit
  <2>1. IsMessage(c, maxChars) /\ c.content \in Seq(STRING)
    BY DEF Messages, Chunks
  <2> QED BY <2>1, SingleForm DEF IsMessage
<1>4. WithinLimit
  <2> SUFFICES ASSUME NEW s \in Strategies, NEW i \in 1..Len(Format(output, s)),
                      Format(output, s)[i].kind = "text"
               PROVE  LET text == Format(output, s)[i].content
                          sent == EnforceLimit(text)
                      IN  /\ Len(text) <= maxChars \/ CharCount(text) = 1
                          /\ Len(sent) <= HardLimit
                          /\ maxChars <= HardLimit => sent = text
    BY DEF WithinLimit
  <2>1. PICK text : text = Format(output, s)[i].content
    OBVIOUS
  <2>2. /\ text \in Seq(STRING)
        /\ \/ Len(text) <= maxChars
           \/ CharCount(text) = 1 /\ Len(text) <= HardLimit
    BY <1>2, <1>3, <2>1
  <2>3. maxChars <= HardLimit => Len(text) <= HardLimit
    <3>1. Len(text) \in Nat /\ maxChars \in Nat /\ HardLimit \in Nat
      BY <2>2, HardLimitAssumption DEF FormatterSound
    <3> QED BY <2>2, <3>1
  <2>4. Len(EnforceLimit(text)) <= HardLimit /\ (maxChars <= HardLimit => EnforceLimit(text) = text)
    BY <2>2, <2>3, EnforceForm
  <2> QED BY <2>1, <2>2, <2>4
<1>5. WholeCharacters
  <2> SUFFICES ASSUME NEW s \in Strategies, NEW i \in 1..Len(Format(output, s)),
                      Format(output, s)[i].content # <<>>
               PROVE  Format(output, s)[i].content[1] # Continuation
    BY DEF WholeCharacters
  <2>1. WellFormed(Format(output, s)[i].content)
    BY <1>2, <1>3
  <2> QED BY <2>1 DEF WellFormed
<1>6. BlocksWhole
  <2> SUFFICES ASSUME Even(output), Len(output) <= threshold,
                      NEW i \in 1..Len(Format(output, "natural"))
               PROVE  LET c == Format(output, "natural")[i].content
                      IN  FenceCount(c) = 0 \/ IsBlock(c)
    BY DEF BlocksWhole, Even, IsBlock
  <2>1. "natural" \in Strategies
    BY DEF Strategies
  <2>2. Format(output, "natural") \in Seq(Wholes)
    BY <2>1, FormatForm
  <2>3. Format(output, "natural")[i] \in Wholes
    BY <2>2
  <2> QED BY <2>3 DEF Wholes
<1> QED BY <1>1, <1>4, <1>5, <1>6

\* What the settings and a growing output are.
FormatterInv == alphabet \in Alphabets /\ FormatterSound

\* It holds of every output.
LEMMA FormatterInvariant == FormatterSpec => []FormatterInv
<1>1. FormatterInit => FormatterInv
  <2> SUFFICES ASSUME FormatterInit PROVE FormatterInv
    OBVIOUS
  <2>1. alphabet \in Alphabets /\ alphabet.maxBytes \in Nat /\ alphabet.maxLimit \in Nat
    BY AlphabetsAssumption DEF FormatterInit
  <2>2. maxChars \in Nat /\ threshold \in Int
    BY <2>1 DEF FormatterInit
  <2>3. WellFormed(output)
    <3>1. output = <<>>
      BY DEF FormatterInit
    <3>2. output \in Seq(STRING) /\ Len(output) = 0
      BY <3>1
    <3>3. HardLimit \in Nat
      BY HardLimitAssumption
    <3> QED BY <3>1, <3>2, <3>3 DEF WellFormed
  <2> QED BY <2>1, <2>2, <2>3 DEF FormatterInv, FormatterSound
<1>2. FormatterInv /\ [Grow]_formatting => FormatterInv'
  <2> SUFFICES ASSUME FormatterInv, [Grow]_formatting PROVE FormatterInv'
    OBVIOUS
  <2>1. CASE Grow
    <3>1. PICK c \in alphabet.characters :
              output' = output \o c /\ UNCHANGED <<alphabet, maxChars, threshold>>
      BY <2>1 DEF Grow
    <3>2. IsCharacter(c) /\ Len(c) <= HardLimit
      BY AlphabetsAssumption DEF FormatterInv
    <3>3. WellFormed(output \o c)
      BY <3>2, GrowWellFormed DEF FormatterInv, FormatterSound
    <3>4. PICK o : o = output \o c
      OBVIOUS
    <3>5. output' = o /\ WellFormed(o)
      BY <3>1, <3>3, <3>4
    <3>6. WellFormed(output')
      BY <3>5
    <3>7. WellFormed(output)'
      BY <3>6 DEF WellFormed
    <3> QED BY <3>1, <3>7 DEF FormatterInv, FormatterSound
  <2>2. CASE UNCHANGED formatting
    BY <2>2 DEF FormatterInv, FormatterSound, WellFormed, formatting
  <2> QED BY <2>1, <2>2
<1> QED BY <1>1, <1>2, PTL DEF FormatterSpec

\* No strategy drops, repeats or reorders a byte of the output.
THEOREM FormatterNothingLost == FormatterSpec => []NothingLost
<1>1. FormatterInv => NothingLost
  BY FormatterSoundImplies DEF FormatterInv
<1> QED BY <1>1, FormatterInvariant, PTL

\* A message exceeds the limit only if it is a single character, and the platform takes each.
THEOREM FormatterWithinLimit == FormatterSpec => []WithinLimit
<1>1. FormatterInv => WithinLimit
  BY FormatterSoundImplies DEF FormatterInv
<1> QED BY <1>1, FormatterInvariant, PTL

\* No message begins in the middle of a character.
THEOREM FormatterWholeCharacters == FormatterSpec => []WholeCharacters
<1>1. FormatterInv => WholeCharacters
  BY FormatterSoundImplies DEF FormatterInv
<1> QED BY <1>1, FormatterInvariant, PTL

\* When every fence is closed, a code block of the natural strategy is a message of its own.
THEOREM FormatterBlocksWhole == FormatterSpec => []BlocksWhole
<1>1. FormatterInv => BlocksWhole
  BY FormatterSoundImplies DEF FormatterInv
<1> QED BY <1>1, FormatterInvariant, PTL

=============================================================================
