-------------------------- MODULE ConfigCommandsProofs --------------------------
(***************************************************************************)
(* Proofs about ConfigCommands for any number of commands with any         *)
(* arguments, on any files: their types, that the override lists only what *)
(* has been granted, and what a command that no other overlaps leaves.     *)
(***************************************************************************)
EXTENDS ConfigCommands, FiniteSetTheorems, SequenceTheorems, WellFoundedInduction, TLAPS

Edits == {"read", "open temp", "fill temp", "validate", "remove"}
Writes == {"open config", "fill config"}
Overrides == {"read override", "open override", "fill override"}

\* A command is at a step of its own.
Typed ==
    /\ \E s \in Scenarios : args = s.args
    /\ DOMAIN pc = Commands /\ DOMAIN new = Commands /\ DOMAIN valid = Commands
    /\ DOMAIN grants = Commands /\ DOMAIN disk = Files
    /\ last \in Commands /\ alone \subseteq Commands
    /\ \A c \in Commands :
        /\ pc[c] \in Ended \cup Edits \cup Writes \cup Overrides \cup {"confirm", "grant"}
        /\ pc[c] \in Edits => args[c].command = "set"
        /\ pc[c] \in Writes => args[c].command \in {"set", "init"}
        /\ pc[c] \in Overrides \cup {"grant"} => args[c].command = "allow-path"
        /\ pc[c] = "confirm" => args[c].command = "init"

\* The temporary file belongs to a set.
TempOwned ==
    disk.temp # Missing => \E c \in Commands :
        args[c].command = "set" /\ pc[c] \in {"fill temp", "validate", "remove", "stopped"}

\* All calls of setfacl for the path have succeeded.
Granted(path) == \A i \in 1..Len(GrantsOf(path)) : GrantsOf(path)[i] \in acl

\* What allow-path has granted, or is going to list, is in the access control lists.
GrantsMade ==
    \A c \in Commands : args[c].command = "allow-path" =>
        /\ grants[c] \in 0..Len(GrantsOf(args[c].path))
        /\ \A i \in 1..grants[c] : GrantsOf(args[c].path)[i] \in acl
        /\ pc[c] = "idle" => grants[c] = 0
        /\ pc[c] = "grant" => grants[c] < Len(GrantsOf(args[c].path))
        /\ pc[c] \in Overrides => Granted(args[c].path)
        /\ pc[c] \in {"open override", "fill override"} =>
               \A path \in Listed(new[c]) : Granted(path)

\* Overrides are sequences of lines.
IsOverride(file) == file.is = "lines" => IsSequence(file.lines)
OverrideForm ==
    /\ IsOverride(disk.override) /\ IsOverride(before.override)
    /\ \A c \in Commands : pc[c] \in {"open override", "fill override"} => IsOverride(new[c])

\* The last command, when no other has overlapped it, is the only one under way.
Exclusive ==
    /\ \A c \in alone : pc[c] # "idle"
    /\ last \in alone => Active \subseteq {last}

\* So an allow-path is about to write, or has written, the override it found, merged.
AllowAlone ==
    last \in alone /\ args[last].command = "allow-path" =>
        LET merged == merge_allowed_path(LinesOf(before.override), args[last].path)
        IN  /\ pc[last] \in {"grant", "read override"} => disk.override = before.override
            /\ pc[last] \in {"open override", "fill override"} => new[last] = Lines(merged)
            /\ pc[last] = "fill override" => disk.override = Empty
            /\ pc[last] = "ok" => LinesOf(disk.override) = merged

Sound ==
    /\ Typed /\ TempOwned /\ GrantsMade /\ ListedMeansGranted /\ OverrideForm
    /\ Exclusive /\ AllowAlone

\* What the last command, a set, makes of the file it found.
Editable == Parses(before.config) /\ CanResolveMut(before.config.tree, Target(last))
Edited == Yaml(Edit(before.config.tree, Target(last), auto_value(args[last].value)), {})

\* A set has read the file it found, validates it edited, and leaves that or the old one.
SetAlone ==
    last \in alone /\ args[last].command = "set" =>
        /\ pc[last] \in Edits \cup {"rejected"} => disk.config = before.config
        /\ pc[last] \in (Edits \ {"read"}) \cup Writes =>
               Editable /\ new[last] = Edited
        /\ pc[last] = "fill temp" => disk.temp = Empty
        /\ pc[last] = "validate" => disk.temp = Edited
        /\ pc[last] = "remove" => valid[last] = load_from_path(Edited)
        /\ pc[last] \in Writes \cup {"ok"} => Editable /\ load_from_path(Edited)
        /\ pc[last] = "fill config" => disk.config = Empty
        /\ pc[last] = "ok" => disk.config = Edited
        /\ pc[last] = "rejected" => ~(Editable /\ load_from_path(Edited))

\* Every document is a tree.
Trees ==
    /\ Closed(disk.config) /\ Closed(before.config)
    /\ \A c \in Commands : Closed(new[c])

-----------------------------------------------------------------------------
(* merge_allowed_path                                                      *)

Service == Header("Service")
IsService(s, i) == s[i] = Service

\* A function from 1..n is a sequence.
LEMMA FunctionIsSequence ==
    ASSUME NEW n \in Nat, NEW T, NEW f \in [1..n -> T]
    PROVE  IsSequence(f) /\ Len(f) = n
<1>1. f \in Seq(T) /\ Len(f) = n
  OBVIOUS
<1> QED BY <1>1 DEF IsSequence

\* A line keeps its distance to those above it, and a "[Service]" is one further away.
LEMMA Places ==
    ASSUME NEW s, IsSequence(s), NEW i \in 1..Len(s) + 1
    PROVE  /\ Place(s, i) \in Nat /\ Place(s, i) >= i
           /\ \A j \in 1..Len(s) + 1 : i < j =>
                  /\ Place(s, i) + (j - i) <= Place(s, j)
                  /\ IsService(s, i) => Place(s, i) + (j - i) + 1 <= Place(s, j)
<1> DEFINE Above(j) == {h \in 1..j - 1 : s[h] = Header("Service")}
<1>1. Len(s) \in Nat
  BY DEF IsSequence
<1>2. \A j \in 1..Len(s) + 1 : IsFiniteSet(Above(j)) /\ Cardinality(Above(j)) \in Nat
  <2> SUFFICES ASSUME NEW j \in 1..Len(s) + 1 PROVE IsFiniteSet(Above(j))
    BY FS_CardinalityType
  <2>1. IsFiniteSet(1..j - 1)
    BY <1>1, FS_Interval
  <2>2. Above(j) \subseteq 1..j - 1
    OBVIOUS
  <2> QED BY <2>1, <2>2, FS_Subset
<1>3. \A j \in 1..Len(s) + 1 : Place(s, j) = j + Cardinality(Above(j))
  BY DEF Place
<1>4. ASSUME NEW j \in 1..Len(s) + 1, i < j
      PROVE  /\ Cardinality(Above(i)) <= Cardinality(Above(j))
             /\ IsService(s, i) => Cardinality(Above(i)) + 1 <= Cardinality(Above(j))
  <2>1. Above(i) \subseteq Above(j) /\ i \notin Above(i)
    BY <1>1, <1>4
  <2>2. Cardinality(Above(i)) <= Cardinality(Above(j))
    BY <1>2, <2>1, FS_Subset
  <2>3. ASSUME IsService(s, i) PROVE Cardinality(Above(i)) + 1 <= Cardinality(Above(j))
    <3>1. Above(i) \cup {i} \subseteq Above(j)
      BY <1>1, <1>4, <2>1, <2>3 DEF IsService, Service
    <3>2. Cardinality(Above(i) \cup {i}) = Cardinality(Above(i)) + 1
      BY <1>2, <2>1, FS_AddElement
    <3>3. Cardinality(Above(i) \cup {i}) <= Cardinality(Above(j))
      BY <1>2, <3>1, FS_Subset
    <3> QED BY <3>2, <3>3
  <2> QED BY <2>2, <2>3
<1> HIDE DEF Above
<1> QED BY <1>1, <1>2, <1>3, <1>4

\* Merging into a file that has "[Service]": the old lines in their places, and
\* the new one everywhere else, below each "[Service]" among them.
LEMMA MergedForm ==
    ASSUME NEW s, IsSequence(s), NEW path, ~Contains(s, ReadWritePaths(path)), Mentions(s)
    PROVE  LET m == merge_allowed_path(s, path)
           IN  /\ IsSequence(m)
               /\ \A i \in 1..Len(s) : Place(s, i) \in 1..Len(m) /\ m[Place(s, i)] = s[i]
               /\ \A j \in 1..Len(m) :
                      m[j] = ReadWritePaths(path) \/ \E i \in 1..Len(s) : Place(s, i) = j
               /\ \A i \in 1..Len(s) : IsService(s, i) =>
                      Place(s, i) + 1 \in 1..Len(m) /\ m[Place(s, i) + 1] = ReadWritePaths(path)
<1> DEFINE entry == ReadWritePaths(path)
           From(j) == {i \in 1..Len(s) : Place(s, i) = j}
           n == Place(s, Len(s) + 1) - 1
           Line(j) == IF From(j) = {} THEN entry ELSE s[CHOOSE i \in From(j) : TRUE]
           m == [j \in 1..n |-> Line(j)]
<1>1. merge_allowed_path(s, path) = m
  BY DEF merge_allowed_path
<1>2. Len(s) \in Nat /\ n \in Nat /\ Place(s, Len(s) + 1) \in Nat
  <2>1. Len(s) \in Nat
    BY DEF IsSequence
  <2>2. Place(s, Len(s) + 1) \in Nat /\ Place(s, Len(s) + 1) >= Len(s) + 1
    BY <2>1, Places
  <2> QED BY <2>1, <2>2
<1> DEFINE T == {Line(j) : j \in 1..n}
<1>3. m \in [1..n -> T]
  OBVIOUS
<1>4. IsSequence(m) /\ Len(m) = n
  <2> HIDE DEF m, n, T
  <2> QED BY <1>2, <1>3, FunctionIsSequence
<1>5. ASSUME NEW i \in 1..Len(s)
      PROVE  /\ Place(s, i) \in 1..n /\ From(Place(s, i)) = {i}
             /\ IsService(s, i) => Place(s, i) + 1 \in 1..n /\ From(Place(s, i) + 1) = {}
  <2>1. i \in 1..Len(s) + 1 /\ Len(s) + 1 \in 1..Len(s) + 1 /\ i < Len(s) + 1
    BY <1>2
  <2>2. /\ Place(s, i) \in Nat /\ Place(s, i) >= i
        /\ Place(s, i) + (Len(s) + 1 - i) <= Place(s, Len(s) + 1)
        /\ IsService(s, i) => Place(s, i) + (Len(s) + 1 - i) + 1 <= Place(s, Len(s) + 1)
    BY <2>1, Places
  <2>3. ASSUME NEW k \in 1..Len(s)
        PROVE  /\ Place(s, k) \in Nat
               /\ k < i => Place(s, k) < Place(s, i)
               /\ i < k => Place(s, i) < Place(s, k)
               /\ i < k /\ IsService(s, i) => Place(s, i) + 1 < Place(s, k)
    <3>1. k \in 1..Len(s) + 1
      BY <1>2
    <3>2. /\ Place(s, k) \in Nat
          /\ k < i => Place(s, k) + (i - k) <= Place(s, i)
          /\ i < k => Place(s, i) + (k - i) <= Place(s, k)
          /\ i < k /\ IsService(s, i) => Place(s, i) + (k - i) + 1 <= Place(s, k)
      BY <2>1, <3>1, Places
    <3> QED BY <1>2, <2>2, <3>2
  <2>4. Place(s, i) \in 1..n
    BY <1>2, <2>2
  <2>5. From(Place(s, i)) = {i}
    BY <1>2, <2>2, <2>3
  <2>6. IsService(s, i) => Place(s, i) + 1 \in 1..n
    BY <1>2, <2>2
  <2>7. ASSUME IsService(s, i) PROVE From(Place(s, i) + 1) = {}
    <3> SUFFICES ASSUME NEW k \in 1..Len(s), Place(s, k) = Place(s, i) + 1 PROVE FALSE
      OBVIOUS
    <3> QED BY <1>2, <2>2, <2>3, <2>7
  <2> QED BY <2>4, <2>5, <2>6, <2>7
<1>6. \A i \in 1..Len(s) : m[Place(s, i)] = s[i]
  <2> SUFFICES ASSUME NEW i \in 1..Len(s) PROVE m[Place(s, i)] = s[i]
    OBVIOUS
  <2>1. Place(s, i) \in 1..n /\ From(Place(s, i)) = {i}
    BY <1>5
  <2>2. m[Place(s, i)] = Line(Place(s, i))
    BY <2>1
  <2>3. (CHOOSE k \in From(Place(s, i)) : TRUE) = i
    BY <2>1
  <2> QED BY <2>1, <2>2, <2>3
<1>7. \A j \in 1..n : m[j] = entry \/ \E i \in 1..Len(s) : Place(s, i) = j
  OBVIOUS
<1>8. \A i \in 1..Len(s) : IsService(s, i) => m[Place(s, i) + 1] = entry
  BY <1>5
<1> HIDE DEF From, n, Line, m
<1> QED BY <1>1, <1>4, <1>5, <1>6, <1>7, <1>8

\* Merging lists the path, and nothing else that was not listed.
LEMMA MergeLists ==
    ASSUME NEW s, IsSequence(s), NEW path, NEW other,
           Contains(merge_allowed_path(s, path), ReadWritePaths(other))
    PROVE  other = path \/ Contains(s, ReadWritePaths(other))
<1> DEFINE m == merge_allowed_path(s, path)
<1>1. PICK j \in 1..Len(m) : m[j] = ReadWritePaths(other)
  BY DEF Contains
<1>2. CASE Contains(s, ReadWritePaths(path))
  BY <1>2 DEF merge_allowed_path
<1>3. CASE ~Contains(s, ReadWritePaths(path)) /\ Mentions(s)
  <2>1. CASE m[j] = ReadWritePaths(path)
    BY <1>1, <2>1 DEF ReadWritePaths
  <2>2. CASE \E i \in 1..Len(s) : Place(s, i) = j
    BY <1>1, <1>3, <2>2, MergedForm DEF Contains
  <2> QED BY <1>1, <1>3, <2>1, <2>2, MergedForm
<1>4. CASE ~Contains(s, ReadWritePaths(path)) /\ ~Mentions(s)
  <2>1. m = s \o <<Header("Service"), ReadWritePaths(path)>>
    BY <1>4 DEF merge_allowed_path
  <2>2. Len(s) \in Nat /\ s \in Seq({s[i] : i \in DOMAIN s})
    BY DEF IsSequence
  <2>3. /\ Len(m) = Len(s) + 2 /\ \A i \in 1..Len(s) : m[i] = s[i]
        /\ m[Len(s) + 1] = Header("Service") /\ m[Len(s) + 2] = ReadWritePaths(path)
    BY <2>1, <2>2
  <2> HIDE DEF m
  <2>4. j \in 1..Len(s) \/ j = Len(s) + 1 \/ j = Len(s) + 2
    BY <1>1, <2>2, <2>3
  <2> QED BY <1>1, <2>3, <2>4 DEF Contains, ReadWritePaths, Header
<1> QED BY <1>2, <1>3, <1>4

\* What comes out is a sequence of lines.
LEMMA MergeForm ==
    ASSUME NEW s, IsSequence(s), NEW path
    PROVE  IsSequence(merge_allowed_path(s, path))
<1>1. CASE Contains(s, ReadWritePaths(path))
  BY <1>1 DEF merge_allowed_path
<1>2. CASE ~Contains(s, ReadWritePaths(path)) /\ Mentions(s)
  BY <1>2, MergedForm
<1>3. CASE ~Contains(s, ReadWritePaths(path)) /\ ~Mentions(s)
  <2> DEFINE T == {s[i] : i \in DOMAIN s} \cup {Header("Service"), ReadWritePaths(path)}
             m == s \o <<Header("Service"), ReadWritePaths(path)>>
  <2>1. s \in Seq(T) /\ <<Header("Service"), ReadWritePaths(path)>> \in Seq(T)
    BY DEF IsSequence
  <2>2. m \in Seq(T)
    <3> HIDE DEF T
    <3> QED BY <2>1
  <2>3. IsSequence(m)
    <3> HIDE DEF m, T
    <3>1. m \in [1..Len(m) -> T] /\ Len(m) \in Nat
      BY <2>2
    <3> QED BY <3>1, FunctionIsSequence
  <2> QED BY <1>3, <2>3 DEF merge_allowed_path
<1> QED BY <1>1, <1>2, <1>3

\* Merging takes nothing from what systemd reads, and adds the path if it can.
LEMMA MergeWritable ==
    ASSUME NEW s, IsSequence(s), NEW path \in DOMAIN Parents
    PROVE  LET m == merge_allowed_path(s, path)
           IN  /\ Writable(s) \subseteq Writable(m)
               /\ (Contains(s, Header("Service")) \/ ~Mentions(s))
                      /\ ~Contains(s, ReadWritePaths(path)) => path \in Writable(m)
<1> DEFINE m == merge_allowed_path(s, path)
           entry == ReadWritePaths(path)
<1>1. CASE Contains(s, entry)
  BY <1>1 DEF merge_allowed_path
<1>2. Len(s) \in Nat /\ entry[1] # "header" /\ Header("Service") # entry
  BY DEF IsSequence, ReadWritePaths, Header
<1>3. CASE ~Contains(s, entry) /\ Mentions(s)
  <2>1. /\ \A i \in 1..Len(s) : Place(s, i) \in 1..Len(m) /\ m[Place(s, i)] = s[i]
        /\ \A j \in 1..Len(m) : m[j] = entry \/ \E i \in 1..Len(s) : Place(s, i) = j
        /\ \A i \in 1..Len(s) : IsService(s, i) =>
               Place(s, i) + 1 \in 1..Len(m) /\ m[Place(s, i) + 1] = entry
    BY <1>3, MergedForm
  <2>2. ASSUME NEW h \in 1..Len(s), NEW i \in 1..Len(s), h < i
        PROVE  /\ Place(s, h) \in Nat /\ Place(s, i) \in Nat
               /\ Place(s, h) < Place(s, i)
    <3>1. h \in 1..Len(s) + 1 /\ i \in 1..Len(s) + 1
      BY <1>2
    <3>2. Place(s, h) \in Nat /\ Place(s, i) \in Nat /\ Place(s, h) + (i - h) <= Place(s, i)
      BY <2>2, <3>1, Places
    <3> QED BY <1>2, <2>2, <3>2
  <2> HIDE DEF m, entry
  <2>3. ASSUME NEW p \in Writable(s) PROVE p \in Writable(m)
    <3>1. PICK i \in 1..Len(s), h \in 1..Len(s) :
              /\ h < i /\ s[h] = Header("Service") /\ s[i] = ReadWritePaths(p)
              /\ \A k \in h + 1..i : s[k][1] # "header"
      BY <2>3 DEF Writable
    <3>2. /\ Place(s, h) \in 1..Len(m) /\ Place(s, i) \in 1..Len(m) /\ Place(s, h) < Place(s, i)
          /\ m[Place(s, h)] = Header("Service") /\ m[Place(s, i)] = ReadWritePaths(p)
      BY <2>1, <2>2, <3>1
    <3>3. ASSUME NEW j \in Place(s, h) + 1..Place(s, i) PROVE m[j][1] # "header"
      <4>1. j \in 1..Len(m)
        <5>1. Place(s, h) \in Nat /\ Place(s, i) \in Nat /\ Place(s, i) <= Len(m)
          BY <2>2, <3>1, <3>2
        <5>2. 1 <= j /\ j <= Place(s, i) /\ j \in Int
          BY <5>1
        <5>3. Len(m) \in Nat
          BY MergeForm DEF IsSequence, m
        <5> QED BY <5>1, <5>2, <5>3
      <4>2. CASE m[j] = entry
        BY <1>2, <4>2
      <4>3. CASE \E k \in 1..Len(s) : Place(s, k) = j
        <5>1. PICK k \in 1..Len(s) : Place(s, k) = j
          BY <4>3
        <5>2. k \in h + 1..i
          <6>1. ~(k < h) /\ k # h /\ ~(i < k)
            BY <2>2, <3>1, <3>3, <5>1
          <6> QED BY <1>2, <6>1
        <5> QED BY <2>1, <3>1, <5>1, <5>2
      <4> QED BY <2>1, <4>1, <4>2, <4>3
    <3>4. p \in DOMAIN Parents
      BY <2>3 DEF Writable
    <3> QED BY <3>2, <3>3, <3>4 DEF Writable
  <2>4. ASSUME Contains(s, Header("Service")) PROVE path \in Writable(m)
    <3>1. PICK h \in 1..Len(s) : s[h] = Header("Service")
      BY <2>4 DEF Contains
    <3> DEFINE i == Place(s, h) + 1
    <3>2. /\ Place(s, h) \in 1..Len(m) /\ m[Place(s, h)] = Header("Service")
          /\ i \in 1..Len(m) /\ m[i] = entry
      BY <2>1, <3>1 DEF IsService, Service
    <3>3. Place(s, h) \in Nat
      BY <3>2
    <3>4. Place(s, h) < i /\ \A k \in Place(s, h) + 1..i : k = i
      BY <3>3
    <3>5. \A k \in Place(s, h) + 1..i : m[k][1] # "header"
      BY <1>2, <3>2, <3>4
    <3> HIDE DEF i
    <3> QED BY <3>2, <3>4, <3>5 DEF Writable, entry
  <2> QED BY <1>3, <2>3, <2>4 DEF m
<1>4. CASE ~Contains(s, entry) /\ ~Mentions(s)
  <2>1. m = s \o <<Header("Service"), entry>>
    BY <1>4 DEF merge_allowed_path
  <2>2. s \in Seq({s[i] : i \in DOMAIN s})
    BY DEF IsSequence
  <2> HIDE DEF entry
  <2>3. /\ Len(m) = Len(s) + 2 /\ \A i \in 1..Len(s) : m[i] = s[i]
        /\ m[Len(s) + 1] = Header("Service") /\ m[Len(s) + 2] = entry
    BY <1>2, <2>1, <2>2
  <2> HIDE DEF m
  <2>4. ASSUME NEW p \in Writable(s) PROVE p \in Writable(m)
    <3>1. PICK i \in 1..Len(s), h \in 1..Len(s) :
              /\ h < i /\ s[h] = Header("Service") /\ s[i] = ReadWritePaths(p)
              /\ \A k \in h + 1..i : s[k][1] # "header"
      BY <2>4 DEF Writable
    <3>2. i \in 1..Len(m) /\ h \in 1..Len(m) /\ \A k \in h + 1..i : k \in 1..Len(s)
      BY <1>2, <2>3
    <3>3. /\ m[h] = Header("Service") /\ m[i] = ReadWritePaths(p)
          /\ \A k \in h + 1..i : m[k][1] # "header"
      BY <2>3, <3>1, <3>2
    <3>4. p \in DOMAIN Parents
      BY <2>4 DEF Writable
    <3> QED BY <3>1, <3>2, <3>3, <3>4 DEF Writable
  <2>5. path \in Writable(m)
    <3> DEFINE h == Len(s) + 1
               i == Len(s) + 2
    <3>1. i \in 1..Len(m) /\ h \in 1..Len(m) /\ h < i /\ \A k \in h + 1..i : k = i
      BY <1>2, <2>3
    <3>2. m[h] = Header("Service") /\ m[i] = ReadWritePaths(path)
      BY <2>3 DEF entry
    <3>3. \A k \in h + 1..i : m[k][1] # "header"
      BY <1>2, <3>1, <3>2 DEF entry
    <3> HIDE DEF h, i
    <3> QED BY <3>1, <3>2, <3>3 DEF Writable
  <2> QED BY <2>4, <2>5 DEF m
<1> QED BY <1>1, <1>3, <1>4

-----------------------------------------------------------------------------
(* The types and the override                                              *)

\* The calls of setfacl for a path.
LEMMA GrantsForm ==
    ASSUME NEW path \in DOMAIN Parents
    PROVE  Len(GrantsOf(path)) \in Nat \ {0} /\ DOMAIN GrantsOf(path) = 1..Len(GrantsOf(path))
<1>1. Len(Parents[path]) \in Nat
  BY ParentsAssumption DEF IsSequence
<1> DEFINE xs == [j \in 1..Len(Parents[path]) |-> <<"x", Parents[path][j]>>]
           rest == <<<<"rwX", path>>, <<"default", path>>>>
<1>2. GrantsOf(path) = xs \o rest
  BY DEF GrantsOf, Grants
<1> DEFINE T == {xs[j] : j \in 1..Len(Parents[path])} \cup {<<"rwX", path>>, <<"default", path>>}
<1>3. xs \in [1..Len(Parents[path]) -> T] /\ rest \in Seq(T) /\ Len(rest) = 2
  OBVIOUS
<1> HIDE DEF xs, rest, T
<1>4. xs \in Seq(T) /\ Len(xs) = Len(Parents[path])
  BY <1>1, <1>3
<1> QED BY <1>1, <1>2, <1>3, <1>4

\* A command line is one of the three.
LEMMA ArgsForm ==
    ASSUME Typed, NEW c \in Commands
    PROVE  /\ args[c].command \in {"set", "init", "allow-path"}
           /\ args[c].command = "allow-path" =>
                  args[c].path \in DOMAIN Parents /\ Len(GrantsOf(args[c].path)) \in Nat \ {0}
<1>1. PICK s \in Scenarios : args = s.args
  BY DEF Typed
<1>2. /\ args[c].command \in {"set", "init", "allow-path"}
      /\ args[c].command = "allow-path" => args[c].path \in DOMAIN Parents
  BY <1>1, ScenariosAssumption DEF Commands
<1> QED BY <1>2, GrantsForm

\* No command has begun.
LEMMA InitSound == Init => Sound
<1> SUFFICES ASSUME Init PROVE Sound
  OBVIOUS
<1>1. PICK s \in Scenarios :
          /\ args = s.args
          /\ disk = [config |-> s.config, temp |-> Missing, override |-> s.override]
  BY DEF Init
<1>2. /\ pc = [c \in Commands |-> "idle"] /\ new = [c \in Commands |-> Missing]
      /\ valid = [c \in Commands |-> FALSE] /\ grants = [c \in Commands |-> 0]
      /\ before = disk /\ last \in Commands /\ alone = {}
      /\ acl = UNION {Range(GrantsOf(path)) : path \in Listed(disk.override)}
  BY DEF Init
<1>3. DOMAIN disk = Files /\ disk.temp = Missing /\ disk.override = s.override
  BY <1>1 DEF Files
<1>4. Typed /\ TempOwned
  BY <1>1, <1>2, <1>3 DEF Typed, TempOwned, Ended, Edits, Writes, Overrides
<1>5. GrantsMade
  <2>1. ASSUME NEW c \in Commands, args[c].command = "allow-path"
        PROVE  Len(GrantsOf(args[c].path)) \in Nat \ {0}
    BY <1>4, <2>1, ArgsForm
  <2> QED BY <1>2, <2>1 DEF GrantsMade, Overrides
<1>6. ListedMeansGranted
  <2> SUFFICES ASSUME NEW path \in Listed(disk.override), NEW j \in 1..Len(GrantsOf(path))
               PROVE  GrantsOf(path)[j] \in acl
    BY DEF ListedMeansGranted
  <2>1. GrantsOf(path)[j] \in Range(GrantsOf(path))
    <3>1. path \in DOMAIN Parents
      BY DEF Listed
    <3>2. DOMAIN GrantsOf(path) = 1..Len(GrantsOf(path))
      BY <3>1, GrantsForm
    <3> QED BY <3>2 DEF Range
  <2> QED BY <1>2, <2>1
<1>7. OverrideForm
  BY <1>1, <1>2, <1>3, ScenariosAssumption DEF OverrideForm, IsOverride
<1>8. Exclusive /\ AllowAlone
  BY <1>2 DEF Exclusive, AllowAlone
<1> QED BY <1>4, <1>5, <1>6, <1>7, <1>8 DEF Sound

\* A step of set or init, or the end of a command that is killed, leaves the
\* override and what allow-path knows alone.
LEMMA OthersKept ==
    ASSUME Sound, NEW c \in Commands, c \in Active, NEW to,
           to = "stopped" \/ (args[c].command # "allow-path" /\ to \notin Overrides \cup {"grant", "idle"}),
           pc' = [pc EXCEPT ![c] = to], UNCHANGED <<args, acl, grants, before, last, alone>>,
           disk'.override = disk.override, \A d \in Commands : d # c => new'[d] = new[d]
    PROVE  GrantsMade' /\ ListedMeansGranted' /\ OverrideForm' /\ Exclusive' /\ AllowAlone'
<1>1. /\ pc'[c] = to /\ \A d \in Commands : d # c => pc'[d] = pc[d]
      /\ Commands' = Commands /\ pc[c] \notin Ended /\ to # "idle"
  BY DEF Sound, Typed, Commands, Active
<1>2. GrantsMade'
  <2> SUFFICES ASSUME NEW d \in Commands, args[d].command = "allow-path"
               PROVE  /\ grants[d] \in 0..Len(GrantsOf(args[d].path))
                      /\ \A i \in 1..grants[d] : GrantsOf(args[d].path)[i] \in acl
                      /\ pc'[d] = "idle" => grants[d] = 0
                      /\ pc'[d] = "grant" => grants[d] < Len(GrantsOf(args[d].path))
                      /\ pc'[d] \in Overrides => Granted(args[d].path)
                      /\ pc'[d] \in {"open override", "fill override"} =>
                             \A path \in Listed(new'[d]) : Granted(path)
    BY <1>1 DEF GrantsMade, Granted, Listed
  <2>1. CASE d = c
    BY <1>1, <2>1 DEF Sound, GrantsMade, Overrides
  <2>2. CASE d # c
    BY <1>1, <2>2 DEF Sound, GrantsMade
  <2> QED BY <2>1, <2>2
<1>3. ListedMeansGranted'
  BY DEF Sound, ListedMeansGranted, Listed
<1>4. OverrideForm'
  BY <1>1 DEF Sound, OverrideForm, IsOverride, Overrides
<1>5. Exclusive'
  BY <1>1 DEF Sound, Exclusive, Active, Ended
<1>6. AllowAlone'
  <2> SUFFICES ASSUME last \in alone, args[last].command = "allow-path" PROVE AllowAlone'
    BY DEF AllowAlone
  <2>1. c = last
    BY DEF Sound, Exclusive
  <2> QED BY <1>1, <2>1 DEF AllowAlone
<1> QED BY <1>2, <1>3, <1>4, <1>5, <1>6

\* The types after a step of command c.
LEMMA TypedKept ==
    ASSUME Typed, NEW c \in Commands, NEW to, pc' = [pc EXCEPT ![c] = to],
           to \in Ended \cup Edits \cup Writes \cup Overrides \cup {"confirm", "grant"},
           to \in Edits => args[c].command = "set",
           to \in Writes => args[c].command \in {"set", "init"},
           to \in Overrides \cup {"grant"} => args[c].command = "allow-path",
           to = "confirm" => args[c].command = "init",
           UNCHANGED args, last' \in Commands, alone' \subseteq Commands,
           DOMAIN new' = Commands, DOMAIN valid' = Commands, DOMAIN grants' = Commands,
           DOMAIN disk' = Files
    PROVE  Typed'
<1>1. /\ DOMAIN pc' = Commands /\ pc'[c] = to
      /\ \A d \in Commands : d # c => pc'[d] = pc[d]
  BY DEF Typed
<1>2. Commands' = Commands
  BY DEF Commands
<1> QED BY <1>1, <1>2 DEF Typed

\* The temporary file after a step of command c that does not remove it.
LEMMA TempKept ==
    ASSUME Typed, TempOwned, NEW c \in Commands, NEW to, pc' = [pc EXCEPT ![c] = to],
           UNCHANGED args,
           \/ /\ disk'.temp = disk.temp
              /\ pc[c] \notin {"fill temp", "validate", "remove"} /\ pc[c] # "stopped"
           \/ /\ args[c].command = "set" /\ to \in {"fill temp", "validate", "remove", "stopped"}
           \/ disk'.temp = Missing
    PROVE  TempOwned'
<1>1. pc'[c] = to /\ (\A d \in Commands : d # c => pc'[d] = pc[d]) /\ Commands' = Commands
  BY DEF Typed, Commands
<1> QED BY <1>1 DEF TempOwned

\* A command begins, and another is no longer alone.
LEMMA BeginSound ==
    ASSUME Sound, NEW c \in Commands, Begin(c)
    PROVE  Sound'
<1> DEFINE to == CASE args[c].command = "set" -> "read"
                   [] args[c].command = "init" -> "confirm"
                   [] args[c].command = "allow-path" -> "grant"
<1>1. /\ pc[c] = "idle" /\ pc' = [pc EXCEPT ![c] = to]
      /\ before' = disk /\ last' = c
      /\ alone' = IF Active = {} THEN alone \cup {c} ELSE alone \ Active
      /\ UNCHANGED <<args, disk, acl, new, valid, grants>>
  BY DEF Begin, Goto
<1>2. Typed
  BY DEF Sound
<1>3. /\ args[c].command = "set" => to = "read"
      /\ args[c].command = "init" => to = "confirm"
      /\ args[c].command = "allow-path" => to = "grant"
      /\ args[c].command \in {"set", "init", "allow-path"}
  BY <1>2, ArgsForm
<1> HIDE DEF to
<1>4. /\ pc'[c] = to /\ Commands' = Commands
      /\ \A d \in Commands : d # c => pc'[d] = pc[d]
  BY <1>1, <1>2 DEF Typed, Commands
<1>5. Typed'
  BY <1>1, <1>2, <1>3, TypedKept DEF Typed, Edits, Writes, Overrides
<1>6. TempOwned'
  BY <1>1, <1>2, TempKept DEF Sound
<1>7. GrantsMade'
  <2> SUFFICES ASSUME NEW d \in Commands, args[d].command = "allow-path"
               PROVE  /\ grants[d] \in 0..Len(GrantsOf(args[d].path))
                      /\ \A j \in 1..grants[d] : GrantsOf(args[d].path)[j] \in acl
                      /\ pc'[d] = "idle" => grants[d] = 0
                      /\ pc'[d] = "grant" => grants[d] < Len(GrantsOf(args[d].path))
                      /\ pc'[d] \in Overrides => Granted(args[d].path)
                      /\ pc'[d] \in {"open override", "fill override"} =>
                             \A path \in Listed(new[d]) : Granted(path)
    BY <1>1, <1>4 DEF GrantsMade, Granted, Listed
  <2>1. CASE d = c
    <3>1. grants[c] = 0 /\ pc'[c] = "grant"
      BY <1>1, <1>3, <1>4, <2>1 DEF Sound, GrantsMade
    <3>2. Len(GrantsOf(args[c].path)) \in Nat \ {0}
      BY <1>2, <2>1, ArgsForm
    <3> QED BY <2>1, <3>1, <3>2 DEF Overrides
  <2>2. CASE d # c
    BY <1>1, <1>4, <2>2 DEF Sound, GrantsMade
  <2> QED BY <2>1, <2>2
<1>8. ListedMeansGranted' /\ OverrideForm'
  BY <1>1, <1>3, <1>4 DEF Sound, ListedMeansGranted, Listed, OverrideForm, IsOverride
<1>9. Exclusive'
  <2>1. c \notin alone
    BY <1>1 DEF Sound, Exclusive
  <2>2. \A d \in alone' : pc'[d] # "idle"
    BY <1>1, <1>2, <1>3, <1>4 DEF Sound, Exclusive, Typed
  <2>3. c \in alone' => Active' \subseteq {c}
    BY <1>1, <1>4, <2>1 DEF Active
  <2> QED BY <1>1, <2>2, <2>3 DEF Exclusive
<1>10. AllowAlone'
  BY <1>1, <1>3, <1>4 DEF AllowAlone
<1> QED BY <1>5, <1>6, <1>7, <1>8, <1>9, <1>10 DEF Sound

\* A command is killed.
LEMMA StopSound ==
    ASSUME Sound, NEW c \in Commands, Stop(c)
    PROVE  Sound'
<1>1. /\ c \in Active /\ pc' = [pc EXCEPT ![c] = "stopped"]
      /\ UNCHANGED <<args, disk, acl, new, valid, grants, before, last, alone>>
  BY DEF Stop, Goto, History
<1>2. Typed /\ TempOwned /\ pc[c] \notin Ended
  BY <1>1 DEF Sound, Active
<1>3. Typed'
  BY <1>1, <1>2, TypedKept DEF Typed, Ended, Edits, Writes, Overrides
<1>4. TempOwned'
  <2>1. pc[c] \in {"fill temp", "validate", "remove"} => args[c].command = "set"
    BY <1>2 DEF Typed, Edits
  <2> QED BY <1>1, <1>2, <2>1, TempKept DEF Ended
<1> QED BY <1>1, <1>3, <1>4, OthersKept DEF Sound

\* A step of set or init.
LEMMA SetSound ==
    ASSUME Sound, NEW c \in Commands, Set(c) \/ Confirm(c)
    PROVE  Sound'
<1> USE DEF Goto, History
<1>1. Typed /\ TempOwned
  BY DEF Sound
<1>2. PICK to :
          /\ pc' = [pc EXCEPT ![c] = to]
          /\ to \in {"ok", "rejected"} \cup (Edits \ {"read"}) \cup Writes
          /\ to \in Edits => args[c].command = "set"
          /\ args[c].command \in {"set", "init"} /\ pc[c] \notin Ended
          /\ UNCHANGED <<args, acl, grants, before, last, alone>>
          /\ DOMAIN disk' = Files /\ disk'.override = disk.override
          /\ DOMAIN new' = Commands /\ DOMAIN valid' = Commands
          /\ \A d \in Commands : d # c => new'[d] = new[d]
          /\ \/ /\ disk'.temp = disk.temp
                /\ pc[c] \notin {"fill temp", "validate", "remove"} /\ pc[c] # "stopped"
             \/ args[c].command = "set" /\ to \in {"fill temp", "validate", "remove", "stopped"}
             \/ disk'.temp = Missing
  <2> USE <1>1 DEF Typed, Ended, Edits, Writes, Files
  <2>1. CASE ReadConfig(c)
    BY <2>1 DEF ReadConfig
  <2>2. CASE OpenTemp(c)
    BY <2>2 DEF OpenTemp, Open
  <2>3. CASE FillTemp(c)
    BY <2>3 DEF FillTemp, Fill
  <2>4. CASE Validate(c)
    BY <2>4 DEF Validate
  <2>5. CASE RemoveTemp(c)
    BY <2>5 DEF RemoveTemp
  <2>6. CASE OpenConfig(c)
    BY <2>6 DEF OpenConfig, Open
  <2>7. CASE FillConfig(c)
    BY <2>7 DEF FillConfig, Fill
  <2>8. CASE Confirm(c)
    <3>1. PICK to \in {"open config", "rejected"} : pc' = [pc EXCEPT ![c] = to]
      BY <2>8 DEF Confirm
    <3>2. /\ pc[c] = "confirm" /\ UNCHANGED <<args, disk, acl, valid, grants, before, last, alone>>
          /\ new' = [new EXCEPT ![c] = Template]
      BY <2>8 DEF Confirm
    <3> QED BY <3>1, <3>2
  <2> QED BY <2>1, <2>2, <2>3, <2>4, <2>5, <2>6, <2>7, <2>8 DEF Set
<1>3. to \notin Overrides \cup {"grant", "idle"}
  BY <1>2 DEF Edits, Writes, Overrides
<1>4. Typed'
  BY <1>1, <1>2, <1>3, TypedKept DEF Typed, Ended, Edits, Writes, Overrides
<1>5. TempOwned'
  BY <1>1, <1>2, TempKept
<1>6. GrantsMade' /\ ListedMeansGranted' /\ OverrideForm' /\ Exclusive' /\ AllowAlone'
  BY <1>2, <1>3, OthersKept DEF Active
<1> QED BY <1>4, <1>5, <1>6 DEF Sound

\* What every step of allow-path keeps; when its command is the last, and alone,
\* so is what allow-path knows of the files then.
LEMMA AllowKept ==
    ASSUME Sound, NEW c \in Commands, NEW to, pc' = [pc EXCEPT ![c] = to],
           pc[c] \in Overrides \cup {"grant"}, to \in Overrides \cup {"grant", "ok"},
           UNCHANGED <<args, valid, before, last, alone>>,
           DOMAIN new' = Commands, DOMAIN grants' = Commands,
           DOMAIN disk' = Files, disk'.temp = disk.temp
    PROVE  /\ Typed' /\ TempOwned' /\ Exclusive'
           /\ args[c].command = "allow-path" /\ pc'[c] = to /\ Commands' = Commands
           /\ \A d \in Commands : d # c => pc'[d] = pc[d]
           /\ last \in alone => last = c
<1>1. Typed /\ TempOwned
  BY DEF Sound
<1>2. /\ args[c].command = "allow-path" /\ pc'[c] = to /\ Commands' = Commands
      /\ \A d \in Commands : d # c => pc'[d] = pc[d]
  BY <1>1 DEF Typed, Commands
<1>3. c \in Active
  BY DEF Overrides, Ended, Active
<1>4. Typed'
  BY <1>1, <1>2, TypedKept DEF Typed, Overrides, Edits, Writes, Ended
<1>5. TempOwned'
  BY <1>1, TempKept DEF Overrides
<1>6. Exclusive'
  <2>1. Active' \subseteq Active
    BY <1>2, <1>3 DEF Active
  <2>2. \A d \in alone : pc'[d] # "idle"
    BY <1>1, <1>2 DEF Sound, Exclusive, Typed, Overrides
  <2> QED BY <2>1, <2>2 DEF Sound, Exclusive
<1>7. last \in alone => last = c
  BY <1>3 DEF Sound, Exclusive
<1> QED BY <1>2, <1>4, <1>5, <1>6, <1>7

\* A call of setfacl succeeds.
LEMMA GrantSound ==
    ASSUME Sound, NEW c \in Commands, Grant(c)
    PROVE  Sound'
<1> DEFINE g == GrantsOf(args[c].path)
           to == IF grants[c] + 1 = Len(g) THEN "read override" ELSE "grant"
<1>1. /\ pc[c] = "grant" /\ pc' = [pc EXCEPT ![c] = to]
      /\ acl' = acl \cup {g[grants[c] + 1]}
      /\ grants' = [grants EXCEPT ![c] = @ + 1]
      /\ UNCHANGED <<args, disk, new, valid, before, last, alone>>
  BY DEF Grant, Goto, History
<1>2. /\ DOMAIN new' = Commands /\ DOMAIN grants' = Commands /\ DOMAIN disk' = Files
      /\ grants'[c] = grants[c] + 1 /\ \A d \in Commands : d # c => grants'[d] = grants[d]
  BY <1>1 DEF Sound, Typed
<1>3. to \in {"read override", "grant"} /\ (to = "read override" <=> grants[c] + 1 = Len(g))
  OBVIOUS
<1> HIDE DEF to
<1>4. /\ Typed' /\ TempOwned' /\ Exclusive'
      /\ args[c].command = "allow-path" /\ pc'[c] = to /\ Commands' = Commands
      /\ \A d \in Commands : d # c => pc'[d] = pc[d]
      /\ last \in alone => last = c
  BY <1>1, <1>2, <1>3, AllowKept DEF Overrides
<1>5. GrantsMade'
  <2> SUFFICES ASSUME NEW d \in Commands, args[d].command = "allow-path"
               PROVE  /\ grants'[d] \in 0..Len(GrantsOf(args[d].path))
                      /\ \A j \in 1..grants'[d] : GrantsOf(args[d].path)[j] \in acl'
                      /\ pc'[d] = "idle" => grants'[d] = 0
                      /\ pc'[d] = "grant" => grants'[d] < Len(GrantsOf(args[d].path))
                      /\ pc'[d] \in Overrides => Granted(args[d].path)'
                      /\ pc'[d] \in {"open override", "fill override"} =>
                             \A path \in Listed(new[d]) : Granted(path)'
    BY <1>1, <1>4 DEF GrantsMade, Granted, Listed
  <2>1. CASE d = c
    <3>1. /\ Len(g) \in Nat /\ grants[c] \in 0..Len(g) /\ grants[c] < Len(g)
          /\ \A j \in 1..grants[c] : g[j] \in acl
      BY <1>1, <2>1, ArgsForm DEF Sound, GrantsMade
    <3>2. grants'[c] \in 0..Len(g) /\ \A j \in 1..grants'[c] : g[j] \in acl'
      BY <1>1, <1>2, <3>1
    <3>3. to = "grant" => grants'[c] < Len(g)
      BY <1>2, <1>3, <3>1
    <3>4. to = "read override" => Granted(args[c].path)'
      BY <1>1, <1>2, <1>3, <3>2 DEF Granted
    <3> QED BY <1>3, <1>4, <2>1, <3>2, <3>3, <3>4 DEF Overrides
  <2>2. CASE d # c
    BY <1>1, <1>2, <1>4, <2>2 DEF Sound, GrantsMade, Granted
  <2> QED BY <2>1, <2>2
<1>6. ListedMeansGranted'
  BY <1>1 DEF Sound, ListedMeansGranted, Listed
<1>7. OverrideForm'
  BY <1>1, <1>3, <1>4 DEF Sound, OverrideForm, IsOverride
<1>8. AllowAlone'
  BY <1>1, <1>3, <1>4 DEF Sound, AllowAlone
<1> QED BY <1>4, <1>5, <1>6, <1>7, <1>8 DEF Sound

\* The override is read, and merged.
LEMMA ReadOverrideSound ==
    ASSUME Sound, NEW c \in Commands, ReadOverride(c)
    PROVE  Sound'
<1> DEFINE existing == LinesOf(disk.override)
           merged == merge_allowed_path(existing, args[c].path)
           to == IF Contains(existing, ReadWritePaths(args[c].path)) THEN "ok" ELSE "open override"
<1>1. /\ pc[c] = "read override" /\ pc' = [pc EXCEPT ![c] = to]
      /\ new' = [new EXCEPT ![c] = Lines(merged)]
      /\ UNCHANGED <<args, disk, acl, valid, grants, before, last, alone>>
  BY DEF ReadOverride, Goto, History
<1>2. /\ DOMAIN new' = Commands /\ DOMAIN grants' = Commands /\ DOMAIN disk' = Files
      /\ new'[c] = Lines(merged) /\ \A d \in Commands : d # c => new'[d] = new[d]
  BY <1>1 DEF Sound, Typed
<1>3. /\ to \in {"ok", "open override"}
      /\ to = "ok" => merged = existing
  BY DEF merge_allowed_path
<1> HIDE DEF to
<1>4. /\ Typed' /\ TempOwned' /\ Exclusive'
      /\ args[c].command = "allow-path" /\ pc'[c] = to /\ Commands' = Commands
      /\ \A d \in Commands : d # c => pc'[d] = pc[d]
      /\ last \in alone => last = c
  BY <1>1, <1>2, <1>3, AllowKept DEF Overrides
<1>5. IsSequence(existing)
  <2>1. IsSequence(<<>>)
    BY DEF IsSequence
  <2> QED BY <2>1 DEF Sound, OverrideForm, IsOverride, LinesOf
<1>6. LinesOf(Lines(merged)) = merged /\ Lines(merged).is = "lines" /\ Lines(merged).lines = merged
  BY DEF Lines, LinesOf
<1>7. IsSequence(merged)
  BY <1>5, MergeForm
<1>8. \A path \in Listed(Lines(merged)) : Granted(path)
  <2> SUFFICES ASSUME NEW path \in DOMAIN Parents, Contains(merged, ReadWritePaths(path))
               PROVE  Granted(path)
    BY <1>6 DEF Listed
  <2>1. path = args[c].path \/ Contains(existing, ReadWritePaths(path))
    BY <1>5, MergeLists
  <2>2. Granted(args[c].path)
    BY <1>1, <1>4 DEF Sound, GrantsMade, Overrides
  <2>3. Contains(existing, ReadWritePaths(path)) => Granted(path)
    BY DEF Sound, ListedMeansGranted, Listed, Granted
  <2> QED BY <2>1, <2>2, <2>3
<1> HIDE DEF merged, existing
<1>9. GrantsMade'
  <2> SUFFICES ASSUME NEW d \in Commands, args[d].command = "allow-path"
               PROVE  /\ grants[d] \in 0..Len(GrantsOf(args[d].path))
                      /\ \A j \in 1..grants[d] : GrantsOf(args[d].path)[j] \in acl
                      /\ pc'[d] = "idle" => grants[d] = 0
                      /\ pc'[d] = "grant" => grants[d] < Len(GrantsOf(args[d].path))
                      /\ pc'[d] \in Overrides => Granted(args[d].path)
                      /\ pc'[d] \in {"open override", "fill override"} =>
                             \A path \in Listed(new'[d]) : Granted(path)
    BY <1>1, <1>4 DEF GrantsMade, Granted, Listed
  <2>1. CASE d = c
    BY <1>1, <1>2, <1>3, <1>4, <1>8, <2>1 DEF Sound, GrantsMade, Overrides
  <2>2. CASE d # c
    BY <1>1, <1>2, <1>4, <2>2 DEF Sound, GrantsMade
  <2> QED BY <2>1, <2>2
<1>10. ListedMeansGranted'
  BY <1>1 DEF Sound, ListedMeansGranted, Listed
<1>11. OverrideForm'
  BY <1>1, <1>2, <1>4, <1>6, <1>7 DEF Sound, OverrideForm, IsOverride
<1>12. AllowAlone'
  <2> SUFFICES ASSUME last \in alone PROVE AllowAlone'
    BY <1>1 DEF AllowAlone
  <2>1. last = c /\ disk.override = before.override
    BY <1>1, <1>4 DEF Sound, AllowAlone
  <2> QED BY <1>1, <1>2, <1>3, <1>4, <2>1 DEF AllowAlone, merged, existing
<1> QED BY <1>4, <1>9, <1>10, <1>11, <1>12 DEF Sound

\* It is written, in two steps.
LEMMA WriteOverrideSound ==
    ASSUME Sound, NEW c \in Commands, OpenOverride(c) \/ FillOverride(c)
    PROVE  Sound'
<1>1. PICK from, to, left :
          /\ pc[c] = from /\ pc' = [pc EXCEPT ![c] = to]
          /\ disk' = [disk EXCEPT !.override = left]
          /\ UNCHANGED <<args, acl, new, valid, grants, before, last, alone>>
          /\ \/ from = "open override" /\ to = "fill override" /\ left = Empty
             \/ /\ from = "fill override" /\ to = "ok"
                /\ left \in {Missing, Garbled, new[c]}
                /\ disk.override = Empty => left = new[c]
  <2>1. CASE OpenOverride(c)
    BY <2>1 DEF OpenOverride, Open, Goto, History
  <2>2. CASE FillOverride(c)
    <3>1. PICK left \in CASE disk.override = Missing -> {Missing}
                          [] disk.override = Empty -> {new[c]}
                          [] OTHER -> {new[c], Garbled} :
              disk' = [disk EXCEPT !.override = left]
      BY <2>2 DEF FillOverride, Fill
    <3>2. left \in {Missing, Garbled, new[c]} /\ (disk.override = Empty => left = new[c])
      BY <3>1 DEF Missing, Empty
    <3> QED BY <2>2, <3>1, <3>2 DEF FillOverride, Fill, Goto, History
  <2> QED BY <2>1, <2>2
<1>2. /\ DOMAIN new' = Commands /\ DOMAIN grants' = Commands /\ DOMAIN disk' = Files
      /\ disk'.override = left /\ disk'.temp = disk.temp
  BY <1>1 DEF Sound, Typed, Files
<1>3. /\ Typed' /\ TempOwned' /\ Exclusive'
      /\ args[c].command = "allow-path" /\ pc'[c] = to /\ Commands' = Commands
      /\ \A d \in Commands : d # c => pc'[d] = pc[d]
      /\ last \in alone => last = c
  BY <1>1, <1>2, AllowKept DEF Overrides
<1>4. LinesOf(Empty) = <<>> /\ LinesOf(Missing) = <<>> /\ LinesOf(Garbled) = <<>>
  BY DEF LinesOf, Empty, Missing, Garbled
<1>5. GrantsMade'
  <2> SUFFICES ASSUME NEW d \in Commands, args[d].command = "allow-path"
               PROVE  /\ grants[d] \in 0..Len(GrantsOf(args[d].path))
                      /\ \A j \in 1..grants[d] : GrantsOf(args[d].path)[j] \in acl
                      /\ pc'[d] = "idle" => grants[d] = 0
                      /\ pc'[d] = "grant" => grants[d] < Len(GrantsOf(args[d].path))
                      /\ pc'[d] \in Overrides => Granted(args[d].path)
                      /\ pc'[d] \in {"open override", "fill override"} =>
                             \A path \in Listed(new[d]) : Granted(path)
    BY <1>1, <1>3 DEF GrantsMade, Granted, Listed
  <2>1. CASE d = c
    BY <1>1, <1>3, <2>1 DEF Sound, GrantsMade, Overrides
  <2>2. CASE d # c
    BY <1>1, <1>3, <2>2 DEF Sound, GrantsMade
  <2> QED BY <2>1, <2>2
<1>6. ListedMeansGranted'
  <2> SUFFICES ASSUME NEW path \in Listed(left) PROVE Granted(path)
    BY <1>1, <1>2 DEF ListedMeansGranted, Listed, Granted
  <2>1. left = new[c] /\ from = "fill override"
    <3>1. left # Empty /\ left # Missing /\ left # Garbled
      <4>1. ~Contains(<<>>, ReadWritePaths(path))
        BY DEF Contains
      <4> QED BY <1>4, <4>1 DEF Listed
    <3> QED BY <1>1, <3>1
  <2> QED BY <1>1, <1>3, <2>1 DEF Sound, GrantsMade
<1>7. OverrideForm'
  <2>1. IsOverride(left)
    <3>1. IsOverride(Empty) /\ IsOverride(Missing) /\ IsOverride(Garbled)
      BY DEF IsOverride, Empty, Missing, Garbled
    <3>2. from = "fill override" => IsOverride(new[c])
      BY <1>1 DEF Sound, OverrideForm
    <3> QED BY <1>1, <3>1, <3>2
  <2> QED BY <1>1, <1>2, <1>3, <2>1 DEF Sound, OverrideForm, IsOverride
<1>8. AllowAlone'
  <2> SUFFICES ASSUME last \in alone PROVE AllowAlone'
    BY <1>1 DEF AllowAlone
  <2> DEFINE merged == merge_allowed_path(LinesOf(before.override), args[c].path)
  <2>1. last = c /\ new[c] = Lines(merged)
    BY <1>1, <1>3 DEF Sound, AllowAlone
  <2>2. from = "fill override" => left = new[c]
    BY <1>1, <1>3, <2>1 DEF Sound, AllowAlone
  <2>3. LinesOf(Lines(merged)) = merged
    BY DEF Lines, LinesOf
  <2> HIDE DEF merged
  <2> QED BY <1>1, <1>2, <1>3, <2>1, <2>2, <2>3 DEF AllowAlone, merged
<1> QED BY <1>3, <1>5, <1>6, <1>7, <1>8 DEF Sound

\* Every step keeps the invariant.
LEMMA StepSound == Sound /\ [Next]_vars => Sound'
<1> SUFFICES ASSUME Sound, [Next]_vars PROVE Sound'
  OBVIOUS
<1>1. CASE UNCHANGED vars
  <2> USE <1>1 DEF vars
  <2>1. Typed' /\ TempOwned'
    BY DEF Sound, Typed, TempOwned, Commands
  <2>2. GrantsMade' /\ ListedMeansGranted' /\ OverrideForm'
    BY DEF Sound, GrantsMade, Granted, ListedMeansGranted, OverrideForm, IsOverride, Commands, Listed
  <2>3. Exclusive' /\ AllowAlone'
    BY DEF Sound, Exclusive, Active, Commands, AllowAlone
  <2> QED BY <2>1, <2>2, <2>3 DEF Sound
<1>2. ASSUME NEW c \in Commands, Begin(c) \/ Stop(c) \/ Set(c) \/ Confirm(c) \/ AllowPath(c)
      PROVE  Sound'
  BY <1>2, BeginSound, StopSound, SetSound, GrantSound, ReadOverrideSound, WriteOverrideSound
     DEF AllowPath
<1> QED BY <1>1, <1>2 DEF Next

\* The invariant holds in every reachable state.
LEMMA AlwaysSound == Spec => []Sound
<1> QED BY InitSound, StepSound, PTL DEF Spec

\* The types, and whose the temporary file is.
THEOREM TypeCorrect == Spec => []TypeOK
<1>1. Sound => TypeOK
  BY DEF Sound, Typed, TempOwned, GrantsMade, TypeOK, Edits, Writes, Overrides
<1> QED BY <1>1, AlwaysSound, PTL

\* Wherever allow-path is killed or fails, and however many overlap, the override
\* lists a path only when all its access control entries are in place.
THEOREM NothingListedTooEarly == Spec => []ListedMeansGranted
<1>1. Sound => ListedMeansGranted
  BY DEF Sound
<1> QED BY <1>1, AlwaysSound, PTL

\* An allow-path that no other command overlaps, and that ends well, has made its
\* path writable and no other path unwritable.
THEOREM AllowingWorks == Spec => []AllowedIsWritable
<1>1. Sound => AllowedIsWritable
  <2> SUFFICES ASSUME Sound, last \in alone, args[last].command = "allow-path", pc[last] = "ok"
               PROVE  LET old == LinesOf(before.override)
                      IN  /\ Writable(old) \subseteq Writable(LinesOf(disk.override))
                          /\ /\ Contains(old, Header("Service")) \/ ~Mentions(old)
                             /\ args[last].path \notin Listed(before.override)
                             => args[last].path \in Writable(LinesOf(disk.override))
    BY DEF AllowedIsWritable, Finished
  <2> DEFINE old == LinesOf(before.override)
  <2>1. LinesOf(disk.override) = merge_allowed_path(old, args[last].path)
    BY DEF Sound, AllowAlone
  <2>2. IsSequence(old)
    <3>1. IsSequence(<<>>)
      BY DEF IsSequence
    <3> QED BY <3>1 DEF Sound, OverrideForm, IsOverride, LinesOf
  <2>3. args[last].path \in DOMAIN Parents
    BY ArgsForm DEF Sound, Typed
  <2>4. args[last].path \notin Listed(before.override) => ~Contains(old, ReadWritePaths(args[last].path))
    BY <2>3 DEF Listed
  <2> HIDE DEF old
  <2>5. /\ Writable(old) \subseteq Writable(LinesOf(disk.override))
        /\ (Contains(old, Header("Service")) \/ ~Mentions(old))
               /\ ~Contains(old, ReadWritePaths(args[last].path))
           => args[last].path \in Writable(LinesOf(disk.override))
    BY <2>1, <2>2, <2>3, MergeWritable
  <2> QED BY <2>4, <2>5 DEF old
<1> QED BY <1>1, AlwaysSound, PTL

-----------------------------------------------------------------------------
(* parse and Rendering are recursive functions.  That there are functions  *)
(* as they describe is shown by induction over their domains, for which    *)
(* the least number outside a set is enough.                               *)

\* Induction up to n.
LEMMA UpTo ==
    ASSUME NEW n \in Nat, NEW S, 0 \in S, \A i \in 0..n - 1 : i \in S => i + 1 \in S
    PROVE  0..n \subseteq S
<1> DEFINE T == {i \in Nat : i <= n /\ i \notin S}
           R == OpToRel(<, Nat)
<1>1. IsWellFoundedOn(R, Nat)
  BY NatLessThanWellFounded
<1>2. \A x, y \in Nat : y < x => <<y, x>> \in R
  BY DEF OpToRel
<1> HIDE DEF R
<1>3. CASE T # {}
  <2>1. PICK m \in T : \A k \in T : <<k, m>> \notin R
    BY <1>1, <1>3, WFMin, T \subseteq Nat
  <2>2. m \in Nat /\ m <= n /\ m \notin S /\ m # 0
    OBVIOUS
  <2>3. PICK k \in Nat : k + 1 = m
    BY <2>2
  <2>4. k \notin T
    <3>1. <<k, m>> \in R
      BY <1>2, <2>2, <2>3
    <3> QED BY <2>1, <3>1
  <2>5. k \in 0..n - 1 /\ k \in S
    BY <2>2, <2>3, <2>4
  <2> QED BY <2>2, <2>3, <2>5
<1> QED BY <1>3

\* Reading does what it says.
LEMMA ReadingExists ==
    ASSUME NEW key, Len(key) \in Nat
    PROVE  Reading(key) = [i \in 0..Len(key) |->
               IF i = 0 THEN Start ELSE ParseToken(Reading(key)[i - 1], key[i])]
<1> DEFINE P(n, r) == r = [i \in 0..n |-> IF i = 0 THEN Start ELSE ParseToken(r[i - 1], key[i])]
           S == {n \in Nat : \E r : P(n, r)}
<1>1. 0 \in S
  <2>1. P(0, [i \in 0..0 |-> Start])
    OBVIOUS
  <2> QED BY <2>1
<1>2. ASSUME NEW n \in Nat, NEW r, P(n, r) PROVE \E q : P(n + 1, q)
  <2> DEFINE q == [i \in 0..n + 1 |-> IF i = n + 1 THEN ParseToken(r[n], key[n + 1]) ELSE r[i]]
  <2>1. \A i \in 0..n : q[i] = r[i] /\ (i # 0 => i - 1 \in 0..n)
    OBVIOUS
  <2>2. \A i \in 0..n : r[i] = IF i = 0 THEN Start ELSE ParseToken(r[i - 1], key[i])
    BY <1>2
  <2>3. q[n + 1] = ParseToken(q[n], key[n + 1]) /\ n + 1 # 0
    BY <2>1
  <2>4. q = [i \in 0..n + 1 |-> q[i]] /\ \A i \in 0..n + 1 : i \in 0..n \/ i = n + 1
    OBVIOUS
  <2>5. \A i \in 0..n : q[i] = IF i = 0 THEN Start ELSE ParseToken(q[i - 1], key[i])
    <3> HIDE DEF q, P
    <3> QED BY <2>1, <2>2
  <2>6. \A i \in 0..n + 1 : q[i] = IF i = 0 THEN Start ELSE ParseToken(q[i - 1], key[i])
    <3>1. (n + 1) - 1 = n
      OBVIOUS
    <3> HIDE DEF q, P
    <3> QED BY <2>3, <2>4, <2>5, <3>1
  <2> HIDE DEF q
  <2>7. P(n + 1, q)
    BY <2>4, <2>6
  <2> QED BY <2>7
<1>3. \E r : P(Len(key), r)
  <2>1. ASSUME NEW n \in 0..Len(key) - 1, n \in S PROVE n + 1 \in S
    <3>1. n \in Nat /\ n + 1 \in Nat
      OBVIOUS
    <3> HIDE DEF P
    <3>2. PICK r : P(n, r)
      BY <2>1
    <3> QED BY <1>2, <3>1, <3>2
  <2> HIDE DEF S
  <2>2. 0..Len(key) \subseteq S
    BY <1>1, <2>1, UpTo
  <2>3. Len(key) \in S
    BY <2>2
  <2> QED BY <2>3 DEF S
<1> QED BY <1>3 DEF Reading

\* So does Rendering.
LEMMA RenderingExists ==
    ASSUME NEW g, Len(g) \in Nat
    PROVE  Rendering(g) = [n \in 0..Len(g) |->
               IF n = 0 THEN <<>> ELSE Rendering(g)[n - 1] \o Piece(g, n)]
<1> DEFINE P(n, r) == r = [i \in 0..n |-> IF i = 0 THEN <<>> ELSE r[i - 1] \o Piece(g, i)]
           S == {n \in Nat : \E r : P(n, r)}
<1>1. 0 \in S
  <2>1. P(0, [i \in 0..0 |-> <<>>])
    OBVIOUS
  <2> QED BY <2>1
<1>2. ASSUME NEW n \in Nat, NEW r, P(n, r) PROVE \E q : P(n + 1, q)
  <2> DEFINE q == [i \in 0..n + 1 |-> IF i = n + 1 THEN r[n] \o Piece(g, n + 1) ELSE r[i]]
  <2>1. \A i \in 0..n : q[i] = r[i] /\ (i # 0 => i - 1 \in 0..n)
    OBVIOUS
  <2>2. \A i \in 0..n : r[i] = IF i = 0 THEN <<>> ELSE r[i - 1] \o Piece(g, i)
    BY <1>2
  <2>3. q[n + 1] = q[n] \o Piece(g, n + 1) /\ n + 1 # 0
    BY <2>1
  <2>4. q = [i \in 0..n + 1 |-> q[i]] /\ \A i \in 0..n + 1 : i \in 0..n \/ i = n + 1
    OBVIOUS
  <2>5. \A i \in 0..n : q[i] = IF i = 0 THEN <<>> ELSE q[i - 1] \o Piece(g, i)
    <3> HIDE DEF q, P
    <3> QED BY <2>1, <2>2
  <2>6. \A i \in 0..n + 1 : q[i] = IF i = 0 THEN <<>> ELSE q[i - 1] \o Piece(g, i)
    <3>1. (n + 1) - 1 = n
      OBVIOUS
    <3> HIDE DEF q, P
    <3> QED BY <2>3, <2>4, <2>5, <3>1
  <2> HIDE DEF q
  <2>7. P(n + 1, q)
    BY <2>4, <2>6
  <2> QED BY <2>7
<1>3. \E r : P(Len(g), r)
  <2>1. ASSUME NEW n \in 0..Len(g) - 1, n \in S PROVE n + 1 \in S
    <3>1. n \in Nat /\ n + 1 \in Nat
      OBVIOUS
    <3> HIDE DEF P
    <3>2. PICK r : P(n, r)
      BY <2>1
    <3> QED BY <1>2, <3>1, <3>2
  <2> HIDE DEF S
  <2>2. 0..Len(g) \subseteq S
    BY <1>1, <2>1, UpTo
  <2>3. Len(g) \in S
    BY <2>2
  <2> QED BY <2>3 DEF S
<1> QED BY <1>3 DEF Rendering

\* The parser's states, for tokens of T, which has all that the parser adds to them.
Base == {"key", "index"} \cup {Numbers[n] : n \in DOMAIN Numbers}
ReaderStates(T) == [ok : BOOLEAN, at : {"name", "index"}, buf : Seq(T), segments : Seq(Seq(T))]

\* So are they with some of their fields changed.
LEMMA ReaderFields ==
    ASSUME NEW B, NEW G, NEW s \in [ok : BOOLEAN, at : {"name", "index"}, buf : B, segments : G],
           NEW b \in B, NEW d \in G, NEW ok \in BOOLEAN, NEW at \in {"name", "index"}
    PROVE  LET R == [ok : BOOLEAN, at : {"name", "index"}, buf : B, segments : G]
           IN  /\ [s EXCEPT !.ok = ok] \in R /\ [s EXCEPT !.at = at] \in R
               /\ [s EXCEPT !.buf = b] \in R /\ [s EXCEPT !.segments = d, !.buf = b] \in R
               /\ [s EXCEPT !.segments = d, !.buf = b, !.at = at] \in R
  OBVIOUS

\* Flushing and reading a token keep the types.
LEMMA ReaderTyped ==
    ASSUME NEW T, Base \subseteq T, NEW s \in ReaderStates(T)
    PROVE  /\ Flush(s) \in ReaderStates(T)
           /\ \A c \in T : ParseToken(s, c) \in ReaderStates(T)
<1>1. s.buf \in Seq(T) /\ s.segments \in Seq(Seq(T)) /\ <<>> \in Seq(T)
  BY DEF ReaderStates
<1>2. \A r \in ReaderStates(T), b \in Seq(T), d \in Seq(Seq(T)) :
          /\ [r EXCEPT !.ok = FALSE] \in ReaderStates(T)
          /\ [r EXCEPT !.at = "index"] \in ReaderStates(T)
          /\ [r EXCEPT !.buf = b] \in ReaderStates(T)
          /\ [r EXCEPT !.segments = d, !.buf = b] \in ReaderStates(T)
          /\ [r EXCEPT !.segments = d, !.buf = b, !.at = "name"] \in ReaderStates(T)
  BY ReaderFields DEF ReaderStates
<1>3. Flush(s) \in ReaderStates(T)
  <2>1. <<"key">> \o s.buf \in Seq(T)
    BY <1>1 DEF Base
  <2>2. Append(s.segments, <<"key">> \o s.buf) \in Seq(Seq(T))
    BY <1>1, <2>1
  <2> QED BY <1>1, <1>2, <2>2 DEF Flush
<1>4. CloseBracket(s) \in ReaderStates(T)
  <2>1. CASE s.buf \in DOMAIN Numbers
    <3>1. Index(Numbers[s.buf]) \in Seq(T)
      BY <2>1 DEF Index, Base
    <3>2. Append(s.segments, Index(Numbers[s.buf])) \in Seq(Seq(T))
      BY <1>1, <3>1
    <3> QED BY <1>1, <1>2, <2>1, <3>2 DEF CloseBracket
  <2>2. CASE s.buf \notin DOMAIN Numbers
    <3>1. [s EXCEPT !.ok = FALSE] \in ReaderStates(T)
      BY <1>1, <1>2
    <3>2. CloseBracket(s) = [s EXCEPT !.ok = FALSE]
      BY <2>2 DEF CloseBracket
    <3> QED BY <3>1, <3>2
  <2> QED BY <2>1, <2>2
<1>5. ASSUME NEW c \in T PROVE ParseToken(s, c) \in ReaderStates(T)
  <2>1. Append(s.buf, c) \in Seq(T)
    BY <1>1, <1>5
  <2>2. [Flush(s) EXCEPT !.at = "index"] \in ReaderStates(T)
    BY <1>1, <1>2, <1>3
  <2>3. [s EXCEPT !.buf = Append(s.buf, c)] \in ReaderStates(T)
    BY <1>1, <1>2, <2>1
  <2>4. \/ ParseToken(s, c) \in {s, Flush(s), CloseBracket(s)}
        \/ ParseToken(s, c) = [Flush(s) EXCEPT !.at = "index"]
        \/ ParseToken(s, c) = [s EXCEPT !.buf = Append(s.buf, c)]
    BY DEF ParseToken
  <2> QED BY <1>3, <1>4, <2>2, <2>3, <2>4
<1> QED BY <1>3, <1>5

\* So every state that is reached while reading is one.
LEMMA ReadingTyped ==
    ASSUME NEW T, Base \subseteq T, NEW key \in Seq(T)
    PROVE  \A i \in 0..Len(key) : Reading(key)[i] \in ReaderStates(T)
<1> DEFINE S == {i \in 0..Len(key) : Reading(key)[i] \in ReaderStates(T)}
<1>1. /\ Reading(key)[0] = Start
      /\ \A i \in 0..Len(key) - 1 : Reading(key)[i + 1] = ParseToken(Reading(key)[i], key[i + 1])
  <2> DEFINE read == Reading(key)
  <2>1. read = [i \in 0..Len(key) |-> IF i = 0 THEN Start ELSE ParseToken(read[i - 1], key[i])]
    BY ReadingExists
  <2> HIDE DEF read
  <2>2. \A i \in 0..Len(key) : read[i] = IF i = 0 THEN Start ELSE ParseToken(read[i - 1], key[i])
    BY <2>1
  <2>3. \A i \in 0..Len(key) - 1 : i + 1 \in 0..Len(key) /\ i + 1 # 0 /\ (i + 1) - 1 = i
    OBVIOUS
  <2>4. \A i \in 0..Len(key) - 1 : read[i + 1] = ParseToken(read[i], key[i + 1])
    BY <2>2, <2>3
  <2>5. read[0] = Start
    BY <2>2
  <2> QED BY <2>4, <2>5 DEF read
<1>2. 0 \in S
  <2>1. Start \in ReaderStates(T) /\ 0 \in 0..Len(key)
    BY DEF Start, ReaderStates
  <2> QED BY <1>1, <2>1
<1>3. ASSUME NEW i \in 0..Len(key) - 1, i \in S PROVE i + 1 \in S
  <2>1. key[i + 1] \in T /\ i + 1 \in 0..Len(key)
    OBVIOUS
  <2> QED BY <1>1, <1>3, <2>1, ReaderTyped
<1> HIDE DEF S
<1>4. 0..Len(key) \subseteq S
  BY <1>2, <1>3, UpTo
<1> QED BY <1>4 DEF S

\* The segments of a key are a sequence.
LEMMA ParseTyped ==
    ASSUME NEW key, IsSequence(key)
    PROVE  IsSequence(parse(key))
<1> DEFINE T == {key[i] : i \in DOMAIN key} \cup Base
           s == Reading(key)[Len(key)]
<1>1. key \in Seq(T) /\ Len(key) \in 0..Len(key)
  BY DEF IsSequence
<1>2. s \in ReaderStates(T)
  BY <1>1, ReadingTyped
<1>3. Flush(s).segments \in Seq(Seq(T))
  BY <1>2, ReaderTyped DEF ReaderStates
<1>4. \A q \in Seq(Seq(T)) : IsSequence(q)
  BY DEF IsSequence
<1>5. IsSequence(<<>>)
  BY DEF IsSequence
<1> HIDE DEF s, T
<1> QED BY <1>3, <1>4, <1>5 DEF parse, s

\* Between two segments the parser reads names, and has flushed the segments so far.
Between(s, segments) == s.ok /\ s.at = "name" /\ Flush(s).segments = segments

\* A name, where nothing is unflushed.
LEMMA NameRead ==
    ASSUME NEW T, Base \subseteq T, NEW s \in ReaderStates(T), s.ok, s.at = "name",
           s.buf = <<>>, NEW name \in T \ Syntax
    PROVE  Between(ParseToken(s, name), Append(s.segments, Key(name)))
<1> DEFINE r == [s EXCEPT !.buf = Append(s.buf, name)]
<1>1. ParseToken(s, name) = r
  BY DEF ParseToken, Syntax
<1>2. r.ok /\ r.at = "name" /\ r.buf = <<name>> /\ r.segments = s.segments
      /\ r \in ReaderStates(T)
  <2>1. DOMAIN s = {"ok", "at", "buf", "segments"}
    BY DEF ReaderStates
  <2>2. Append(s.buf, name) = <<name>>
    OBVIOUS
  <2>3. r.buf = <<name>> /\ r.ok = s.ok /\ r.at = s.at /\ r.segments = s.segments
    BY <2>1, <2>2
  <2>4. r \in ReaderStates(T)
    BY <1>1, ReaderTyped
  <2> QED BY <2>3, <2>4
<1> HIDE DEF r
<1>3. <<"key">> \o <<name>> = Key(name) /\ <<name>> # <<>>
  <2>1. ASSUME NEW q \in T, NEW t \in T PROVE <<q>> \o <<t>> = <<q, t>>
    <3> DEFINE u == <<q>> \o <<t>>
               v == <<q, t>>
    <3>1. u \in Seq(T) /\ v \in Seq(T) /\ Len(u) = 2 /\ Len(v) = 2
      OBVIOUS
    <3>2. u[1] = q /\ u[2] = t
      OBVIOUS
    <3>3. \A i \in 1..2 : u[i] = v[i]
      BY <3>2
    <3>4. u = v
      <4> HIDE DEF u, v
      <4>1. \A i \in 1..Len(u) : u[i] = v[i]
        BY <3>1, <3>3
      <4> QED BY <3>1, <4>1, SeqEqual
    <3> QED BY <3>4
  <2> QED BY <2>1 DEF Key, Base
<1>4. Flush(r).segments = Append(s.segments, Key(name))
  BY <1>2, <1>3 DEF Flush, ReaderStates
<1> QED BY <1>1, <1>2, <1>4 DEF Between

\* A dot and a name.
LEMMA DotRead ==
    ASSUME NEW T, Base \subseteq T, NEW s \in ReaderStates(T), NEW segments,
           Between(s, segments), NEW name \in T \ Syntax
    PROVE  Between(ParseToken(ParseToken(s, "."), name), Append(segments, Key(name)))
<1>1. ParseToken(s, ".") = Flush(s)
  BY DEF ParseToken, Between
<1>2. Flush(s).ok /\ Flush(s).at = "name" /\ Flush(s).buf = <<>> /\ Flush(s).segments = segments
  BY DEF Flush, ReaderStates, Between
<1>3. Flush(s) \in ReaderStates(T)
  BY ReaderTyped
<1> QED BY <1>1, <1>2, <1>3, NameRead

\* A number in brackets.
LEMMA BracketRead ==
    ASSUME NEW T, Base \subseteq T, NEW s \in ReaderStates(T), NEW segments,
           Between(s, segments), NEW x \in T,
           <<x>> \in DOMAIN Numbers, Numbers[<<x>>] = x
    PROVE  Between(ParseToken(ParseToken(ParseToken(s, "["), x), "]"),
                   Append(segments, Index(x)))
<1> DEFINE f == Flush(s)
           a == [f EXCEPT !.at = "index"]
           b == [a EXCEPT !.buf = Append(a.buf, x)]
           c == CloseBracket(b)
<1>1. f.ok /\ f.at = "name" /\ f.buf = <<>> /\ f.segments = segments /\ f \in ReaderStates(T)
  <2>1. f \in ReaderStates(T)
    BY ReaderTyped
  <2> QED BY <2>1 DEF Flush, ReaderStates, Between
<1>2. ParseToken(s, "[") = a
  BY DEF ParseToken, Between
<1> HIDE DEF f
<1>3. a.ok /\ a.at = "index" /\ a.buf = <<>> /\ a.segments = segments
      /\ DOMAIN a = {"ok", "at", "buf", "segments"}
  BY <1>1 DEF ReaderStates
<1>4. ParseToken(a, x) = b
  <2>1. x # "]"
    <3>1. 1 \in DOMAIN <<x>> /\ <<x>>[1] = x
      OBVIOUS
    <3> QED BY <3>1, NumbersAssumption DEF Syntax
  <2> HIDE DEF a
  <2> QED BY <1>3, <2>1 DEF ParseToken
<1> HIDE DEF a
<1>5. b.ok /\ b.at = "index" /\ b.buf = <<x>> /\ b.segments = segments
      /\ DOMAIN b = {"ok", "at", "buf", "segments"}
  BY <1>3
<1> HIDE DEF b
<1>6. ParseToken(b, "]") = c
  BY <1>5 DEF ParseToken
<1>7. c = [b EXCEPT !.segments = Append(b.segments, Index(x)), !.buf = <<>>, !.at = "name"]
  BY <1>5 DEF CloseBracket
<1>8. c.ok /\ c.at = "name" /\ c.buf = <<>> /\ c.segments = Append(segments, Index(x))
  <2> HIDE DEF c
  <2> QED BY <1>5, <1>7
<1> HIDE DEF c
<1>9. Flush(c) = c
  BY <1>8 DEF Flush
<1> QED BY <1>2, <1>4, <1>6, <1>8, <1>9 DEF Between

\* Where the elements of two sequences are in their concatenation.
LEMMA Concatenation ==
    ASSUME NEW T, NEW a \in Seq(T), NEW b \in Seq(T), NEW c, c = a \o b
    PROVE  /\ c \in Seq(T) /\ Len(c) = Len(a) + Len(b)
           /\ Len(a) \in Nat /\ Len(b) \in Nat /\ Len(a) <= Len(c)
           /\ \A i \in 1..Len(a) : c[i] = a[i]
           /\ \A i \in 1..Len(b) : c[Len(a) + i] = b[i]
<1>1. Len(a) \in Nat /\ Len(b) \in Nat
  OBVIOUS
<1>2. \A i \in 1..Len(a) : i \in 1..Len(a) + Len(b) /\ i <= Len(a)
  BY <1>1
<1>3. \A i \in 1..Len(b) :
          Len(a) + i \in 1..Len(a) + Len(b) /\ ~(Len(a) + i <= Len(a)) /\ (Len(a) + i) - Len(a) = i
  BY <1>1
<1> QED BY <1>1, <1>2, <1>3, ConcatProperties

\* Positions in a concatenation that ends before c.
LEMMA Positions ==
    ASSUME NEW a \in Nat, NEW b \in Nat, NEW c \in Nat, a + b <= c, NEW i \in 1..b
    PROVE  /\ a + i \in 1..c /\ a + i \in 0..c /\ a + i \in 1..a + b
           /\ a + i # 0 /\ (a + i) - 1 = a + (i - 1)
  OBVIOUS

\* Up to three tokens of p, read from position l on.
LEMMA TokensRead ==
    ASSUME NEW read, NEW l \in Nat, NEW p,
           \A i \in 1..Len(p) : read[l + i] = ParseToken(read[l + (i - 1)], p[i])
    PROVE  /\ Len(p) = 1 => read[l + Len(p)] = ParseToken(read[l], p[1])
           /\ Len(p) = 2 => read[l + Len(p)] = ParseToken(ParseToken(read[l], p[1]), p[2])
           /\ Len(p) = 3 => read[l + Len(p)] =
                  ParseToken(ParseToken(ParseToken(read[l], p[1]), p[2]), p[3])
<1>1. l + (1 - 1) = l /\ l + (2 - 1) = l + 1 /\ l + (3 - 1) = l + 2
  OBVIOUS
<1>2. CASE Len(p) = 1
  <2>1. read[l + 1] = ParseToken(read[l], p[1])
    BY <1>1, <1>2
  <2> QED BY <1>2, <2>1
<1>3. CASE Len(p) = 2
  <2>1. 1 \in 1..Len(p) /\ 2 \in 1..Len(p)
    BY <1>3
  <2>2. read[l + 1] = ParseToken(read[l], p[1]) /\ read[l + 2] = ParseToken(read[l + 1], p[2])
    BY <1>1, <2>1
  <2> QED BY <1>3, <2>2
<1>4. CASE Len(p) = 3
  <2>1. 1 \in 1..Len(p) /\ 2 \in 1..Len(p) /\ 3 \in 1..Len(p)
    BY <1>4
  <2>2. /\ read[l + 1] = ParseToken(read[l], p[1]) /\ read[l + 2] = ParseToken(read[l + 1], p[2])
        /\ read[l + 3] = ParseToken(read[l + 2], p[3])
    BY <1>1, <2>1
  <2> QED BY <1>4, <2>2
<1> QED BY <1>2, <1>3, <1>4

\* The rendering of the first segments is the beginning of that of them all.
LEMMA RenderingForm ==
    ASSUME NEW g \in Grammar,
           NEW T, T = Syntax \cup Base \cup {g[i][2] : i \in 1..Len(g)}
    PROVE  /\ Rendering(g)[0] = <<>>
           /\ \A n \in 0..Len(g) : Rendering(g)[n] \in Seq(T)
           /\ \A n \in 1..Len(g) :
                  Piece(g, n) \in Seq(T) /\ Rendering(g)[n] = Rendering(g)[n - 1] \o Piece(g, n)
           /\ \A n \in 0..Len(g) : LET all == Rendering(g)[Len(g)] IN
                  /\ Len(Rendering(g)[n]) <= Len(all)
                  /\ \A i \in 1..Len(Rendering(g)[n]) : all[i] = Rendering(g)[n][i]
<1> DEFINE out == Rendering(g)
<1>1. Len(g) \in Nat
  BY GrammarAssumption DEF IsSequence
<1>2. out = [n \in 0..Len(g) |-> IF n = 0 THEN <<>> ELSE out[n - 1] \o Piece(g, n)]
  BY <1>1, RenderingExists
<1> HIDE DEF out
<1>3. \A n \in 0..Len(g) : out[n] = IF n = 0 THEN <<>> ELSE out[n - 1] \o Piece(g, n)
  BY <1>2
<1>4. out[0] = <<>>
  BY <1>1, <1>3
<1>5. \A n \in 1..Len(g) : Piece(g, n) \in Seq(T)
  <2> SUFFICES ASSUME NEW n \in 1..Len(g) PROVE Piece(g, n) \in Seq(T)
    OBVIOUS
  <2>1. g[n][2] \in T /\ {".", "[", "]"} \subseteq T
    BY DEF Syntax
  <2>2. <<"[", g[n][2], "]">> \in Seq(T) /\ <<g[n][2]>> \in Seq(T) /\ <<".", g[n][2]>> \in Seq(T)
    BY <2>1
  <2> QED BY <2>2 DEF Piece
<1>6. \A n \in 1..Len(g) : n \in 0..Len(g) /\ out[n] = out[n - 1] \o Piece(g, n)
  <2>1. \A n \in 1..Len(g) : n \in 0..Len(g) /\ n # 0
    BY <1>1
  <2> QED BY <1>3, <2>1
<1>7. \A n \in 0..Len(g) : out[n] \in Seq(T)
  <2> DEFINE S == {n \in 0..Len(g) : out[n] \in Seq(T)}
  <2>1. 0 \in S
    <3>1. 0 \in 0..Len(g) /\ <<>> \in Seq(T)
      BY <1>1
    <3> QED BY <1>4, <3>1
  <2>2. ASSUME NEW n \in 0..Len(g) - 1, n \in S PROVE n + 1 \in S
    <3>1. n + 1 \in 1..Len(g) /\ (n + 1) - 1 = n
      BY <1>1
    <3>2. out[n + 1] = out[n] \o Piece(g, n + 1)
      BY <1>6, <3>1
    <3>3. out[n + 1] \in Seq(T)
      BY <1>5, <2>2, <3>1, <3>2, Concatenation
    <3> QED BY <1>6, <3>1, <3>3
  <2> HIDE DEF S
  <2>3. 0..Len(g) \subseteq S
    BY <1>1, <2>1, <2>2, UpTo
  <2> QED BY <2>3 DEF S
<1>8. ASSUME NEW n \in 0..Len(g)
      PROVE  /\ Len(out[n]) <= Len(out[Len(g)])
             /\ \A i \in 1..Len(out[n]) : out[Len(g)][i] = out[n][i]
  <2> DEFINE S == {m \in 0..Len(g) : m < n \/ ( /\ Len(out[n]) <= Len(out[m])
                                               /\ \A i \in 1..Len(out[n]) : out[m][i] = out[n][i])}
  <2>1. 0 \in S
    BY <1>1, <1>7
  <2>2. ASSUME NEW m \in 0..Len(g) - 1, m \in S PROVE m + 1 \in S
    <3>1. m + 1 \in 1..Len(g) /\ (m + 1) - 1 = m /\ m \in 0..Len(g) /\ m + 1 \in 0..Len(g)
      BY <1>1
    <3>2. out[m + 1] = out[m] \o Piece(g, m + 1)
      BY <1>6, <3>1
    <3>3. /\ Len(out[m]) <= Len(out[m + 1])
          /\ \A i \in 1..Len(out[m]) : out[m + 1][i] = out[m][i]
      <4>1. out[m] \in Seq(T) /\ Piece(g, m + 1) \in Seq(T)
        BY <1>5, <1>7, <3>1
      <4>2. PICK a, b, c : a = out[m] /\ b = Piece(g, m + 1) /\ c = out[m + 1]
        OBVIOUS
      <4>3. a \in Seq(T) /\ b \in Seq(T) /\ c = a \o b
        BY <3>2, <4>1, <4>2
      <4>4. Len(a) <= Len(c) /\ \A i \in 1..Len(a) : c[i] = a[i]
        BY <4>3, Concatenation
      <4> QED BY <4>2, <4>4
    <3>4. Len(out[n]) \in Nat /\ Len(out[m]) \in Nat /\ Len(out[m + 1]) \in Nat
      BY <1>7, <3>1
    <3>5. CASE m < n
      <4>1. m + 1 < n \/ m + 1 = n
        BY <3>1, <3>5
      <4> QED BY <3>1, <3>4, <4>1
    <3>6. CASE ~(m < n)
      BY <2>2, <3>1, <3>3, <3>4, <3>6
    <3> QED BY <3>5, <3>6
  <2> HIDE DEF S
  <2>3. 0..Len(g) \subseteq S
    BY <1>1, <2>1, <2>2, UpTo
  <2>4. Len(g) \in S /\ ~(Len(g) < n)
    BY <1>1, <2>3
  <2> QED BY <2>4 DEF S
<1> QED BY <1>4, <1>5, <1>6, <1>7, <1>8 DEF out

\* The parser finds the segments that a key was rendered from.
LEMMA ParseRendered ==
    ASSUME NEW g \in Grammar
    PROVE  parse(Rendered[g]) = g
<1> DEFINE T == Syntax \cup Base \cup {g[i][2] : i \in 1..Len(g)}
           out == Rendering(g)
           key == out[Len(g)]
           read == Reading(key)
           at(n) == read[Len(out[n])]
           S == {n \in 0..Len(g) : /\ Between(at(n), SubSeq(g, 1, n))
                                   /\ n = 0 => at(n) = Start}
<1>1. Len(g) \in Nat /\ Len(g) \in 0..Len(g) /\ 0 \in 0..Len(g) /\ IsSequence(g)
  BY GrammarAssumption DEF IsSequence
<1>2. /\ out[0] = <<>>
      /\ \A n \in 0..Len(g) : out[n] \in Seq(T)
      /\ \A n \in 1..Len(g) : Piece(g, n) \in Seq(T) /\ out[n] = out[n - 1] \o Piece(g, n)
      /\ \A n \in 0..Len(g) :
             Len(out[n]) <= Len(key) /\ \A i \in 1..Len(out[n]) : key[i] = out[n][i]
  BY RenderingForm
<1> HIDE DEF T, out
<1>3. key \in Seq(T) /\ Len(key) \in Nat
  BY <1>1, <1>2
<1>4. \A i \in 0..Len(key) : read[i] \in ReaderStates(T)
  BY <1>3, ReadingTyped DEF T
<1>5. read = [i \in 0..Len(key) |-> IF i = 0 THEN Start ELSE ParseToken(read[i - 1], key[i])]
  BY <1>3, ReadingExists
<1> HIDE DEF key, read
<1>6. read[0] = Start
  BY <1>3, <1>5
<1>7. ASSUME NEW n \in 0..Len(g) - 1, NEW i \in 1..Len(Piece(g, n + 1))
      PROVE  /\ Len(out[n]) + i \in 1..Len(key)
             /\ read[Len(out[n]) + i] = ParseToken(read[Len(out[n]) + (i - 1)], Piece(g, n + 1)[i])
  <2>1. n + 1 \in 1..Len(g) /\ n + 1 \in 0..Len(g) /\ n \in 0..Len(g) /\ (n + 1) - 1 = n
    BY <1>1
  <2>2. out[n] \in Seq(T) /\ Piece(g, n + 1) \in Seq(T) /\ out[n + 1] = out[n] \o Piece(g, n + 1)
    BY <1>2, <2>1
  <2>3. /\ Len(out[n + 1]) = Len(out[n]) + Len(Piece(g, n + 1))
        /\ Len(out[n]) \in Nat /\ Len(Piece(g, n + 1)) \in Nat
        /\ out[n + 1][Len(out[n]) + i] = Piece(g, n + 1)[i]
    <3>1. PICK a, b, c : a = out[n] /\ b = Piece(g, n + 1) /\ c = out[n + 1]
      OBVIOUS
    <3>2. a \in Seq(T) /\ b \in Seq(T) /\ c = a \o b
      BY <2>2, <3>1
    <3>3. /\ Len(c) = Len(a) + Len(b) /\ Len(a) \in Nat /\ Len(b) \in Nat
          /\ \A k \in 1..Len(b) : c[Len(a) + k] = b[k]
      BY <3>2, Concatenation
    <3> QED BY <3>1, <3>3
  <2>4. /\ Len(out[n + 1]) <= Len(key)
        /\ \A j \in 1..Len(out[n + 1]) : key[j] = out[n + 1][j]
    BY <1>2, <2>1
  <2>5. PICK j : j = Len(out[n]) + i
    OBVIOUS
  <2>6. /\ j \in 1..Len(key) /\ j \in 0..Len(key) /\ j \in 1..Len(out[n + 1]) /\ j # 0
        /\ j - 1 = Len(out[n]) + (i - 1)
    <3>1. Len(out[n]) + Len(Piece(g, n + 1)) <= Len(key)
      BY <2>3, <2>4
    <3>2. /\ j \in 1..Len(key) /\ j \in 0..Len(key) /\ j # 0 /\ j - 1 = Len(out[n]) + (i - 1)
          /\ j \in 1..Len(out[n]) + Len(Piece(g, n + 1))
      BY <1>3, <2>3, <2>5, <3>1, Positions, Zenon
    <3> QED BY <2>3, <3>2
  <2>7. read[j] = ParseToken(read[j - 1], key[j])
    BY <1>5, <2>6
  <2>8. key[j] = Piece(g, n + 1)[i]
    BY <2>3, <2>4, <2>5, <2>6
  <2> QED BY <2>5, <2>6, <2>7, <2>8
<1>8. 0 \in S
  <2>1. Len(out[0]) = 0
    BY <1>2
  <2>2. at(0) = Start
    BY <1>6, <2>1
  <2>3. SubSeq(g, 1, 0) = <<>>
    BY <1>1 DEF IsSequence
  <2>4. Between(Start, <<>>)
    BY DEF Between, Start, Flush
  <2> QED BY <1>1, <2>2, <2>3, <2>4
<1>9. ASSUME NEW n \in 0..Len(g) - 1, n \in S PROVE n + 1 \in S
  <2>1. n + 1 \in 1..Len(g) /\ n + 1 \in 0..Len(g) /\ n \in 0..Len(g) /\ (n + 1) - 1 = n
    BY <1>1
  <2>2. out[n] \in Seq(T) /\ Piece(g, n + 1) \in Seq(T) /\ out[n + 1] = out[n] \o Piece(g, n + 1)
    BY <1>2, <2>1
  <2>3. Len(out[n + 1]) = Len(out[n]) + Len(Piece(g, n + 1)) /\ Len(out[n]) \in Nat
    BY <2>2
  <2>4. at(n) \in ReaderStates(T)
    <3>1. Len(out[n]) \in 0..Len(key)
      BY <1>2, <1>3, <2>1, <2>3
    <3> QED BY <1>4, <3>1
  <2>5. SubSeq(g, 1, n + 1) = Append(SubSeq(g, 1, n), g[n + 1])
    BY <1>1, <2>1 DEF IsSequence
  <2>6. g[n + 1][2] \in T /\ Base \subseteq T
    BY <2>1 DEF T
  <2>7. Between(at(n), SubSeq(g, 1, n)) /\ (n = 0 => at(n) = Start)
    BY <1>9
  <2>8. /\ Len(Piece(g, n + 1)) = 1 => at(n + 1) = ParseToken(at(n), Piece(g, n + 1)[1])
        /\ Len(Piece(g, n + 1)) = 2 =>
               at(n + 1) = ParseToken(ParseToken(at(n), Piece(g, n + 1)[1]), Piece(g, n + 1)[2])
        /\ Len(Piece(g, n + 1)) = 3 =>
               at(n + 1) = ParseToken(ParseToken(ParseToken(at(n),
                               Piece(g, n + 1)[1]), Piece(g, n + 1)[2]), Piece(g, n + 1)[3])
    <3> DEFINE p == Piece(g, n + 1)
               l == Len(out[n])
    <3>1. \A i \in 1..Len(p) : read[l + i] = ParseToken(read[l + (i - 1)], p[i])
      BY <1>7
    <3>2. at(n) = read[l] /\ at(n + 1) = read[l + Len(p)] /\ l \in Nat
      BY <2>3
    <3> HIDE DEF p, l, at
    <3> QED BY <3>1, <3>2, TokensRead DEF p
  <2>9. n + 1 # 0
    BY <2>1
  <2>10. CASE g[n + 1] = Key(g[n + 1][2]) /\ g[n + 1][2] \notin Syntax
    <3>1. g[n + 1][1] = "key"
      BY <2>10 DEF Key
    <3>2. CASE n = 0
      <4>1. Piece(g, n + 1) = <<g[n + 1][2]>> /\ Len(Piece(g, n + 1)) = 1
        BY <3>1, <3>2 DEF Piece
      <4>2. at(n + 1) = ParseToken(at(n), g[n + 1][2])
        <5>1. Piece(g, n + 1)[1] = g[n + 1][2]
          BY <4>1
        <5> QED BY <2>8, <4>1, <5>1
      <4>3. at(n) = Start /\ SubSeq(g, 1, n) = <<>>
        BY <1>1, <2>7, <3>2 DEF IsSequence
      <4>4. Between(at(n + 1), Append(SubSeq(g, 1, n), g[n + 1]))
        <5>1. Start.ok /\ Start.at = "name" /\ Start.buf = <<>> /\ Start.segments = <<>>
          BY DEF Start
        <5> QED BY <2>4, <2>6, <2>10, <4>2, <4>3, <5>1, NameRead
      <4> QED BY <2>1, <2>5, <2>9, <4>4
    <3>3. CASE n # 0
      <4>1. Piece(g, n + 1) = <<".", g[n + 1][2]>>
        BY <2>1, <3>1, <3>3 DEF Piece
      <4>2. Len(Piece(g, n + 1)) = 2 /\ Piece(g, n + 1)[1] = "." /\ Piece(g, n + 1)[2] = g[n + 1][2]
        BY <4>1
      <4>3. at(n + 1) = ParseToken(ParseToken(at(n), "."), g[n + 1][2])
        BY <2>8, <4>2
      <4>4. Between(at(n + 1), Append(SubSeq(g, 1, n), g[n + 1]))
        BY <2>4, <2>6, <2>7, <2>10, <4>3, DotRead
      <4> QED BY <2>1, <2>5, <2>9, <4>4
    <3> QED BY <3>2, <3>3
  <2>11. CASE /\ g[n + 1] = Index(g[n + 1][2]) /\ <<g[n + 1][2]>> \in DOMAIN Numbers
              /\ Numbers[<<g[n + 1][2]>>] = g[n + 1][2]
    <3>1. Piece(g, n + 1) = <<"[", g[n + 1][2], "]">>
      <4>1. g[n + 1][1] = "index"
        BY <2>11 DEF Index
      <4> QED BY <4>1 DEF Piece
    <3>2. /\ Len(Piece(g, n + 1)) = 3 /\ Piece(g, n + 1)[1] = "["
          /\ Piece(g, n + 1)[2] = g[n + 1][2] /\ Piece(g, n + 1)[3] = "]"
      BY <3>1
    <3>3. at(n + 1) = ParseToken(ParseToken(ParseToken(at(n), "["), g[n + 1][2]), "]")
      BY <2>8, <3>2
    <3>4. Between(at(n + 1), Append(SubSeq(g, 1, n), g[n + 1]))
      BY <2>4, <2>6, <2>7, <2>11, <3>3, BracketRead
    <3> QED BY <2>1, <2>5, <2>9, <3>4
  <2> QED BY <2>1, <2>10, <2>11, GrammarAssumption
<1> HIDE DEF S
<1>10. Len(g) \in S
  <2>1. 0..Len(g) \subseteq S
    BY <1>1, <1>8, <1>9, UpTo
  <2> QED BY <1>1, <2>1
<1>11. SubSeq(g, 1, Len(g)) = g
  BY <1>1 DEF IsSequence
<1>12. Between(at(Len(g)), g)
  BY <1>10, <1>11 DEF S
<1>13. at(Len(g)) = Reading(key)[Len(key)] /\ Rendered[g] = key
  BY DEF key, read, out, Rendered
<1>14. Flush(at(Len(g))).ok /\ Flush(at(Len(g))).at = "name" /\ Flush(at(Len(g))).segments = g
  <2>1. at(Len(g)) \in ReaderStates(T)
    BY <1>1, <1>3, <1>4 DEF key
  <2> QED BY <1>12, <2>1 DEF Between, Flush, ReaderStates
<1> QED BY <1>13, <1>14 DEF parse

-----------------------------------------------------------------------------
(* What set leaves                                                         *)

\* What set writes is a node, and is read again as the value it was.
Faithful(v) == Value(serialise(v)) = v /\ IsNode(serialise(v))
LEMMA Reread ==
    /\ \A text : Faithful(<<"string", text>>)
    /\ \A text : plain(text) # Broken => Faithful(plain(text))
    /\ \A raw : Faithful(auto_value(raw))
    /\ Faithful(Mapping) /\ Faithful(Sequence) /\ Value(Mapping) = Mapping /\ Value(Sequence) = Sequence
<1>1. ASSUME NEW text PROVE Faithful(<<"string", text>>)
  <2>1. serialise(<<"string", text>>) \in {<<"plain", text>>, <<"quoted", text>>}
    BY DEF serialise
  <2>2. Value(serialise(<<"string", text>>)) = <<"string", text>>
    BY DEF Value, serialise
  <2> QED BY <2>1, <2>2 DEF Faithful, IsNode, IsScalar
<1>2. /\ Faithful(Mapping) /\ Faithful(Sequence)
      /\ Value(Mapping) = Mapping /\ Value(Sequence) = Sequence
  <2>1. Mapping[1] = "mapping" /\ Sequence[1] = "sequence"
    BY DEF Mapping, Sequence
  <2>2. serialise(Mapping) = Mapping /\ serialise(Sequence) = Sequence
    BY <2>1 DEF serialise
  <2>3. Value(Mapping) = Mapping /\ Value(Sequence) = Sequence
    BY <2>1 DEF Value
  <2> QED BY <2>2, <2>3 DEF Faithful, IsNode
<1>3. ASSUME NEW kind \in {"integer", "float", "boolean", "null"}, NEW text,
             plain(text) = <<kind, text>>
      PROVE  Faithful(<<kind, text>>)
  <2>1. serialise(<<kind, text>>) = <<"plain", text>>
    BY DEF serialise
  <2>2. Value(<<"plain", text>>) = plain(text)
    BY DEF Value
  <2> QED BY <1>3, <2>1, <2>2 DEF Faithful, IsNode, IsScalar
<1>4. /\ \A text \in {"10", "7", "-1"} : plain(text) = <<"integer", text>>
      /\ \A text \in {"10.0", ".nan"} : plain(text) = <<"float", text>>
      /\ \A text \in {"true", "false"} : plain(text) = <<"boolean", text>>
      /\ plain("null") = <<"null", "null">>
  BY DEF plain, TwoLines
<1>5. /\ \A text \in {"10", "7", "-1"} : Faithful(<<"integer", text>>)
      /\ \A text \in {"10.0", ".nan"} : Faithful(<<"float", text>>)
      /\ \A text \in {"true", "false"} : Faithful(<<"boolean", text>>)
      /\ Faithful(<<"null", "null">>)
  BY <1>3, <1>4
<1>6. ASSUME NEW text, plain(text) # Broken PROVE Faithful(plain(text))
  <2>1. \/ \E t \in {"10", "7", "-1"} : plain(text) = <<"integer", t>>
        \/ \E t \in {"10.0", ".nan"} : plain(text) = <<"float", t>>
        \/ \E t \in {"true", "false"} : plain(text) = <<"boolean", t>>
        \/ plain(text) = <<"null", "null">>
        \/ plain(text) \in {Mapping, Sequence}
        \/ plain(text) = <<"string", text>>
    BY <1>6 DEF plain, TwoLines
  <2> QED BY <1>1, <1>2, <1>5, <2>1
<1>7. ASSUME NEW raw PROVE Faithful(auto_value(raw))
  <2>1. \/ \E t \in {"10", "7", "-1"} : auto_value(raw) = <<"integer", t>>
        \/ \E t \in {"10.0", ".nan"} : auto_value(raw) = <<"float", t>>
        \/ \E t \in {"true", "false"} : auto_value(raw) = <<"boolean", t>>
        \/ auto_value(raw) = <<"null", "null">>
        \/ auto_value(raw) = <<"string", raw>>
    BY DEF auto_value
  <2> QED BY <1>1, <1>5, <2>1
<1> QED BY <1>1, <1>2, <1>6, <1>7

\* So is a node, and where its spelling is kept, so is all that is read in it.
LEMMA Rewritten ==
    ASSUME NEW node, IsNode(node), Value(node) # Broken
    PROVE  LET written == serialise(Value(node))
           IN  /\ Value(written) = Value(node) /\ IsNode(written)
               /\ ~Respelt(node) =>
                   /\ Read(written) = Read(node)
                   /\ \A v \in Placeholders :
                       (IsScalar(written) /\ written[2] = v) <=> (IsScalar(node) /\ node[2] = v)
<1> DEFINE written == serialise(Value(node))
<1>1. CASE node[1] = "plain"
  <2>1. Value(node) = plain(node[2])
    BY <1>1 DEF Value
  <2>2. Value(written) = Value(node) /\ IsNode(written)
    BY <2>1, Reread DEF Faithful
  <2>3. ~Respelt(node) => written = node
    BY <1>1 DEF Respelt
  <2> QED BY <2>2, <2>3
<1>2. CASE node[1] = "quoted"
  <2> DEFINE text == node[2]
  <2>1. Value(node) = <<"string", text>> /\ node = <<"quoted", text>>
    <3>1. Mapping[1] = "mapping" /\ Sequence[1] = "sequence"
      BY DEF Mapping, Sequence
    <3>2. node = <<node[1], node[2]>>
      BY <1>2, <3>1 DEF IsNode
    <3> QED BY <1>2, <3>2 DEF Value
  <2>2. Value(written) = Value(node) /\ IsNode(written)
    BY <2>1, Reread DEF Faithful
  <2>3. written \in {<<"plain", text>>, <<"quoted", text>>}
    BY <2>1 DEF serialise
  <2>4. ASSUME ~Respelt(node)
        PROVE  /\ Read(written) = Read(node)
               /\ \A v \in Placeholders :
                   (IsScalar(written) /\ written[2] = v) <=> (IsScalar(node) /\ node[2] = v)
    <3>1. text \notin Placeholders /\ text \notin DOMAIN Environment
      BY <1>2, <2>4, EnvironmentAssumption DEF Respelt
    <3>2. IsScalar(written) /\ written[2] = text /\ IsScalar(node)
      BY <1>2, <2>3 DEF IsScalar
    <3>3. Interpolated(written) = written /\ Interpolated(node) = node
      BY <3>1, <3>2 DEF Interpolated
    <3> HIDE DEF written, text
    <3>4. node[2] = text
      BY DEF text
    <3> QED BY <2>2, <3>1, <3>2, <3>3, <3>4 DEF Read
  <2> QED BY <2>2, <2>4
<1>3. CASE node \in {Mapping, Sequence}
  <2>1. Value(node) = node /\ Faithful(node)
    BY <1>3, Reread
  <2>2. node[1] \in {"mapping", "sequence"}
    <3>1. Mapping[1] = "mapping" /\ Sequence[1] = "sequence"
      BY DEF Mapping, Sequence
    <3> QED BY <1>3, <3>1
  <2>3. written = node
    BY <2>1, <2>2 DEF serialise
  <2> QED BY <2>1, <2>3
<1> QED BY <1>1, <1>2, <1>3 DEF IsNode, IsScalar

\* Whether a file loads depends on what is read in its nodes, and on the variables.
LEMMA LoadDepends ==
    ASSUME NEW a, NEW b, DOMAIN a = DOMAIN b,
           \A p \in DOMAIN a : Read(a[p]) = Read(b[p]),
           \A p \in DOMAIN a : \A v \in Placeholders :
               (IsScalar(a[p]) /\ a[p][2] = v) <=> (IsScalar(b[p]) /\ b[p][2] = v)
    PROVE  load_from_path(Yaml(a, {})) <=> load_from_path(Yaml(b, {}))
<1>1. ReadTree(a) = ReadTree(b)
  BY DEF ReadTree
<1>2. References(Yaml(a, {})) = References(Yaml(b, {}))
  BY DEF References, Yaml
<1>3. \A t : Yaml(t, {}).is = "yaml" /\ Yaml(t, {}).tree = t /\ Yaml(t, {}).comments = {}
  BY DEF Yaml
<1> QED BY <1>1, <1>2, <1>3 DEF load_from_path, interpolates

\* An edit keeps a document a tree.
LEMMA EditClosed ==
    ASSUME NEW file, Parses(file), Closed(file), NEW seg, IsSequence(seg),
           CanResolveMut(file.tree, seg), NEW raw
    PROVE  Closed(Yaml(Edit(file.tree, seg, auto_value(raw)), {}))
<1> DEFINE new_tree == Edit(file.tree, seg, auto_value(raw))
<1>1. DOMAIN new_tree = {q \in DOMAIN file.tree : ~IsPrefix(seg, q)} \cup {seg}
  BY DEF Edit
<1>2. \A p \in DOMAIN file.tree :
          IsSequence(p) /\ \A j \in 0..Len(p) : SubSeq(p, 1, j) \in DOMAIN file.tree
  BY DEF Closed
<1>3. ASSUME NEW p \in DOMAIN new_tree, p # seg, NEW j \in 0..Len(p)
      PROVE  SubSeq(p, 1, j) \in DOMAIN new_tree
  <2>1. p \in DOMAIN file.tree /\ ~IsPrefix(seg, p) /\ IsSequence(p)
        /\ SubSeq(p, 1, j) \in DOMAIN file.tree
    BY <1>1, <1>2, <1>3
  <2>2. ~IsPrefix(seg, SubSeq(p, 1, j))
    <3> SUFFICES ASSUME IsPrefix(seg, SubSeq(p, 1, j)) PROVE IsPrefix(seg, p)
      BY <2>1
    <3> QED BY <2>1 DEF IsPrefix, IsSequence
  <2> QED BY <1>1, <2>1, <2>2
<1>4. ASSUME NEW j \in 0..Len(seg) PROVE SubSeq(seg, 1, j) \in DOMAIN new_tree
  <2>1. Len(seg) \in Nat
    BY DEF IsSequence
  <2>2. CASE j = Len(seg)
    <3>1. SubSeq(seg, 1, j) = seg
      BY <2>2 DEF IsSequence
    <3> QED BY <1>1, <3>1
  <2>3. CASE j < Len(seg)
    <3>1. PICK k \in 1..Len(seg) : k = j + 1
      BY <2>1, <2>3
    <3>2. SubSeq(seg, 1, k - 1) \in DOMAIN file.tree /\ k - 1 = j
      BY <3>1 DEF CanResolveMut
    <3>3. ~IsPrefix(seg, SubSeq(seg, 1, j))
      BY <2>1, <2>3 DEF IsPrefix, IsSequence
    <3> QED BY <1>1, <3>2, <3>3
  <2> QED BY <2>1, <2>2, <2>3
<1>5. \A p \in DOMAIN new_tree :
          IsSequence(p) /\ \A j \in 0..Len(p) : SubSeq(p, 1, j) \in DOMAIN new_tree
  BY <1>1, <1>2, <1>3, <1>4
<1>6. ASSUME NEW p \in DOMAIN new_tree PROVE IsNode(new_tree[p])
  <2>1. CASE p = seg
    <3>1. new_tree[p] = serialise(auto_value(raw))
      BY <2>1 DEF Edit
    <3> QED BY <3>1, Reread DEF Faithful
  <2>2. CASE p # seg
    <3>1. p \in DOMAIN file.tree /\ new_tree[p] = serialise(Value(file.tree[p]))
      BY <1>1, <1>6, <2>2 DEF Edit
    <3>2. IsNode(file.tree[p]) /\ Value(file.tree[p]) # Broken
      BY <3>1 DEF Closed, Parses
    <3> QED BY <3>1, <3>2, Rewritten
  <2> QED BY <2>1, <2>2
<1>7. Yaml(new_tree, {}).tree = new_tree
  BY DEF Yaml
<1> HIDE DEF new_tree
<1> QED BY <1>5, <1>6, <1>7 DEF Closed, new_tree

\* No document is made of anything but documents.
LEMMA TreesKept ==
    ASSUME Sound, Trees, [Next]_vars
    PROVE  Trees'
<1> USE DEF Goto, History
<1>1. Closed(Missing) /\ Closed(Empty) /\ Closed(Garbled) /\ \A lines : Closed(Lines(lines))
  BY DEF Closed, Parses, Missing, Empty, Garbled, Lines
<1>2. CASE UNCHANGED vars
  BY <1>2 DEF vars, Trees, Commands
<1>3. ASSUME NEW c \in Commands, Begin(c) \/ Stop(c) \/ Set(c) \/ Confirm(c) \/ AllowPath(c)
      PROVE  Trees'
  <2>1. DOMAIN new = Commands /\ DOMAIN disk = Files
    BY DEF Sound, Typed
  <2>2. CASE Begin(c) \/ Stop(c) \/ OpenTemp(c) \/ FillTemp(c) \/ Validate(c) \/ RemoveTemp(c)
             \/ Grant(c) \/ OpenOverride(c) \/ FillOverride(c)
    BY <2>1, <2>2 DEF Trees, Commands, Files, Begin, Stop, OpenTemp, FillTemp, Open, Fill, Validate,
                      RemoveTemp, Grant, OpenOverride, FillOverride
  <2>3. CASE OpenConfig(c)
    BY <1>1, <2>1, <2>3 DEF Trees, Commands, Files, OpenConfig, Open
  <2>4. CASE FillConfig(c)
    <3>1. disk'.config \in {Missing, Garbled, new[c]}
      BY <2>1, <2>4 DEF FillConfig, Fill, Files
    <3>2. UNCHANGED <<args, new, before>>
      BY <2>4 DEF FillConfig, Fill
    <3> QED BY <1>1, <3>1, <3>2 DEF Trees, Commands
  <2>5. CASE ReadConfig(c) \/ Confirm(c) \/ ReadOverride(c)
    <3>1. \E file : Closed(file) /\ new' \in {new, [new EXCEPT ![c] = file]}
      <4>1. CASE ReadConfig(c)
        <5>1. CASE Parses(disk.config) /\ CanResolveMut(disk.config.tree, Target(c))
          <6>1. args[c].command = "set"
            BY <4>1 DEF ReadConfig, Sound, Typed, Edits
          <6>2. IsSequence(Target(c))
            <7>1. PICK s \in Scenarios : args = s.args
              BY DEF Sound, Typed
            <7>2. IsSequence(args[c].key)
              BY <6>1, <7>1, ScenariosAssumption DEF Commands
            <7> QED BY <7>2, ParseTyped DEF Target
          <6>3. Closed(Yaml(Edit(disk.config.tree, Target(c), auto_value(args[c].value)), {}))
            BY <5>1, <6>2, EditClosed DEF Trees
          <6> QED BY <4>1, <5>1, <6>3 DEF ReadConfig
        <5>2. CASE ~(Parses(disk.config) /\ CanResolveMut(disk.config.tree, Target(c)))
          BY <1>1, <4>1, <5>2 DEF ReadConfig
        <5> QED BY <5>1, <5>2
      <4>2. CASE Confirm(c)
        BY <4>2, TemplateAssumption DEF Confirm
      <4>3. CASE ReadOverride(c)
        BY <1>1, <4>3 DEF ReadOverride
      <4> QED BY <2>5, <4>1, <4>2, <4>3
    <3>2. UNCHANGED <<args, disk, before>>
      BY <2>5 DEF ReadConfig, Confirm, ReadOverride
    <3> QED BY <2>1, <3>1, <3>2 DEF Trees, Commands
  <2> QED BY <1>3, <2>2, <2>3, <2>4, <2>5 DEF Set, AllowPath
<1> QED BY <1>2, <1>3 DEF Next

\* A set that is alone leaves the file it found, or that file edited and valid.
LEMMA SetAloneKept ==
    ASSUME Sound, Sound', SetAlone, [Next]_vars
    PROVE  SetAlone'
<1> USE DEF Goto, History
<1>1. DOMAIN pc = Commands /\ DOMAIN new = Commands /\ DOMAIN valid = Commands /\ DOMAIN disk = Files
  BY DEF Sound, Typed
<1>2. CASE UNCHANGED vars
  BY <1>2 DEF vars, SetAlone, Editable, Edited, Target
<1>3. ASSUME NEW c \in Commands, Begin(c)
      PROVE  SetAlone'
  <2>1. last' = c /\ before' = disk /\ UNCHANGED <<args, disk>>
    BY <1>3 DEF Begin
  <2>2. args[c].command = "set" => pc'[c] = "read"
    BY <1>1, <1>3 DEF Begin
  <2> QED BY <2>1, <2>2 DEF SetAlone, Edits, Writes
<1>4. ASSUME NEW c \in Commands, Stop(c) \/ Set(c) \/ Confirm(c) \/ AllowPath(c),
             last \in alone, args[last].command = "set"
      PROVE  SetAlone'
  <2>1. /\ UNCHANGED <<args, before, last, alone>> /\ pc[c] \notin Ended
    BY <1>4 DEF Stop, Active, Set, ReadConfig, OpenTemp, FillTemp, Validate, RemoveTemp, OpenConfig,
                FillConfig, Open, Fill, Confirm, AllowPath, Grant, ReadOverride, OpenOverride,
                FillOverride, Ended
  <2>2. c = last
    BY <1>4, <2>1 DEF Sound, Exclusive, Active
  <2>3. ~Confirm(c) /\ ~AllowPath(c)
    BY <1>4, <2>2 DEF Sound, Typed, Overrides, Confirm, AllowPath, Grant, ReadOverride,
                      OpenOverride, FillOverride
  <2>4. Target(last)' = Target(last) /\ Editable' = Editable /\ Edited' = Edited
    BY <2>1 DEF Target, Editable, Edited
  <2>5. CASE Stop(c)
    BY <1>1, <2>1, <2>2, <2>5 DEF Stop, SetAlone, Edits, Writes
  <2>6. CASE ReadConfig(c)
    <3>1. disk.config = before.config /\ UNCHANGED <<disk, valid>>
      BY <1>4, <2>2, <2>6 DEF ReadConfig, SetAlone, Edits
    <3>2. CASE Editable
      <4>1. pc'[c] = "open temp" /\ new'[c] = Edited
        BY <1>1, <2>2, <2>6, <3>1, <3>2 DEF ReadConfig, Editable, Edited
      <4> QED BY <2>1, <2>2, <2>4, <3>1, <3>2, <4>1 DEF SetAlone, Edits, Writes
    <3>3. CASE ~Editable
      <4>1. pc'[c] = "rejected"
        BY <1>1, <2>2, <2>6, <3>1, <3>3 DEF ReadConfig, Editable
      <4> QED BY <2>1, <2>2, <2>4, <3>1, <3>3, <4>1 DEF SetAlone, Edits, Writes
    <3> QED BY <3>2, <3>3
  <2>7. CASE OpenTemp(c)
    <3>1. /\ pc[c] = "open temp" /\ pc'[c] = "fill temp" /\ UNCHANGED <<new, valid>>
          /\ disk'.temp = Empty /\ disk'.config = disk.config
      BY <1>1, <2>7 DEF OpenTemp, Open, Files
    <3> QED BY <1>4, <2>1, <2>2, <2>4, <3>1 DEF SetAlone, Edits, Writes
  <2>8. CASE FillTemp(c)
    <3>1. /\ pc[c] = "fill temp" /\ pc'[c] = "validate" /\ UNCHANGED <<new, valid>>
          /\ disk'.config = disk.config
      BY <1>1, <2>8 DEF FillTemp, Fill, Files
    <3>2. disk.temp = Empty /\ new[c] = Edited
      BY <1>4, <2>2, <3>1 DEF SetAlone, Edits
    <3>3. PICK left \in CASE disk.temp = Missing -> {Missing}
                            [] disk.temp = Empty -> {new[c]}
                            [] OTHER -> {new[c], Garbled} :
              disk' = [disk EXCEPT !.temp = left]
      BY <2>8 DEF FillTemp, Fill
    <3>4. left = new[c]
      BY <3>2 DEF Missing, Empty
    <3>5. disk'.temp = Edited
      BY <1>1, <3>2, <3>3, <3>4 DEF Files
    <3> QED BY <1>4, <2>1, <2>2, <2>4, <3>1, <3>5 DEF SetAlone, Edits, Writes
  <2>9. CASE Validate(c)
    <3>1. /\ pc[c] = "validate" /\ pc'[c] = "remove" /\ UNCHANGED <<new, disk>>
          /\ valid'[c] = load_from_path(disk.temp)
      BY <1>1, <2>9 DEF Validate
    <3> QED BY <1>4, <2>1, <2>2, <2>4, <3>1 DEF SetAlone, Edits, Writes
  <2>10. CASE RemoveTemp(c)
    <3>1. /\ pc[c] = "remove" /\ pc'[c] = (IF valid[c] THEN "open config" ELSE "rejected")
          /\ UNCHANGED <<new, valid>> /\ disk'.config = disk.config
      BY <1>1, <2>10 DEF RemoveTemp, Files
    <3>2. /\ disk.config = before.config /\ Editable /\ new[c] = Edited
          /\ valid[c] = load_from_path(Edited)
      BY <1>4, <2>2, <3>1 DEF SetAlone, Edits
    <3>3. CASE load_from_path(Edited)
      BY <2>1, <2>2, <2>4, <3>1, <3>2, <3>3 DEF SetAlone, Edits, Writes
    <3>4. CASE ~load_from_path(Edited)
      BY <2>1, <2>2, <2>4, <3>1, <3>2, <3>4 DEF SetAlone, Edits, Writes
    <3> QED BY <3>3, <3>4
  <2>11. CASE OpenConfig(c)
    <3>1. /\ pc[c] = "open config" /\ pc'[c] = "fill config" /\ UNCHANGED <<new, valid>>
          /\ disk'.config = Empty
      BY <1>1, <2>11 DEF OpenConfig, Open, Files
    <3> QED BY <1>4, <2>1, <2>2, <2>4, <3>1 DEF SetAlone, Edits, Writes
  <2>12. CASE FillConfig(c)
    <3>1. pc[c] = "fill config" /\ pc'[c] = "ok" /\ UNCHANGED <<new, valid>>
      BY <1>1, <2>12 DEF FillConfig, Fill
    <3>2. disk.config = Empty /\ new[c] = Edited /\ Editable /\ load_from_path(Edited)
      BY <1>4, <2>2, <3>1 DEF SetAlone, Writes
    <3>3. PICK left \in CASE disk.config = Missing -> {Missing}
                            [] disk.config = Empty -> {new[c]}
                            [] OTHER -> {new[c], Garbled} :
              disk' = [disk EXCEPT !.config = left]
      BY <2>12 DEF FillConfig, Fill
    <3>4. left = new[c]
      BY <3>2 DEF Missing, Empty
    <3>5. disk'.config = Edited
      BY <1>1, <3>2, <3>3, <3>4 DEF Files
    <3> QED BY <2>1, <2>2, <2>4, <3>1, <3>2, <3>5 DEF SetAlone, Edits, Writes
  <2> QED BY <1>4, <2>3, <2>5, <2>6, <2>7, <2>8, <2>9, <2>10, <2>11, <2>12 DEF Set
<1>5. ASSUME NEW c \in Commands, Stop(c) \/ Set(c) \/ Confirm(c) \/ AllowPath(c)
      PROVE  UNCHANGED <<args, last, alone>>
  BY <1>5 DEF Stop, Set, ReadConfig, OpenTemp, FillTemp, Validate, RemoveTemp, OpenConfig,
              FillConfig, Open, Fill, Confirm, AllowPath, Grant, ReadOverride, OpenOverride,
              FillOverride
<1>6. ASSUME NEW c \in Commands, Stop(c) \/ Set(c) \/ Confirm(c) \/ AllowPath(c)
      PROVE  SetAlone'
  BY <1>4, <1>5, <1>6 DEF SetAlone
<1> QED BY <1>2, <1>3, <1>6 DEF Next

\* At first nothing has been edited, and the files are trees.
LEMMA InitSet == Init => SetAlone /\ Trees
<1> SUFFICES ASSUME Init PROVE SetAlone /\ Trees
  OBVIOUS
<1>1. SetAlone
  BY DEF Init, SetAlone
<1>2. PICK s \in Scenarios : disk.config = s.config /\ before = disk
  BY DEF Init
<1>3. Closed(Missing)
  BY DEF Closed, Parses, Missing
<1>4. Closed(disk.config) /\ Closed(before.config)
  BY <1>2, ScenariosAssumption
<1>5. \A c \in Commands : new[c] = Missing
  BY DEF Init
<1> QED BY <1>1, <1>3, <1>4, <1>5 DEF Trees

\* A set that has ended has done what SetExact says.
LEMMA SetEnds ==
    ASSUME Sound, SetAlone, Trees
    PROVE  SetExact
<1> DEFINE old == before.config
           set == auto_value(args[last].value)
           Kept(g) == {p \in DOMAIN old.tree : ~IsPrefix(g, p)}
           Named == {g \in Grammar : Rendered[g] = args[last].key}
           Result(g) == [p \in Kept(g) \cup {g} |-> IF p = g THEN serialise(set) ELSE old.tree[p]]
           Written(g) == [p \in Kept(g) \cup {g} |->
                             serialise(IF p = g THEN set ELSE Value(old.tree[p]))]
<1>1. \A g \in Named : Target(last) = g /\ g # <<>>
  BY ParseRendered, GrammarAssumption DEF Target
<1>2. Edited = Yaml(Written(Target(last)), {}) /\ Edited.tree = Written(Target(last))
  BY DEF Edited, Edit, Yaml
<1>3. Parses(old) => \A p \in DOMAIN old.tree : IsNode(old.tree[p]) /\ Value(old.tree[p]) # Broken
  BY DEF Trees, Closed, Parses
<1>4. ASSUME Finished("set"), pc[last] = "rejected", Parses(old), NEW g \in Named,
             g \in DOMAIN old.tree, \A p \in Kept(g) : ~Respelt(old.tree[p])
      PROVE  ~load_from_path(Yaml(Result(g), {}))
  <2>1. ~(Editable /\ load_from_path(Edited))
    BY <1>4 DEF Finished, SetAlone
  <2>2. IsSequence(g) /\ \A i \in 0..Len(g) : SubSeq(g, 1, i) \in DOMAIN old.tree
    BY <1>4 DEF Trees, Closed
  <2>3. \A i \in 1..Len(g) : i \in 0..Len(g) /\ i - 1 \in 0..Len(g)
    BY <2>2 DEF IsSequence
  <2>4. CanResolveMut(old.tree, g)
    BY <1>1, <2>2, <2>3 DEF CanResolveMut
  <2>5. Editable
    BY <1>1, <1>4, <2>4 DEF Editable
  <2>6. ~load_from_path(Yaml(Written(g), {}))
    BY <1>1, <1>2, <2>1, <2>5
  <2>7. ASSUME NEW p \in Kept(g) \cup {g}
        PROVE  /\ Read(Written(g)[p]) = Read(Result(g)[p])
               /\ \A v \in Placeholders :
                   (IsScalar(Written(g)[p]) /\ Written(g)[p][2] = v)
                       <=> (IsScalar(Result(g)[p]) /\ Result(g)[p][2] = v)
    <3>1. CASE p = g
      <4>1. Written(g)[p] = Result(g)[p]
        BY <3>1
      <4> QED BY <4>1
    <3>2. CASE p # g
      <4>1. Written(g)[p] = serialise(Value(old.tree[p])) /\ Result(g)[p] = old.tree[p]
        BY <3>2
      <4>2. IsNode(old.tree[p]) /\ Value(old.tree[p]) # Broken /\ ~Respelt(old.tree[p])
        BY <1>3, <1>4, <3>2
      <4> QED BY <4>1, <4>2, Rewritten
    <3> QED BY <3>1, <3>2
  <2>8. DOMAIN Written(g) = Kept(g) \cup {g} /\ DOMAIN Result(g) = Kept(g) \cup {g}
    OBVIOUS
  <2> HIDE DEF Written, Result, Kept
  <2> QED BY <2>6, <2>7, <2>8, LoadDepends
<1>5. ASSUME Finished("set"), pc[last] = "rejected"
      PROVE  disk.config = old
  BY <1>5 DEF Finished, SetAlone
<1>6. ASSUME Finished("set"), pc[last] = "ok"
      PROVE  /\ load_from_path(disk.config)
             /\ CanResolve(disk.config.tree, Target(last))
             /\ Value(disk.config.tree[Target(last)]) = set
             /\ \A g \in Named :
                 /\ Target(last) = g
                 /\ DOMAIN disk.config.tree = Kept(g) \cup {g}
                 /\ \A p \in Kept(g) :
                     /\ Value(disk.config.tree[p]) = Value(old.tree[p])
                     /\ Respelt(old.tree[p]) \/ Read(disk.config.tree[p]) = Read(old.tree[p])
  <2>1. disk.config = Edited /\ Editable /\ load_from_path(Edited)
    BY <1>6 DEF Finished, SetAlone
  <2>2. Target(last) # <<>> /\ Parses(old)
    BY <2>1 DEF Editable, CanResolveMut
  <2>3. Written(Target(last))[Target(last)] = serialise(set)
    OBVIOUS
  <2>4. CanResolve(disk.config.tree, Target(last)) /\ Value(disk.config.tree[Target(last)]) = set
    BY <1>2, <2>1, <2>2, <2>3, Reread DEF CanResolve, Faithful
  <2>5. ASSUME NEW g \in Named
        PROVE  /\ Target(last) = g
               /\ DOMAIN disk.config.tree = Kept(g) \cup {g}
               /\ \A p \in Kept(g) :
                   /\ Value(disk.config.tree[p]) = Value(old.tree[p])
                   /\ Respelt(old.tree[p]) \/ Read(disk.config.tree[p]) = Read(old.tree[p])
    <3>1. Target(last) = g /\ disk.config.tree = Written(g)
      BY <1>1, <1>2, <2>1
    <3>2. DOMAIN disk.config.tree = Kept(g) \cup {g}
      BY <3>1
    <3>3. g \notin Kept(g)
      <4>1. g \in DOMAIN old.tree => IsSequence(g)
        BY <2>2 DEF Trees, Closed
      <4>2. IsSequence(g) => IsPrefix(g, g)
        BY DEF IsSequence, IsPrefix
      <4> QED BY <4>1, <4>2
    <3>4. ASSUME NEW p \in Kept(g)
          PROVE  /\ Value(disk.config.tree[p]) = Value(old.tree[p])
                 /\ Respelt(old.tree[p]) \/ Read(disk.config.tree[p]) = Read(old.tree[p])
      <4>1. disk.config.tree[p] = serialise(Value(old.tree[p]))
        BY <3>1, <3>3
      <4>2. IsNode(old.tree[p]) /\ Value(old.tree[p]) # Broken
        BY <1>3, <2>2
      <4> QED BY <4>1, <4>2, Rewritten
    <3> QED BY <3>1, <3>2, <3>4
  <2> QED BY <2>1, <2>4, <2>5
<1> QED BY <1>4, <1>5, <1>6 DEF SetExact

\* Whatever documents, variables and keys there are, and wherever commands before it were
\* killed, a set that no other command overlaps leaves the file as it was, or one that
\* loads, has the new value and reads every other key as it did, but for the keys that
\* serde_yaml spells anew; where there are none of these, no valid edit is rejected.
THEOREM SettingWorks == Spec => []SetExact
<1>1. Init => Sound /\ SetAlone /\ Trees
  BY InitSound, InitSet
<1>2. Sound /\ SetAlone /\ Trees /\ [Next]_vars => (Sound /\ SetAlone /\ Trees)'
  <2> SUFFICES ASSUME Sound, SetAlone, Trees, [Next]_vars PROVE (Sound /\ SetAlone /\ Trees)'
    OBVIOUS
  <2>1. Sound'
    BY StepSound
  <2>2. SetAlone'
    BY <2>1, SetAloneKept
  <2>3. Trees'
    BY TreesKept
  <2> QED BY <2>1, <2>2, <2>3
<1>3. Sound /\ SetAlone /\ Trees => SetExact
  BY SetEnds
<1> QED BY <1>1, <1>2, <1>3, PTL DEF Spec

=============================================================================
