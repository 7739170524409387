----------------------------- MODULE StartupProofs -----------------------------
(***************************************************************************)
(* Proofs about Startup for any files, any channels, and a directory of    *)
(* any size that changes any number of times: its types with what the      *)
(* router relies on, and that a gate admits exactly those listed.          *)
(***************************************************************************)
EXTENDS Startup, FiniteSetTheorems, SequenceTheorems, TLAPS

IsSequence(s) == s \in Seq({s[i] : i \in DOMAIN s})

\* Before anything is loaded nothing has been built.
Fresh ==
    /\ situation \in Situations /\ phase \in {"loading", "building", "running", "failed"}
    /\ phase = "loading" =>
           /\ config = <<>> /\ at = <<1, 1>> /\ backends = {} /\ providers = <<>>
           /\ ~lookup.open

\* What was loaded is a valid configuration.
Loaded ==
    /\ config = <<>> \/ (IsConfig(config) /\ validate(config))
    /\ phase \in {"building", "running"} => config # <<>>

\* The next channel exists, unless there is none.
Position ==
    /\ at \in (Nat \ {0}) \X (Nat \ {0}) /\ at[1] <= Len(config) + 1
    /\ at[1] <= Len(config) => at[2] <= Len(config[at[1]].channels)
    /\ phase = "running" => Built

\* Those before it have been built, and their backends registered.
Reached ==
    /\ backends \subseteq KNOWN_BACKENDS
    /\ \A w \in 1..Len(config) : w < at[1] => config[w].backend \in backends
    /\ \A w \in 1..Len(config) : \A c \in 1..Len(config[w].channels) :
           w < at[1] \/ (w = at[1] /\ c < at[2])
               => \E p \in 1..Len(providers) : providers[p].channel = config[w].channels[c]

People == directory \in [Members -> Entries] /\ Proper(directory)

Maps == [Names -> Members \cup {Unknown}]
Lookups == [open : BOOLEAN, refused : BOOLEAN, cursor : Nat, name_to_id : Maps,
            held : SUBSET (Members \X Names),
            stable : SUBSET (Members \X Names)]

\* The names found belonged to somebody, and those of the pages read who have
\* kept their names have been found.
Found(map, cursor) ==
    /\ \A n \in Names : map[n] # Unknown => <<map[n], n>> \in lookup.held
    /\ \A i \in Members, n \in Names : <<i, n>> \in lookup.stable /\ i <= cursor => map[n] = i

Reading ==
    /\ lookup.stable \subseteq Active(directory)
    /\ Active(directory) \subseteq lookup.held
    /\ Found(lookup.name_to_id, lookup.cursor)

Lookup ==
    /\ lookup \in Lookups
    /\ ~lookup.open => lookup.name_to_id = NoLookup.name_to_id
    /\ lookup.open =>
           /\ Reading /\ ~Built /\ Channel.kind = "slack"
           /\ config[at[1]].backend \in backends

\* A gate holds what is listed, of slack's handles those found.
Gates ==
    /\ IsSequence(providers) /\ IsSequence(observed)
    /\ Len(providers) = Len(observed)
    /\ GateExact

Sound == Fresh /\ Loaded /\ Position /\ Reached /\ People /\ Lookup /\ Gates

-----------------------------------------------------------------------------

\* A sequence grows by whatever is appended.
LEMMA Grows ==
    ASSUME NEW s, IsSequence(s), NEW x
    PROVE  /\ IsSequence(Append(s, x)) /\ Len(s) \in Nat /\ Len(Append(s, x)) = Len(s) + 1
           /\ Append(s, x)[Len(s) + 1] = x /\ \A i \in 1..Len(s) : Append(s, x)[i] = s[i]
<1> DEFINE T == {s[i] : i \in DOMAIN s} \cup {x}
<1>1. s \in Seq(T)
  BY DEF IsSequence
<1> HIDE DEF T
<1>2. x \in T
  BY DEF T
<1>3. /\ Append(s, x) \in Seq(T) /\ Len(s) \in Nat /\ Len(Append(s, x)) = Len(s) + 1
      /\ Append(s, x)[Len(s) + 1] = x /\ \A i \in 1..Len(s) : Append(s, x)[i] = s[i]
  BY <1>1, <1>2
<1>4. PICK t \in Seq(T) : t = Append(s, x)
  BY <1>3
<1>5. t \in Seq({t[i] : i \in DOMAIN t})
  OBVIOUS
<1> QED BY <1>3, <1>4, <1>5 DEF IsSequence

\* The members are numbered from 1.
LEMMA MembersForm == Members \subseteq Nat \ {0} /\ Unknown \notin Members
<1>1. Cardinality(Members) \in Nat
  BY MembersAssumption, FS_CardinalityType
<1> QED BY <1>1, MembersAssumption DEF Unknown

\* Who is active goes by a name.
LEMMA ActiveForm ==
    ASSUME NEW dir \in [Members -> Entries]
    PROVE  /\ Active(dir) \subseteq Members \X Names
           /\ \A i \in Members : \A n : <<i, n>> \in Active(dir) <=> ~dir[i].deleted /\ dir[i].name = n
<1>1. \A i \in Members : ~dir[i].deleted => dir[i].name \in Names /\ dir[i] # Absent
  BY DEF Entries, Absent
<1> QED BY <1>1 DEF Active

\* The channels of a loaded configuration are known, and list users.
LEMMA ChannelForm ==
    ASSUME Sound, ~Built, phase = "building" \/ phase = "failed"
    PROVE  /\ config # <<>> /\ Len(config) \in Nat /\ at[1] \in 1..Len(config)
           /\ Len(config[at[1]].channels) \in Nat /\ at[2] \in 1..Len(config[at[1]].channels)
           /\ config[at[1]].backend \in KNOWN_BACKENDS
           /\ Channel.kind \in KNOWN_CHANNELS
           /\ \A u \in Channel.users : IsUser(u)
<1>1. config # <<>>
  BY DEF Sound, Position, Built, Loaded
<1>2. IsConfig(config) /\ validate(config)
  BY <1>1 DEF Sound, Loaded
<1>3. Len(config) \in Nat
  BY <1>2 DEF IsConfig
<1>4. at[1] \in 1..Len(config)
  BY <1>3 DEF Sound, Position, Built
<1>5. IsWorkspace(config[at[1]])
  BY <1>2, <1>4 DEF IsConfig
<1>6. Len(config[at[1]].channels) \in Nat
  BY <1>5 DEF IsWorkspace
<1>7. at[2] \in 1..Len(config[at[1]].channels)
  BY <1>4, <1>6 DEF Sound, Position
<1>8. config[at[1]].backend \in KNOWN_BACKENDS /\ Channel.kind \in KNOWN_CHANNELS
  BY <1>2, <1>4, <1>7 DEF validate, Channel
<1>9. \A u \in Channel.users : IsUser(u)
  BY <1>5, <1>7 DEF IsWorkspace, Channel
<1> QED BY <1>1, <1>3, <1>4, <1>6, <1>7, <1>8, <1>9

\* GateExact for one provider.
Exact(ch, gate, seen) ==
    LET raw == Listed({u \in Handles(ch) : IsRaw(u)})
        named(pairs) == {<<0, IdOf[x[1]]>> : x \in {y \in pairs : y[2] \in HandlesToLookup(ch)}}
    IN  /\ ch.kind = "slack" =>
               /\ raw \cup named(seen.stable) \subseteq gate
               /\ gate \subseteq raw \cup named(seen.held)
        /\ ch.kind = "telegram" => \A s \in Senders :
               admits(gate, s) <=>
                   \E u \in ch.users :
                       \/ u.numeric /\ u.name = s.id
                       \/ /\ ~u.numeric /\ u.signs <= 1
                          /\ \/ Lower[u.name] = s.id
                             \/ s.username # None /\ Lower[u.name] = Lower[s.username]

\* The gates are exact one by one.
LEMMA OneByOne ==
    GateExact <=> \A p \in 1..Len(providers) :
                      Exact(providers[p].channel, providers[p].gate, observed[p])
<1> QED BY DEF GateExact, Exact

\* What telegram's gate holds admits exactly who is listed.
LEMMA TelegramExact ==
    ASSUME NEW ch, ch.kind = "telegram", \A u \in ch.users : IsUser(u), NEW map,
           NEW seen
    PROVE  Exact(ch, resolve_users(ch, map), seen)
<1> DEFINE gate == resolve_users(ch, map)
<1>1. gate = Listed(ch.users \ Handles(ch)) \cup {Normalized(u) : u \in Handles(ch)}
  BY DEF resolve_users
<1> HIDE DEF gate
<1>2. ASSUME NEW x
      PROVE  <<0, x>> \in gate <=>
                 \E u \in ch.users : \/ u.numeric /\ u.name = x
                                     \/ ~u.numeric /\ u.signs <= 1 /\ Lower[u.name] = x
  <2>1. <<0, x>> \in Listed(ch.users \ Handles(ch)) <=> \E u \in ch.users : u.numeric /\ u.name = x
    BY DEF Listed, Handles, IsUser
  <2>2. <<0, x>> \in {Normalized(u) : u \in Handles(ch)} <=>
            \E u \in ch.users : ~u.numeric /\ u.signs <= 1 /\ Lower[u.name] = x
    BY DEF Handles, IsUser, Normalized
  <2> QED BY <1>1, <2>1, <2>2
<1>3. ASSUME NEW s \in Senders, s.username # None
      PROVE  \A u \in ch.users : u.numeric => u.name # Lower[s.username]
  BY <1>3, SendersAssumption DEF IsUser
<1>4. ASSUME NEW s \in Senders
      PROVE  admits(gate, s) <=>
                 \E u \in ch.users :
                     \/ u.numeric /\ u.name = s.id
                     \/ /\ ~u.numeric /\ u.signs <= 1
                        /\ \/ Lower[u.name] = s.id
                           \/ s.username # None /\ Lower[u.name] = Lower[s.username]
  BY <1>2, <1>3 DEF admits
<1> QED BY <1>4 DEF Exact, gate

\* So does slack's with a map that has found everybody who stayed, and nobody else.
LEMMA SlackExact ==
    ASSUME NEW ch, ch.kind = "slack", NEW map, NEW seen,
           \A n \in HandlesToLookup(ch) : <<map[n], n>> \in seen.held,
           \A x \in seen.stable : x[2] \in HandlesToLookup(ch) => map[x[2]] = x[1]
    PROVE  Exact(ch, resolve_users(ch, map), seen)
<1> DEFINE raw == Listed({u \in Handles(ch) : IsRaw(u)})
           found == {<<0, IdOf[map[n]]>> : n \in HandlesToLookup(ch)}
           named(pairs) == {<<0, IdOf[x[1]]>> : x \in {y \in pairs : y[2] \in HandlesToLookup(ch)}}
<1>1. resolve_users(ch, map) = raw \cup found
  BY DEF resolve_users
<1>2. named(seen.stable) \subseteq found
  OBVIOUS
<1>3. found \subseteq named(seen.held)
  <2> SUFFICES ASSUME NEW n \in HandlesToLookup(ch) PROVE <<0, IdOf[map[n]]>> \in named(seen.held)
    OBVIOUS
  <2> DEFINE x == <<map[n], n>>
  <2>1. x \in seen.held /\ x[1] = map[n] /\ x[2] = n
    OBVIOUS
  <2> QED BY <2>1
<1> QED BY <1>1, <1>2, <1>3 DEF Exact

\* A page more: the map holds who stayed and was on the pages up to this one.
LEMMA PageSound ==
    ASSUME Sound, lookup.open
    PROVE  /\ WithPage \in Maps
           /\ Found(WithPage, lookup.cursor + PageSize)
           /\ lookup.cursor \in Nat
           /\ LastPage => \A x \in lookup.stable : x[1] <= lookup.cursor + PageSize
           /\ ~LastPage => NextCursor = lookup.cursor + PageSize
<1> DEFINE page(n) == {i \in PageOf(lookup.cursor) : ~directory[i].deleted /\ directory[i].name = n}
<1>1. /\ lookup.cursor \in Nat /\ lookup.name_to_id \in Maps /\ directory \in [Members -> Entries]
      /\ Proper(directory) /\ lookup.stable \subseteq Active(directory)
      /\ Active(directory) \subseteq lookup.held
      /\ Found(lookup.name_to_id, lookup.cursor)
  BY DEF Sound, Lookup, Lookups, Reading, People
<1>2. \A n \in Names : \A i \in page(n) : i \in Members /\ <<i, n>> \in Active(directory)
  BY <1>1, ActiveForm DEF PageOf
<1>3. \A n \in Names : \A i, j \in page(n) : i = j
  <2> SUFFICES ASSUME NEW n \in Names, NEW i \in page(n), NEW j \in page(n) PROVE i = j
    OBVIOUS
  <2>1. <<i, n>> \in Active(directory) /\ <<j, n>> \in Active(directory)
    BY <1>2
  <2>2. <<i, n>> = <<j, n>>
    BY <1>1, <2>1 DEF Proper
  <2> QED BY <2>2
<1>4. ASSUME NEW n \in Names
      PROVE  /\ page(n) = {} => WithPage[n] = lookup.name_to_id[n]
             /\ page(n) # {} => WithPage[n] \in page(n)
  BY DEF WithPage
<1>5. WithPage \in Maps
  <2>1. \A n \in Names : WithPage[n] \in Members \cup {Unknown}
    BY <1>1, <1>2, <1>4 DEF Maps
  <2>2. WithPage = [n \in Names |-> WithPage[n]]
    BY DEF WithPage
  <2> QED BY <2>1, <2>2 DEF Maps
<1>6. ASSUME NEW n \in Names, WithPage[n] # Unknown PROVE <<WithPage[n], n>> \in lookup.held
  BY <1>1, <1>2, <1>4, <1>6 DEF Found
<1>7. ASSUME NEW i \in Members, NEW n \in Names, <<i, n>> \in lookup.stable,
             i <= lookup.cursor + PageSize
      PROVE  WithPage[n] = i
  <2>1. <<i, n>> \in Active(directory) /\ ~directory[i].deleted /\ directory[i].name = n
    BY <1>1, <1>7, ActiveForm
  <2>2. CASE i <= lookup.cursor
    <3>1. page(n) = {}
      <4> SUFFICES ASSUME NEW j \in page(n) PROVE FALSE
        OBVIOUS
      <4>1. j \in Members /\ <<j, n>> \in Active(directory) /\ lookup.cursor < j
        BY <1>2 DEF PageOf
      <4>2. <<i, n>> = <<j, n>>
        BY <1>1, <2>1, <4>1 DEF Proper
      <4> QED BY <1>1, <2>2, <4>1, <4>2, MembersForm
    <3> QED BY <1>1, <1>4, <1>7, <2>2, <3>1 DEF Found
  <2>3. CASE ~(i <= lookup.cursor)
    <3>1. i \in page(n)
      BY <1>1, <1>7, <2>1, <2>3, MembersForm DEF PageOf
    <3> QED BY <1>3, <1>4, <3>1
  <2> QED BY <2>2, <2>3
<1>8. lookup.cursor + PageSize # Unknown
  BY <1>1, PageAssumption DEF Unknown
<1>9. ASSUME LastPage, NEW x \in lookup.stable PROVE x[1] <= lookup.cursor + PageSize
  <2>1. PICK i \in Members, n \in Names : x = <<i, n>> /\ ~directory[i].deleted
    BY <1>1, ActiveForm
  <2>2. directory[i] # Absent
    BY <2>1 DEF Absent
  <2>3. ~(i > lookup.cursor + PageSize)
    BY <1>8, <1>9, <2>2 DEF LastPage, NextCursor
  <2> QED BY <1>1, <2>1, <2>3, MembersForm, PageAssumption
<1>10. ~LastPage => NextCursor = lookup.cursor + PageSize
  BY DEF LastPage, NextCursor
<1> QED BY <1>1, <1>5, <1>6, <1>7, <1>9, <1>10 DEF Found

\* Nothing is looked up yet.
LEMMA NoLookupForm == NoLookup \in Lookups /\ ~NoLookup.open
<1> QED BY DEF NoLookup, Lookups, Maps

\* A provider joins the others, and its channel is behind.
LEMMA AddSound ==
    ASSUME Sound, phase = "building", ~Built, NEW map, Add(map), UNCHANGED <<situation, config, directory>>,
           \/ backends' = Registered
           \/ backends' = backends /\ config[at[1]].backend \in backends,
           Exact(Channel, resolve_users(Channel, map), lookup)
    PROVE  Sound'
<1> DEFINE new == [channel |-> Channel, gate |-> resolve_users(Channel, map)]
<1>1. /\ providers' = Append(providers, new) /\ observed' = Append(observed, lookup)
      /\ at' = IF at[2] < Len(config[at[1]].channels) THEN <<at[1], at[2] + 1>> ELSE <<at[1] + 1, 1>>
      /\ lookup' = NoLookup /\ UNCHANGED phase
  BY DEF Add
<1>2. IsSequence(providers) /\ IsSequence(observed) /\ Len(providers) = Len(observed)
  BY DEF Sound, Gates
<1>3. /\ IsSequence(providers') /\ Len(providers) \in Nat /\ Len(providers') = Len(providers) + 1
      /\ providers'[Len(providers) + 1] = new
      /\ \A p \in 1..Len(providers) : providers'[p] = providers[p]
  BY <1>1, <1>2, Grows
<1>4. /\ IsSequence(observed') /\ Len(observed') = Len(observed) + 1
      /\ observed'[Len(observed) + 1] = lookup
      /\ \A p \in 1..Len(observed) : observed'[p] = observed[p]
  BY <1>1, <1>2, Grows
<1>5. Gates'
  <2>1. \A p \in 1..Len(providers) : Exact(providers[p].channel, providers[p].gate, observed[p])
    BY OneByOne DEF Sound, Gates
  <2>2. new.channel = Channel /\ new.gate = resolve_users(Channel, map)
    OBVIOUS
  <2> HIDE DEF new
  <2>3. ASSUME NEW p \in 1..Len(providers')
        PROVE  Exact(providers'[p].channel, providers'[p].gate, observed'[p])
    <3>1. CASE p \in 1..Len(providers)
      BY <1>2, <1>3, <1>4, <2>1, <3>1
    <3>2. CASE p = Len(providers) + 1
      BY <1>2, <1>3, <1>4, <2>2, <3>2
    <3> QED BY <1>3, <3>1, <3>2
  <2>4. GateExact' <=> \A p \in 1..Len(providers') :
                           Exact(providers'[p].channel, providers'[p].gate, observed'[p])
    BY DEF GateExact, Exact
  <2> QED BY <1>2, <1>3, <1>4, <2>3, <2>4 DEF Gates
<1>6. /\ Len(config) \in Nat /\ at[1] \in 1..Len(config)
      /\ Len(config[at[1]].channels) \in Nat /\ at[2] \in 1..Len(config[at[1]].channels)
      /\ config[at[1]].backend \in KNOWN_BACKENDS
  BY ChannelForm
<1>7. /\ backends \subseteq backends' /\ config[at[1]].backend \in backends'
      /\ backends' \subseteq KNOWN_BACKENDS
  BY <1>6 DEF Registered, Sound, Reached
<1>8. Position'
  <2>1. CASE at[2] < Len(config[at[1]].channels)
    BY <1>1, <1>6, <2>1 DEF Position, Built
  <2>2. CASE ~(at[2] < Len(config[at[1]].channels))
    <3>1. at' = <<at[1] + 1, 1>>
      BY <1>1, <2>2
    <3>2. at[1] + 1 <= Len(config) => 1 <= Len(config[at[1] + 1].channels)
      <4> SUFFICES ASSUME at[1] + 1 <= Len(config) PROVE 1 <= Len(config[at[1] + 1].channels)
        OBVIOUS
      <4>1. at[1] + 1 \in 1..Len(config) /\ IsConfig(config) /\ validate(config)
        BY <1>6, ChannelForm DEF Sound, Loaded
      <4>2. IsWorkspace(config[at[1] + 1]) /\ config[at[1] + 1].channels # <<>>
        BY <4>1 DEF IsConfig, validate
      <4> QED BY <4>2, EmptySeq DEF IsWorkspace
    <3> QED BY <1>1, <1>6, <3>1, <3>2 DEF Position, Built
  <2> QED BY <2>1, <2>2
<1>9. Reached'
  <2>1. ASSUME NEW w \in 1..Len(config), w < at'[1] PROVE config[w].backend \in backends'
    <3>1. w < at[1] \/ w = at[1]
      BY <1>1, <1>6, <2>1
    <3> QED BY <1>7, <3>1 DEF Sound, Reached
  <2>2. ASSUME NEW w \in 1..Len(config), NEW c \in 1..Len(config[w].channels),
               w < at'[1] \/ (w = at'[1] /\ c < at'[2])
        PROVE  \E p \in 1..Len(providers') : providers'[p].channel = config[w].channels[c]
    <3>1. w < at[1] \/ (w = at[1] /\ c < at[2]) \/ (w = at[1] /\ c = at[2])
      BY <1>1, <1>6, <2>2 DEF Sound, Position
    <3>2. CASE w < at[1] \/ (w = at[1] /\ c < at[2])
      BY <1>3, <3>2 DEF Sound, Reached
    <3>3. CASE w = at[1] /\ c = at[2]
      <4>1. Len(providers) + 1 \in 1..Len(providers') /\ new.channel = config[w].channels[c]
        BY <1>3, <3>3 DEF Channel
      <4> QED BY <1>3, <4>1
    <3> QED BY <3>1, <3>2, <3>3
  <2> QED BY <1>7, <2>1, <2>2 DEF Reached
<1>10. Fresh' /\ Loaded' /\ People'
  BY <1>1 DEF Sound, Fresh, Loaded, People
<1>11. Lookup'
  BY <1>1, NoLookupForm DEF Lookup
<1> QED BY <1>5, <1>8, <1>9, <1>10, <1>11 DEF Sound

-----------------------------------------------------------------------------

\* Nothing is loaded or built.
LEMMA InitSound == Init => Sound
<1> SUFFICES ASSUME Init PROVE Sound
  OBVIOUS
<1>1. /\ phase = "loading" /\ config = <<>> /\ at = <<1, 1>> /\ backends = {}
      /\ providers = <<>> /\ observed = <<>> /\ lookup = NoLookup
      /\ directory \in [Members -> Entries] /\ Proper(directory)
  BY DEF Init
<1>2. Fresh /\ Loaded /\ Position /\ Reached /\ People
  BY <1>1, NoLookupForm DEF Init, Fresh, Loaded, Position, Built, Reached, People
<1>3. Lookup
  BY <1>1, NoLookupForm DEF Lookup
<1>4. Gates
  BY <1>1 DEF Gates, IsSequence, GateExact
<1> QED BY <1>2, <1>3, <1>4 DEF Sound

\* The directory changes, under a reading of it or not.
LEMMA ChangeSound ==
    ASSUME Sound, Change
    PROVE  Sound'
<1>1. /\ UNCHANGED <<situation, phase, config, at, backends, providers, observed>>
      /\ Proper(directory')
      /\ lookup' = IF ~lookup.open THEN lookup
                   ELSE [lookup EXCEPT !.held = @ \cup Active(directory'),
                                       !.stable = @ \cap Active(directory')]
  BY DEF Change
<1>2. directory' \in [Members -> Entries]
  BY DEF Change, Sound, People
<1>3. Loaded' /\ Position' /\ Reached' /\ People'
  BY <1>1, <1>2 DEF Sound, Loaded, Position, Built, Reached, People
<1>4. Gates'
  BY <1>1 DEF Sound, Gates, GateExact
<1>5. Lookup'
  <2>1. CASE ~lookup.open
    BY <1>1, <2>1 DEF Sound, Lookup
  <2>2. CASE lookup.open
    <3>1. lookup \in Lookups
      BY DEF Sound, Lookup
    <3>2. /\ lookup' \in Lookups /\ lookup'.open
          /\ lookup'.cursor = lookup.cursor /\ lookup'.name_to_id = lookup.name_to_id
          /\ lookup'.held = lookup.held \cup Active(directory')
          /\ lookup'.stable = lookup.stable \cap Active(directory')
      <4>1. Active(directory') \subseteq Members \X Names
        BY <1>2, ActiveForm
      <4> QED BY <1>1, <2>2, <3>1, <4>1 DEF Lookups
    <3>3. Reading'
      BY <2>2, <3>2 DEF Sound, Lookup, Reading, Found
    <3> QED BY <1>1, <2>2, <3>2, <3>3 DEF Sound, Lookup, Built, Channel
  <2> QED BY <2>1, <2>2
<1>6. Fresh'
  BY <1>1 DEF Sound, Fresh
<1> QED BY <1>3, <1>4, <1>5, <1>6 DEF Sound

\* A step that builds nothing, while channels are built, keeps what was.
LEMMA BuiltKept ==
    ASSUME Sound, phase = "building",
           phase' \in {"building", "failed"} \/ (phase' = "running" /\ Built),
           UNCHANGED <<situation, config, at, providers, observed, directory>>,
           backends \subseteq backends', backends' \subseteq KNOWN_BACKENDS
    PROVE  Fresh' /\ Loaded' /\ Position' /\ Reached' /\ People' /\ Gates'
<1>1. Fresh'
  BY DEF Sound, Fresh
<1>2. Loaded' /\ Position'
  BY DEF Sound, Loaded, Position, Built
<1>3. Reached'
  BY DEF Sound, Reached
<1>4. People'
  BY DEF Sound, People
<1>5. Gates'
  BY DEF Sound, Gates, GateExact
<1> QED BY <1>1, <1>2, <1>3, <1>4, <1>5

\* A step that leaves the reading alone.
LEMMA LookupKept ==
    ASSUME Sound, UNCHANGED <<config, at, directory, lookup>>, backends \subseteq backends'
    PROVE  Lookup'
<1>1. lookup.open => Reading'
  BY DEF Sound, Lookup, Reading, Found
<1>2. Built' = Built /\ Channel' = Channel
  BY DEF Built, Channel
<1> QED BY <1>1, <1>2 DEF Sound, Lookup

\* The file is read, and must be valid.
LEMMA LoadSound ==
    ASSUME Sound, Load
    PROVE  Sound'
<1> DEFINE file == situation.files[resolve_path(situation)]
<1>1. /\ phase = "loading"
      /\ UNCHANGED <<situation, at, backends, providers, directory, changes, lookup, observed>>
      /\ \/ file # Missing /\ validate(file) /\ phase' = "building" /\ config' = file
         \/ phase' = "failed" /\ UNCHANGED config
  BY DEF Load
<1>2. config = <<>> /\ at = <<1, 1>> /\ backends = {} /\ providers = <<>> /\ ~lookup.open
  BY <1>1 DEF Sound, Fresh
<1>3. People' /\ Gates' /\ Fresh' /\ Lookup'
  BY <1>1, <1>2 DEF Sound, People, Gates, GateExact, Fresh, Lookup
<1>4. CASE file # Missing /\ validate(file) /\ phase' = "building" /\ config' = file
  <2>1. IsConfig(file)
    BY <1>4, SituationsAssumption DEF Sound, Fresh
  <2> HIDE DEF file
  <2>2. Len(file) \in Nat /\ file # <<>>
    <3>1. Len(file) \in Nat
      BY <2>1 DEF IsConfig
    <3>2. file # <<>>
      BY <1>4 DEF validate
    <3> QED BY <3>1, <3>2
  <2>3. 1 <= Len(file) => 1 <= Len(file[1].channels)
    <3> SUFFICES ASSUME 1 \in 1..Len(file) PROVE 1 <= Len(file[1].channels)
      BY <2>2
    <3>1. IsWorkspace(file[1]) /\ file[1].channels # <<>>
      BY <1>4, <2>1 DEF IsConfig, validate
    <3> QED BY <3>1, EmptySeq DEF IsWorkspace
  <2>4. Loaded'
    BY <1>4, <2>1, <2>2 DEF Loaded
  <2>5. Position' /\ Reached'
    BY <1>1, <1>2, <1>4, <2>2, <2>3 DEF Position, Reached
  <2> QED BY <1>3, <2>4, <2>5 DEF Sound
<1>5. CASE phase' = "failed" /\ UNCHANGED config
  BY <1>1, <1>2, <1>3, <1>5 DEF Sound, Loaded, Position, Reached
<1> QED BY <1>1, <1>4, <1>5

\* A channel without handles to look up.
LEMMA BuildChannelSound ==
    ASSUME Sound, BuildChannel
    PROVE  Sound'
<1> DEFINE map == NoLookup.name_to_id
<1>1. /\ phase = "building" /\ ~lookup.open /\ ~Built /\ backends' = Registered
      /\ Channel.kind = "slack" => HandlesToLookup(Channel) = {}
      /\ Add(map) /\ UNCHANGED <<situation, config, directory>>
  BY DEF BuildChannel, Building
<1> HIDE DEF map
<1>2. Channel.kind \in KNOWN_CHANNELS /\ \A u \in Channel.users : IsUser(u)
  BY <1>1, ChannelForm
<1>3. Exact(Channel, resolve_users(Channel, map), lookup)
  <2>1. CASE Channel.kind = "telegram"
    BY <1>2, <2>1, TelegramExact
  <2>2. CASE Channel.kind = "slack"
    BY <1>1, <2>2, SlackExact
  <2>3. CASE Channel.kind = "whatsapp"
    BY <2>3 DEF Exact
  <2> QED BY <1>2, <2>1, <2>2, <2>3 DEF KNOWN_CHANNELS
<1> QED BY <1>1, <1>3, AddSound

\* A channel without its credential ends the start.
LEMMA BuildFailsSound ==
    ASSUME Sound, BuildFails
    PROVE  Sound'
<1>1. /\ phase = "building" /\ ~lookup.open /\ ~Built /\ phase' = "failed" /\ backends' = Registered
      /\ UNCHANGED <<situation, config, at, providers, directory, lookup, observed>>
  BY DEF BuildFails, Building
<1>2. backends \subseteq backends' /\ backends' \subseteq KNOWN_BACKENDS
  BY <1>1, ChannelForm DEF Registered, Sound, Reached
<1> QED BY <1>1, <1>2, BuiltKept, LookupKept DEF Sound

\* The reading begins with nothing found.
LEMMA BeginLookupSound ==
    ASSUME Sound, BeginLookup
    PROVE  Sound'
<1>1. /\ phase = "building" /\ ~lookup.open /\ ~Built /\ Channel.kind = "slack"
      /\ backends' = Registered
      /\ lookup' = [NoLookup EXCEPT !.open = TRUE, !.held = Active(directory),
                                    !.stable = Active(directory)]
      /\ UNCHANGED <<situation, phase, config, at, providers, directory, observed>>
  BY DEF BeginLookup, Building
<1>2. /\ backends \subseteq backends' /\ backends' \subseteq KNOWN_BACKENDS
      /\ config[at[1]].backend \in backends'
  BY <1>1, ChannelForm DEF Registered, Sound, Reached
<1>3. Fresh' /\ Loaded' /\ Position' /\ Reached' /\ People' /\ Gates'
  BY <1>1, <1>2, BuiltKept
<1>4. Active(directory) \subseteq Members \X Names
  BY ActiveForm DEF Sound, People
<1>5. /\ lookup' \in Lookups /\ lookup'.open /\ lookup'.cursor = 0
      /\ lookup'.held = Active(directory) /\ lookup'.stable = Active(directory)
      /\ \A n \in Names : lookup'.name_to_id[n] = Unknown
  BY <1>1, <1>4 DEF NoLookup, Lookups, Maps
<1>6. Reading'
  <2>1. \A i \in Members : ~(i <= 0)
    BY MembersForm
  <2> QED BY <1>1, <1>5, <2>1 DEF Reading, Found
<1>7. Lookup'
  BY <1>1, <1>2, <1>5, <1>6 DEF Lookup, Built, Channel
<1> QED BY <1>3, <1>7 DEF Sound

\* One more page is read.
LEMMA ReadPageSound ==
    ASSUME Sound, ReadPage
    PROVE  Sound'
<1>1. /\ phase = "building" /\ lookup.open /\ ~LastPage
      /\ lookup' = [lookup EXCEPT !.cursor = NextCursor, !.name_to_id = WithPage]
      /\ UNCHANGED <<situation, phase, config, at, backends, providers, directory, observed>>
  BY DEF ReadPage
<1>2. Fresh' /\ Loaded' /\ Position' /\ Reached' /\ People' /\ Gates'
  <2>1. backends' = backends /\ backends \subseteq KNOWN_BACKENDS
    BY <1>1 DEF Sound, Reached
  <2> QED BY <1>1, <2>1, BuiltKept
<1>3. /\ WithPage \in Maps /\ Found(WithPage, NextCursor) /\ NextCursor \in Nat
  BY <1>1, PageSound, PageAssumption
<1>4. /\ lookup' \in Lookups /\ lookup'.open /\ lookup'.cursor = NextCursor
      /\ lookup'.name_to_id = WithPage
      /\ lookup'.held = lookup.held /\ lookup'.stable = lookup.stable
  <2>1. lookup \in Lookups
    BY DEF Sound, Lookup
  <2> QED BY <1>1, <1>3, <2>1 DEF Lookups
<1>5. Reading'
  BY <1>1, <1>3, <1>4 DEF Sound, Lookup, Reading, Found
<1>6. Lookup'
  BY <1>1, <1>4, <1>5 DEF Sound, Lookup, Built, Channel
<1> QED BY <1>2, <1>6 DEF Sound

\* The last page completes the gate, or ends the start.
LEMMA ReadLastPageSound ==
    ASSUME Sound, ReadLastPage
    PROVE  Sound'
<1>1. /\ phase = "building" /\ lookup.open /\ LastPage
      /\ UNCHANGED <<situation, config, backends, directory>>
      /\ \/ /\ \A n \in HandlesToLookup(Channel) : n \in Names /\ WithPage[n] # Unknown
            /\ Add(WithPage)
         \/ phase' = "failed" /\ UNCHANGED <<at, providers, lookup, observed>>
  BY DEF ReadLastPage
<1>2. CASE /\ \A n \in HandlesToLookup(Channel) : n \in Names /\ WithPage[n] # Unknown
           /\ Add(WithPage)
  <2>1. /\ Found(WithPage, lookup.cursor + PageSize)
        /\ \A x \in lookup.stable : x[1] <= lookup.cursor + PageSize
    BY <1>1, PageSound
  <2>2. ~Built /\ Channel.kind = "slack" /\ config[at[1]].backend \in backends
    BY <1>1 DEF Sound, Lookup
  <2>3. \A n \in HandlesToLookup(Channel) : <<WithPage[n], n>> \in lookup.held
    BY <1>2, <2>1 DEF Found
  <2>4. ASSUME NEW x \in lookup.stable, x[2] \in HandlesToLookup(Channel)
        PROVE  WithPage[x[2]] = x[1]
    <3>1. x \in Members \X Names
      BY DEF Sound, Lookup, Lookups
    <3>2. PICK i \in Members, n \in Names : x = <<i, n>>
      BY <3>1
    <3> QED BY <2>1, <2>4, <3>2 DEF Found
  <2>5. Exact(Channel, resolve_users(Channel, WithPage), lookup)
    BY <2>2, <2>3, <2>4, SlackExact
  <2> QED BY <1>1, <1>2, <2>2, <2>5, AddSound
<1>3. CASE phase' = "failed" /\ UNCHANGED <<at, providers, lookup, observed>>
  <2>1. backends' = backends /\ backends \subseteq KNOWN_BACKENDS
    BY <1>1 DEF Sound, Reached
  <2> QED BY <1>1, <1>3, <2>1, BuiltKept, LookupKept DEF Sound
<1> QED BY <1>1, <1>2, <1>3

\* Slack refuses a page, which ends the start.
LEMMA PageFailsSound ==
    ASSUME Sound, PageFails
    PROVE  Sound'
<1>1. /\ phase = "building" /\ phase' = "failed" /\ lookup.open
      /\ lookup' = [lookup EXCEPT !.refused = TRUE]
      /\ UNCHANGED <<situation, config, at, backends, providers, directory, observed>>
  BY DEF PageFails
<1>2. Fresh' /\ Loaded' /\ Position' /\ Reached' /\ People' /\ Gates'
  <2>1. backends' = backends /\ backends \subseteq KNOWN_BACKENDS
    BY <1>1 DEF Sound, Reached
  <2> QED BY <1>1, <2>1, BuiltKept
<1>3. /\ lookup' \in Lookups /\ lookup'.open
      /\ lookup'.cursor = lookup.cursor /\ lookup'.name_to_id = lookup.name_to_id
      /\ lookup'.held = lookup.held /\ lookup'.stable = lookup.stable
  <2>1. lookup \in Lookups
    BY DEF Sound, Lookup
  <2> QED BY <1>1, <2>1 DEF Lookups
<1>4. Lookup'
  BY <1>1, <1>3 DEF Sound, Lookup, Reading, Found, Built, Channel
<1> QED BY <1>2, <1>4 DEF Sound

\* Every channel is built, and messages are received.
LEMMA RunSound ==
    ASSUME Sound, Run
    PROVE  Sound'
<1>1. /\ phase = "building" /\ ~lookup.open /\ Built /\ phase' = "running"
      /\ UNCHANGED <<situation, config, at, backends, providers, directory, lookup, observed>>
  BY DEF Run, Building
<1>2. backends' = backends /\ backends \subseteq KNOWN_BACKENDS
  BY <1>1 DEF Sound, Reached
<1> QED BY <1>1, <1>2, BuiltKept, LookupKept DEF Sound

\* Every step keeps the invariant.
LEMMA StepSound == Sound /\ [Next]_vars => Sound'
<1> SUFFICES ASSUME Sound, [Next]_vars PROVE Sound'
  OBVIOUS
<1>1. CASE UNCHANGED vars
  <2> USE <1>1 DEF vars
  <2>1. Fresh' /\ Loaded' /\ Position' /\ Reached' /\ People'
    BY DEF Sound, Fresh, Loaded, Position, Built, Reached, People
  <2>2. Gates'
    BY DEF Sound, Gates, GateExact
  <2>3. Lookup'
    BY LookupKept
  <2> QED BY <2>1, <2>2, <2>3 DEF Sound
<1> QED BY <1>1, ChangeSound, LoadSound, BuildChannelSound, BuildFailsSound, BeginLookupSound,
           ReadPageSound, ReadLastPageSound, PageFailsSound, RunSound DEF Next, Main, Answer

\* The invariant holds in every reachable state.
LEMMA AlwaysSound == Spec => []Sound
<1> QED BY InitSound, StepSound, PTL DEF Spec

-----------------------------------------------------------------------------

\* The types of the start's state; the running daemon has every channel's provider
\* and every workspace's backend.
THEOREM TypeCorrect == Spec => []TypeOK
<1>1. Sound => TypeOK
  <2> SUFFICES ASSUME Sound PROVE TypeOK
    OBVIOUS
  <2>1. ASSUME phase = "running"
        PROVE  \A w \in 1..Len(config) : w < at[1]
    <3>1. IsConfig(config) /\ at[1] \in Nat /\ at[1] > Len(config)
      BY <2>1 DEF Sound, Loaded, Position, Built
    <3> QED BY <3>1 DEF IsConfig
  <2>2. phase \in {"loading", "building", "running", "failed"}
    BY DEF Sound, Fresh
  <2>3. lookup.name_to_id \in [Names -> Members \cup {Unknown}]
    BY DEF Sound, Lookup, Lookups, Maps
  <2> QED BY <2>1, <2>2, <2>3 DEF Sound, Reached, People, Gates, TypeOK
<1> QED BY <1>1, AlwaysSound, PTL

\* However the directory changes while it is read page by page, a gate admits
\* exactly those who are listed.
THEOREM GatesAreExact == Spec => []GateExact
<1>1. Sound => GateExact
  BY DEF Sound, Gates
<1> QED BY <1>1, AlwaysSound, PTL

=============================================================================
