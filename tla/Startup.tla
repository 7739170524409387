------------------------------- MODULE Startup -------------------------------
(***************************************************************************)
(* From the command line to the first message (src/main.rs,                *)
(* src/startup.rs): which file is loaded, what validation asks of it, and  *)
(* the providers built for its channels one after the other.  Building a   *)
(* slack channel turns handles into user ids by reading the workspace's    *)
(* directory page by page, while people join, leave and change names.      *)
(* Nothing is received before every channel has been built.                *)
(***************************************************************************)
EXTENDS Integers, Sequences, FiniteSets

CONSTANTS
    Situations,   \* the command line, the environment and the files it may find
    Missing,      \* no file
    Directories,  \* the directories that exist
    Lower,        \* Lower[n]: the name n in lower case
    RawIds,       \* the names that begin with U or W: slack's user ids
    Members,      \* the people of the slack workspace, in the order of users.list
    IdOf,         \* IdOf[i]: the id of member i
    Names,        \* the names they go by
    Senders,      \* the senders telegram may report: [id, username], None if it has none
    Numbers,      \* the names written in digits, which are telegram's ids
    PageSize,     \* 200 in the code
    MaxChanges    \* a bound of the model: how often the directory changes

ASSUME PageAssumption == PageSize \in Nat \ {0} /\ MaxChanges \in Nat
ASSUME MembersAssumption == IsFiniteSet(Members) /\ Members = 1..Cardinality(Members)

VARIABLES
    situation,  \* the one this start is in
    phase,      \* "loading", "building", "running" or "failed"
    config,     \* the workspaces of the loaded file
    at,         \* <<w, c>>: the next channel to build, the c-th of workspace w
    backends,   \* the backends registered
    providers,  \* the providers built, each with its gate
    directory,  \* directory[i]: what slack says of member i
    changes,    \* how often it has changed
    lookup,     \* the reading of the directory under way
    observed    \* observed[p]: the lookup provider p was built from

vars == <<situation, phase, config, at, backends, providers, directory, changes, lookup, observed>>

None == "none"
Unknown == 0

-----------------------------------------------------------------------------
(* Which configuration.                                                    *)

\* What deserialization makes of a file: workspaces with channels with users, those
\* listed by number without a sign.
IsUser(u) == u.signs \in Nat /\ (u.numeric => u.signs = 0 /\ u.name \in Numbers)
IsWorkspace(ws) ==
    /\ ws.channels \in Seq({ws.channels[c] : c \in DOMAIN ws.channels})
    /\ \A c \in 1..Len(ws.channels) : \A u \in ws.channels[c].users : IsUser(u)
IsConfig(f) == f \in Seq({f[w] : w \in DOMAIN f}) /\ \A w \in 1..Len(f) : IsWorkspace(f[w])

\* config::resolve_path: what is named wins even if it is not there.
resolve_path(s) ==
    LET present == SelectSeq(<<"cwd", "home", "etc">>, LAMBDA l : s.files[l] # Missing)
    IN  CASE s.cli # None -> s.cli
          [] s.cli = None /\ s.env # None -> s.env
          [] s.cli = None /\ s.env = None /\ present # <<>> -> Head(present)
          [] OTHER -> IF s.HOME THEN "home" ELSE "etc"

ASSUME SituationsAssumption ==
    \A s \in Situations : LET file == s.files[resolve_path(s)] IN file = Missing \/ IsConfig(file)

KNOWN_BACKENDS == {"claude-cli", "codex-cli", "gemini-cli"}
KNOWN_CHANNELS == {"telegram", "whatsapp", "slack"}

\* config::validate
validate(workspaces) ==
    /\ workspaces # <<>>
    /\ \A w \in 1..Len(workspaces) :
           LET ws == workspaces[w]
           IN  /\ ws.name # "" /\ ws.directory \in Directories /\ ws.backend \in KNOWN_BACKENDS
               /\ ws.channels # <<>>
               /\ \A c \in 1..Len(ws.channels) :
                      ws.channels[c].kind \in KNOWN_CHANNELS /\ ws.channels[c].users # {}

-----------------------------------------------------------------------------
(* Who may use a channel.  A user is listed by number, or by a handle: a   *)
(* name after some number of "@".  A gate holds such pairs, ids without @. *)

Handles(ch) == {u \in ch.users : ~u.numeric}
Listed(us) == {<<u.signs, u.name>> : u \in us}
IsRaw(u) == u.signs = 0 /\ u.name \in RawIds
HandlesToLookup(ch) == {u.name : u \in {v \in Handles(ch) : ~IsRaw(v)}}
Normalized(u) == <<IF u.signs = 0 THEN 0 ELSE u.signs - 1, Lower[u.name]>>

\* resolve_users of each provider; slack's with the map it has read.
resolve_users(ch, name_to_id) ==
    CASE ch.kind = "telegram" ->
             Listed(ch.users \ Handles(ch)) \cup {Normalized(u) : u \in Handles(ch)}
      [] ch.kind = "whatsapp" -> Listed(Handles(ch))
      [] ch.kind = "slack" ->
             Listed({u \in Handles(ch) : IsRaw(u)})
                 \cup {<<0, IdOf[name_to_id[n]]>> : n \in HandlesToLookup(ch)}

\* A username is no number.
ASSUME SendersAssumption == \A s \in Senders : s.username # None => Lower[s.username] \notin Numbers

\* Telegram admits by username, if there is one, or by id.
admits(gate, sender) ==
    \/ sender.username # None /\ <<0, Lower[sender.username]>> \in gate
    \/ <<0, sender.id>> \in gate

-----------------------------------------------------------------------------
(* The directory: who is listed, by which name, and who has left.          *)

Absent == [name |-> None, deleted |-> TRUE]
Entries == {Absent} \cup [name : Names, deleted : BOOLEAN]
Active(dir) == {<<i, dir[i].name>> : i \in {j \in Members : ~dir[j].deleted}}

\* No two active members share a name.
Proper(dir) == \A x, y \in Active(dir) : x[2] = y[2] => x = y

NoLookup ==
    [open |-> FALSE, refused |-> FALSE, cursor |-> 0, name_to_id |-> [n \in Names |-> Unknown],
     held |-> {}, stable |-> {}]

\* Somebody joins, leaves, comes back or takes another name.
Change ==
    /\ phase \in {"loading", "building"} /\ changes < MaxChanges
    /\ changes' = changes + 1
    /\ \E i \in Members, entry \in Entries \ {Absent} :
           directory' = [directory EXCEPT ![i] = entry]
    /\ Proper(directory') /\ directory' # directory
    /\ lookup' = IF ~lookup.open THEN lookup
                 ELSE [lookup EXCEPT !.held = @ \cup Active(directory'),
                                     !.stable = @ \cap Active(directory')]
    /\ UNCHANGED <<situation, phase, config, at, backends, providers, observed>>

-----------------------------------------------------------------------------
(* main() and build_workspaces.                                            *)

Init ==
    /\ situation \in Situations
    /\ phase = "loading"
    /\ config = <<>> /\ at = <<1, 1>>
    /\ backends = {} /\ providers = <<>> /\ observed = <<>>
    /\ directory \in {dir \in [Members -> Entries] : Proper(dir)}
    /\ changes = 0
    /\ lookup = NoLookup

Load ==
    /\ phase = "loading"
    /\ LET file == situation.files[resolve_path(situation)]
       IN  IF file # Missing /\ validate(file)
           THEN phase' = "building" /\ config' = file
           ELSE phase' = "failed" /\ UNCHANGED config
    /\ UNCHANGED <<situation, at, backends, providers, directory, changes, lookup, observed>>

Channel == config[at[1]].channels[at[2]]
Building == phase = "building" /\ ~lookup.open
Built == at[1] > Len(config)

\* A slack channel needs app_token, a whatsapp channel phone_number_id.
Complete(ch) == ch.kind = "telegram" \/ ch.credential

\* Mutant: the first backend only.
RegisteredOnce == IF at[1] = 1 THEN {config[1].backend} ELSE backends

\* A workspace registers its backend before its channels are built.
Registered == backends \cup {config[at[1]].backend}

Add(name_to_id) ==
    /\ providers' = Append(providers, [channel |-> Channel,
                                       gate |-> resolve_users(Channel, name_to_id)])
    /\ at' = IF at[2] < Len(config[at[1]].channels) THEN <<at[1], at[2] + 1>> ELSE <<at[1] + 1, 1>>
    /\ lookup' = NoLookup /\ observed' = Append(observed, lookup)
    /\ UNCHANGED phase

\* A channel without handles to look up.
BuildChannel ==
    /\ Building /\ ~Built /\ Complete(Channel)
    /\ Channel.kind = "slack" => HandlesToLookup(Channel) = {}
    /\ backends' = Registered
    /\ Add(NoLookup.name_to_id)
    /\ UNCHANGED <<situation, config, directory, changes>>

BuildFails ==
    /\ Building /\ ~Built /\ ~Complete(Channel)
    /\ phase' = "failed"
    /\ backends' = Registered
    /\ UNCHANGED <<situation, config, at, providers, directory, changes, lookup, observed>>

BeginLookup ==
    /\ Building /\ ~Built /\ Complete(Channel)
    /\ Channel.kind = "slack" /\ HandlesToLookup(Channel) # {}
    /\ backends' = Registered
    /\ lookup' = [NoLookup EXCEPT !.open = TRUE, !.held = Active(directory),
                                  !.stable = Active(directory)]
    /\ UNCHANGED <<situation, phase, config, at, providers, directory, changes, observed>>

PageOf(cursor) == {i \in Members : cursor < i /\ i <= cursor + PageSize}

\* The cursor for the page after this one; an empty one, Unknown, if there is none.
NextCursor ==
    IF \E i \in Members : i > lookup.cursor + PageSize /\ directory[i] # Absent
    THEN lookup.cursor + PageSize
    ELSE Unknown

\* Mutant: an empty cursor is sent like any other, and the reading starts over.
NoLastPage == FALSE

LastPage == NextCursor = Unknown

\* Mutant: those who have left are not dropped.
WithWholePage ==
    [n \in Names |->
        LET found == {i \in PageOf(lookup.cursor) : directory[i].name = n}
        IN  IF found = {} THEN lookup.name_to_id[n] ELSE CHOOSE i \in found : TRUE]

\* The page's members, those who have left dropped, join the map.
WithPage ==
    [n \in Names |->
        LET found == {i \in PageOf(lookup.cursor) :
                          ~directory[i].deleted /\ directory[i].name = n}
        IN  IF found = {} THEN lookup.name_to_id[n] ELSE CHOOSE i \in found : TRUE]

\* One more page, and there are others.
ReadPage ==
    /\ phase = "building" /\ lookup.open
    /\ ~LastPage
    /\ lookup' = [lookup EXCEPT !.cursor = NextCursor, !.name_to_id = WithPage]
    /\ UNCHANGED <<situation, phase, config, at, backends, providers, directory, changes, observed>>

\* The last page; a handle nobody goes by ends the start.
ReadLastPage ==
    /\ phase = "building" /\ lookup.open
    /\ LastPage
    /\ IF \A n \in HandlesToLookup(Channel) : n \in Names /\ WithPage[n] # Unknown
       THEN Add(WithPage)
       ELSE phase' = "failed" /\ UNCHANGED <<at, providers, lookup, observed>>
    /\ UNCHANGED <<situation, config, backends, directory, changes>>

\* users.list cannot be reached, is not understood or says no.
PageFails ==
    /\ phase = "building" /\ lookup.open
    /\ phase' = "failed"
    /\ lookup' = [lookup EXCEPT !.refused = TRUE]
    /\ UNCHANGED <<situation, config, at, backends, providers, directory, changes, observed>>

\* spawn_router, spawn_providers and spawn_config_watcher: from here on see Lifecycle.
Run ==
    /\ Building /\ Built
    /\ phase' = "running"
    /\ UNCHANGED <<situation, config, at, backends, providers, directory, changes, lookup, observed>>

Main == Load \/ BuildChannel \/ BuildFails \/ BeginLookup \/ Run

\* The requests have no timeout: they end because slack answers.
Answer == ReadPage \/ ReadLastPage \/ PageFails

Next == Change \/ Main \/ Answer

Spec == Init /\ [][Next]_vars /\ WF_vars(Main) /\ WF_vars(Answer)

-----------------------------------------------------------------------------

(***************************************************************************)
(* Types; and when messages are received, every workspace /use may choose  *)
(* has its backend registered, so that the router finds it                 *)
(* (src/router.rs:229), and every channel has its provider.                *)
(***************************************************************************)
TypeOK ==
    /\ phase \in {"loading", "building", "running", "failed"}
    /\ directory \in [Members -> Entries] /\ Proper(directory)
    /\ lookup.name_to_id \in [Names -> Members \cup {Unknown}]
    /\ Len(providers) = Len(observed) /\ backends \subseteq KNOWN_BACKENDS
    /\ phase = "running" =>
           /\ \A w \in 1..Len(config) : config[w].backend \in backends
           /\ \A w \in 1..Len(config) : \A c \in 1..Len(config[w].channels) :
                  \E p \in 1..Len(providers) : providers[p].channel = config[w].channels[c]

(***************************************************************************)
(* A gate admits exactly those listed (src/security.rs:5).  On slack: an   *)
(* id is there if it is listed, or if an active member who goes by a       *)
(* listed handle had it all the time the directory was read; and only if   *)
(* it is listed, or such a member had it at some moment of that time -     *)
(* never for someone who had already left.  On telegram: whoever's id or   *)
(* name, whatever its case, is listed, the id as a number or as a handle   *)
(* written in digits.                                                      *)
(***************************************************************************)
GateExact ==
    \A p \in 1..Len(providers) :
        LET ch == providers[p].channel
            gate == providers[p].gate
            raw == Listed({u \in Handles(ch) : IsRaw(u)})
            named(pairs) ==
                {<<0, IdOf[x[1]]>> : x \in {y \in pairs : y[2] \in HandlesToLookup(ch)}}
        IN  /\ ch.kind = "slack" =>
                   /\ raw \cup named(observed[p].stable) \subseteq gate
                   /\ gate \subseteq raw \cup named(observed[p].held)
            /\ ch.kind = "telegram" => \A s \in Senders :
                   admits(gate, s) <=>
                       \E u \in ch.users :
                           \/ u.numeric /\ u.name = s.id
                           \/ /\ ~u.numeric /\ u.signs <= 1
                              /\ \/ Lower[u.name] = s.id
                                 \/ s.username # None /\ Lower[u.name] = Lower[s.username]

\* What may keep the daemon from running.
Excused ==
    \/ config = <<>> /\ LET file == situation.files[resolve_path(situation)]
                        IN  file = Missing \/ ~validate(file)
    \/ config # <<>> /\ ~Complete(Channel)
    \/ lookup.refused
    \/ lookup.open /\ \E n \in HandlesToLookup(Channel) : \A x \in lookup.stable : x[2] # n

(***************************************************************************)
(* Every start ends: the daemon runs, or it gives up for a reason - the    *)
(* file, a missing credential, slack's refusal, or a handle that was not   *)
(* an active member's all the time - however the directory changes and     *)
(* however many pages it has.                                              *)
(***************************************************************************)
StartEnds == <>(phase = "running" \/ (phase = "failed" /\ Excused))

=============================================================================
