--------------------------- MODULE ConfigCommands ---------------------------
(***************************************************************************)
(* rustifymyclaw config set, init and allow-path (src/cli/config_cmd) as   *)
(* processes that share the config file, the temporary file next to it,    *)
(* the access control lists and the systemd override.  Every call that     *)
(* touches a file is a step of its own, between which another command may  *)
(* run or this one may be killed; fs::write is two, one that empties the   *)
(* file and one that fills it.                                             *)
(***************************************************************************)
EXTENDS ConfigFile

CONSTANTS
    Scenarios,   \* the commands that are run, on what files
    Parents,     \* Parents[path]: what traversal_parents finds above it
    Template,    \* the file init writes
    Grammar      \* segments that well-formed keys are rendered from

IsSequence(s) == s \in Seq({s[i] : i \in DOMAIN s})

\* A document is made of nodes, and has the parents of all its paths.
IsNode(node) ==
    \/ node \in {Mapping, Sequence}
    \/ IsScalar(node) /\ node = <<node[1], node[2]>>
Closed(file) ==
    Parses(file) => \A p \in DOMAIN file.tree :
        /\ IsSequence(p) /\ IsNode(file.tree[p])
        /\ \A i \in 0..Len(p) : SubSeq(p, 1, i) \in DOMAIN file.tree

ASSUME TemplateAssumption == Closed(Template)
ASSUME ParentsAssumption == \A path \in DOMAIN Parents : IsSequence(Parents[path])
ASSUME GrammarAssumption == \A g \in Grammar :
    /\ g # <<>> /\ IsSequence(g)
    /\ \A i \in 1..Len(g) : \/ g[i] = Key(g[i][2]) /\ g[i][2] \notin Syntax
                            \/ g[i] = Index(g[i][2]) /\ <<g[i][2]>> \in DOMAIN Numbers
                                                    /\ Numbers[<<g[i][2]>>] = g[i][2]
ASSUME ScenariosAssumption == \A s \in Scenarios :
    /\ \A c \in DOMAIN s.args :
        /\ s.args[c].command \in {"set", "init", "allow-path"}
        /\ s.args[c].command = "set" => IsSequence(s.args[c].key)
        /\ s.args[c].command = "allow-path" => s.args[c].path \in DOMAIN Parents
    /\ Closed(s.config)
    /\ s.override.is = "lines" => IsSequence(s.override.lines)

VARIABLES
    args,      \* args[c]: the command line of command c
    pc,        \* pc[c]: where the command is
    disk,      \* the files: config, temp and override
    acl,       \* the access control entries that setfacl has made
    new,       \* new[c]: what the command is going to write
    valid,     \* valid[c]: whether load_from_path accepted it
    grants,    \* grants[c]: how many calls of setfacl have succeeded
    before,    \* history: the files when the last command started
    last,      \* history: that command
    alone      \* history: the commands that no other has overlapped

vars == <<args, pc, disk, acl, new, valid, grants, before, last, alone>>

Commands == DOMAIN args
Files == {"config", "temp", "override"}
Ended == {"idle", "ok", "rejected", "stopped"}
Active == {c \in Commands : pc[c] \notin Ended}

LinesOf(file) == IF file.is = "lines" THEN file.lines ELSE <<>>
GrantsOf(path) == Grants(path, Parents[path])

\* The paths that a file lists, wherever it does.
Listed(file) == {path \in DOMAIN Parents : Contains(LinesOf(file), ReadWritePaths(path))}

\* What the override lists at first an earlier allow-path has granted.
Init ==
    /\ \E s \in Scenarios :
        /\ args = s.args
        /\ disk = [config |-> s.config, temp |-> Missing, override |-> s.override]
    /\ pc = [c \in Commands |-> "idle"]
    /\ acl = UNION {Range(GrantsOf(path)) : path \in Listed(disk.override)}
    /\ new = [c \in Commands |-> Missing]
    /\ valid = [c \in Commands |-> FALSE]
    /\ grants = [c \in Commands |-> 0]
    /\ before = disk /\ last \in Commands /\ alone = {}

Goto(c, state) == pc' = [pc EXCEPT ![c] = state]
History == <<before, last, alone>>

Begin(c) ==
    /\ pc[c] = "idle"
    /\ Goto(c, CASE args[c].command = "set" -> "read"
                 [] args[c].command = "init" -> "confirm"
                 [] args[c].command = "allow-path" -> "grant")
    /\ before' = disk /\ last' = c
    /\ alone' = IF Active = {} THEN alone \cup {c} ELSE alone \ Active
    /\ UNCHANGED <<args, disk, acl, new, valid, grants>>

\* A command is killed, or a call of it fails: it ends where it is.
Stop(c) ==
    /\ c \in Active /\ Goto(c, "stopped")
    /\ UNCHANGED <<args, disk, acl, new, valid, grants, History>>

-----------------------------------------------------------------------------
(* fs::write: open empties the file; write_all fills it from its start, so *)
(* what another has put there meanwhile may show behind it, and the file   *)
(* may have been removed.                                                  *)

Open(c, file, state) ==
    /\ disk' = [disk EXCEPT ![file] = Empty]
    /\ Goto(c, state)
    /\ UNCHANGED <<args, acl, new, valid, grants, History>>

Fill(c, file, state) ==
    /\ \E left \in CASE disk[file] = Missing -> {Missing}
                     [] disk[file] = Empty -> {new[c]}
                     [] OTHER -> {new[c], Garbled} :
           disk' = [disk EXCEPT ![file] = left]
    /\ Goto(c, state)
    /\ UNCHANGED <<args, acl, new, valid, grants, History>>

-----------------------------------------------------------------------------
(* set                                                                     *)

Target(c) == parse(args[c].key)

ReadConfig(c) ==
    /\ pc[c] = "read"
    /\ IF Parses(disk.config) /\ CanResolveMut(disk.config.tree, Target(c))
       THEN /\ new' = [new EXCEPT ![c] =
                   Yaml(Edit(disk.config.tree, Target(c), auto_value(args[c].value)), {})]
            /\ Goto(c, "open temp")
       ELSE Goto(c, "rejected") /\ UNCHANGED new
    /\ UNCHANGED <<args, disk, acl, valid, grants, History>>

OpenTemp(c) == pc[c] = "open temp" /\ Open(c, "temp", "fill temp")
FillTemp(c) == pc[c] = "fill temp" /\ Fill(c, "temp", "validate")

\* Mutant: the file as it is, instead of the edited one, is validated.
ValidateConfig(c) ==
    /\ pc[c] = "validate" /\ Goto(c, "remove")
    /\ valid' = [valid EXCEPT ![c] = load_from_path(disk.config)]
    /\ UNCHANGED <<args, disk, acl, new, grants, History>>

Validate(c) ==
    /\ pc[c] = "validate" /\ Goto(c, "remove")
    /\ valid' = [valid EXCEPT ![c] = load_from_path(disk.temp)]
    /\ UNCHANGED <<args, disk, acl, new, grants, History>>

\* Mutant: a rejected edit is left behind.
RemoveTempIfAccepted(c) ==
    /\ pc[c] = "remove" /\ Goto(c, IF valid[c] THEN "open config" ELSE "rejected")
    /\ disk' = [disk EXCEPT !.temp = IF valid[c] THEN Missing ELSE @]
    /\ UNCHANGED <<args, acl, new, valid, grants, History>>

RemoveTemp(c) ==
    /\ pc[c] = "remove" /\ Goto(c, IF valid[c] THEN "open config" ELSE "rejected")
    /\ disk' = [disk EXCEPT !.temp = Missing]
    /\ UNCHANGED <<args, acl, new, valid, grants, History>>

OpenConfig(c) == pc[c] = "open config" /\ Open(c, "config", "fill config")
FillConfig(c) == pc[c] = "fill config" /\ Fill(c, "config", "ok")

-----------------------------------------------------------------------------
(* init: an existing file is overwritten when the user says so.            *)

Confirm(c) ==
    /\ pc[c] = "confirm"
    /\ new' = [new EXCEPT ![c] = Template]
    /\ \/ Goto(c, "open config")
       \/ disk.config # Missing /\ Goto(c, "rejected")
    /\ UNCHANGED <<args, disk, acl, valid, grants, History>>

-----------------------------------------------------------------------------
(* allow-path                                                              *)

\* Mutant: the default entries are left to the end, after the override.
GrantAllButDefault(c) ==
    /\ pc[c] = "grant"
    /\ acl' = acl \cup {GrantsOf(args[c].path)[grants[c] + 1]}
    /\ grants' = [grants EXCEPT ![c] = @ + 1]
    /\ Goto(c, IF grants[c] + 2 >= Len(GrantsOf(args[c].path)) THEN "read override" ELSE "grant")
    /\ UNCHANGED <<args, disk, new, valid, History>>

\* One call of setfacl succeeds.
Grant(c) ==
    /\ pc[c] = "grant"
    /\ acl' = acl \cup {GrantsOf(args[c].path)[grants[c] + 1]}
    /\ grants' = [grants EXCEPT ![c] = @ + 1]
    /\ Goto(c, IF grants[c] + 1 = Len(GrantsOf(args[c].path)) THEN "read override" ELSE "grant")
    /\ UNCHANGED <<args, disk, new, valid, History>>

\* An override garbled by two commands at once is not followed any further.
ReadOverride(c) ==
    LET existing == LinesOf(disk.override)
        merged == merge_allowed_path(existing, args[c].path)
    IN  /\ pc[c] = "read override" /\ disk.override # Garbled
        /\ new' = [new EXCEPT ![c] = Lines(merged)]
        /\ Goto(c, IF Contains(existing, ReadWritePaths(args[c].path)) THEN "ok" ELSE "open override")
        /\ UNCHANGED <<args, disk, acl, valid, grants, History>>

OpenOverride(c) == pc[c] = "open override" /\ Open(c, "override", "fill override")
FillOverride(c) == pc[c] = "fill override" /\ Fill(c, "override", "ok")

Set(c) ==
    \/ ReadConfig(c) \/ OpenTemp(c) \/ FillTemp(c) \/ Validate(c) \/ RemoveTemp(c)
    \/ OpenConfig(c) \/ FillConfig(c)
AllowPath(c) == Grant(c) \/ ReadOverride(c) \/ OpenOverride(c) \/ FillOverride(c)

Next == \E c \in Commands : Begin(c) \/ Stop(c) \/ Set(c) \/ Confirm(c) \/ AllowPath(c)

Spec == Init /\ [][Next]_vars

-----------------------------------------------------------------------------

\* Types; the temporary file is there only while a set is at work on it, or
\* because one was stopped.
TypeOK ==
    /\ \E s \in Scenarios : args = s.args
    /\ \A c \in Commands : pc[c] \in Ended \cup
           {"read", "open temp", "fill temp", "validate", "remove", "open config", "fill config",
            "confirm", "grant", "read override", "open override", "fill override"}
    /\ DOMAIN disk = Files
    /\ last \in Commands /\ alone \subseteq Commands
    /\ \A c \in Commands : args[c].command = "allow-path" =>
           grants[c] \in 0..Len(GrantsOf(args[c].path))
    /\ disk.temp # Missing => \E c \in Commands :
           args[c].command = "set" /\ pc[c] \in {"fill temp", "validate", "remove", "stopped"}

\* path = segment ('.' segment)*, segment = identifier ('[' number ']')*, as
\* src/cli/config_cmd/dotted_path.rs:13 has it; Rendering(g)[n] is its first n segments.
Piece(g, i) ==
    CASE g[i][1] = "index" -> <<"[", g[i][2], "]">>
      [] g[i][1] = "key" /\ i = 1 -> <<g[i][2]>>
      [] OTHER -> <<".", g[i][2]>>
Rendering(g) ==
    LET rendered[n \in 0..Len(g)] == IF n = 0 THEN <<>> ELSE rendered[n - 1] \o Piece(g, n)
    IN  rendered
Rendered == [g \in Grammar |-> Rendering(g)[Len(g)]]

Finished(command) == last \in alone /\ args[last].command = command

\* What rewriting may change: a variable that loses its quotes, or a plain scalar
\* that serde_yaml spells otherwise, such as 1e1.
Respelt(node) ==
    \/ node[1] = "quoted" /\ node[2] \in Placeholders
    \/ node[1] = "plain" /\ serialise(Value(node)) # node

(***************************************************************************)
(* A set that no other command overlaps either leaves the config file as   *)
(* it was, or leaves one that loads and in which get finds the new value.  *)
(* With a key of the grammar every other key has the value it had, and     *)
(* variables are still variables; it loads as what it did, unless its      *)
(* spelling changed.  An edit of an existing key that leaves a valid       *)
(* config is never rejected, unless the spelling of another key changes.   *)
(* All this whatever an earlier command that was killed has left on disk.  *)
(***************************************************************************)
SetExact ==
    Finished("set") =>
        LET old == before.config
            set == auto_value(args[last].value)
            Kept(g) == {p \in DOMAIN old.tree : ~IsPrefix(g, p)}
            Named == {g \in Grammar : Rendered[g] = args[last].key}
        IN  /\ pc[last] = "rejected" =>
                /\ disk.config = old
                /\ Parses(old) => \A g \in Named \cap DOMAIN old.tree :
                       (\A p \in Kept(g) : ~Respelt(old.tree[p])) =>
                           ~load_from_path(Yaml([p \in Kept(g) \cup {g} |->
                                IF p = g THEN serialise(set) ELSE old.tree[p]], {}))
            /\ pc[last] = "ok" =>
                /\ load_from_path(disk.config)
                /\ CanResolve(disk.config.tree, Target(last))
                /\ Value(disk.config.tree[Target(last)]) = set
                /\ \A g \in Named :
                    /\ Target(last) = g
                    /\ DOMAIN disk.config.tree = Kept(g) \cup {g}
                    /\ \A p \in Kept(g) :
                        /\ Value(disk.config.tree[p]) = Value(old.tree[p])
                        /\ Respelt(old.tree[p]) \/ Read(disk.config.tree[p]) = Read(old.tree[p])

(***************************************************************************)
(* The service is told of a path it may write to only when every access    *)
(* control entry for it is in place, wherever allow-path is killed or      *)
(* fails, and however two of them overlap.                                 *)
(***************************************************************************)
ListedMeansGranted ==
    \A path \in Listed(disk.override) :
        \A i \in 1..Len(GrantsOf(path)) : GrantsOf(path)[i] \in acl

\* The paths that systemd reads in the section they belong in.
Writable(lines) ==
    {path \in DOMAIN Parents : \E i \in 1..Len(lines), h \in 1..Len(lines) :
        /\ h < i /\ lines[h] = Header("Service") /\ lines[i] = ReadWritePaths(path)
        /\ \A k \in h + 1..i : lines[k][1] # "header"}

(***************************************************************************)
(* After an allow-path that no other command overlaps the service may      *)
(* write to its path, and to whatever it could before, unless the override *)
(* had the text "[Service]" but not as a section, or listed the path in    *)
(* another section.                                                        *)
(***************************************************************************)
AllowedIsWritable ==
    Finished("allow-path") /\ pc[last] = "ok" =>
        LET old == LinesOf(before.override)
        IN  /\ Writable(old) \subseteq Writable(LinesOf(disk.override))
            /\ /\ Contains(old, Header("Service")) \/ ~Mentions(old)
               /\ args[last].path \notin Listed(before.override)
               => args[last].path \in Writable(LinesOf(disk.override))

=============================================================================
