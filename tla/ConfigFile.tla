------------------------------ MODULE ConfigFile ------------------------------
(***************************************************************************)
(* What the commands of src/cli/config_cmd compute: dotted paths and the   *)
(* edit they name (dotted_path.rs), whether a file loads                   *)
(* (load_from_path, src/config.rs), and the systemd override of allow-path *)
(* (allow_path.rs).                                                        *)
(*                                                                         *)
(* The text of a YAML document is a function from the paths that exist in  *)
(* it to nodes: <<"mapping", "">>, <<"sequence", "">>, or a scalar, which  *)
(* is <<"plain", text>> or <<"quoted", text>>.  What serde_yaml reads in a *)
(* node is a value of a kind.  A scalar is a literal or one variable, as   *)
(* in "${VAR}"; a key has none.                                            *)
(*                                                                         *)
(* A key typed by the user is a sequence of names, numbers and the three   *)
(* characters the parser looks for.                                        *)
(***************************************************************************)
EXTENDS Integers, Sequences, FiniteSets, SequencesExt

CONSTANTS
    Numbers,      \* Numbers[n]: the index that the tokens n spell, "+0" that of "0"
    Placeholders, \* the ${VAR} that a file may mention
    Environment   \* Environment[v]: the text of the variable, of those that are set

ASSUME EnvironmentAssumption == DOMAIN Environment \subseteq Placeholders

-----------------------------------------------------------------------------
(* serde_yaml.                                                             *)

Mapping == <<"mapping", "">>
Sequence == <<"sequence", "">>
Broken == <<"broken", "">>
TwoLines == "two\nlines"

\* What a plain scalar is read as, a number or null in the one form serde_yaml
\* writes; a ": " or a line break in it, or an "@" before it, breaks the document.
plain(text) ==
    CASE text \in {"10", "+10"} -> <<"integer", "10">>
      [] text \in {"7", "-1"} -> <<"integer", text>>
      [] text \in {"1e1", "10.0"} -> <<"float", "10.0">>
      [] text = ".nan" -> <<"float", ".nan">>
      [] text \in {"true", "false"} -> <<"boolean", text>>
      [] text \in {"null", "~"} -> <<"null", "null">>
      [] text = "[]" -> Sequence
      [] text = "{}" -> Mapping
      [] text \in {"a: b", "@user", TwoLines} -> Broken
      [] OTHER -> <<"string", text>>

IsScalar(node) == node[1] \in {"plain", "quoted"}

\* What a node is read as.
Value(node) ==
    CASE node[1] = "plain" -> plain(node[2])
      [] node[1] = "quoted" -> <<"string", node[2]>>
      [] OTHER -> node

\* How a value is written: a string without quotes, unless it would be read as
\* something else.
serialise(v) ==
    CASE v[1] \in {"mapping", "sequence"} -> v
      [] v[1] = "string" /\ plain(v[2]) # v -> <<"quoted", v[2]>>
      [] OTHER -> <<"plain", v[2]>>

-----------------------------------------------------------------------------
(* dotted_path.rs                                                          *)

\* What the parser looks for.
Syntax == {".", "[", "]"}
ASSUME NumbersAssumption ==
    \A n \in DOMAIN Numbers : \A i \in DOMAIN n : n[i] \notin Syntax

Key(name) == <<"key", name>>
Index(i) == <<"index", i>>

\* Reading a name or what is in a bracket; buf is what it has of it so far.
Start == [ok |-> TRUE, at |-> "name", buf |-> <<>>, segments |-> <<>>]

Flush(s) ==
    IF s.buf = <<>> THEN s
    ELSE [s EXCEPT !.segments = Append(@, <<"key">> \o s.buf), !.buf = <<>>]

CloseBracket(s) ==
    IF s.buf \in DOMAIN Numbers
    THEN [s EXCEPT !.segments = Append(@, Index(Numbers[s.buf])), !.buf = <<>>, !.at = "name"]
    ELSE [s EXCEPT !.ok = FALSE]

ParseToken(s, c) ==
    CASE ~s.ok -> s
      [] s.ok /\ s.at = "name" /\ c = "." -> Flush(s)
      [] s.ok /\ s.at = "name" /\ c = "[" -> [Flush(s) EXCEPT !.at = "index"]
      [] s.ok /\ s.at = "index" /\ c = "]" -> CloseBracket(s)
      [] OTHER -> [s EXCEPT !.buf = Append(@, c)]

\* Reading(key)[i]: after i tokens.
Reading(key) ==
    LET read[i \in 0..Len(key)] == IF i = 0 THEN Start ELSE ParseToken(read[i - 1], key[i])
    IN  read

\* The segments of a key, none if it is rejected: empty, an unclosed bracket,
\* an index that is not a number.
parse(key) ==
    LET s == Flush(Reading(key)[Len(key)])
    IN  IF s.ok /\ s.at = "name" THEN s.segments ELSE <<>>

\* resolve: the path exists, or its last segment can be added to a mapping.
CanResolveMut(tree, segments) ==
    /\ segments # <<>>
    /\ \A i \in 1..Len(segments) :
        LET parent == SubSeq(segments, 1, i - 1)
        IN  /\ parent \in DOMAIN tree
            /\ \/ SubSeq(segments, 1, i) \in DOMAIN tree
               \/ segments[i][1] = "key" /\ Value(tree[parent]) = Mapping

CanResolve(tree, segments) == segments # <<>> /\ segments \in DOMAIN tree

\* A number may be spelt with a sign or with zeros before it, a float by a name.
auto_value(raw) ==
    CASE raw \in {"10", "+10", "010"} -> <<"integer", "10">>
      [] raw \in {"7", "-1"} -> <<"integer", raw>>
      [] raw \in {"1e1", "10.0"} -> <<"float", "10.0">>
      [] raw = "nan" -> <<"float", ".nan">>
      [] raw \in {"true", "false"} -> <<"boolean", raw>>
      [] raw \in {"null", "~"} -> <<"null", "null">>
      [] OTHER -> <<"string", raw>>

\* set writes the whole document anew.
Edit(tree, segments, v) ==
    [p \in {q \in DOMAIN tree : ~IsPrefix(segments, q)} \cup {segments} |->
        serialise(IF p = segments THEN v ELSE Value(tree[p]))]

-----------------------------------------------------------------------------
(* Files.                                                                  *)

Missing == [is |-> "missing"]
Empty == [is |-> "empty"]
Garbled == [is |-> "garbled"]   \* what two writers at once may leave
Yaml(tree, comments) == [is |-> "yaml", tree |-> tree, comments |-> comments]
Lines(lines) == [is |-> "lines", lines |-> lines]

\* Whether serde_yaml reads it as it is, the variables as strings.
Parses(file) == file.is = "yaml" /\ \A p \in DOMAIN file.tree : Value(file.tree[p]) # Broken

\* The variables are replaced in the text, so those in comments count too.
References(file) ==
    LET scalars == {p \in DOMAIN file.tree : IsScalar(file.tree[p])}
    IN  file.comments \cup ({file.tree[p][2] : p \in scalars} \cap Placeholders)

interpolates(file) == References(file) \subseteq DOMAIN Environment

Interpolated(node) ==
    IF IsScalar(node) /\ node[2] \in DOMAIN Environment
    THEN <<node[1], Environment[node[2]]>> ELSE node

\* What is read in a node then: its value and, for the fields that are text,
\* which take any scalar, its text.
Read(node) ==
    LET n == Interpolated(node)
    IN  [value |-> Value(n), text |-> IF IsScalar(n) THEN n[2] ELSE ""]
ReadTree(tree) == [p \in DOMAIN tree |-> Read(tree[p])]

Is(config, path, kinds) == path \in DOMAIN config /\ config[path].value[1] \in kinds
Unsigned(config, path) ==
    Is(config, path, {"integer"}) /\ config[path].value # <<"integer", "-1">>
String(config, path) ==
    path \in DOMAIN config /\ config[path].value[1] \notin {"mapping", "sequence"}
Workspaces == <<Key("workspaces")>>
KNOWN_BACKENDS == {"claude-cli", "codex-cli", "gemini-cli"}

\* The required fields, and validate(); unknown fields are ignored.  A workspace
\* stands for its channel as well; of both only the backend, the token and an
\* allowed user, a number or a handle, are in the model.
WellFormed(config) ==
    /\ Is(config, <<>>, {"mapping"})
    /\ Is(config, <<Key("output")>>, {"mapping"})
    /\ Unsigned(config, <<Key("output"), Key("max")>>)
    /\ Is(config, Workspaces, {"sequence"})
    /\ Workspaces \o <<Index("0")>> \in DOMAIN config
    /\ \A n \in DOMAIN Numbers :
        LET workspace == Workspaces \o <<Index(Numbers[n])>>
        IN  workspace \in DOMAIN config =>
                /\ Is(config, workspace, {"mapping"})
                /\ String(config, workspace \o <<Key("backend")>>)
                /\ config[workspace \o <<Key("backend")>>].text \in KNOWN_BACKENDS
                /\ String(config, workspace \o <<Key("token")>>)
                /\ Is(config, workspace \o <<Key("user")>>, {"integer", "string"})
    /\ <<Key("limits")>> \in DOMAIN config =>
        \/ Is(config, <<Key("limits")>>, {"null"})
        \/ /\ Is(config, <<Key("limits")>>, {"mapping"})
           /\ Unsigned(config, <<Key("limits"), Key("max")>>)

\* The variables are replaced before the text is parsed: one that is no string
\* changes the type or the structure of the document, or breaks it.
load_from_path(file) ==
    /\ file.is = "yaml" /\ interpolates(file)
    /\ \A v \in file.comments : Environment[v] # TwoLines
    /\ LET config == ReadTree(file.tree)
       IN  (\A p \in DOMAIN config : config[p].value # Broken) /\ WellFormed(config)

-----------------------------------------------------------------------------
(* allow_path.rs                                                           *)

Header(name) == <<"header", name>>
ReadWritePaths(path) == <<"ReadWritePaths", path>>

\* The text "[Service]" may also be in a comment.
Mentions(lines) == Contains(lines, Header("Service")) \/ Contains(lines, <<"comment", "Service">>)

\* Mutant: the entry goes to the end of the file.
MergeAtEnd(existing, path) == Append(existing, ReadWritePaths(path))

\* Where line i goes: a line is added below every "[Service]" above it.
Place(existing, i) == i + Cardinality({h \in 1..i - 1 : existing[h] = Header("Service")})

merge_allowed_path(existing, path) ==
    LET entry == ReadWritePaths(path)
        From(j) == {i \in 1..Len(existing) : Place(existing, i) = j}
    IN  IF Contains(existing, entry) THEN existing
        ELSE IF Mentions(existing)
        THEN [j \in 1..Place(existing, Len(existing) + 1) - 1 |->
                 IF From(j) = {} THEN entry ELSE existing[CHOOSE i \in From(j) : TRUE]]
        ELSE existing \o <<Header("Service"), entry>>

\* What setfacl is told, in order, for a path below those of parents.
Grants(path, parents) ==
    [i \in 1..Len(parents) |-> <<"x", parents[i]>>] \o <<<<"rwX", path>>, <<"default", path>>>>

=============================================================================
