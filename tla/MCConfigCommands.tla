-------------------------- MODULE MCConfigCommands --------------------------
(* Instances of ConfigCommands for TLC.                                    *)
EXTENDS ConfigCommands, TLC

CONSTANTS c1, c2

Tokens == {"output", "max", "workspaces", "0", ".", "[", "]"}

\* "00" and "+0" spell an index as well.
SomeNumbers ==
    (<<"0">> :> "0") @@ (<<"1">> :> "1") @@ (<<"0", "0">> :> "0") @@ (<<"+", "0">> :> "0")

\* Every key of up to three tokens, those the grammar renders, and some with
\* another spelling of an index.
SomeGrammar ==
    {<<Key("output")>>, <<Key("output"), Key("max")>>, <<Key("max"), Key("max")>>,
     <<Key("output"), Key("max"), Key("max")>>, <<Key("limits")>>, <<Key("limits"), Key("max")>>,
     <<Key("workspaces")>>, <<Key("workspaces"), Index("0")>>, <<Key("workspaces"), Index("1")>>,
     <<Key("workspaces"), Index("0"), Key("backend")>>,
     <<Key("workspaces"), Index("0"), Key("token")>>,
     <<Key("workspaces"), Index("1"), Key("backend")>>,
     <<Key("workspaces"), Index("0"), Index("0")>>, <<Key("output"), Index("0"), Key("max")>>}
Spelt == {<<"workspaces", "[", a, "0", "]", ".", "token">> : a \in {"0", "+", "1"}}
Keys == UNION {[1..n -> Tokens] : n \in 0..3} \cup {Rendered[g] : g \in SomeGrammar} \cup Spelt

SetArgs(key, value) == [command |-> "set", key |-> key, value |-> value]
InitArgs == [command |-> "init"]
AllowArgs(path) == [command |-> "allow-path", path |-> path]

Values == {"10", "+10", "-1", "010", "nan", "1e1", "~", "true", "unknown", "a: b", "[]",
           "${WORD}", "${NUMBER}", "${LIST}", "${PAIR}", "${UNSET}"}
OutputMax == Rendered[<<Key("output"), Key("max")>>]
Backend == Rendered[<<Key("workspaces"), Index("0"), Key("backend")>>]
Token == Rendered[<<Key("workspaces"), Index("0"), Key("token")>>]

\* One set with any key, or with any value; two commands on the config with few;
\* two allow-path.
Alone == {SetArgs(k, "10") : k \in Keys}
             \cup {SetArgs(k, v) : k \in {OutputMax, Backend, Token, <<"limits">>}, v \in Values}
Together ==
    {SetArgs(OutputMax, "10"), SetArgs(OutputMax, "text"), SetArgs(Backend, "${WORD}"), InitArgs}
Paths == {AllowArgs("/srv/a"), AllowArgs("/srv/b")}

ParentsOf == ("/srv/a" :> <<"/srv">>) @@ ("/srv/b" :> <<"/srv">>)

Root == <<>> :> Mapping
Output(max) == (<<Key("output")>> :> Mapping) @@ (<<Key("output"), Key("max")>> :> max)
Workspace(token, user) ==
    (Workspaces :> Sequence)
        @@ (Workspaces \o <<Index("0")>> :> Mapping)
        @@ (Workspaces \o <<Index("0"), Key("backend")>> :> <<"quoted", "claude-cli">>)
        @@ (Workspaces \o <<Index("0"), Key("token")>> :> token)
        @@ (Workspaces \o <<Index("0"), Key("user")>> :> user)
Limits == (<<Key("limits")>> :> Mapping) @@ (<<Key("limits"), Key("max")>> :> <<"plain", "7">>)

\* Without limits and with them; what init leaves has a variable in a comment,
\* which here is not set.  Then a token that is a number, plain and quoted, and
\* variables of every kind, quoted and not.
Seven == <<"plain", "7">>
Configs ==
    {Yaml(Root @@ Output(Seven) @@ Workspace(<<"quoted", "${WORD}">>, <<"quoted", "@user">>), {}),
     Yaml(Root @@ Output(Seven) @@ Workspace(<<"plain", "${WORD}">>, Seven) @@ Limits, {"${WORD}"}),
     Yaml(Root @@ Output(Seven) @@ Workspace(<<"plain", "1e1">>, <<"quoted", "10">>), {"${LINES}"})}
     \cup {Yaml(Root @@ Output(<<"plain", "${NUMBER}">>)
                     @@ Workspace(<<"quoted", v>>, <<style, "${NUMBER}">>), {}) :
            v \in {"${NUMBER}", "${LIST}", "${PAIR}", "${LINES}"}, style \in {"plain", "quoted"}}
Starter ==
    Yaml(Root @@ Output(Seven) @@ Workspace(<<"quoted", "${WORD}">>, Seven), {"${UNSET}"})
SomeConfigs == Configs \cup {Missing, Starter}
SomeOverrides ==
    {Missing, Lines(<<Header("Service")>>), Lines(<<Header("Unit")>>),
     Lines(<<Header("Service"), ReadWritePaths("/other"), Header("Install")>>),
     Lines(<<Header("Unit"), ReadWritePaths("/srv/a"), Header("Service")>>),
     Lines(<<<<"comment", "Service">>, Header("Unit")>>)}

SomeScenarios ==
    [args : [{c1} -> Alone] \cup [{c1, c2} -> Together], config : SomeConfigs, override : {Missing}]
        \cup [args : [{c1, c2} -> Paths], config : {Starter}, override : SomeOverrides]

SomePlaceholders == {"${WORD}", "${NUMBER}", "${LIST}", "${PAIR}", "${LINES}", "${UNSET}"}
SomeEnvironment ==
    ("${WORD}" :> "codex-cli") @@ ("${NUMBER}" :> "7") @@ ("${LIST}" :> "[]")
        @@ ("${PAIR}" :> "a: b") @@ ("${LINES}" :> TwoLines)

=============================================================================
