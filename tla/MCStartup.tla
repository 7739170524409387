------------------------------ MODULE MCStartup ------------------------------
(* Instances of Startup for TLC.                                           *)
EXTENDS Startup, TLC

Numeric(id) == [numeric |-> TRUE, signs |-> 0, name |-> id]
Handle(signs, name) == [numeric |-> FALSE, signs |-> signs, name |-> name]
SlackUsers == {Handle(1, "alice"), Handle(0, "bob"), Handle(0, "U1"), Numeric("7")}
TelegramUsers == {Handle(1, "Alice"), Handle(2, "bob"), Numeric("7"), Handle(0, "8")}
Phones == {Handle(0, "+55")}

Slack(users) == [kind |-> "slack", credential |-> TRUE, users |-> users]
Telegram(users) == [kind |-> "telegram", credential |-> FALSE, users |-> users]
WhatsApp(users) == [kind |-> "whatsapp", credential |-> TRUE, users |-> users]
Incomplete == [Slack({Handle(1, "alice")}) EXCEPT !.credential = FALSE]

Workspace(name, backend, channels) ==
    [name |-> name, directory |-> "/srv", backend |-> backend, channels |-> channels]

\* One workspace; two, of other channels and backends; and what is no configuration.
Main1(ch) == <<Workspace("main", "claude-cli", <<ch>>)>>
Both ==
    <<Workspace("main", "claude-cli", <<WhatsApp(Phones), Slack({Handle(1, "alice")})>>),
      Workspace("side", "codex-cli", <<Slack({Handle(1, "bob"), Handle(0, "U1")})>>)>>
Invalid ==
    {<<>>, Main1(Slack({})), Main1([Telegram(TelegramUsers) EXCEPT !.kind = "irc"]),
     <<Workspace("main", "bash", <<Telegram(TelegramUsers)>>)>>,
     <<Workspace("", "claude-cli", <<Telegram(TelegramUsers)>>)>>,
     <<[Workspace("main", "claude-cli", <<Telegram(TelegramUsers)>>) EXCEPT !.directory = "/gone"]>>}
Files ==
    {Both, Main1(Incomplete)} \cup Invalid
        \cup {Main1(Slack(us)) : us \in SUBSET SlackUsers \ {{}}}
        \cup {Main1(Telegram(us)) : us \in SUBSET TelegramUsers \ {{}}}

Locations == {"flag", "variable", "cwd", "home", "etc"}
Nowhere == [l \in Locations |-> Missing]
Simple == Main1(Slack({Handle(0, "U1")}))

\* Any file given by the flag; or one valid file and one that is not, anywhere.
SomeSituations ==
    {[cli |-> "flag", env |-> None, HOME |-> TRUE, files |-> [Nowhere EXCEPT !["flag"] = f]] :
         f \in Files}
    \cup {[cli |-> c, env |-> e, HOME |-> h, files |-> [Nowhere EXCEPT ![x] = Simple, ![y] = <<>>]] :
         c \in {None, "flag"}, e \in {None, "variable"}, h \in BOOLEAN, x, y \in Locations}

Lowered ==
    [n \in {"alice", "bob", "Alice", "Bob", "+55", "U1", "7", "8", "carol"} |->
        CASE n = "Alice" -> "alice" [] n = "Bob" -> "bob" [] OTHER -> n]
MemberIds == <<"U1", "U2", "U3">>
SomeSenders == [id : {"7", "8"}, username : {"alice", "Bob", None}]
Digits == {"7", "8"}

=============================================================================
