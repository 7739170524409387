------------------------------- MODULE MCRouter -------------------------------
(***************************************************************************)
(* Instances of Router for TLC: two workspaces whose backend continues a   *)
(* conversation (claude-cli).                                              *)
(***************************************************************************)
EXTENDS Router, TLC

CONSTANTS a, b, w1, w2, claude, codex

SameBackend == w1 :> claude @@ w2 :> claude

\* Two chats write to the channels of w1, whose handle serves them both ...
OneHandle == {<<a, w1>>, <<b, w1>>}

\* ... and one of them to a channel of w2, too: ChatId names the chat of a
\* platform, whichever channel it writes to.
TwoHandles == OneHandle \cup {<<a, w2>>}

Symmetry == Permutations(Messages)

=============================================================================
