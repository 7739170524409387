----------------------------- MODULE MCFormatter -----------------------------
(* Instances of Formatter for TLC.                                         *)
EXTENDS Formatter

\* A letter, a line break, a full stop, a space, and a three-byte character.
Prose ==
    [characters |-> {<<"x">>, <<"n">>, <<".">>, <<" ">>,
                     <<"lead", Continuation, Continuation>>},
     maxBytes |-> 6, maxLimit |-> 5]

\* A backtick, a line break, and a two-byte character.
Code ==
    [characters |-> {<<"tick">>, <<"n">>, <<"lead", Continuation>>},
     maxBytes |-> 10, maxLimit |-> 7]

ProseAndCode == {Prose, Code}

Dots == <<".">>

=============================================================================
