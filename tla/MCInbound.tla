------------------------------ MODULE MCInbound ------------------------------
(* Instances of Inbound for TLC.                                           *)
EXTENDS Inbound, TLC

CONSTANTS c1, c2, alice, mallory

Message(chat, user, plain) ==
    [chat |-> chat, user |-> user, plain |-> plain, ts |-> TRUE]

\* Slack: two channels, in which a stranger writes too, and events without a ts.
WithoutTs(m) == [m EXCEPT !.ts = FALSE]
SlackEnvelopes ==
    {<<Message(c, u, TRUE)>> : c \in {c1, c2}, u \in {alice, mallory}}
        \cup {<<WithoutTs(Message(c, alice, TRUE))>> : c \in {c1, c2}}
Channels == Permutations({c1, c2})

\* whatsapp: the chat is the user; up to two messages in a request.
WhatsAppMessages ==
    {Message(alice, alice, TRUE), Message(mallory, mallory, TRUE), Message(alice, alice, FALSE)}
WhatsAppRequests ==
    UNION {[1..n -> WhatsAppMessages] : n \in 1..2}

AllowedUsers == {alice}

=============================================================================
