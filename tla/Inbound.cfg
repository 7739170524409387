\* Slack with and without threads, and whatsapp: three envelopes, with and without
\* a ts, or two requests of up to two messages, with one repeated delivery.
SPECIFICATION Spec
CONSTANTS
    c1 = c1
    c2 = c2
    alice = alice
    mallory = mallory
    Allowed <- AllowedUsers
    Envelopes <- SlackEnvelopes
    Requests <- WhatsAppRequests
    MaxEnvelopes = 3
    MaxRequests = 2
    MaxRepeated = 1
SYMMETRY Channels
INVARIANTS
    TypeOK
    AckedMeansForwarded
    OneThread
    ThreadOfReply
\* Everything is delivered and answered, and then nothing is left to do.
CHECK_DEADLOCK FALSE
