\* Every choice of providers of each kind, two telegram and two slack messages, one
\* whatsapp message, and a channel of one slot.
SPECIFICATION AnsweredSpec
CONSTANTS
    tg = tg
    wa = wa
    sl = sl
    Providers <- AllProviders
    Kind <- AllKinds
    Load <- AllLoad
    Capacity = 1
INVARIANTS
    TypeOK
PROPERTIES
    Delivers
    Delivered
    ClosureSeen
    ShutdownCompletes
\* The daemon exits.
CHECK_DEADLOCK FALSE
