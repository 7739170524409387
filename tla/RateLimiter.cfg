\* Two requests per two seconds, two users, two callers that
\* may be held up for one tick.
SPECIFICATION Spec
CONSTANTS
    Users = {u1, u2}
    Callers = {c1, c2}
    MaxRequests = 2
    WindowSeconds = 2
    TicksPerSecond = 2
    MaxSkew = 1
    MaxClock = 7
SYMMETRY Symmetry
INVARIANTS
    TypeOK
    SlidingWindow
PROPERTIES
    NoSpuriousLimit
    RetryBound
CHECK_DEADLOCK FALSE
