\* Three writes, in place or by renaming, and a channel of two events.
SPECIFICATION Spec
CONSTANTS
    MaxVersion = 3
    Capacity = 2
    Renames = TRUE
INVARIANTS
    TypeOK
    OnlyValid
PROPERTIES
    Converges
    ComesToRest
    WatcherStops
\* The task ends, and writers need not write.
CHECK_DEADLOCK FALSE
