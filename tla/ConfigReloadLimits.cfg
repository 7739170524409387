\* The limits the router enforces after a reload.
SPECIFICATION Spec
CONSTANTS
    MaxVersion = 3
    Capacity = 2
    Renames = TRUE
INVARIANTS
    LimitsEnforced
\* The task ends, and writers need not write.
CHECK_DEADLOCK FALSE
