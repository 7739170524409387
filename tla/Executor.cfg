\* A CLI that may hang, crash, detach its output, leave a helper or not be killed.
SPECIFICATION FairSpec
CONSTANTS
    Capacity = 1
    MaxOutput = 2
    ReadsFail = TRUE
    CallsFail = TRUE
    Detaches = TRUE
    Forks = TRUE
INVARIANTS
    TypeOK
    OutputComplete
    NoStrayProcess
PROPERTIES
    Finishes
    TimeoutEndsReads
\* An aborted handler leaves a process that may never do anything again.
CHECK_DEADLOCK FALSE
