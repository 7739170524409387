\* Every list of users, for a directory of three members on two pages that changes
\* twice while it is read; and every place a file can be found in.
SPECIFICATION Spec
CONSTANTS
    Missing = Missing
    Situations <- SomeSituations
    Directories = {"/srv"}
    Lower <- Lowered
    RawIds = {"U1"}
    Members = {1, 2, 3}
    IdOf <- MemberIds
    Names = {"alice", "bob"}
    Senders <- SomeSenders
    Numbers <- Digits
    PageSize = 2
    MaxChanges = 2
INVARIANTS
    TypeOK
    GateExact
PROPERTIES
    StartEnds
\* A start ends, and the directory stops changing.
CHECK_DEADLOCK FALSE
