\* Two chats on one workspace handle, one of them on another, too; every message
\* is handled concurrently.
SPECIFICATION Spec
CONSTANTS
    a = a
    b = b
    w1 = w1
    w2 = w2
    claude = claude
    codex = codex
    None = None
    Chats = {a, b}
    Workspaces = {w1, w2}
    Backends = {claude, codex}
    BackendOf <- SameBackend
    ContinuingBackends = {claude}
    Origins <- TwoHandles
    Messages = {m1, m2, m3}
    RateLimited = TRUE
    SpawnMayFail = TRUE
    MaxInFlight = 3
SYMMETRY Symmetry
INVARIANTS
    TypeOK
    ContinuationJustified
    ResetHonoured
    WorkspaceKept
    StatusHonest
\* Every message is handled once, and then nothing is left to do.
CHECK_DEADLOCK FALSE
