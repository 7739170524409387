\* Two chats on one workspace handle, and one message at a time.
SPECIFICATION Spec
CONSTANTS
    a = a
    b = b
    w1 = w1
    w2 = w2
    claude = claude
    codex = codex
    None = None
    Chats = {a, b}
    Workspaces = {w1, w2}
    Backends = {claude, codex}
    BackendOf <- SameBackend
    ContinuingBackends = {claude}
    Origins <- OneHandle
    Messages = {m1, m2, m3}
    RateLimited = FALSE
    SpawnMayFail = FALSE
    MaxInFlight = 1
SYMMETRY Symmetry
INVARIANTS
    SameWorkspace
\* Every message is handled once, and then nothing is left to do.
CHECK_DEADLOCK FALSE
