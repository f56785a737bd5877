SPECIFICATION FairSpec
CONSTANTS
    c1 = c1
    c2 = c2
    w = w
    g1 = g1
    t2 = t2
    t = t
    codex = codex
    workbuddy = workbuddy
    gemini = gemini
    trae = trae
    None = None
    Id = {c1, c2, w, g1, t, t2}
    Login = {codex, workbuddy, gemini, trae}
    Owner <- MCOwner
    Family <- MCFamily
    Starts <- OneAccount
    Process = {p1, p2}
    MaxGen = 2
INVARIANTS
    StrandedForCause
    AsksAgainOnlyUnsure
PROPERTIES
    DeletedStaysDeleted
    EveryCallEnds
