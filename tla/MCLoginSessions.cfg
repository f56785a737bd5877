SPECIFICATION FairSpec
CONSTANTS
    p1 = p1
    t1 = t1
    t2 = t2
    k1 = k1
    Polled = {p1}
    Trae = {t1, t2}
    Kiro = {k1}
    Callback = {h1, h2}
    Together <- MCTogether
    MaxRequests = 2
    None = None
INVARIANTS
    NothingLeftBehind
PROPERTIES
    KeptUntilReplaced
    KeepsItsPromise
    EveryLoginEnds
CHECK_DEADLOCK FALSE
