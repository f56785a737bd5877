SPECIFICATION FairSpec
CONSTANTS
    r1 = r1
    r2 = r2
    x1 = x1
    x2 = x2
    p1 = p1
    p2 = p2
    None = None
    Login = {r1, r2}
    Source = {a1, a2, a3}
    SessionId = {c1}
    FailureWindow = 2
    Lockout = 2
    MaxFailures = 2
    MaxTracked = 2
    SessionTTL = {1, 3}
    MaxTime = 4
    Stream = {x1, x2}
    Publisher = {p1, p2}
    BufferSize = 1
    MaxChanges = 2
    Together <- Scenarios
INVARIANTS
    TrackedSourcesBounded
    NeverSendsOnClosed
    NoChangeGoesUntold
PROPERTIES
    BlockHolds
    StreamsAreReleased
CHECK_DEADLOCK FALSE
