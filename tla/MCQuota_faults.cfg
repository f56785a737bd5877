SPECIFICATION Spec
CONSTANTS
    Account = {a1}
    Channel = {c1, c2}
    w1 = w1
    w2 = w2
    Window = {w1}
    Label <- DistinctLabels
    Resets = {2}
    Jitter <- Stated
    None = None
    MaxDay = 1
    MaxRefresh = 3
    MaxStamp = 6
    MaxFaults = 1
INVARIANTS
    AlertHasOwner
    ToldOnce
PROPERTIES
    WithdrawnForCause
    StoreSpec
SYMMETRY ChannelSymmetry
