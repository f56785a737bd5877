SPECIFICATION Spec
CONSTANTS
    Account = {a1}
    Channel = {c1}
    w1 = w1
    w2 = w2
    Window = {w1, w2}
    Label <- SameLabels
    Resets = {2}
    Jitter <- Computed
    None = None
    MaxDay = 0
    MaxRefresh = 4
    MaxStamp = 6
    MaxFaults = 0
INVARIANTS
    RemindedOnce
