SPECIFICATION FairSpec
CONSTANTS
    Account = {a1}
    Channel = {c1}
    w1 = w1
    w2 = w2
    Window = {w1, w2}
    Label <- DistinctLabels
    Resets = {0}
    Jitter <- Stated
    None = None
    MaxDay = 0
    MaxRefresh = 3
    MaxStamp = 6
    MaxFaults = 0
PROPERTIES
    NewDropIsAnnounced
    RecoveredAlertClears
    LowQuotaIsAnnounced
