SPECIFICATION Spec
CONSTANTS
    met = met
    rhythm = rhythm
    codex = codex
    Unnamed = Unnamed
    None = None
    Account = {met, rhythm, codex}
    Provider <- MCProvider
    Starts <- OneAccount
    LastDay = 2
    Model = {m}
    Source = {f1, f2}
    Refresh = {r1}
    Connection = {c1}
    PageSize = 1
    MaxPages = 3
    MaxUse = 3
    MaxReadings = 3
    MaxVersion = 2
INVARIANTS
    NeverInvents
    UsageFromSources
    DeletedLeavesNoUsage
PROPERTIES
    SyncIsComplete
CHECK_DEADLOCK FALSE
