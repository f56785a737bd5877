SPECIFICATION Spec
CONSTANTS
    Account = {a1}
    Channel = {c1}
    StateRow <- MCStateRow
    DedupeKey <- MCDedupeKey
    None = None
    DayLength = 3
    RunningLimit = 1
    Backoff = 2
    MaxTime = 6
    MaxFaults = 2
INVARIANTS
    FailureIsRetracted
    ToldOnce
PROPERTIES
    AttemptsApart
    CheckedInEveryDay
