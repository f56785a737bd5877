SPECIFICATION Spec
CONSTANTS
    a1 = a1
    a2 = a2
    Account = {a1, a2}
    Answer <- Answers
    Together <- Scenarios
    MaxSaves = 2
INVARIANTS
    TypeOK
    CriticalIsAlerted
    CardsAreRecent
    UsedUpIsCritical
    CreditsCountedOnce
CHECK_DEADLOCK FALSE
