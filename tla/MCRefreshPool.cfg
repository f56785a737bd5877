SPECIFICATION WaveFairSpec
CONSTANTS
    N = 4
    Concurrency = 2
    NoFailure = NoFailure
INVARIANTS
    EachAccountOnce
    CancellationEndsWave
PROPERTY
    WaveReturns
CHECK_DEADLOCK FALSE
