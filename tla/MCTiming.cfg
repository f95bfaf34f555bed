SPECIFICATION TimingSpec
CONSTANTS
    NoTime = NoTime
    NsPerMs = 3
    MsPerSecond = 2
    MaxInt64 = 40
    MaxUint32 = 5
    Durations <- MCDurations
    Foreign <- MCForeign
    Clock <- MCClock
INVARIANTS
    RemainingTrue
    TTLReadBack
    LockLasts
