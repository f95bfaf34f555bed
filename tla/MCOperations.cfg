SPECIFICATION Spec
CONSTANTS
    Nil = Nil
    Garbled = Garbled
    SizeBits = 4
    Overhead = 1
    Configs <- MCConfigs
    OptionSets <- MCOptions
    Data <- MCData
    Durations <- MCDurations
    Positions <- MCPositions
    Weights = {0, 9}
    Locks <- MCLocks
    Integer64s <- MCIntegers
    MsPerSecond = 2
    MaxUint32 = 10
    MaxClock = 2
INVARIANTS
    OptionsKept
    ReplayCarriesSame
    AbsentIsNotEmpty
CHECK_DEADLOCK FALSE
