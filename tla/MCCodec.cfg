SPECIFICATION Spec
CONSTANTS
    Garbled = Garbled
    Nil = Nil
    Data <- MCData
    Writers <- MCConfigs
    Readers <- MCConfigs
    SizeBits = 3
    Overhead = 2
    MaxLen = 9
    Limits = {3, 5, 9}
    Thresholds = {0, 2}
INVARIANTS
    ReadBackExact
    DamageDetected
    AllocationBounded
CHECK_DEADLOCK FALSE
