SPECIFICATION Spec
CONSTANTS
    Nil = Nil
    Garbled = Garbled
    SizeBits = 4
    Overhead = 1
    Configs <- MCConfigs
    Data <- MCData
    Payloads <- MCPayloads
    Keys <- MCKeys
    Orders = {Nil, 1}
    TTLs = {9}
    MaxItems = 2
    Spans <- MCSpans
    MaxChunks = 2
INVARIANTS
    PrefixExact
    NothingDropped
    PartialTold
    NoReplayAfterBatch
CHECK_DEADLOCK FALSE
