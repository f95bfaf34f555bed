SPECIFICATION Spec
CONSTANTS
    Operations <- MCOperations
    Stores <- MCStores
    Pivot = 9
    Bytes <- MCBytes
    MaxHint = 1
    MaxRequestBytes = 5
    MaxUint32 = 3
    MaxItems = 4
    ItemSizes = {1, 3}
    Positions = {0, 1, 2}
INVARIANTS
    RejectedCounted
CHECK_DEADLOCK FALSE
