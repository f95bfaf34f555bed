SPECIFICATION FairSpec
CONSTANTS
    Nil = Nil
    Calls = {r1, r2}
    Closers = {k1, k2}
    RawConfigs <- MCConfigs
    Timeouts <- MCTimeouts
    DefaultTimeout = 1
    DefaultMaxRequestBytes = 4
    DefaultMaxDecodedBytes = 5
    DefaultThreshold = 2
INVARIANTS
    LateSendsNothing
    CloseReleases
    NoWatcherLeft
PROPERTIES
    CallsEnd
    CloseEndsCalls
CHECK_DEADLOCK FALSE
