SPECIFICATION FairSpec
CONSTANTS
    Inputs <- MCInputs
    NumItems <- MCNumItems
    Size <- MCSize
    MaxItems = 5
    ItemSizes = {1, 2, 4}
    HeaderSizes = {1, 2, 6}
    MaxRequestBytes = 5
INVARIANTS
    SpansCover
    SpansPacked
    RefusedRightly
PROPERTIES
    Terminates
CHECK_DEADLOCK FALSE
