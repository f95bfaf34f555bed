SPECIFICATION FairSpec
CONSTANTS
    a = a
    b = b
    c1 = c1
    c2 = c2
    NoTarget = NoTarget
    Loop = loop
    Targets = {a, b}
    coordinators <- OneCoordinator
    Calls = {r1}
    Users = {u1}
    Borrowed = {}
    Answers <- MCSwitch
    MaxConns = 3
PROPERTIES
    RefreshServed
    CloseCompletes
    RetiredIsClosed
