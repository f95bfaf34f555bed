SPECIFICATION Spec
CONSTANTS
    a = a
    b = b
    c1 = c1
    c2 = c2
    NoTarget = NoTarget
    Loop = loop
    Targets = {a, b}
    coordinators <- TwoCoordinators
    Calls = {r1, r2}
    Users = {u1}
    Borrowed = {b, c2}
    Answers <- MCAnswers
    MaxConns = 3
SYMMETRY MCSymmetry
INVARIANTS
    IInv
    HeldOpen
    SnapshotLive
    ClosedOnce
    NoLeak
PROPERTIES
    PublishedWhole
    ImplementsLeases
