SPECIFICATION Spec
CONSTANTS
    a = a
    b = b
    d = d
    NoTarget = NoTarget
    UnknownTarget = UnknownTarget
    Absent = Absent
    Targets = {a, b, d}
    Calls = {r1}
    Topologies <- MCTopologies
    ConfigMode = "LBSmart"
    Hints = {0, 1, 5}
    CounterBits = 3
INVARIANTS
    UnavailableRefreshes
