\* Two processes, two requests and one fault between them; every running process fair.
CONSTANTS
    f1 = f1
    f2 = f2
    p1 = p1
    p2 = p2
    File = {f1, f2}
    Proc = {p1, p2}
    Key = {kind, other}
    Foreign = {other}
    Val = {v1}
    NoKey = NoKey
    Idle = Idle
    PathLists <- MCPathLists
    MaxOps = 2
    MaxFaults = 1
SPECIFICATION FairSpec
INVARIANTS TypeOK MutualExclusion WritesAreFresh NoLockLeft
PROPERTIES ForeignKept ImplementsAtomic EveryRequestEnds
CHECK_DEADLOCK FALSE
