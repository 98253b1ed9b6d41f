\* Three processes; no other network, one in the way of the first attempt, or
\* one in the way of each of the five.
CONSTANTS
    Proc = {p1, p2, p3}
    Others = {{}, {0}, {0, 1, 2, 3, 4}}
    MaxContainers = 1
    MaxReleases = 1
SPECIFICATION Spec
SYMMETRY Symmetry
INVARIANTS TypeOK NeverNone OneNetworkAtEnd
\* ensureNetwork returns.
CHECK_DEADLOCK FALSE
