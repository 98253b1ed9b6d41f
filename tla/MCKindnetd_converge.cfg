\* Two nodes, the host the last of the list; the other one's address changes
\* twice, one rule is deleted, three calls fail; the second failure in a row is a panic.
CONSTANTS
    self = self
    other = other
    Node <- TwoNodes
    Host = self
    IP = {ip1, ip2, ip3}
    IPFamily = "ipv4"
    Attempts = 2
    Tolerated = 1
    MaxMoves = 2
    MaxFails = 3
    MaxDeletes = 1
CHECK_DEADLOCK FALSE
SPECIFICATION FairSpec
INVARIANTS CacheIsFile OneGateway MasqueradeLast
PROPERTIES EventuallyConverged
