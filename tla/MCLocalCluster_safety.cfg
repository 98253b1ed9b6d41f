\* Two creates of two nodes, deletes between them, one kill.
CONSTANTS
    Node = {cp, worker}
    LoadBalancer = {}
    MaxCreates = 2
    MaxKills = 1
SPECIFICATION FairSpec
INVARIANTS TypeOK DeleteSweeps NoDanglingContext PriorKept
    ActionsSeeAllNodes SendNeverBlocks
PROPERTY CallsReturn
