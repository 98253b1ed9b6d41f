\* One create of two control planes and their load balancer, no kill.
CONSTANTS
    Node = {cp1, cp2, lb}
    LoadBalancer = {lb}
    MaxCreates = 1
    MaxKills = 0
SPECIFICATION Spec
INVARIANT ProvisionFailureCleansUp
