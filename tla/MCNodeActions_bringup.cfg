\* One node of each version, all subnet lists, three topologies of three nodes.
CONSTANTS
    RawConfigs <- Configs
CHECK_DEADLOCK FALSE
SPECIFICATION FairSpec
INVARIANTS TypeOK NodesAreProvisioned KubectlFindsServer ReadyIsTrue TaintsMatch
PROPERTIES ActionsReturn
