SPECIFICATION Spec
CONSTANTS
    Nil = Nil
    Repo = Repo
    Failed = Failed
    Specs <- TargetSpecs
    Refs <- OneRef
    Contracts <- TwoContracts
    Clusters <- OneCluster
    Versions = {1, 2, 3, 4}
    MaxEdits = 2
    MaxFaults = 0
    MaxWatch = 2
CHECK_DEADLOCK FALSE
INVARIANT GateEventsAlternate
