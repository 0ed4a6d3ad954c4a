SPECIFICATION FairSpec
CONSTANTS
    Nil = Nil
    Repo = Repo
    Failed = Failed
    Specs <- ServingSpec
    Refs <- OneRef
    Contracts <- PlainContracts
    Clusters <- ProbeClusters
    Versions = {1, 2, 3}
    MaxEdits = 1
    MaxFaults = 1
    MaxWatch = 1
CHECK_DEADLOCK FALSE
PROPERTY Converges
PROPERTY DeletedIsForgotten
