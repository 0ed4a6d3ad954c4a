SPECIFICATION FairSpec
CONSTANTS
    Nil = Nil
    Bad = Bad
    Applied = Applied
    Drifted = Drifted
    Foreign = Foreign
    Resources <- ThreeResources
    Configs <- AllConfigs
    SourceNames = {"s1"}
    Secrets <- TwoSecrets
    MaxEdits = 2
    MaxFaults = 1
CHECK_DEADLOCK FALSE
INVARIANT CleanedBeforeServing
PROPERTY DeploysConfig
PROPERTY CleansUp
