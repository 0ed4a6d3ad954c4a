SPECIFICATION Spec
CONSTANTS
    Nil = Nil
    Bad = Bad
    Applied = Applied
    Drifted = Drifted
    Foreign = Foreign
    Resources <- ThreeResources
    Configs <- TwoConfigs
    SourceNames = {}
    Secrets <- OneSecret
    MaxEdits = 1
    MaxFaults = 0
CHECK_DEADLOCK FALSE
PROPERTY ForeignSecretKept
