SPECIFICATION Spec
CONSTANTS
    Nil = Nil
    Repo = Repo
    Failed = Failed
    Specs <- DigestSpecs
    Refs <- AllRefs
    Contracts <- TwoContracts
    Clusters <- TwoClusters
    Versions = {1, 2, 3, 4}
    MaxEdits = 1
    MaxFaults = 1
    MaxWatch = 2
CHECK_DEADLOCK FALSE
INVARIANT TypeOK
INVARIANT ObservedGenerationSound
INVARIANT CurrentRevisionExists
INVARIANT StatusIsOnePass
PROPERTY ObservedGenerationMonotonic
PROPERTY ReportsAtomically
