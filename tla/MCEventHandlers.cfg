SPECIFICATION FairSpec
CONSTANTS
    Nil = Nil
    Pactos = {p1, p2}
    Objects <- ThreeObjects
    Specs <- TwoSpecs
    Installed <- OneSpec
    MaxEdits = 2
    MaxFaults = 1
CHECK_DEADLOCK FALSE
INVARIANT EventsSuffice
PROPERTY EventuallyFresh
