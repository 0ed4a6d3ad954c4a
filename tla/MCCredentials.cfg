SPECIFICATION Spec
CONSTANTS
    Nil = Nil
    Bad = Bad
    PullSecrets <- MCPullSecrets
    References <- MCReferences
    SourceLists <- MCSourceLists
    Hosts = {"ghcr.io", "index.docker.io"}
CHECK_DEADLOCK FALSE
INVARIANT PullUsesItsRegistry
INVARIANT MergeAgreesWithPull
