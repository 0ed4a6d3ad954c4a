SPECIFICATION Spec
CONSTANTS
    Nil = Nil
    Failed = Failed
    h1 = h1
    h2 = h2
    d1 = d1
    d2 = d2
    Tags = {t1, t2}
    Main = t1
    Bundles <- TwoBundles
    MaxPushes = 1
    MaxFaults = 1
INVARIANT MismatchIsForcePush
