SPECIFICATION Spec
CONSTANTS
    Nil = Nil
    Inputs <- MCInputs
CHECK_DEADLOCK FALSE
INVARIANT CompliantIsConformant
INVARIANT ConformantIsCompliant
INVARIANT StatusFollowsSeverity
INVARIANT SummaryMatchesConditions
INVARIANT GaugesMatchStatus
