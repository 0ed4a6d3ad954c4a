SPECIFICATION Spec
CONSTANTS
    Nil = Nil
    Inputs <- MCInputs
CHECK_DEADLOCK FALSE
INVARIANT ReadinessSeparate
