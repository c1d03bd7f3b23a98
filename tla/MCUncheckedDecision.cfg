SPECIFICATION Spec
CONSTANT MaxClaims = 1
CHECK_DEADLOCK FALSE
INVARIANT DecidedOnChecked
