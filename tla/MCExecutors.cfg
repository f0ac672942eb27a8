SPECIFICATION Spec
CONSTANTS
    Programs <- MCPrograms
INVARIANTS
    FailedInitUnwinds
    ExpandedServed
    GroupWellFormed
CHECK_DEADLOCK FALSE
