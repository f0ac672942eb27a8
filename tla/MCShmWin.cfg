SPECIFICATION Spec
CONSTANTS
    Programs <- MCPrograms
    MaxRetry = 2
INVARIANTS
    FailureUnwinds
    SegmentsFound
    DestroyReleasesAll
CHECK_DEADLOCK FALSE
