SPECIFICATION Spec
CONSTANTS
    Programs <- MCPrograms
INVARIANTS
    InOnePlace
PROPERTIES
    PriorityRespected
    EveryTaskRuns
CHECK_DEADLOCK FALSE
