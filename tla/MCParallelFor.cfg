SPECIFICATION LoopSpec
CONSTANTS
    Executors = {0, 1, 2, 3}
    Programs <- MCPrograms
    Levels = 2
    IntMax = 31
    Threshold = 2
INVARIANTS
    EveryIterationOnce
    ReductionComplete
    NobodyLeftBehind
PROPERTY
    CallsReturn
CHECK_DEADLOCK FALSE
