SPECIFICATION Spec
CONSTANTS
    Executors = {0, 1}
    Scenarios <- MCScenarios
    Regions = 3
    MemBins <- MCMemBins
    FastBins <- MCFastBins
    FastGrow = 4
    UserAlign = 1
    HugePage = 4
    Threshold = 1
    OtherLimit = 1
    Uint = 65536
INVARIANTS
    BoundaryTags
    BufferInOnePlace
    HeldDisjoint
    PinMapTrue
CHECK_DEADLOCK FALSE
