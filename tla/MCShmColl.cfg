SPECIFICATION Spec
CONSTANTS
    Programs <- MCPrograms
    MaxSize = 6
    WinLen = 8
    ChunkSize = 2
    TopoSplit = 2
INVARIANTS
    FenceHolds
    ResultDelivered
PROPERTY
    CallsReturn
CHECK_DEADLOCK FALSE
