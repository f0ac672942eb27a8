SPECIFICATION FairSpec
CONSTANTS
    Threads = {e1, e2}
    Tasks = {a, b}
    None = None
    Length = 3
    MaxAdds = 6
INVARIANTS
    IInv
    GetsQueuedTask
PROPERTIES
    IsFifo
CHECK_DEADLOCK FALSE
