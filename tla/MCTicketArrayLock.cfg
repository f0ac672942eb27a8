SPECIFICATION FairSpec
CONSTANTS
    Threads = {t1, t2, t3}
    Size = 2
    MaxTicket = 5
INVARIANTS
    IInv
    MutualExclusion
PROPERTIES
    LockIsGranted
CHECK_DEADLOCK FALSE
