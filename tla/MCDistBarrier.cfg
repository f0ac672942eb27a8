SPECIFICATION FairSpec
CONSTANTS
    N = 4
    MaxRounds = 3
INVARIANTS
    IInv
    BarrierHolds
    ForkWaitsForMaster
    NoLostRelease
PROPERTIES
    EveryoneLeaves
CHECK_DEADLOCK FALSE
