SPECIFICATION FairSpec
CONSTANTS
    Executors = {m, w1, w2}
    Master = m
    Tasks = {1, 2, 3, 4, 5, 6, 7, 8, 9, 10}
    Imm = {2}
    Addrs = {"a", "b", "c"}
    None = None
    QueueLength = 2
    UintMod = 1073741824
    Kind <- Kinds
    Programs <- MCPrograms
INVARIANTS
    DependenciesRespected
    WaitMeansFinished
    ReferencesCounted
    NoUseAfterFree
PROPERTY
    ProgramCompletes
CHECK_DEADLOCK FALSE
