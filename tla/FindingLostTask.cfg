SPECIFICATION Spec
CONSTANTS
    Executors = {m, w}
    Master = m
    Tasks = {1, 2, 3, 4, 5, 6, 7, 8, 9, 10}
    Imm = {}
    Addrs = {"a", "b", "c"}
    None = None
    QueueLength = 4
    UintMod = 1073741824
    Kind <- Kinds
    Programs <- LostTask
INVARIANT
    WaitFinishesAll
CHECK_DEADLOCK FALSE
