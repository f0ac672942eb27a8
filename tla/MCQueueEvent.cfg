SPECIFICATION FairSpec
CONSTANTS
    Executors = {"m", "w", "v"}
    Master = "m"
    Queues = {"q", "r", "s"}
    SyncQueue = "s"
    Events = {1, 2, 3, 4, 5}
    None = None
    Scenarios <- MCScenarios
INVARIANTS
    RunsInOrder
    WaitMeansDone
    NoUseAfterFree
PROPERTY
    CallsReturn
CHECK_DEADLOCK FALSE
