SPECIFICATION FairSpec
CONSTANTS
    c1 = c1
    c2 = c2
    NoOne = NoOne
    Client = {c1, c2}
    Ops = {"submit", "wait", "shutdown", "close"}
    InitThreads = 2
    MaxThreads = 2
    Batches = {1}
    InitLimit = 1
    Limits = {}
    MaxCalls = 3
    MaxSpurious = 1
INVARIANTS ShutdownDrains CloseFinishesAll EveryTaskHasATaker OvershootBounded
PROPERTIES CallsReturn ExecutesEveryTask
CHECK_DEADLOCK FALSE
