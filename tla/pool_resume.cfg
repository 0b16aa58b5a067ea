SPECIFICATION FairSpec
CONSTANTS
    c1 = c1
    NoOne = NoOne
    Client = {c1}
    Ops = {"submit", "pause", "resume"}
    InitThreads = 1
    MaxThreads = 1
    Batches = {1}
    InitLimit = 0
    Limits = {0}
    MaxCalls = 3
    MaxSpurious = 0
PROPERTY ResumedTasksRun
CHECK_DEADLOCK FALSE
