SPECIFICATION FairSpec
CONSTANTS
    c1 = c1
    NoOne = NoOne
    Client = {c1}
    Ops = {"submit", "destroy"}
    InitThreads = 1
    MaxThreads = 1
    Batches = {1}
    InitLimit = 0
    Limits = {1}
    MaxCalls = 2
    MaxSpurious = 0
PROPERTY DestructionCompletes
CHECK_DEADLOCK FALSE
