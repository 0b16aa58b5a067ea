SPECIFICATION Spec
CONSTANTS
    c1 = c1
    c2 = c2
    NoOne = NoOne
    Client = {c1, c2}
    Ops = {"submit"}
    InitThreads = 1
    MaxThreads = 1
    Batches = {1}
    InitLimit = 1
    Limits = {}
    MaxCalls = 3
    MaxSpurious = 0
INVARIANT QueueWithinLimit
CHECK_DEADLOCK FALSE
