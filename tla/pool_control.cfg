SPECIFICATION Spec
CONSTANTS
    c1 = c1
    c2 = c2
    NoOne = NoOne
    Client = {c1, c2}
    Ops = {"submit", "wait", "add", "remove", "pause", "resume", "shutdown", "terminate", "destroy"}
    InitThreads = 1
    MaxThreads = 2
    Batches = {1}
    InitLimit = 0
    Limits = {1}
    MaxCalls = 4
    MaxSpurious = 1
SYMMETRY Symmetry
INVARIANTS TypeOK NoUndefinedStatus NoLostResume PoolAndWorkersAgree TransientHidden TaskConservation NoDrainerForgotten
PROPERTIES PausedStaysOut AcceptOnlyRunning ExecutesTasks
CHECK_DEADLOCK FALSE
