SPECIFICATION FairSpec
CONSTANTS
    p1 = p1
    p2 = p2
    k1 = k1
    k2 = k2
    Producer = {p1, p2}
    Consumer = {k1, k2}
    Count <- MCCount
    Burst = 2
    MinBatch = 2
    Batch = 3
    MaxRead = 6
INVARIANTS TypeOK EveryHalfSomewhere WorkHasATaker InSendOrder
CHECK_DEADLOCK FALSE
PROPERTY Drained
