SPECIFICATION FairSpec
CONSTANTS
    k1 = k1
    k2 = k2
    NumProducers = 1
    Consumer = {k1, k2}
    Total = 3
    MaxSpurious = 0
PROPERTY RunEnds
CHECK_DEADLOCK FALSE
