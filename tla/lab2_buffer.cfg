SPECIFICATION FairSpec
CONSTANTS
    k1 = k1
    k2 = k2
    k3 = k3
    NumProducers = 2
    Consumer = {k1, k2, k3}
    Total = 5
    MaxSpurious = 1
INVARIANTS TypeOK NumberConservation NoSleepOnWork EndIsAnnounced
PROPERTY DrainedOrAbandoned
CHECK_DEADLOCK FALSE
