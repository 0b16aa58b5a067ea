SPECIFICATION FairSpec
CONSTANTS
    p1 = p1
    p2 = p2
    k1 = k1
    k2 = k2
    Producer = {p1, p2}
    Consumer = {k1, k2}
    Text <- MCText
    MaxRead = 10
INVARIANTS TypeOK InStreamOrder OnlyIdsLost
PROPERTIES PromiseSpec ServedOut
CHECK_DEADLOCK FALSE
