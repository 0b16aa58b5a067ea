SPECIFICATION FairSpec
CONSTANTS
    p1 = p1
    p2 = p2
    k1 = k1
    k2 = k2
    Producer = {p1, p2}
    Consumer = {k1, k2}
    Sends <- MCSends
INVARIANTS TypeOK EachGetsAll
PROPERTIES PromiseSpec EveryoneServed
CHECK_DEADLOCK FALSE
