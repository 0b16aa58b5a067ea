SPECIFICATION FairSpec
CONSTANTS
    Client = {c1, c2, c3}
    Slots = 2
    Backlog = 2
    Request <- MCRequest
INVARIANTS TypeOK
PROPERTIES RequestsAnswered
CHECK_DEADLOCK FALSE
