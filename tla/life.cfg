SPECIFICATION Spec
CONSTANTS
    Rows = 5
    Cols = 3
    Generations = 2
    ThreadCounts = {0, 2, 3, 6}
    Boards <- MCBoards
INVARIANTS RowsApart NextFollowsRule InsideAgrees
CHECK_DEADLOCK FALSE
