---------------------------- MODULE ParallelLife ----------------------------
(***************************************************************************)
(* week6: ThreadManager::run deals the rows of the board out to numThreads *)
(* threads, which fill nextBoard, and joins them, once per generation.     *)
(* The rule of the serial programs (week5, week6/lab1) is given beside the *)
(* parallel one.  The definitions named Mut... are faulty variants that no *)
(* specification uses.                                                     *)
(***************************************************************************)
EXTENDS Integers, FiniteSets

CONSTANTS
    Rows, Cols, Generations, \* what the user enters
    ThreadCounts,            \* what hardware_concurrency() may return
    Boards                   \* the boards a file may hold

Row == 0 .. Rows - 1
Col == 0 .. Cols - 1

ASSUME LifeAssumption ==
    /\ Rows \in Nat \ {0} /\ Cols \in Nat \ {0} /\ Generations \in Nat
    /\ ThreadCounts \subseteq Nat /\ Boards \subseteq [Row -> [Col -> {0, 1}]]

VARIABLES
    numThreads, board, nextBoard,
    gen,              \* generations done
    main,             \* fork, join, done, or crashed
    startRow,         \* the local variable of run()
    threads,          \* the threads created so far: what each was given
    row               \* per thread: the row it computes next

vars == <<numThreads, board, nextBoard, gen, main, startRow, threads, row>>

None == [i \in {} |-> 0]

\* GameOfLife::initialize fills board, the constructor clears nextBoard.
Init ==
    /\ numThreads \in ThreadCounts /\ board \in Boards
    /\ nextBoard = [x \in Row |-> [y \in Col |-> 0]]
    /\ gen = 0 /\ main = "fork" /\ startRow = 0
    /\ threads = None /\ row = None

-----------------------------------------------------------------------------
\* countNeighbors: the board is a torus.  A neighbour is an offset, so that on
\* a board of one or two rows a cell may count twice.
Offset == ((-1 .. 1) \X (-1 .. 1)) \ {<<0, 0>>}
CountNeighbors(b, x, y) ==
    Cardinality({d \in Offset : b[(x + d[1] + Rows) % Rows][(y + d[2] + Cols) % Cols] = 1})

MutNextCell(alive, n) == IF n = 3 \/ n = 2 THEN 1 ELSE 0   \* the dead not told apart
NextCell(alive, n) == IF n = 3 \/ (alive = 1 /\ n = 2) THEN 1 ELSE 0

UpdatedRow(b, x) == [y \in Col |-> NextCell(b[x][y], CountNeighbors(b, x, y))]

\* getAliveNumber and nextGeneration of the serial program: outside the board
\* all is dead.
SerialNeighbors(b, x, y) ==
    Cardinality({d \in Offset : /\ x + d[1] \in Row /\ y + d[2] \in Col
                                /\ b[x + d[1]][y + d[2]] = 1})
SerialNext(b, x, y) ==
    LET n == SerialNeighbors(b, x, y) IN IF n = 3 THEN 1 ELSE IF n = 2 THEN b[x][y] ELSE 0

-----------------------------------------------------------------------------
\* run(): every thread is given Rows \div numThreads rows, the last one the
\* remainder as well, which is all of them when there are more threads.
MutEndRow(i) == startRow + Rows \div numThreads          \* extraRows forgotten
MutEndRow2(i) == startRow + Rows \div numThreads + (Rows % numThreads) \* all get them
EndRow(i) == startRow + Rows \div numThreads
               + (IF i = numThreads - 1 THEN Rows % numThreads ELSE 0)

Extend(f, i, v) == [j \in DOMAIN f \cup {i} |-> IF j = i THEN v ELSE f[j]]
Created == Cardinality(DOMAIN threads)

\* hardware_concurrency() may be 0: an integer division by zero.
Crash ==
    /\ main = "fork" /\ gen < Generations /\ numThreads = 0
    /\ main' = "crashed"
    /\ UNCHANGED <<numThreads, board, nextBoard, gen, startRow, threads, row>>

CreateThread ==
    /\ main = "fork" /\ gen < Generations /\ Created < numThreads
    /\ threads' = Extend(threads, Created, [first |-> startRow, end |-> EndRow(Created)])
    /\ row' = Extend(row, Created, startRow)
    /\ startRow' = EndRow(Created)
    /\ main' = IF Created + 1 = numThreads THEN "join" ELSE "fork"
    /\ UNCHANGED <<numThreads, board, nextBoard, gen>>

\* threadTask, updateBoard: reads board, writes its own rows of nextBoard.
UpdateRow(i) ==
    /\ row[i] < threads[i].end
    /\ nextBoard' = [nextBoard EXCEPT ![row[i]] = UpdatedRow(board, row[i])]
    /\ row' = [row EXCEPT ![i] = @ + 1]
    /\ UNCHANGED <<numThreads, board, gen, main, startRow, threads>>

\* The joins, threads.clear(), and the next generation.  Nobody calls
\* swapBoard: nextBoard is not looked at, and board stays the first one.
Finished(i) == row[i] = threads[i].end

Join ==
    /\ main = "join" /\ \A i \in DOMAIN threads : Finished(i)
    /\ gen' = gen + 1 /\ main' = "fork" /\ startRow' = 0
    /\ threads' = None /\ row' = None
    /\ UNCHANGED <<numThreads, board, nextBoard>>

\* main: after the last generation, compareBoards(board, ansBoard).
Compare ==
    /\ main = "fork" /\ gen = Generations
    /\ main' = "done"
    /\ UNCHANGED <<numThreads, board, nextBoard, gen, startRow, threads, row>>

Next == Crash \/ CreateThread \/ Join \/ Compare \/ \E i \in DOMAIN threads : UpdateRow(i)

Spec == Init /\ [][Next]_vars

-----------------------------------------------------------------------------
(* Properties.                                                             *)

\* No two threads are given the same row, and none a row outside the board:
\* updateBoard needs no lock (my_thread.cpp:17-32, game_of_life.cpp:50-61).
RowsApart ==
    /\ \A i \in DOMAIN threads : 0 <= threads[i].first /\ threads[i].end <= Rows
    /\ \A i, j \in DOMAIN threads :
         i < j => threads[i].end <= threads[j].first

\* When the threads of a generation are joined, nextBoard is the successor of
\* board by the rule of countNeighbors and updateBoard, whatever the number of
\* threads: no row is left out.
NextFollowsRule ==
    main \in {"fork", "done"} /\ gen > 0 =>
        nextBoard = [x \in Row |-> UpdatedRow(board, x)]

\* The parallel program agrees with the serial one on every cell that has all
\* its neighbours on the board; at the border the rules differ
\* (week6/lab1/GameOfLife.cpp:17, game_of_life.cpp:42).
InsideAgrees ==
    main = "done" /\ gen > 0 =>
        \A x \in 1 .. Rows - 2, y \in 1 .. Cols - 2 : nextBoard[x][y] = SerialNext(board, x, y)

=============================================================================
