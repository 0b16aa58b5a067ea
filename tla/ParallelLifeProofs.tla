------------------------- MODULE ParallelLifeProofs -------------------------
(***************************************************************************)
(* Proofs about ParallelLife, for every size of board and every number of  *)
(* threads: the rows are dealt without overlap and without a gap, and so   *)
(* nextBoard is the successor of board when a generation is joined; inside *)
(* the border it is the one of the serial rule.                            *)
(***************************************************************************)
EXTENDS ParallelLife, FiniteSetTheorems, TLAPS

Share == Rows \div numThreads
Extra == Rows % numThreads

\* The quotient and the remainder of run() make up all rows.
LEMMA Quotient ==
    ASSUME NEW n \in Nat \ {0}, NEW r \in Nat
    PROVE  /\ r \div n \in Nat /\ r % n \in Nat
           /\ r = n * (r \div n) + (r % n)
  OBVIOUS

\* One thread less to come: one share less to deal.
LEMMA OneShare ==
    ASSUME NEW k \in Nat \ {0}, NEW q \in Nat
    PROVE  k * q = (k - 1) * q + q /\ (k - 1) * q \in Nat /\ k * q \in Nat
  OBVIOUS

-----------------------------------------------------------------------------
(* The inductive invariant.  Dealt says what is left to deal, Chain and    *)
(* Covered that the rows dealt are apart and without a gap, Computed that  *)
(* what a thread has passed is done, and Whole that a generation that was  *)
(* joined is kept: the next one computes the same rows from the same board.*)

Shape ==
    /\ numThreads \in Nat /\ startRow \in Nat /\ gen \in Nat /\ Created \in Nat
    /\ main \in {"fork", "join", "done", "crashed"}
    /\ DOMAIN threads = 0 .. Created - 1 /\ DOMAIN row = DOMAIN threads
    /\ threads \in [DOMAIN threads -> [first : Nat, end : Nat]]
    /\ row \in [DOMAIN threads -> Nat]
    /\ DOMAIN nextBoard = Row /\ nextBoard = [x \in Row |-> nextBoard[x]]
    /\ board \in Boards

Phase ==
    /\ main = "fork" => Created = 0 \/ Created < numThreads
    /\ main = "join" => Created = numThreads /\ numThreads > 0
    /\ Created # 0 => gen < Generations
    /\ numThreads = 0 => Created = 0 /\ startRow = 0

Dealt ==
    numThreads > 0 =>
        IF Created = numThreads THEN startRow = Rows
        ELSE Created < numThreads /\ startRow + (numThreads - Created) * Share + Extra = Rows

Chain ==
    /\ \A i \in DOMAIN threads :
         threads[i].first <= row[i] /\ row[i] <= threads[i].end /\ threads[i].end <= startRow
    /\ \A i, j \in DOMAIN threads : i < j => threads[i].end <= threads[j].first

Mine(i) == {x \in Row : threads[i].first <= x /\ x < threads[i].end}
Covered == \A x \in Row : x < startRow => \E i \in DOMAIN threads : x \in Mine(i)

Computed ==
    \A i \in DOMAIN threads : \A x \in Row :
        threads[i].first <= x /\ x < row[i] => nextBoard[x] = UpdatedRow(board, x)
Whole == gen > 0 => \A x \in Row : nextBoard[x] = UpdatedRow(board, x)

IInv == Shape /\ Phase /\ Dealt /\ Chain /\ Covered /\ Computed /\ Whole

LEMMA InitIInv == Init => IInv
<1> SUFFICES ASSUME Init PROVE IInv
  OBVIOUS
<1> USE LifeAssumption
<1>1. DOMAIN threads = {} /\ DOMAIN row = {} /\ Created = 0
  BY FS_EmptySet DEF Init, None, Created
<1>2. 0 .. 0 - 1 = {}
  OBVIOUS
<1>3. Shape
  <2>1. numThreads \in Nat /\ startRow = 0 /\ gen = 0 /\ main = "fork" /\ board \in Boards
    BY DEF Init
  <2>2. threads \in [DOMAIN threads -> [first : Nat, end : Nat]] /\ row \in [DOMAIN threads -> Nat]
    BY <1>1 DEF Init, None
  <2>3. DOMAIN nextBoard = Row /\ nextBoard = [x \in Row |-> nextBoard[x]]
    BY DEF Init
  <2> QED
    BY <1>1, <1>2, <2>1, <2>2, <2>3 DEF Shape
<1>4. Dealt
  <2>1. CASE numThreads > 0
    <3>1. Rows = numThreads * Share + Extra /\ Share \in Nat /\ Extra \in Nat
      BY <1>3, <2>1, Quotient DEF Share, Extra, Shape
    <3>2. Created < numThreads /\ startRow = 0 /\ numThreads - Created = numThreads
      BY <1>1, <1>3, <2>1 DEF Init, Shape
    <3>3. numThreads * Share \in Nat
      BY <1>3, <2>1, <3>1, OneShare DEF Shape
    <3>4. (numThreads - Created) * Share = numThreads * Share
      BY <3>2, Zenon
    <3>5. startRow + numThreads * Share + Extra = Rows
      BY <3>1, <3>2, <3>3, LifeAssumption
    <3>6. startRow + (numThreads - Created) * Share + Extra = Rows
      BY <3>4, <3>5, Zenon
    <3> QED
      BY <3>2, <3>6, <1>3 DEF Dealt, Shape
  <2> QED
    BY <2>1 DEF Dealt
<1> QED
  BY <1>1, <1>3, <1>4 DEF Init, IInv, Phase, Chain, Covered, Computed, Whole, Row

-----------------------------------------------------------------------------
\* The next thread begins where the last one ends, and ends within the board.
LEMMA NextShare ==
    ASSUME IInv, main = "fork", Created < numThreads
    PROVE  /\ numThreads > 0 /\ EndRow(Created) \in Nat
           /\ startRow <= EndRow(Created) /\ EndRow(Created) <= Rows
           /\ IF Created + 1 = numThreads THEN EndRow(Created) = Rows
              ELSE /\ Created + 1 < numThreads
                   /\ EndRow(Created) + (numThreads - (Created + 1)) * Share + Extra = Rows
<1> DEFINE k == numThreads - Created
<1>1. k \in Nat \ {0} /\ numThreads > 0 /\ startRow \in Nat /\ numThreads \in Nat /\ Created \in Nat
  BY DEF IInv, Shape
<1>2. Share \in Nat /\ Extra \in Nat /\ Rows \in Nat
  BY <1>1, Quotient, LifeAssumption DEF Share, Extra
<1>3. startRow + k * Share + Extra = Rows
  BY <1>1 DEF IInv, Dealt
<1>4. k * Share = (k - 1) * Share + Share /\ (k - 1) * Share \in Nat
  BY <1>1, <1>2, OneShare
<1>5. k - 1 = numThreads - (Created + 1)
  BY <1>1
<1>6. EndRow(Created) = startRow + Share + (IF k = 1 THEN Extra ELSE 0)
  BY <1>1 DEF EndRow, Share, Extra
<1>7. CASE k = 1
  <2>1. k * Share = Share
    BY <1>2, <1>7
  <2>2. EndRow(Created) = Rows
    BY <1>1, <1>2, <1>3, <1>6, <1>7, <2>1
  <2> QED
    BY <1>1, <1>2, <1>6, <1>7, <2>2
<1>8. CASE k # 1
  <2>1. EndRow(Created) = startRow + Share
    BY <1>1, <1>2, <1>6, <1>8
  <2>2. EndRow(Created) + (k - 1) * Share + Extra = Rows
    <3> HIDE DEF k
    <3> QED
      BY <1>1, <1>2, <1>3, <1>4, <2>1
  <2>3. EndRow(Created) <= Rows
    <3> HIDE DEF k
    <3> QED
      BY <1>1, <1>2, <1>4, <2>1, <2>2
  <2>4. EndRow(Created) + (numThreads - (Created + 1)) * Share + Extra = Rows
    BY <1>5, <2>2, Zenon
  <2>5. Created + 1 < numThreads
    BY <1>1, <1>8
  <2> QED
    BY <1>1, <1>2, <2>1, <2>3, <2>4, <2>5
<1> QED
  BY <1>7, <1>8

LEMMA CreateStep == IInv /\ CreateThread => IInv'
<1> SUFFICES ASSUME IInv, CreateThread PROVE IInv'
  OBVIOUS
<1> DEFINE c == Created
           e == EndRow(Created)
<1>1. main = "fork" /\ c < numThreads /\ c \in Nat /\ DOMAIN threads = 0 .. c - 1
  BY DEF CreateThread, IInv, Shape
<1>2. /\ e \in Nat /\ startRow \in Nat /\ startRow <= e /\ e <= Rows /\ numThreads > 0
      /\ numThreads \in Nat
  BY <1>1, NextShare DEF IInv, Shape
<1>3. /\ DOMAIN threads' = DOMAIN threads \cup {c} /\ DOMAIN row' = DOMAIN threads \cup {c}
      /\ \A i \in DOMAIN threads : threads'[i] = threads[i] /\ row'[i] = row[i]
      /\ threads'[c] = [first |-> startRow, end |-> e] /\ row'[c] = startRow
      /\ threads' = [i \in DOMAIN threads' |-> threads'[i]] /\ row' = [i \in DOMAIN row' |-> row'[i]]
  BY <1>1 DEF CreateThread, Extend, IInv, Shape
<1>4. c \notin DOMAIN threads /\ DOMAIN threads' = 0 .. c
  BY <1>1, <1>3
<1>5. Created' = c + 1
  BY <1>1, <1>3, <1>4, FS_AddElement, FS_Interval DEF Created
<1>6. Shape'
  <2>1. DOMAIN threads' = 0 .. Created' - 1
    BY <1>1, <1>4, <1>5
  <2>2. /\ threads' \in [DOMAIN threads' -> [first : Nat, end : Nat]]
        /\ row' \in [DOMAIN threads' -> Nat]
    <3>1. \A i \in DOMAIN threads' : threads'[i] \in [first : Nat, end : Nat] /\ row'[i] \in Nat
      BY <1>2, <1>3 DEF IInv, Shape
    <3> QED
      BY <1>3, <3>1
  <2> QED
    BY <1>1, <1>2, <1>3, <1>5, <2>1, <2>2 DEF CreateThread, IInv, Shape
<1>7. Phase'
  BY <1>1, <1>2, <1>5 DEF CreateThread, Phase
<1>8. Dealt'
  BY <1>1, <1>2, <1>5, NextShare DEF CreateThread, Dealt, Share, Extra
<1>9. Chain'
  <2>1. \A i \in DOMAIN threads' :
           threads'[i].first <= row'[i] /\ row'[i] <= threads'[i].end /\ threads'[i].end <= startRow'
    BY <1>1, <1>2, <1>3 DEF CreateThread, IInv, Shape, Chain
  <2>2. \A i, j \in DOMAIN threads' : i < j => threads'[i].end <= threads'[j].first
    BY <1>1, <1>2, <1>3 DEF IInv, Shape, Chain
  <2> QED
    BY <2>1, <2>2 DEF Chain
<1>10. Covered'
  <2> SUFFICES ASSUME NEW x \in Row, x < startRow'
               PROVE  \E i \in DOMAIN threads' : threads'[i].first <= x /\ x < threads'[i].end
    BY DEF Covered, Mine, Row
  <2>1. CASE x < startRow
    BY <1>3, <2>1 DEF IInv, Covered, Mine
  <2>2. CASE x >= startRow
    BY <1>1, <1>2, <1>3, <2>2 DEF CreateThread, Row
  <2> QED
    BY <1>2, <2>1, <2>2 DEF Row
<1>11. Computed'
  BY <1>1, <1>2, <1>3 DEF CreateThread, IInv, Computed, Row
<1> QED
  BY <1>6, <1>7, <1>8, <1>9, <1>10, <1>11 DEF CreateThread, IInv, Whole

LEMMA UpdateStep == ASSUME NEW i \in DOMAIN threads PROVE IInv /\ UpdateRow(i) => IInv'
<1> SUFFICES ASSUME IInv, UpdateRow(i) PROVE IInv'
  OBVIOUS
<1> DEFINE r == row[i]
<1>1. /\ r \in Nat /\ r < threads[i].end /\ threads[i].end \in Nat /\ startRow \in Nat
      /\ threads[i].first \in Nat /\ threads[i].first <= r /\ threads[i].end <= startRow
  BY DEF UpdateRow, IInv, Shape, Chain
<1>2. row' = [row EXCEPT ![i] = r + 1] /\ i \in DOMAIN row
  BY DEF UpdateRow, IInv, Shape
<1>3. nextBoard' = [nextBoard EXCEPT ![r] = UpdatedRow(board, r)]
  BY DEF UpdateRow
<1>4. UNCHANGED <<numThreads, board, gen, main, startRow, threads>> /\ Created' = Created
  BY DEF UpdateRow, Created
<1>5. DOMAIN nextBoard' = Row /\ nextBoard' = [x \in Row |-> nextBoard'[x]]
  BY <1>3 DEF IInv, Shape
<1>6. \A x \in Row : nextBoard'[x] = IF x = r THEN UpdatedRow(board, r) ELSE nextBoard[x]
  BY <1>3 DEF IInv, Shape
<1>7. Shape'
  <2>1. row' \in [DOMAIN threads' -> Nat] /\ DOMAIN row' = DOMAIN threads'
    BY <1>1, <1>2, <1>4 DEF IInv, Shape
  <2> QED
    BY <1>4, <1>5, <2>1 DEF IInv, Shape
<1>8. Chain'
  BY <1>1, <1>2, <1>4 DEF IInv, Shape, Chain
<1>9. Computed'
  <2> SUFFICES ASSUME NEW j \in DOMAIN threads, NEW x \in Row,
                      threads[j].first <= x, x < row'[j]
               PROVE  nextBoard'[x] = UpdatedRow(board, x)
    BY <1>4 DEF Computed, Row
  <2>1. CASE x = r
    BY <1>6, <2>1
  <2>2. CASE x # r
    BY <1>1, <1>2, <1>6, <2>2 DEF IInv, Shape, Computed, Row
  <2> QED
    BY <2>1, <2>2
<1>10. Whole'
  BY <1>4, <1>6 DEF IInv, Whole, Row
<1> QED
  BY <1>4, <1>7, <1>8, <1>9, <1>10 DEF IInv, Phase, Dealt, Share, Extra, Covered, Mine, Row

LEMMA JoinStep == IInv /\ Join => IInv'
<1> SUFFICES ASSUME IInv, Join PROVE IInv'
  OBVIOUS
<1>1. \A x \in Row : nextBoard[x] = UpdatedRow(board, x)
  <2> SUFFICES ASSUME NEW x \in Row PROVE nextBoard[x] = UpdatedRow(board, x)
    OBVIOUS
  <2>1. startRow = Rows
    BY DEF Join, IInv, Phase, Dealt
  <2>2. PICK i \in DOMAIN threads : x \in Mine(i)
    BY <2>1, LifeAssumption DEF IInv, Covered, Row
  <2>3. row[i] = threads[i].end
    BY DEF Join, Finished
  <2> QED
    BY <2>2, <2>3 DEF IInv, Computed, Mine
<1>2. /\ DOMAIN threads' = {} /\ DOMAIN row' = {} /\ Created' = 0
      /\ startRow' = 0 /\ main' = "fork" /\ gen' = gen + 1
      /\ UNCHANGED <<numThreads, board, nextBoard>>
  BY FS_EmptySet DEF Join, None, Created
<1>3. numThreads \in Nat /\ numThreads > 0 /\ gen \in Nat
  BY DEF Join, IInv, Phase, Shape
<1>4. 0 .. 0 - 1 = {}
  OBVIOUS
<1>5. Shape'
  <2>1. threads' \in [DOMAIN threads' -> [first : Nat, end : Nat]] /\ row' \in [DOMAIN threads' -> Nat]
    BY DEF Join, None
  <2> QED
    BY <1>2, <1>3, <1>4, <2>1 DEF IInv, Shape
<1>6. Dealt'
  <2>1. Rows = numThreads * Share + Extra /\ Share \in Nat /\ Extra \in Nat /\ Rows \in Nat
    BY <1>3, Quotient, LifeAssumption DEF Share, Extra
  <2>2. numThreads * Share \in Nat
    BY <1>3, <2>1, OneShare
  <2>3. 0 + numThreads * Share + Extra = Rows
    BY <2>1, <2>2
  <2>4. numThreads - 0 = numThreads
    BY <1>3
  <2>5. 0 + (numThreads - 0) * Share + Extra = Rows
    BY <2>3, <2>4, Zenon
  <2> QED
    BY <1>2, <1>3, <2>5 DEF Dealt, Share, Extra
<1> QED
  BY <1>1, <1>2, <1>3, <1>5, <1>6, LifeAssumption
     DEF IInv, Phase, Chain, Covered, Computed, Whole, Row

THEOREM Invariant == Spec => []IInv
<1>1. IInv /\ [Next]_vars => IInv'
  <2> SUFFICES ASSUME IInv, [Next]_vars PROVE IInv'
    OBVIOUS
  <2>1. CASE Crash
    BY <2>1 DEF Crash, IInv, Shape, Phase, Dealt, Share, Extra, Chain, Covered, Mine, Computed, Whole, Created
  <2>2. CASE CreateThread
    BY <2>2, CreateStep
  <2>3. CASE Join
    BY <2>3, JoinStep
  <2>4. CASE Compare
    <3>1. Created = 0
      BY <2>4, LifeAssumption DEF Compare, IInv, Phase
    <3> QED
      BY <2>4, <3>1 DEF Compare, IInv, Shape, Phase, Dealt, Share, Extra, Chain, Covered, Mine, Computed, Whole, Created
  <2>5. ASSUME NEW i \in DOMAIN threads, UpdateRow(i) PROVE IInv'
    BY <2>5, UpdateStep
  <2>6. CASE UNCHANGED vars
    BY <2>6 DEF vars, IInv, Shape, Phase, Dealt, Share, Extra, Chain, Covered, Mine, Computed, Whole, Created
  <2> QED
    BY <2>1, <2>2, <2>3, <2>4, <2>5, <2>6 DEF Next
<1> QED
  BY InitIInv, <1>1, PTL DEF Spec

\* RowsApart for every board and every number of threads, zero and more than
\* rows included: updateBoard needs no lock.
THEOREM ThreadsKeepApart == Spec => []RowsApart
<1>1. IInv => RowsApart
  <2> SUFFICES ASSUME IInv PROVE RowsApart
    OBVIOUS
  <2>1. startRow <= Rows
    <3>1. CASE numThreads = 0
      BY <3>1, LifeAssumption DEF IInv, Phase
    <3>2. CASE numThreads > 0 /\ Created # numThreads
      <4>1. numThreads - Created \in Nat \ {0} /\ startRow \in Nat /\ numThreads \in Nat \ {0}
        BY <3>2 DEF IInv, Dealt, Shape
      <4>2. Share \in Nat /\ Extra \in Nat /\ Rows \in Nat
        BY <4>1, Quotient, LifeAssumption DEF Share, Extra
      <4>3. (numThreads - Created) * Share \in Nat
        BY <4>1, <4>2, OneShare
      <4>4. startRow + (numThreads - Created) * Share + Extra = Rows
        BY <3>2 DEF IInv, Dealt
      <4> DEFINE k == (numThreads - Created) * Share
      <4> HIDE DEF k
      <4>5. k \in Nat /\ startRow + k + Extra = Rows
        BY <4>3, <4>4 DEF k
      <4> QED
        BY <4>1, <4>2, <4>5
    <3>3. CASE numThreads > 0 /\ Created = numThreads
      BY <3>3, LifeAssumption DEF IInv, Dealt
    <3> QED
      BY <3>1, <3>2, <3>3 DEF IInv, Shape
  <2> QED
    BY <2>1, LifeAssumption DEF IInv, Shape, Chain, RowsApart
<1> QED
  BY Invariant, <1>1, PTL

\* NextFollowsRule for every board and every number of threads: the rows dealt
\* cover the board, and the joins wait for all of them.
THEOREM JoinedGenerationIsNext == Spec => []NextFollowsRule
<1>1. IInv => NextFollowsRule
  BY DEF IInv, Shape, Whole, NextFollowsRule
<1> QED
  BY Invariant, <1>1, PTL

-----------------------------------------------------------------------------
(* The two rules.                                                          *)

\* Where nothing has to wrap around the torus, the remainder changes nothing.
LEMMA NoWrap ==
    ASSUME NEW R \in Nat \ {0}, NEW a \in 0 .. R - 1
    PROVE  (a + R) % R = a
<1> DEFINE q == (a + R) \div R
           r == (a + R) % R
<1>1. q \in Nat /\ r \in 0 .. R - 1 /\ a + R = R * q + r
  OBVIOUS
<1> HIDE DEF q, r
<1>2. q = 1
  <2>1. q # 0
    BY <1>1
  <2>2. ASSUME q >= 2 PROVE FALSE
    <3>1. R * q >= R * 2
      BY <1>1, <2>2
    <3> QED
      BY <1>1, <3>1
  <2> QED
    BY <1>1, <2>1, <2>2
<1> QED
  BY <1>1, <1>2 DEF r

\* A cell with all its neighbours on the board has as many by either count.
LEMMA SameCount ==
    ASSUME NEW x \in 1 .. Rows - 2, NEW y \in 1 .. Cols - 2
    PROVE  CountNeighbors(board, x, y) = SerialNeighbors(board, x, y)
<1>1. ASSUME NEW d \in Offset
      PROVE  /\ x + d[1] \in Row /\ y + d[2] \in Col
             /\ (x + d[1] + Rows) % Rows = x + d[1] /\ (y + d[2] + Cols) % Cols = y + d[2]
  <2>1. d[1] \in -1 .. 1 /\ d[2] \in -1 .. 1
    BY DEF Offset
  <2>2. x + d[1] \in 0 .. Rows - 1 /\ y + d[2] \in 0 .. Cols - 1
    BY <2>1, LifeAssumption
  <2> QED
    BY <2>2, NoWrap, LifeAssumption DEF Row, Col
<1> QED
  BY <1>1 DEF CountNeighbors, SerialNeighbors

\* InsideAgrees for every board and every number of threads: what the threads
\* leave in nextBoard is, off the border, what getAliveNumber and
\* nextGeneration of the serial program make of the same board.
THEOREM InsideIsSerial == Spec => []InsideAgrees
<1>1. IInv => InsideAgrees
  <2> SUFFICES ASSUME IInv, gen > 0, NEW x \in 1 .. Rows - 2, NEW y \in 1 .. Cols - 2
               PROVE  nextBoard[x][y] = SerialNext(board, x, y)
    BY DEF InsideAgrees
  <2> DEFINE n == SerialNeighbors(board, x, y)
  <2>1. x \in Row /\ y \in Col
    BY LifeAssumption DEF Row, Col
  <2>2. board[x][y] \in {0, 1}
    BY <2>1, LifeAssumption DEF IInv, Shape
  <2>3. nextBoard[x][y] = NextCell(board[x][y], n)
    BY <2>1, SameCount DEF IInv, Whole, UpdatedRow
  <2>4. SerialNext(board, x, y) = IF n = 3 THEN 1 ELSE IF n = 2 THEN board[x][y] ELSE 0
    BY DEF SerialNext
  <2> HIDE DEF n
  <2> QED
    BY <2>2, <2>3, <2>4 DEF NextCell
<1> QED
  BY Invariant, <1>1, PTL

=============================================================================
