--------------------------- MODULE MCParallelLife ---------------------------
(* Small instances of ParallelLife for TLC. *)
EXTENDS ParallelLife

\* Boards of five rows and three columns: three or five live cells, one of them
\* in the inside.
MCBoards ==
    LET Cells == (0 .. 4) \X (0 .. 2)
    IN  {[x \in 0 .. 4 |-> [y \in 0 .. 2 |-> IF <<x, y>> \in S THEN 1 ELSE 0]] :
            S \in {T \in SUBSET Cells : Cardinality(T) \in {3, 5} /\ <<1, 1>> \in T}}

=============================================================================
