--------------------------- MODULE MCQueueServer ----------------------------
(* Small instances of QueueServer for TLC. *)
EXTENDS QueueServer, TLC

CONSTANTS p1, p2, k1, k2

\* One producer with more numbers than a batch, one with fewer than start one.
MCCount == (p1 :> 3) @@ (p2 :> 1)

=============================================================================
