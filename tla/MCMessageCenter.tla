-------------------------- MODULE MCMessageCenter ---------------------------
(* Small instances of MessageCenter for TLC. *)
EXTENDS MessageCenter, TLC

CONSTANTS p1, p2, k1, k2

\* Three messages, two of them on connections the same producer opened.
MCSends == (p1 :> 2) @@ (p2 :> 1)

=============================================================================
