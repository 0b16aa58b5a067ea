---------------------------- MODULE MCThreadPool ----------------------------
(* Small instances of ThreadPool for TLC. *)
EXTENDS ThreadPool, TLC

\* Clients are interchangeable; used only where no liveness is checked.
Symmetry == Permutations(Client)

=============================================================================
