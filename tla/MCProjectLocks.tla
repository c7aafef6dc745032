--------------------------- MODULE MCProjectLocks ---------------------------
(* Small instances of ProjectLocks for TLC. *)
EXTENDS ProjectLocks

Symmetry == Permutations(Threads)
=============================================================================
