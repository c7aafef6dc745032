------------------------------ MODULE MCWTFSync ------------------------------
(* Small instances of WTFSync for TLC. *)
EXTENDS WTFSync

Symmetry == Permutations(Clients)
=============================================================================
