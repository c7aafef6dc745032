----------------------------- MODULE MCWTFServer -----------------------------
(* Small instances of WTFServer for TLC. *)
EXTENDS WTFServerRefinement

Symmetry == Permutations(Threads) \cup Permutations(Ids)

\* Calls that fail: none; any of create's; destroy's.
NoFailures == {}
CreateFailures == {"create"} \X Steps("create")
DestroyFailures == {"destroy"} \X Steps("destroy")
=============================================================================
