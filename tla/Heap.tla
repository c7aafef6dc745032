-------------------------------- MODULE Heap --------------------------------
(***************************************************************************)
(* What an allocator promises the program that calls it: the bytes behind  *)
(* the pointers it handed out and did not take back are inside the arena   *)
(* and belong to one pointer each, and taking back anything else changes   *)
(* nothing.                                                                *)
(***************************************************************************)
EXTENDS Integers

CONSTANT ARENA    \* bytes of the arena

VARIABLE live     \* pointer -> bytes asked for, as a partial function

Bytes(p, n) == p..(p + n - 1)

HeapInit == live = << >>

Alloc(p, n) ==
    /\ n > 0 /\ p > 0 /\ p + n <= ARENA
    /\ \A q \in DOMAIN live : p + n <= q \/ q + live[q] <= p
    /\ live' = [q \in DOMAIN live \cup {p} |-> IF q = p THEN n ELSE live[q]]

Dispose(p) ==
    /\ p \in DOMAIN live
    /\ live' = [q \in DOMAIN live \ {p} |-> live[q]]

HeapNext ==
    \/ \E p, n \in 1..ARENA : Alloc(p, n)
    \/ \E p \in DOMAIN live : Dispose(p)

HeapSpec == HeapInit /\ [][HeapNext]_live
=============================================================================
