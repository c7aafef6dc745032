------------------------------ MODULE MyMalloc ------------------------------
(***************************************************************************)
(* mymalloc and myfree of Asst1: a first-fit allocator in a static array   *)
(* of 4096 bytes.  A block is a header and its payload.  A header is one   *)
(* byte, with six bits for the size, or two, with twelve.                  *)
(*                                                                         *)
(* hdr maps the positions get_next_header_position visits from the start   *)
(* of the array to the headers there; the positions a block swallows leave *)
(* its domain.  The array starts zeroed, so at first every byte reads as   *)
(* an unused one-byte header of size 0.  live is what the program holds.   *)
(***************************************************************************)
EXTENDS Integers, FiniteSets

CONSTANTS
    ARENA,     \* bytes of blocks: 4096
    SMALL,     \* sizes a one-byte header can hold: 64
    LARGE,     \* sizes a two-byte header can hold: 4096
    MaxSize    \* bound on the sizes asked for

ASSUME SizesAssumption ==
    /\ ARENA \in Nat /\ SMALL \in Nat /\ LARGE \in Nat /\ MaxSize \in Nat
    /\ 2 <= SMALL /\ SMALL < ARENA /\ ARENA <= LARGE

VARIABLES
    hdr,      \* position -> header
    live,     \* pointer -> size, of the blocks the program holds
    refused   \* the size of the request just refused, or 0

heapVars == <<hdr, live, refused>>

Null == -1

----------------------------------------------------------------------------
(* Headers. *)

Headers == [used : BOOLEAN, large : BOOLEAN, size : Nat]
Zero == [used |-> FALSE, large |-> FALSE, size |-> 0]

\* A size is stored in six or in twelve bits.
Header(used, large, size) ==
    [used |-> used, large |-> large, size |-> size % (IF large THEN LARGE ELSE SMALL)]

Width(h) == IF h.large THEN 2 ELSE 1
Total(h) == h.size + Width(h)                     \* get_blk_size
DataPointer(p) == p + Width(hdr[p])               \* get_data_pointer
End(p) == p + Total(hdr[p])                       \* get_next_header_position

\* write_new_header
NewHeader(used, total) ==
    IF total > SMALL THEN Header(used, TRUE, total - 2) ELSE Header(used, FALSE, total - 1)

\* adjust_header_size: a small header that must hold SMALL bytes or more grows
\* by a byte, which it takes from the payload.
AdjustedInPlace(h, size, used) == Header(used, size >= SMALL, size)    \* variant: the byte forgotten
Adjusted(h, size, used) ==
    Header(used, size >= SMALL, IF ~h.large /\ size >= SMALL THEN size - 1 ELSE size)

----------------------------------------------------------------------------
(* mymalloc *)

Fresh == hdr[0] = Zero

\* The whole array becomes one unused block on the first request.
Prepared == IF Fresh THEN [p \in {0} |-> NewHeader(FALSE, ARENA)] ELSE hdr

FittingStrictly(blocks, n) == {p \in DOMAIN blocks : ~blocks[p].used /\ blocks[p].size > n}    \* variant
Fitting(blocks, n) == {p \in DOMAIN blocks : ~blocks[p].used /\ blocks[p].size >= n}

\* The walk meets the blocks in the order of their positions.
FirstFit(blocks, n, p) ==
    /\ p \in Fitting(blocks, n)
    /\ \A q \in Fitting(blocks, n) : p <= q

\* The block at p is cut to n bytes and the rest becomes an unused block.
CutLosingRest(blocks, p, n) ==    \* variant: the rest is not given a header
    [q \in DOMAIN blocks |-> IF q = p THEN Adjusted(blocks[p], n, TRUE) ELSE blocks[q]]

Cut(blocks, p, n) ==
    LET h == Adjusted(blocks[p], n, TRUE)
        next == p + Total(h)
        rest == Total(blocks[p]) - Total(h)
        written == IF next < ARENA /\ rest # 0 THEN {next} ELSE {}
    IN  [q \in DOMAIN blocks \cup written |->
            IF q = p THEN h
            ELSE IF q \in written THEN NewHeader(FALSE, rest)
            ELSE blocks[q]]

MallocZero ==
    /\ refused' = 0
    /\ UNCHANGED <<hdr, live>>

\* A request that is too big for a fresh array leaves it fresh.
MallocRefused(n) ==
    /\ \/ Fresh /\ n > ARENA - 1 /\ UNCHANGED hdr
       \/ /\ ~(Fresh /\ n > ARENA - 1)
          /\ Fitting(Prepared, n) = {}
          /\ hdr' = Prepared
    /\ refused' = n
    /\ UNCHANGED live

MallocGranted(n) ==
    \E p \in 0..(ARENA - 1) :
        /\ ~(Fresh /\ n > ARENA - 1)
        /\ FirstFit(Prepared, n, p)
        /\ hdr' = Cut(Prepared, p, n)
        /\ LET ptr == p + Width(Adjusted(Prepared[p], n, TRUE))
           IN  live' = [q \in DOMAIN live \cup {ptr} |-> IF q = ptr THEN n ELSE live[q]]
        /\ refused' = 0

Malloc(n) == MallocRefused(n) \/ MallocGranted(n)

----------------------------------------------------------------------------
(* myfree *)

\* The payload of the block at p together with an unused block after it.
GrownSize(p) ==
    IF End(p) \in DOMAIN hdr /\ ~hdr[End(p)].used
    THEN hdr[p].size + Total(hdr[End(p)])
    ELSE hdr[p].size

Swallowed(p) == IF End(p) \in DOMAIN hdr /\ ~hdr[End(p)].used THEN {End(p)} ELSE {}

UnusedBefore(p) == {q \in DOMAIN hdr : End(q) = p /\ ~hdr[q].used}

\* The headers after the block at p is released: it is merged with an unused
\* block after it and then into an unused block before it.
ReleasedForward(p) ==    \* variant: the block before is not looked at
    LET h == Adjusted(hdr[p], GrownSize(p), FALSE)
    IN  [q \in DOMAIN hdr \ Swallowed(p) |-> IF q = p THEN h ELSE hdr[q]]

Released(p) ==
    LET h == Adjusted(hdr[p], GrownSize(p), FALSE)
        before == UnusedBefore(p)
        gone == Swallowed(p) \cup IF before = {} THEN {} ELSE {p}
    IN  [q \in DOMAIN hdr \ gone |->
            IF q \in before THEN Adjusted(hdr[q], hdr[q].size + Total(h), FALSE)
            ELSE IF q = p THEN h
            ELSE hdr[q]]

\* A pointer to the payload of a used block is given back.
Free(ptr) ==
    \E p \in DOMAIN hdr :
        /\ DataPointer(p) = ptr /\ hdr[p].used
        /\ hdr' = Released(p)
        /\ live' = [q \in DOMAIN live \ {ptr} |-> live[q]]
        /\ refused' = 0

\* Null, a pointer outside the array, or one that no used block answers to.
FreeRefused(ptr) ==
    /\ ~\E p \in DOMAIN hdr : DataPointer(p) = ptr /\ hdr[p].used
    /\ refused' = 0
    /\ UNCHANGED <<hdr, live>>

----------------------------------------------------------------------------
MallocInit ==
    /\ hdr = [p \in 0..(ARENA - 1) |-> Zero]
    /\ live = << >>
    /\ refused = 0

MallocNext ==
    \/ MallocZero
    \/ \E n \in 1..MaxSize : Malloc(n)
    \/ \E ptr \in Null..(ARENA + 1) : Free(ptr) \/ FreeRefused(ptr)

MallocSpec == MallocInit /\ [][MallocNext]_heapVars

----------------------------------------------------------------------------
\* Headers stay inside the array and the blocks handed out end inside it
\* (mymalloc.c:44-115).
MallocTypeOK ==
    /\ DOMAIN hdr \subseteq 0..(ARENA - 1)
    /\ \A p \in DOMAIN hdr : hdr[p] \in Headers
    /\ DOMAIN live \subseteq 1..ARENA
    /\ \A p \in DOMAIN live : live[p] \in 1..ARENA /\ p + live[p] <= ARENA
    /\ refused \in 0..MaxSize

\* The headers tile the array: the walk from its start meets every header,
\* never lands between two and ends at the end of the array (mymalloc.c:125-138).
Tiled ==
    /\ 0 \in DOMAIN hdr
    /\ \A p \in DOMAIN hdr :
          /\ End(p) \in DOMAIN hdr \/ End(p) = ARENA
          /\ \A q \in DOMAIN hdr : p < q => End(p) <= q

\* Two unused blocks never lie side by side, once the array is in use: free
\* merges on both sides (mymalloc.c:219-234).
NoAdjacentUnused ==
    \A p \in DOMAIN hdr :
        ~Fresh /\ ~hdr[p].used /\ End(p) \in DOMAIN hdr => hdr[End(p)].used

\* The bytes of a request, its header included.
HeaderFor(n) == IF n < SMALL THEN 1 ELSE 2
Taken(b) == \E q \in DOMAIN live : q - HeaderFor(live[q]) <= b /\ b < q + live[q]

\* A request is refused only if no run of bytes outside the blocks the program
\* holds could take it with its header: freed memory can be used again whole
\* (mymalloc.c:157-170; testplan.txt E and F).
RefusedOnlyWhenFull ==
    refused > 0 =>
        \A b \in 0..(ARENA - 1) :
            b + refused + HeaderFor(refused) <= ARENA
            => \E c \in b..(b + refused + HeaderFor(refused) - 1) : Taken(c)

Promise == INSTANCE Heap

\* The allocator keeps an allocator's promise (mymalloc.c:140-235).
ImplementsHeap == Promise!HeapSpec
=============================================================================
