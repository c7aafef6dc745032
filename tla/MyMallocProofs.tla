--------------------------- MODULE MyMallocProofs ---------------------------
(***************************************************************************)
(* What TLAPS proves of MyMalloc, for an arena and headers of any size:    *)
(* the headers tile the array, unused blocks are never neighbours, and the *)
(* allocator implements Heap.                                              *)
(***************************************************************************)
EXTENDS MyMalloc, WellFoundedInduction, TLAPS

----------------------------------------------------------------------------
(* The strengthening. *)

EndIn(f, p) == p + Total(f[p])

\* The kind of a header follows from the block: a used block has a large one
\* if its payload needs it, an unused block if its whole size does.
Shaped(h) ==
    IF h.used THEN h.size >= 1 /\ (h.large <=> h.size >= SMALL)
    ELSE h.large <=> Total(h) > SMALL

Tiling(f) ==
    /\ DOMAIN f \subseteq 0..(ARENA - 1)
    /\ 0 \in DOMAIN f
    /\ \A p \in DOMAIN f : f[p] \in Headers
    /\ \A p \in DOMAIN f : EndIn(f, p) \in DOMAIN f \/ EndIn(f, p) = ARENA
    /\ \A p, q \in DOMAIN f : p < q => EndIn(f, p) <= q

Merged(f) == \A p \in DOMAIN f : ~f[p].used /\ EndIn(f, p) \in DOMAIN f => f[EndIn(f, p)].used

\* The headers once the array is in use.  The first block is never of size 0:
\* the array is not taken for a fresh one again.
Good(f) ==
    /\ Tiling(f)
    /\ Merged(f)
    /\ \A p \in DOMAIN f : Shaped(f[p])
    /\ f[0].size >= 1

\* What the program holds is the payloads of the used blocks.
Agrees(f, held) ==
    /\ \A p \in DOMAIN f : f[p].used =>
           p + Width(f[p]) \in DOMAIN held /\ held[p + Width(f[p])] = f[p].size
    /\ \A ptr \in DOMAIN held : \E p \in DOMAIN f : f[p].used /\ ptr = p + Width(f[p])

Untouched == hdr = [p \in 0..(ARENA - 1) |-> Zero] /\ live = << >>

HeapInv ==
    /\ refused \in 0..MaxSize
    /\ Untouched \/ (Good(hdr) /\ Agrees(hdr, live))

----------------------------------------------------------------------------
(* Headers. *)

LEMMA ModSmall ==
    ASSUME NEW a \in Nat, NEW b \in Nat, a < b
    PROVE  a % b = a
  OBVIOUS

\* A new header describes a block of the size asked for.
LEMMA NewHeaderFacts ==
    ASSUME NEW total \in 1..ARENA, NEW used \in BOOLEAN
    PROVE  /\ NewHeader(used, total) \in Headers
           /\ NewHeader(used, total).used = used
           /\ NewHeader(used, total).large <=> total > SMALL
           /\ Total(NewHeader(used, total)) = total
  <1>1. CASE total > SMALL
    <2>1. (total - 2) % LARGE = total - 2
      BY <1>1, ModSmall, SizesAssumption
    <2> QED
      BY <1>1, <2>1, SizesAssumption DEF NewHeader, Header, Headers, Total, Width
  <1>2. CASE ~(total > SMALL)
    <2>1. (total - 1) % SMALL = total - 1
      BY <1>2, ModSmall, SizesAssumption
    <2> QED
      BY <1>2, <2>1, SizesAssumption DEF NewHeader, Header, Headers, Total, Width
  <1> QED
    BY <1>1, <1>2

\* An adjusted header is large if the size needs it, and only a small header
\* that grows takes its second byte out of the payload.
LEMMA AdjustedFacts ==
    ASSUME NEW h \in Headers, NEW size \in Nat, NEW used \in BOOLEAN, size < LARGE
    PROVE  /\ Adjusted(h, size, used) \in Headers
           /\ Adjusted(h, size, used).used = used
           /\ Adjusted(h, size, used).large <=> size >= SMALL
           /\ Adjusted(h, size, used).size = IF ~h.large /\ size >= SMALL THEN size - 1 ELSE size
  <1> DEFINE s == IF ~h.large /\ size >= SMALL THEN size - 1 ELSE size
  <1>1. s \in Nat /\ s < LARGE /\ (size < SMALL => s < SMALL)
    BY SizesAssumption DEF Headers
  <1>2. s % LARGE = s /\ (size < SMALL => s % SMALL = s)
    BY <1>1, ModSmall, SizesAssumption
  <1> HIDE DEF s
  <1>3. Adjusted(h, size, used) =
          [used |-> used, large |-> size >= SMALL,
           size |-> s % (IF size >= SMALL THEN LARGE ELSE SMALL)]
    BY DEF Adjusted, Header, s
  <1>4. s % (IF size >= SMALL THEN LARGE ELSE SMALL) = s
    BY <1>2, SizesAssumption
  <1>5. Adjusted(h, size, used) = [used |-> used, large |-> size >= SMALL, size |-> s]
    BY <1>3, <1>4
  <1>6. (size >= SMALL) \in BOOLEAN
    OBVIOUS
  <1>7. Adjusted(h, size, used) \in Headers
    BY <1>1, <1>5, <1>6 DEF Headers
  <1>8. Adjusted(h, size, used).used = used
    BY <1>5
  <1>9. Adjusted(h, size, used).large <=> size >= SMALL
    <2> DEFINE b == size >= SMALL
    <2>1. Adjusted(h, size, used) = [used |-> used, large |-> b, size |-> s]
      BY <1>5
    <2>2. b \in BOOLEAN
      OBVIOUS
    <2> HIDE DEF b
    <2>3. Adjusted(h, size, used).large = b
      BY <2>1, <2>2
    <2>4. Adjusted(h, size, used).large <=> b
      BY <2>3
    <2> QED
      BY <2>4 DEF b
  <1>10. Adjusted(h, size, used).size = s
    BY <1>5
  <1> QED
    BY <1>7, <1>8, <1>9, <1>10 DEF s

----------------------------------------------------------------------------
(* Blocks. *)

\* A block ends behind its header and inside the arena.
LEMMA BlockFacts ==
    ASSUME NEW f, Tiling(f), NEW p \in DOMAIN f
    PROVE  /\ p \in Nat /\ p < ARENA /\ f[p] \in Headers
           /\ Width(f[p]) \in 1..2 /\ Total(f[p]) \in Nat
           /\ Total(f[p]) = f[p].size + Width(f[p])
           /\ EndIn(f, p) \in Nat /\ EndIn(f, p) = p + Total(f[p])
           /\ p < EndIn(f, p) /\ EndIn(f, p) <= ARENA
  BY SizesAssumption DEF Tiling, Headers, EndIn, Total, Width

\* The block at c becomes one that ends at e and swallows those between.
LEMMA MergeTiles ==
    ASSUME NEW f, Tiling(f), NEW g, NEW c \in DOMAIN f, NEW e,
           e \in DOMAIN f \/ e = ARENA, c < e,
           DOMAIN g = {q \in DOMAIN f : ~(c < q /\ q < e)},
           g[c] \in Headers, EndIn(g, c) = e,
           \A q \in DOMAIN g : q # c => g[q] = f[q]
    PROVE  Tiling(g)
  <1>0. c \in DOMAIN g /\ DOMAIN g \subseteq DOMAIN f
    BY BlockFacts
  <1>1. e \in Nat /\ e <= ARENA
    BY BlockFacts, SizesAssumption
  <1>2. 0 \in DOMAIN g
    BY BlockFacts DEF Tiling
  <1>3. DOMAIN g \subseteq 0..(ARENA - 1) /\ \A q \in DOMAIN g : g[q] \in Headers
    BY <1>0 DEF Tiling
  <1>4. \A q \in DOMAIN g : q # c => EndIn(g, q) = EndIn(f, q)
    BY DEF EndIn
  <1>5. ASSUME NEW q \in DOMAIN g PROVE EndIn(g, q) \in DOMAIN g \/ EndIn(g, q) = ARENA
    <2>1. CASE q = c
      BY <2>1, <1>1
    <2>2. CASE q # c
      <3>1. EndIn(g, q) = EndIn(f, q) /\ (EndIn(f, q) \in DOMAIN f \/ EndIn(f, q) = ARENA)
        BY <2>2, <1>0, <1>4 DEF Tiling
      <3>2. q \in Nat /\ c \in Nat /\ q < EndIn(f, q) /\ EndIn(f, q) \in Nat
        BY <1>0, BlockFacts
      <3>3. ~(c < EndIn(f, q) /\ EndIn(f, q) < e)
        <4>1. CASE q < c
          BY <4>1, <3>2, <1>0 DEF Tiling
        <4>2. CASE q > c
          BY <4>2, <3>2, <1>1
        <4> QED
          BY <4>1, <4>2, <2>2, <3>2
      <3> QED
        BY <3>1, <3>3
    <2> QED
      BY <2>1, <2>2
  <1>6. ASSUME NEW p \in DOMAIN g, NEW q \in DOMAIN g, p < q PROVE EndIn(g, p) <= q
    <2>1. p \in Nat /\ q \in Nat /\ c \in Nat
      BY <1>0, BlockFacts
    <2>2. CASE p = c
      BY <2>1, <2>2, <1>1, <1>6
    <2>3. CASE p # c
      BY <2>3, <1>0, <1>4, <1>6 DEF Tiling
    <2> QED
      BY <2>2, <2>3
  <1> QED
    BY <1>2, <1>3, <1>5, <1>6 DEF Tiling

\* The same for the whole of Good: if the block it becomes is unused, those on
\* both sides of it are not.
LEMMA MergeGood ==
    ASSUME NEW f, Good(f), NEW g, NEW c \in DOMAIN f, NEW e,
           e \in DOMAIN f \/ e = ARENA, c < e,
           DOMAIN g = {q \in DOMAIN f : ~(c < q /\ q < e)},
           g[c] \in Headers, EndIn(g, c) = e, Shaped(g[c]), g[c].size >= 1,
           \A q \in DOMAIN g : q # c => g[q] = f[q],
           \/ g[c].used
           \/ /\ e \in DOMAIN f => f[e].used
              /\ \A q \in DOMAIN f : EndIn(f, q) = c => f[q].used
    PROVE  Good(g)
  <1>0. Tiling(f) /\ Merged(f)
    BY DEF Good
  <1>1. Tiling(g)
    BY <1>0, MergeTiles
  <1>2. c \in DOMAIN g /\ DOMAIN g \subseteq DOMAIN f /\ c \in Nat /\ c # e
    BY <1>0, BlockFacts
  <1>3. Merged(g)
    <2> SUFFICES ASSUME NEW p \in DOMAIN g, ~g[p].used, EndIn(g, p) \in DOMAIN g
                 PROVE  g[EndIn(g, p)].used
      BY DEF Merged
    <2>1. CASE p = c
      BY <2>1, <1>2
    <2>2. CASE p # c
      <3>1. EndIn(g, p) = EndIn(f, p) /\ g[p] = f[p] /\ EndIn(f, p) \in DOMAIN f
        BY <2>2, <1>2 DEF EndIn
      <3>2. f[EndIn(f, p)].used
        BY <3>1, <1>0, <1>2 DEF Merged
      <3>3. CASE EndIn(f, p) = c
        BY <3>1, <3>2, <3>3, <1>2
      <3>4. CASE EndIn(f, p) # c
        BY <3>1, <3>2, <3>4
      <3> QED
        BY <3>3, <3>4
    <2> QED
      BY <2>1, <2>2
  <1>4. \A p \in DOMAIN g : Shaped(g[p])
    BY <1>2 DEF Good
  <1>5. g[0].size >= 1
    BY <1>1 DEF Good, Tiling
  <1> QED
    BY <1>1, <1>3, <1>4, <1>5 DEF Good

\* Two used blocks have different payloads.
LEMMA PayloadsApart ==
    ASSUME NEW f, Good(f), NEW p \in DOMAIN f, NEW q \in DOMAIN f, p < q
    PROVE  p + Width(f[p]) + f[p].size < q + Width(f[q])
  <1>1. Tiling(f) /\ EndIn(f, p) <= q
    BY DEF Good, Tiling
  <1> QED
    BY <1>1, BlockFacts DEF Headers

----------------------------------------------------------------------------
(* Cutting a block. *)

\* The header written for n bytes taken from an unused block: no larger than
\* the block, whose own header is large if that of n is.
LEMMA CutHeader ==
    ASSUME NEW f, Good(f), NEW p \in DOMAIN f, ~f[p].used, NEW n \in 1..f[p].size
    PROVE  /\ Adjusted(f[p], n, TRUE) \in Headers
           /\ Adjusted(f[p], n, TRUE).used
           /\ Adjusted(f[p], n, TRUE).size = n
           /\ Shaped(Adjusted(f[p], n, TRUE))
           /\ Total(Adjusted(f[p], n, TRUE)) \in Nat
           /\ Total(Adjusted(f[p], n, TRUE)) <= Total(f[p])
           /\ Total(Adjusted(f[p], n, TRUE)) >= 2
  <1> DEFINE h == Adjusted(f[p], n, TRUE)
  <1>1. Tiling(f) /\ Shaped(f[p])
    BY DEF Good
  <1>2. f[p] \in Headers /\ f[p].size \in Nat /\ n \in Nat /\ n < LARGE
    BY <1>1, BlockFacts, SizesAssumption DEF Headers
  <1>3. ~f[p].large => n < SMALL
    BY <1>1, <1>2, SizesAssumption DEF Shaped, Total, Width
  <1>4. /\ h \in Headers /\ h.used = TRUE /\ (h.large <=> n >= SMALL)
        /\ h.size = IF ~f[p].large /\ n >= SMALL THEN n - 1 ELSE n
    BY <1>2, AdjustedFacts
  <1>5. h.size = n
    <2>1. ~(~f[p].large /\ n >= SMALL)
      BY <1>2, <1>3, SizesAssumption
    <2> QED
      BY <1>4, <2>1, Zenon
  <1> HIDE DEF h
  <1>6. Shaped(h)
    BY <1>2, <1>4, <1>5 DEF Shaped
  <1>7. Total(h) \in Nat /\ Total(h) >= 2 /\ Total(h) <= Total(f[p])
    BY <1>2, <1>3, <1>4, <1>5, SizesAssumption DEF Total, Width
  <1> QED
    BY <1>4, <1>5, <1>6, <1>7 DEF h

\* Cutting an unused block leaves the array in order: the block at p is used
\* and has n bytes, the blocks before stay, a new one is unused.
LEMMA CutGood ==
    ASSUME NEW f, Good(f), NEW p \in DOMAIN f, ~f[p].used, NEW n \in 1..f[p].size
    PROVE  /\ Good(Cut(f, p, n))
           /\ DOMAIN f \subseteq DOMAIN Cut(f, p, n)
           /\ Cut(f, p, n)[p] = Adjusted(f[p], n, TRUE)
           /\ \A q \in DOMAIN f : q # p => Cut(f, p, n)[q] = f[q]
           /\ \A q \in DOMAIN Cut(f, p, n) : q \notin DOMAIN f => ~Cut(f, p, n)[q].used
  <1> DEFINE h == Adjusted(f[p], n, TRUE)
             next == p + Total(h)
             rest == Total(f[p]) - Total(h)
             written == IF next < ARENA /\ rest # 0 THEN {next} ELSE {}
             g == Cut(f, p, n)
  <1>1. Tiling(f) /\ Merged(f)
    BY DEF Good
  <1>2. /\ h \in Headers /\ h.used /\ h.size = n /\ Shaped(h)
        /\ Total(h) \in Nat /\ Total(h) <= Total(f[p]) /\ Total(h) >= 2
    BY CutHeader
  <1>3. /\ p \in Nat /\ Total(f[p]) \in Nat /\ EndIn(f, p) = p + Total(f[p])
        /\ EndIn(f, p) <= ARENA /\ p < EndIn(f, p)
        /\ (EndIn(f, p) \in DOMAIN f \/ EndIn(f, p) = ARENA)
    BY <1>1, BlockFacts DEF Tiling
  <1>4. g = [q \in DOMAIN f \cup written |->
                IF q = p THEN h
                ELSE IF q \in written THEN NewHeader(FALSE, rest)
                ELSE f[q]]
    BY DEF Cut
  <1> HIDE DEF h, g
  <1>5. CASE rest = 0
    <2>1. DOMAIN g = DOMAIN f /\ g[p] = h /\ \A q \in DOMAIN f : q # p => g[q] = f[q]
      BY <1>4, <1>5
    <2>2. EndIn(g, p) = EndIn(f, p)
      BY <1>2, <1>3, <1>5, <2>1 DEF EndIn
    <2>3. ASSUME NEW q \in DOMAIN f PROVE ~(p < q /\ q < EndIn(f, p))
      <3>1. q \in Nat /\ EndIn(f, p) \in Nat
        BY <1>1, BlockFacts
      <3> QED
        BY <3>1, <1>1 DEF Tiling
    <2>3a. DOMAIN g = {q \in DOMAIN f : ~(p < q /\ q < EndIn(f, p))}
      BY <2>1, <2>3
    <2>4. Good(g)
      BY <1>2, <1>3, <2>1, <2>2, <2>3a, MergeGood
    <2> QED
      BY <2>1, <2>4 DEF g, h
  <1>6. CASE rest # 0
    <2>1. /\ next \in Nat /\ rest \in 1..ARENA /\ next + rest = EndIn(f, p)
          /\ p < next /\ next < EndIn(f, p) /\ next < ARENA
      BY <1>2, <1>3, <1>6, SizesAssumption
    <2>2. next \notin DOMAIN f
      BY <1>1, <1>3, <2>1 DEF Tiling
    <2> DEFINE new == NewHeader(FALSE, rest)
    <2>3. new \in Headers /\ new.used = FALSE /\ (new.large <=> rest > SMALL) /\ Total(new) = rest
      BY <2>1, NewHeaderFacts
    <2>4. Shaped(new)
      BY <2>3 DEF Shaped
    <2> HIDE DEF new
    <2>5. g = [q \in DOMAIN f \cup {next} |-> IF q = p THEN h ELSE IF q = next THEN new ELSE f[q]]
      BY <1>4, <1>6, <2>1 DEF new
    <2> HIDE DEF next, rest, written
    <2>6. /\ DOMAIN g = DOMAIN f \cup {next} /\ g[p] = h /\ g[next] = new
          /\ \A q \in DOMAIN f : q # p => g[q] = f[q]
      BY <2>1, <2>2, <2>5
    <2>7. EndIn(g, p) = next /\ EndIn(g, next) = EndIn(f, p)
      BY <2>1, <2>3, <2>6 DEF EndIn, next
    <2>8. \A q \in DOMAIN f : q # p => EndIn(g, q) = EndIn(f, q)
      BY <2>6 DEF EndIn
    <2>9. Tiling(g)
      <3>1. DOMAIN g \subseteq 0..(ARENA - 1) /\ 0 \in DOMAIN g
        BY <1>1, <2>1, <2>6, SizesAssumption DEF Tiling
      <3>2. \A q \in DOMAIN g : g[q] \in Headers
        BY <1>1, <1>2, <2>3, <2>6 DEF Tiling
      <3>3. \A q \in DOMAIN g : EndIn(g, q) \in DOMAIN g \/ EndIn(g, q) = ARENA
        BY <1>1, <1>3, <2>6, <2>7, <2>8 DEF Tiling
      <3>4. ASSUME NEW q \in DOMAIN g, NEW r \in DOMAIN g, q < r PROVE EndIn(g, q) <= r
        <4>0. q \in Nat /\ r \in Nat
          BY <3>1
        <4>1. CASE q = p
          <5>1. CASE r = next
            BY <4>1, <5>1, <2>7, <2>1
          <5>2. CASE r # next
            <6>1. r \in DOMAIN f /\ EndIn(f, p) <= r
              BY <3>4, <4>1, <5>2, <2>6, <1>1 DEF Tiling
            <6> QED
              BY <6>1, <4>0, <4>1, <2>1, <2>7, <1>3
          <5> QED
            BY <5>1, <5>2
        <4>2. CASE q = next
          <5>1. r \in DOMAIN f /\ p < r
            BY <3>4, <4>0, <4>2, <2>1, <2>6, <1>3
          <5> QED
            BY <5>1, <4>2, <2>7, <1>1 DEF Tiling
        <4>3. CASE q # p /\ q # next
          <5>1. q \in DOMAIN f /\ EndIn(g, q) = EndIn(f, q)
            BY <4>3, <2>6, <2>8
          <5>2. CASE r = next
            <6>1. CASE q < p
              <7>1. EndIn(f, q) <= p
                BY <5>1, <6>1, <1>1 DEF Tiling
              <7>2. EndIn(f, q) \in Nat
                BY <5>1, <1>1, BlockFacts
              <7> QED
                BY <7>1, <7>2, <5>1, <5>2, <2>1, <1>3
            <6>2. CASE q > p
              <7>1. EndIn(f, p) <= q
                BY <5>1, <6>2, <1>1, <1>3 DEF Tiling
              <7> QED
                BY <7>1, <4>0, <3>4, <5>2, <2>1, <1>3
            <6> QED
              BY <6>1, <6>2, <4>0, <4>3, <1>3
          <5>3. CASE r # next
            <6>1. r \in DOMAIN f
              BY <5>3, <2>6
            <6> QED
              BY <6>1, <5>1, <3>4, <1>1 DEF Tiling
          <5> QED
            BY <5>2, <5>3
        <4> QED
          BY <4>1, <4>2, <4>3
      <3> QED
        BY <3>1, <3>2, <3>3, <3>4 DEF Tiling
    <2>10. Merged(g)
      <3> SUFFICES ASSUME NEW q \in DOMAIN g, ~g[q].used, EndIn(g, q) \in DOMAIN g
                   PROVE  g[EndIn(g, q)].used
        BY DEF Merged
      <3>1. q # p
        BY <1>2, <2>6
      <3>2. CASE q = next
        <4>1. EndIn(f, p) \in DOMAIN f /\ EndIn(f, p) # p
          BY <3>2, <2>1, <2>6, <2>7, <1>3
        <4> QED
          BY <4>1, <3>2, <2>6, <2>7, <1>1 DEF Merged
      <3>3. CASE q # next
        <4>1. q \in DOMAIN f /\ g[q] = f[q] /\ EndIn(g, q) = EndIn(f, q)
          BY <3>1, <3>3, <2>6, <2>8
        <4>2. EndIn(f, q) # next
          <5>1. q \in Nat /\ EndIn(f, q) \in Nat /\ q < EndIn(f, q)
            BY <4>1, <1>1, BlockFacts
          <5>2. CASE q < p
            BY <5>1, <5>2, <4>1, <1>1, <1>3, <2>1 DEF Tiling
          <5>3. CASE q > p
            <6>1. EndIn(f, p) <= q
              BY <5>3, <4>1, <1>1, <1>3 DEF Tiling
            <6> QED
              BY <6>1, <5>1, <2>1, <1>3
          <5> QED
            BY <5>1, <5>2, <5>3, <3>1, <1>3
        <4>3. EndIn(f, q) \in DOMAIN f
          BY <4>1, <4>2, <2>6
        <4> QED
          BY <4>1, <4>3, <2>6, <1>1, <1>2 DEF Merged
      <3> QED
        BY <3>2, <3>3
    <2>11. \A q \in DOMAIN g : Shaped(g[q])
      BY <1>2, <2>4, <2>6 DEF Good
    <2>12. g[0].size >= 1
      BY <1>1, <1>2, <2>2, <2>6 DEF Good, Tiling
    <2>13. Good(g)
      BY <2>9, <2>10, <2>11, <2>12 DEF Good
    <2> QED
      BY <2>13, <2>3, <2>6 DEF g, h
  <1> QED
    BY <1>5, <1>6

----------------------------------------------------------------------------
(* Releasing a block. *)

\* The header of a block that grows while it is released: the block gains
\* exactly the bytes added to its payload.
LEMMA GrownHeader ==
    ASSUME NEW h \in Headers, NEW size \in Nat, size >= 1, size + Width(h) <= ARENA,
           h.large => size >= SMALL
    PROVE  /\ Adjusted(h, size, FALSE) \in Headers
           /\ ~Adjusted(h, size, FALSE).used
           /\ Adjusted(h, size, FALSE).size >= 1
           /\ Total(Adjusted(h, size, FALSE)) = size + Width(h)
           /\ Shaped(Adjusted(h, size, FALSE))
  <1> DEFINE a == Adjusted(h, size, FALSE)
  <1>1. size < LARGE
    BY SizesAssumption DEF Width
  <1>2. /\ a \in Headers /\ a.used = FALSE /\ (a.large <=> size >= SMALL)
        /\ a.size = IF ~h.large /\ size >= SMALL THEN size - 1 ELSE size
    BY <1>1, AdjustedFacts
  <1> HIDE DEF a
  <1>3. CASE ~h.large /\ size >= SMALL
    <2>1. a.size = size - 1 /\ a.large
      BY <1>2, <1>3
    <2>2. Total(a) = size + 1 /\ Width(h) = 1
      BY <2>1, <1>3 DEF Total, Width
    <2>3. a.size >= 1 /\ Total(a) = size + Width(h)
      BY <1>3, <2>1, <2>2, SizesAssumption
    <2>4. Total(a) > SMALL
      BY <1>3, <2>2, SizesAssumption
    <2>5. Shaped(a)
      BY <1>2, <2>1, <2>4 DEF Shaped
    <2> QED
      BY <1>2, <2>3, <2>5 DEF a
  <1>4. CASE h.large
    <2>1. a.size = size /\ a.large
      BY <1>2, <1>4
    <2>2. Total(a) = size + 2 /\ Width(h) = 2
      BY <2>1, <1>4 DEF Total, Width
    <2>3. a.size >= 1 /\ Total(a) = size + Width(h)
      BY <1>4, <2>1, <2>2, SizesAssumption
    <2>4. Total(a) > SMALL
      BY <1>2, <1>4, <2>2, SizesAssumption
    <2>5. Shaped(a)
      BY <1>2, <2>1, <2>4 DEF Shaped
    <2> QED
      BY <1>2, <2>3, <2>5 DEF a
  <1>5. CASE ~h.large /\ ~(size >= SMALL)
    <2>1. a.size = size /\ ~a.large
      BY <1>2, <1>5
    <2>2. Total(a) = size + 1 /\ Width(h) = 1
      BY <2>1, <1>5 DEF Total, Width
    <2>3. a.size >= 1 /\ Total(a) = size + Width(h)
      BY <1>5, <2>1, <2>2, SizesAssumption
    <2>4. ~(Total(a) > SMALL)
      BY <1>5, <2>2, SizesAssumption
    <2>5. Shaped(a)
      BY <1>2, <2>1, <2>4 DEF Shaped
    <2> QED
      BY <1>2, <2>3, <2>5 DEF a
  <1> QED
    BY <1>3, <1>4, <1>5

\* Releasing a used block leaves the array in order and the other used blocks
\* as they are.
LEMMA ReleaseGood ==
    ASSUME Good(hdr), NEW p \in DOMAIN hdr, hdr[p].used
    PROVE  /\ Good(Released(p))
           /\ \A q \in DOMAIN hdr : hdr[q].used /\ q # p =>
                  q \in DOMAIN Released(p) /\ Released(p)[q] = hdr[q]
           /\ \A q \in DOMAIN Released(p) : Released(p)[q].used =>
                  q \in DOMAIN hdr /\ q # p /\ Released(p)[q] = hdr[q]
  <1> DEFINE e1 == End(p)
             swallows == e1 \in DOMAIN hdr /\ ~hdr[e1].used
             e == IF swallows THEN End(e1) ELSE e1
             h == Adjusted(hdr[p], GrownSize(p), FALSE)
             before == UnusedBefore(p)
             g == Released(p)
  <1>1. Tiling(hdr) /\ Merged(hdr) /\ Shaped(hdr[p])
    BY DEF Good
  <1>2. \A q \in DOMAIN hdr : End(q) = EndIn(hdr, q)
    BY DEF End, EndIn
  <1>3. \A q, r \in DOMAIN hdr : q < r => End(q) <= r
    BY <1>1, <1>2 DEF Tiling
  <1>4. \A q \in DOMAIN hdr :
           /\ q \in Nat /\ End(q) \in Nat /\ q < End(q) /\ End(q) <= ARENA
           /\ End(q) = q + Total(hdr[q]) /\ Total(hdr[q]) \in Nat
           /\ hdr[q] \in Headers /\ Total(hdr[q]) = hdr[q].size + Width(hdr[q])
           /\ Width(hdr[q]) \in 1..2 /\ hdr[q].size \in Nat
           /\ (End(q) \in DOMAIN hdr \/ End(q) = ARENA)
    BY <1>1, <1>2, BlockFacts DEF Tiling, Headers
  <1>4a. /\ p \in Nat /\ Width(hdr[p]) \in Nat /\ Width(hdr[p]) >= 1
         /\ hdr[p].size \in Nat /\ hdr[p] \in Headers
    BY <1>4
  <1>5. /\ e \in Nat /\ p < e /\ e <= ARENA /\ (e \in DOMAIN hdr \/ e = ARENA)
        /\ (e \in DOMAIN hdr => hdr[e].used)
    BY <1>1, <1>2, <1>4 DEF Merged
  <1>6. DOMAIN hdr \ Swallowed(p) = {q \in DOMAIN hdr : ~(p < q /\ q < e)}
    <2>1. ASSUME NEW q \in DOMAIN hdr, p < q, q < e PROVE q \in Swallowed(p)
      <3>1. e1 <= q
        BY <2>1, <1>3
      <3>2. swallows /\ q < End(e1)
        BY <2>1, <3>1, <1>4
      <3>3. q = e1
        BY <3>1, <3>2, <1>3, <1>4, SMTT(40)
      <3> QED
        BY <3>2, <3>3 DEF Swallowed
    <2>2. ASSUME NEW q \in Swallowed(p) PROVE p < q /\ q < e
      <3>1. q = e1 /\ swallows
        BY <2>2 DEF Swallowed
      <3> QED
        BY <3>1, <1>4
    <2> QED
      BY <2>1, <2>2
  <1>7. /\ GrownSize(p) \in Nat /\ GrownSize(p) >= hdr[p].size
        /\ p + Width(hdr[p]) + GrownSize(p) = e
    BY <1>4 DEF GrownSize
  <1>8. hdr[p].size >= 1 /\ (hdr[p].large <=> hdr[p].size >= SMALL)
    BY <1>1 DEF Shaped
  <1>9. /\ h \in Headers /\ ~h.used /\ h.size >= 1 /\ Shaped(h)
        /\ Total(h) = GrownSize(p) + Width(hdr[p])
    <2>1. GrownSize(p) >= 1 /\ GrownSize(p) + Width(hdr[p]) <= ARENA
      BY <1>4a, <1>5, <1>7, <1>8, SizesAssumption
    <2>2. hdr[p].large => GrownSize(p) >= SMALL
      BY <1>4, <1>7, <1>8, SizesAssumption
    <2> QED
      BY <2>1, <2>2, <1>4, <1>7, GrownHeader
  <1>10. p + Total(h) = e /\ Total(h) \in Nat /\ Total(h) >= 1
    <2> DEFINE w == Width(hdr[p])
               n == GrownSize(p)
               t == Total(h)
    <2>1. w \in Nat /\ w >= 1 /\ n \in Nat /\ p \in Nat /\ p + w + n = e /\ t = n + w
      BY <1>4a, <1>7, <1>9
    <2> HIDE DEF w, n, t
    <2>2. p + t = e /\ t \in Nat /\ t >= 1
      BY <2>1
    <2> QED
      BY <2>2 DEF t
  <1>11. p \notin Swallowed(p)
    BY <1>4 DEF Swallowed
  <1>12. \A q \in Swallowed(p) : ~hdr[q].used
    BY DEF Swallowed
  <1>13. g = [q \in DOMAIN hdr \ (Swallowed(p) \cup IF before = {} THEN {} ELSE {p}) |->
                IF q \in before THEN Adjusted(hdr[q], hdr[q].size + Total(h), FALSE)
                ELSE IF q = p THEN h
                ELSE hdr[q]]
    BY DEF Released
  <1> HIDE DEF h, g, e
  <1>14. CASE before = {}
    <2>1. /\ DOMAIN g = DOMAIN hdr \ Swallowed(p)
          /\ g[p] = h
          /\ \A q \in DOMAIN g : q # p => g[q] = hdr[q]
      BY <1>11, <1>13, <1>14
    <2>2. EndIn(g, p) = e
      BY <1>10, <2>1 DEF EndIn
    <2>3. \A q \in DOMAIN hdr : EndIn(hdr, q) = p => hdr[q].used
      BY <1>2, <1>14 DEF UnusedBefore
    <2>4. Good(g)
      BY <1>5, <1>6, <1>9, <2>1, <2>2, <2>3, MergeGood
    <2> QED
      BY <2>1, <2>4, <1>9, <1>12 DEF g
  <1>15. CASE before # {}
    <2>1. PICK b \in before : TRUE
      BY <1>15
    <2>2. b \in DOMAIN hdr /\ End(b) = p /\ ~hdr[b].used /\ b < p /\ b # p
      BY <2>1, <1>4 DEF UnusedBefore
    <2>3. before = {b}
      <3> SUFFICES ASSUME NEW q \in before PROVE q = b
        BY <2>1
      <3>1. q \in DOMAIN hdr /\ End(q) = p
        BY DEF UnusedBefore
      <3> QED
        BY <3>1, <2>2, <1>3, <1>4
    <2> DEFINE m == Adjusted(hdr[b], hdr[b].size + Total(h), FALSE)
    <2> HIDE DEF before
    <2>4. /\ m \in Headers /\ ~m.used /\ m.size >= 1 /\ Shaped(m)
          /\ Total(m) = hdr[b].size + Total(h) + Width(hdr[b])
      <3>1. Shaped(hdr[b])
        BY <2>2 DEF Good
      <3>2. hdr[b].large => hdr[b].size + Total(h) >= SMALL
        BY <3>1, <2>2, <1>4, <1>10, SizesAssumption DEF Shaped, Width
      <3>3. hdr[b].size + Total(h) + Width(hdr[b]) <= ARENA
        <4>1. /\ b \in Nat /\ hdr[b].size \in Nat /\ Width(hdr[b]) \in Nat
              /\ p = b + hdr[b].size + Width(hdr[b])
          BY <2>2, <1>4
        <4> QED
          BY <4>1, <1>5, <1>10, SizesAssumption
      <3>4. /\ hdr[b].size + Total(h) \in Nat /\ hdr[b].size + Total(h) >= 1
            /\ hdr[b] \in Headers
        BY <2>2, <1>4, <1>10
      <3> QED
        BY <3>2, <3>3, <3>4, GrownHeader
    <2> HIDE DEF m
    <2>5. DOMAIN g = DOMAIN hdr \ (Swallowed(p) \cup {p})
      BY <1>13, <1>15
    <2>6. b \notin Swallowed(p)
      BY <2>2, <1>4 DEF Swallowed
    <2>7. g[b] = m
      BY <1>13, <2>2, <2>3, <2>5, <2>6 DEF m
    <2>8. \A q \in DOMAIN g : q # b => g[q] = hdr[q]
      BY <1>13, <2>3, <2>5
    <2>9. DOMAIN g = {q \in DOMAIN hdr : ~(b < q /\ q < e)}
      <3>1. ASSUME NEW q \in DOMAIN hdr, b < q, q < e PROVE q \in Swallowed(p) \cup {p}
        <4>1. p <= q
          BY <3>1, <2>2, <1>3
        <4> QED
          BY <4>1, <3>1, <1>4, <1>6
      <3>2. ASSUME NEW q \in Swallowed(p) \cup {p} PROVE b < q /\ q < e
        <4>1. q \in DOMAIN hdr
          BY <3>2 DEF Swallowed
        <4>2. CASE q = p
          BY <4>2, <2>2, <1>5
        <4>3. CASE q # p
          <5>1. p < q /\ q < e
            BY <3>2, <4>1, <4>3, <1>6
          <5> QED
            BY <5>1, <4>1, <2>2, <1>4
        <4> QED
          BY <4>2, <4>3
      <3> QED
        BY <2>5, <3>1, <3>2
    <2>10. EndIn(g, b) = e
      BY <2>2, <2>4, <2>7, <1>4, <1>10 DEF EndIn
    <2>11. b < e
      BY <2>2, <1>4, <1>5
    <2>12. \A q \in DOMAIN hdr : EndIn(hdr, q) = b => hdr[q].used
      BY <1>1, <2>2 DEF Merged
    <2>13. Good(g)
      BY <1>5, <2>2, <2>4, <2>7, <2>8, <2>9, <2>10, <2>11, <2>12, MergeGood
    <2> QED
      BY <2>2, <2>4, <2>5, <2>7, <2>8, <2>13, <1>12 DEF g
  <1> QED
    BY <1>14, <1>15

----------------------------------------------------------------------------
(* The steps. *)

\* The array as mymalloc finds it, once it has prepared a fresh one.
LEMMA PreparedGood ==
    ASSUME HeapInv
    PROVE  Good(Prepared) /\ Agrees(Prepared, live)
  <1>1. CASE Untouched
    <2> DEFINE b == NewHeader(FALSE, ARENA)
               f == [p \in {0} |-> b]
    <2>1. Fresh
      BY <1>1, SizesAssumption DEF Untouched, Fresh
    <2>2. Prepared = f
      BY <2>1 DEF Prepared
    <2>3. b \in Headers /\ b.used = FALSE /\ (b.large <=> ARENA > SMALL) /\ Total(b) = ARENA
      <3>1. ARENA \in 1..ARENA /\ FALSE \in BOOLEAN
        BY SizesAssumption
      <3> QED
        BY <3>1, NewHeaderFacts
    <2> HIDE DEF b
    <2>4. b.size >= 1 /\ Shaped(b)
      <3>1. b.size \in Nat /\ b.size + Width(b) = ARENA /\ Width(b) \in 1..2
        BY <2>3 DEF Headers, Total, Width
      <3>2. b.size >= 1
        BY <3>1, SizesAssumption
      <3>3. Shaped(b)
        BY <2>3 DEF Shaped
      <3> QED
        BY <3>2, <3>3
    <2>5. DOMAIN f = {0} /\ f[0] = b /\ EndIn(f, 0) = ARENA
      BY <2>3, SizesAssumption DEF EndIn
    <2> HIDE DEF f
    <2>6. Tiling(f)
      BY <2>3, <2>5, SizesAssumption DEF Tiling
    <2>7. Merged(f)
      BY <2>5, SizesAssumption DEF Merged
    <2>8. Good(f)
      BY <2>4, <2>5, <2>6, <2>7 DEF Good
    <2>9. Agrees(f, live)
      BY <1>1, <2>3, <2>5 DEF Untouched, Agrees
    <2> QED
      BY <2>2, <2>8, <2>9
  <1>2. CASE Good(hdr) /\ Agrees(hdr, live)
    <2>1. ~Fresh
      BY <1>2 DEF Good, Fresh, Zero
    <2> QED
      BY <1>2, <2>1 DEF Prepared
  <1> QED
    BY <1>1, <1>2 DEF HeapInv

\* A refused request changes nothing the program holds.
LEMMA RefusedStep ==
    ASSUME HeapInv, NEW n \in 1..MaxSize, MallocRefused(n)
    PROVE  HeapInv' /\ live' = live
  <1>1. live' = live /\ refused' \in 0..MaxSize
    BY SizesAssumption DEF MallocRefused
  <1>2. CASE hdr' = hdr
    BY <1>1, <1>2 DEF HeapInv, Untouched
  <1>3. CASE hdr' = Prepared
    <2>1. Good(hdr') /\ Agrees(hdr', live')
      BY <1>1, <1>3, PreparedGood
    <2> QED
      BY <1>1, <2>1 DEF HeapInv
  <1> QED
    BY <1>2, <1>3 DEF MallocRefused

\* A granted request hands out bytes no other block has.
LEMMA GrantedStep ==
    ASSUME HeapInv, NEW n \in 1..MaxSize, MallocGranted(n)
    PROVE  HeapInv' /\ \E ptr, m \in 1..ARENA : Promise!Alloc(ptr, m)
  <1> DEFINE f == Prepared
  <1>1. Good(f) /\ Agrees(f, live) /\ Tiling(f)
    BY PreparedGood DEF Good
  <1> HIDE DEF f
  <1>2. PICK p \in 0..(ARENA - 1) :
           /\ FirstFit(f, n, p)
           /\ hdr' = Cut(f, p, n)
           /\ LET ptr == p + Width(Adjusted(f[p], n, TRUE))
              IN  live' = [q \in DOMAIN live \cup {ptr} |-> IF q = ptr THEN n ELSE live[q]]
           /\ refused' = 0
    BY DEF MallocGranted, f
  <1> DEFINE h == Adjusted(f[p], n, TRUE)
             ptr == p + Width(h)
             g == Cut(f, p, n)
  <1>3. p \in DOMAIN f /\ ~f[p].used /\ f[p].size >= n /\ n \in 1..f[p].size
    <2>1. p \in DOMAIN f /\ ~f[p].used /\ f[p].size >= n
      BY <1>2 DEF FirstFit, Fitting
    <2>2. f[p].size \in Nat
      BY <2>1, <1>1, BlockFacts DEF Headers
    <2> QED
      BY <2>1, <2>2, SizesAssumption
  <1>4. /\ h \in Headers /\ h.used /\ h.size = n
        /\ Good(g) /\ Tiling(g) /\ DOMAIN f \subseteq DOMAIN g /\ g[p] = h
        /\ \A q \in DOMAIN f : q # p => g[q] = f[q]
        /\ \A q \in DOMAIN g : q \notin DOMAIN f => ~g[q].used
    <2>1. h \in Headers /\ h.used /\ h.size = n
      BY <1>1, <1>3, CutHeader
    <2>2. /\ Good(g) /\ DOMAIN f \subseteq DOMAIN g /\ g[p] = h
          /\ \A q \in DOMAIN f : q # p => g[q] = f[q]
          /\ \A q \in DOMAIN g : q \notin DOMAIN f => ~g[q].used
      BY <1>1, <1>3, CutGood
    <2>3. Tiling(g)
      BY <2>2 DEF Good
    <2> QED
      BY <2>1, <2>2, <2>3
  <1>5. hdr' = g /\ live' = [q \in DOMAIN live \cup {ptr} |-> IF q = ptr THEN n ELSE live[q]]
    BY <1>2
  <1> HIDE DEF g, h
  <1>6. p \in Nat /\ Width(h) \in 1..2 /\ ptr + n <= ARENA /\ ptr \in 1..ARENA /\ n \in 1..ARENA
    <2>1. /\ p \in Nat /\ Width(g[p]) \in 1..2 /\ EndIn(g, p) <= ARENA
          /\ EndIn(g, p) = p + Total(g[p]) /\ Total(g[p]) = g[p].size + Width(g[p])
      BY <1>3, <1>4, BlockFacts
    <2> QED
      BY <2>1, <1>3, <1>4, SizesAssumption
  <1>7. ASSUME NEW q \in DOMAIN g, q # p, g[q].used
        PROVE  /\ q \in DOMAIN f /\ g[q] = f[q]
               /\ q + Width(g[q]) \in DOMAIN live
               /\ live[q + Width(g[q])] = g[q].size
               /\ \/ ptr + n < q + Width(g[q])
                  \/ q + Width(g[q]) + g[q].size < ptr
               /\ q + Width(g[q]) # ptr
    <2>1. q \in DOMAIN f /\ g[q] = f[q]
      BY <1>4, <1>7
    <2>2. q + Width(g[q]) \in DOMAIN live /\ live[q + Width(g[q])] = g[q].size
      BY <1>1, <1>7, <2>1 DEF Agrees
    <2>3. q \in Nat /\ Width(g[q]) \in Nat /\ g[q].size \in Nat
      BY <1>4, BlockFacts DEF Headers
    <2>4. CASE p < q
      <3>1. ptr + n < q + Width(g[q])
        BY <1>3, <1>4, <2>4, PayloadsApart
      <3> QED
        BY <1>6, <2>1, <2>2, <2>3, <3>1
    <2>5. CASE q < p
      <3>1. q + Width(g[q]) + g[q].size < ptr
        BY <1>3, <1>4, <2>5, PayloadsApart
      <3> QED
        BY <1>6, <2>1, <2>2, <2>3, <3>1
    <2> QED
      BY <2>4, <2>5, <1>6, <1>7, <2>3
  <1> HIDE DEF ptr
  <1>8. Agrees(g, live')
    <2>1. ASSUME NEW q \in DOMAIN g, g[q].used
          PROVE  q + Width(g[q]) \in DOMAIN live' /\ live'[q + Width(g[q])] = g[q].size
      <3>1. CASE q = p
        <4>1. q + Width(g[q]) = ptr
          BY <3>1, <1>4 DEF ptr
        <4> QED
          BY <3>1, <4>1, <1>4, <1>5
      <3>2. CASE q # p
        BY <3>2, <1>5, <1>7, <2>1
      <3> QED
        BY <3>1, <3>2
    <2>2. ASSUME NEW r \in DOMAIN live' PROVE \E q \in DOMAIN g : g[q].used /\ r = q + Width(g[q])
      <3>1. CASE r = ptr
        BY <3>1, <1>3, <1>4 DEF ptr
      <3>2. CASE r # ptr
        <4>1. r \in DOMAIN live
          BY <2>2, <3>2, <1>5
        <4>2. PICK q \in DOMAIN f : f[q].used /\ r = q + Width(f[q])
          BY <4>1, <1>1 DEF Agrees
        <4> QED
          BY <4>2, <1>3, <1>4
      <3> QED
        BY <3>1, <3>2
    <2> QED
      BY <2>1, <2>2 DEF Agrees
  <1>9. HeapInv'
    <2>1. Good(hdr') /\ Agrees(hdr', live')
      BY <1>4, <1>5, <1>8
    <2>2. refused' \in 0..MaxSize
      BY <1>2, SizesAssumption
    <2> QED
      BY <2>1, <2>2 DEF HeapInv
  <1>10. \A r \in DOMAIN live : ptr + n <= r \/ r + live[r] <= ptr
    <2> SUFFICES ASSUME NEW r \in DOMAIN live PROVE ptr + n <= r \/ r + live[r] <= ptr
      OBVIOUS
    <2>1. PICK q \in DOMAIN f : f[q].used /\ r = q + Width(f[q])
      BY <1>1 DEF Agrees
    <2>2. q # p /\ q \in DOMAIN g /\ g[q] = f[q]
      BY <2>1, <1>3, <1>4
    <2>3. /\ live[r] = g[q].size
          /\ \/ ptr + n < r
             \/ r + g[q].size < ptr
      BY <2>1, <2>2, <1>7
    <2>4. r \in Nat /\ g[q].size \in Nat
      BY <2>1, <2>2, <1>4, BlockFacts DEF Headers
    <2> QED
      BY <2>3, <2>4, <1>6
  <1>11. Promise!Alloc(ptr, n)
    BY <1>5, <1>6, <1>10 DEF Promise!Alloc
  <1> QED
    BY <1>6, <1>9, <1>11

\* Only the block that is given back leaves what the program holds.
LEMMA FreeStep ==
    ASSUME HeapInv, NEW ptr \in Null..(ARENA + 1), Free(ptr)
    PROVE  HeapInv' /\ \E r \in DOMAIN live : Promise!Dispose(r)
  <1>1. PICK p \in DOMAIN hdr :
           /\ DataPointer(p) = ptr /\ hdr[p].used
           /\ hdr' = Released(p)
           /\ live' = [q \in DOMAIN live \ {ptr} |-> live[q]]
           /\ refused' = 0
    BY DEF Free
  <1>2. Good(hdr) /\ Agrees(hdr, live) /\ Tiling(hdr)
    <2>1. ~Untouched
      <3> SUFFICES ASSUME Untouched PROVE FALSE
        OBVIOUS
      <3>1. hdr[p] = Zero
        BY DEF Untouched
      <3>2. Zero.used = FALSE
        BY DEF Zero
      <3> QED
        BY <1>1, <3>1, <3>2
    <2> QED
      BY <2>1 DEF HeapInv, Good
  <1> DEFINE g == Released(p)
  <1>3. /\ Good(g)
        /\ \A q \in DOMAIN hdr : hdr[q].used /\ q # p => q \in DOMAIN g /\ g[q] = hdr[q]
        /\ \A q \in DOMAIN g : g[q].used => q \in DOMAIN hdr /\ q # p /\ g[q] = hdr[q]
    BY <1>1, <1>2, ReleaseGood
  <1> HIDE DEF g
  <1>4. ptr = p + Width(hdr[p])
    BY <1>1 DEF DataPointer
  <1>5. ASSUME NEW q \in DOMAIN hdr, hdr[q].used, q # p PROVE q + Width(hdr[q]) # ptr
    <2>1. /\ p \in Nat /\ q \in Nat /\ Width(hdr[p]) \in Nat /\ Width(hdr[q]) \in Nat
          /\ hdr[p].size \in Nat /\ hdr[q].size \in Nat
      BY <1>2, BlockFacts DEF Headers
    <2>2. CASE p < q
      <3>1. p + Width(hdr[p]) + hdr[p].size < q + Width(hdr[q])
        BY <2>2, <1>2, PayloadsApart
      <3> QED
        BY <3>1, <2>1, <1>4
    <2>3. CASE q < p
      <3>1. q + Width(hdr[q]) + hdr[q].size < p + Width(hdr[p])
        BY <2>3, <1>2, PayloadsApart
      <3> QED
        BY <3>1, <2>1, <1>4
    <2> QED
      BY <2>1, <2>2, <2>3, <1>5
  <1>6. ptr \in DOMAIN live
    BY <1>1, <1>2, <1>4 DEF Agrees
  <1>7. Agrees(g, live')
    <2>1. ASSUME NEW q \in DOMAIN g, g[q].used
          PROVE  q + Width(g[q]) \in DOMAIN live' /\ live'[q + Width(g[q])] = g[q].size
      <3>1. q \in DOMAIN hdr /\ q # p /\ g[q] = hdr[q] /\ hdr[q].used
        BY <2>1, <1>3
      <3>2. /\ q + Width(hdr[q]) # ptr /\ q + Width(hdr[q]) \in DOMAIN live
            /\ live[q + Width(hdr[q])] = hdr[q].size
        BY <3>1, <1>2, <1>5 DEF Agrees
      <3> QED
        BY <3>1, <3>2, <1>1
    <2>2. ASSUME NEW r \in DOMAIN live' PROVE \E q \in DOMAIN g : g[q].used /\ r = q + Width(g[q])
      <3>1. r \in DOMAIN live /\ r # ptr
        BY <2>2, <1>1
      <3>2. PICK q \in DOMAIN hdr : hdr[q].used /\ r = q + Width(hdr[q])
        BY <3>1, <1>2 DEF Agrees
      <3> QED
        BY <3>1, <3>2, <1>3, <1>4
    <2> QED
      BY <2>1, <2>2 DEF Agrees
  <1>8. HeapInv'
    <2>1. Good(hdr') /\ Agrees(hdr', live')
      BY <1>1, <1>3, <1>7 DEF g
    <2>2. refused' \in 0..MaxSize
      BY <1>1, SizesAssumption
    <2> QED
      BY <2>1, <2>2 DEF HeapInv
  <1>9. Promise!Dispose(ptr)
    BY <1>1, <1>6 DEF Promise!Dispose
  <1> QED
    BY <1>6, <1>8, <1>9

\* Every step keeps the invariant, and is a step of Heap or changes nothing
\* the program holds.
LEMMA HeapStep ==
    ASSUME HeapInv, [MallocNext]_heapVars
    PROVE  HeapInv' /\ [Promise!HeapNext]_live
  <1>1. CASE live' = live /\ hdr' = hdr /\ refused' \in {0, refused}
    BY <1>1, SizesAssumption DEF HeapInv, Untouched
  <1>2. CASE UNCHANGED heapVars
    BY <1>1, <1>2 DEF heapVars
  <1>3. CASE MallocZero
    BY <1>1, <1>3 DEF MallocZero
  <1>4. ASSUME NEW n \in 1..MaxSize, Malloc(n) PROVE HeapInv' /\ [Promise!HeapNext]_live
    BY <1>4, RefusedStep, GrantedStep DEF Malloc, Promise!HeapNext
  <1>5. ASSUME NEW ptr \in Null..(ARENA + 1), Free(ptr)
        PROVE  HeapInv' /\ [Promise!HeapNext]_live
    BY <1>5, FreeStep DEF Promise!HeapNext
  <1>6. ASSUME NEW ptr \in Null..(ARENA + 1), FreeRefused(ptr)
        PROVE  HeapInv' /\ [Promise!HeapNext]_live
    BY <1>1, <1>6 DEF FreeRefused
  <1> QED
    BY <1>2, <1>3, <1>4, <1>5, <1>6 DEF MallocNext

\* The invariant of the allocator, from which the rest follows.
THEOREM HeapInvariance == MallocSpec => []HeapInv
  <1>1. MallocInit => HeapInv
    BY SizesAssumption DEF MallocInit, HeapInv, Untouched
  <1>2. HeapInv /\ [MallocNext]_heapVars => HeapInv'
    BY HeapStep
  <1> QED
    BY <1>1, <1>2, PTL DEF MallocSpec

\* The walk over the headers never loses its way, for an arena of any size and
\* headers of any capacity (mymalloc.c:125-138).
THEOREM HeadersTile == MallocSpec => []Tiled
  <1>1. HeapInv => Tiled
    <2>1. CASE Untouched
      BY <2>1, SizesAssumption DEF Untouched, Tiled, End, Total, Width, Zero
    <2>2. CASE Good(hdr)
      BY <2>2 DEF Good, Tiling, Tiled, End, EndIn
    <2> QED
      BY <2>1, <2>2 DEF HeapInv
  <1> QED
    BY <1>1, HeapInvariance, PTL

\* Freed neighbours are always merged (mymalloc.c:219-234).
THEOREM FreedMerge == MallocSpec => []NoAdjacentUnused
  <1>1. HeapInv => NoAdjacentUnused
    <2>1. CASE Untouched
      BY <2>1, SizesAssumption DEF Untouched, NoAdjacentUnused, Fresh
    <2>2. CASE Good(hdr)
      BY <2>2 DEF Good, Merged, NoAdjacentUnused, End, EndIn
    <2> QED
      BY <2>1, <2>2 DEF HeapInv
  <1> QED
    BY <1>1, HeapInvariance, PTL

\* Headers and the blocks handed out stay inside the array (mymalloc.c:44-115).
THEOREM HeapTypeCorrect == MallocSpec => []MallocTypeOK
  <1>1. HeapInv => MallocTypeOK
    <2> SUFFICES ASSUME HeapInv PROVE MallocTypeOK
      OBVIOUS
    <2>1. CASE Untouched
      BY <2>1, SizesAssumption DEF HeapInv, Untouched, MallocTypeOK, Headers, Zero
    <2>2. CASE Good(hdr) /\ Agrees(hdr, live)
      <3>1. Tiling(hdr)
        BY <2>2 DEF Good
      <3>2. ASSUME NEW r \in DOMAIN live
            PROVE  r \in 1..ARENA /\ live[r] \in 1..ARENA /\ r + live[r] <= ARENA
        <4>1. PICK p \in DOMAIN hdr : hdr[p].used /\ r = p + Width(hdr[p])
          BY <2>2 DEF Agrees
        <4>2. live[r] = hdr[p].size /\ hdr[p].size >= 1
          BY <2>2, <4>1 DEF Agrees, Good, Shaped
        <4>3. /\ p \in Nat /\ Width(hdr[p]) \in 1..2 /\ hdr[p].size \in Nat
              /\ p + hdr[p].size + Width(hdr[p]) <= ARENA
          BY <3>1, BlockFacts DEF Headers
        <4> QED
          BY <4>1, <4>2, <4>3, SizesAssumption
      <3> QED
        BY <3>1, <3>2 DEF HeapInv, MallocTypeOK, Tiling
    <2> QED
      BY <2>1, <2>2 DEF HeapInv
  <1> QED
    BY <1>1, HeapInvariance, PTL

\* The allocator implements Heap: what it hands out never overlaps and stays
\* until it is given back (mymalloc.c:140-235).
THEOREM AllocatorKeepsPromise == MallocSpec => ImplementsHeap
  <1>1. MallocInit => Promise!HeapInit
    BY DEF MallocInit, Promise!HeapInit
  <1>2. HeapInv /\ [MallocNext]_heapVars => [Promise!HeapNext]_live
    BY HeapStep
  <1> QED
    BY <1>1, <1>2, HeapInvariance, PTL DEF MallocSpec, ImplementsHeap, Promise!HeapSpec

----------------------------------------------------------------------------
(* Refused requests. *)

\* A refused request is larger than the array, or fits into no unused block.
RefusalStands ==
    refused > 0 => refused >= ARENA \/ (Good(hdr) /\ Agrees(hdr, live) /\ Fitting(hdr, refused) = {})

LEMMA RefusalStep ==
    ASSUME HeapInv, RefusalStands, [MallocNext]_heapVars
    PROVE  RefusalStands'
  <1>1. CASE refused' = 0
    BY <1>1 DEF RefusalStands
  <1>2. CASE UNCHANGED heapVars
    BY <1>2 DEF heapVars, RefusalStands, Good, Tiling, Merged, EndIn, Agrees, Fitting
  <1>3. ASSUME NEW n \in 1..MaxSize, MallocRefused(n) PROVE RefusalStands'
    <2>1. refused' = n /\ live' = live
      BY <1>3 DEF MallocRefused
    <2>2. CASE n > ARENA - 1
      BY <2>1, <2>2, SizesAssumption DEF RefusalStands
    <2>3. CASE hdr' = Prepared /\ Fitting(Prepared, n) = {}
      <3>1. Good(hdr') /\ Agrees(hdr', live')
        BY <2>1, <2>3, PreparedGood
      <3>2. Fitting(hdr', refused') = {}
        BY <2>1, <2>3
      <3> QED
        BY <3>1, <3>2 DEF RefusalStands
    <2> QED
      BY <1>3, <2>2, <2>3 DEF MallocRefused
  <1> QED
    BY <1>1, <1>2, <1>3 DEF MallocNext, Malloc, MallocZero, MallocGranted, Free, FreeRefused

\* Every byte of the array is in a block.
LEMMA ByteInBlock ==
    ASSUME NEW f, Tiling(f), NEW b \in 0..(ARENA - 1)
    PROVE  \E p \in DOMAIN f : p <= b /\ b < EndIn(f, p)
  <1> DEFINE Less == OpToRel(<, Nat)
             Back == {b - p : p \in {q \in DOMAIN f : q <= b}}
  <1>1. b \in Nat /\ DOMAIN f \subseteq Nat /\ 0 \in DOMAIN f
    BY SizesAssumption DEF Tiling
  <1>2. Back \subseteq Nat /\ b \in Back
    BY <1>1
  <1>3. \A m, n \in Nat : m < n => <<m, n>> \in Less
    BY DEF OpToRel
  <1> HIDE DEF Less
  <1>4. PICK d \in Back : \A g \in Back : ~(<<g, d>> \in Less)
    <2> HIDE DEF Back
    <2> QED
      BY <1>2, NatLessThanWellFounded, WFMin DEF Less
  <1>5. PICK p \in DOMAIN f : p <= b /\ d = b - p
    OBVIOUS
  <1>6. EndIn(f, p) \in Nat /\ p < EndIn(f, p) /\ p \in Nat
    BY BlockFacts
  <1>7. ASSUME EndIn(f, p) <= b PROVE FALSE
    <2>1. EndIn(f, p) \in DOMAIN f
      BY <1>6, <1>7, SizesAssumption DEF Tiling
    <2>2. b - EndIn(f, p) \in Back /\ b - EndIn(f, p) \in Nat /\ d \in Nat
      BY <1>1, <1>5, <1>6, <1>7, <2>1
    <2>3. b - EndIn(f, p) < d
      BY <1>1, <1>5, <1>6, <2>2
    <2> HIDE DEF Back
    <2> QED
      BY <1>3, <1>4, <2>2, <2>3, Zenon
  <1> QED
    BY <1>1, <1>5, <1>6, <1>7

\* The bytes of a used block are taken.
LEMMA UsedTaken ==
    ASSUME Good(hdr), Agrees(hdr, live), NEW p \in DOMAIN hdr, hdr[p].used,
           NEW b \in Nat, p <= b, b < EndIn(hdr, p)
    PROVE  Taken(b)
  <1> DEFINE q == p + Width(hdr[p])
  <1>1. Tiling(hdr) /\ Shaped(hdr[p])
    BY DEF Good
  <1>2. /\ p \in Nat /\ hdr[p].size \in Nat /\ Width(hdr[p]) \in 1..2
        /\ EndIn(hdr, p) = p + hdr[p].size + Width(hdr[p])
    BY <1>1, BlockFacts DEF Headers
  <1>3. q \in DOMAIN live /\ live[q] = hdr[p].size
    BY DEF Agrees
  <1>4. HeaderFor(live[q]) = Width(hdr[p])
    BY <1>1, <1>2, <1>3, SizesAssumption DEF Shaped, HeaderFor, Width
  <1>5. q - HeaderFor(live[q]) <= b /\ b < q + live[q]
    BY <1>2, <1>3, <1>4
  <1> QED
    BY <1>3, <1>5 DEF Taken

\* An unused block that has the bytes of a request, header included, can take it.
LEMMA RoomFits ==
    ASSUME NEW h \in Headers, Shaped(h), ~h.used, NEW n \in Nat,
           Total(h) >= n + HeaderFor(n)
    PROVE  h.size >= n
  BY SizesAssumption DEF Headers, Shaped, Total, Width, HeaderFor

\* A request is refused only if no run of bytes outside the blocks the program
\* holds could take it, for an arena and headers of any size (mymalloc.c:157-170).
THEOREM RefusalsJustified == MallocSpec => []RefusedOnlyWhenFull
  <1>1. MallocInit => RefusalStands
    BY DEF MallocInit, RefusalStands
  <1>2. HeapInv /\ RefusalStands /\ [MallocNext]_heapVars => RefusalStands'
    BY RefusalStep
  <1>3. HeapInv /\ RefusalStands => RefusedOnlyWhenFull
    <2> SUFFICES ASSUME HeapInv, RefusalStands, refused > 0,
                        NEW b \in 0..(ARENA - 1),
                        b + refused + HeaderFor(refused) <= ARENA,
                        \A c \in b..(b + refused + HeaderFor(refused) - 1) : ~Taken(c)
                 PROVE  FALSE
      BY DEF RefusedOnlyWhenFull
    <2> DEFINE last == b + refused + HeaderFor(refused) - 1
    <2>1. refused \in Nat /\ b \in Nat /\ HeaderFor(refused) \in 1..2
      BY SizesAssumption DEF HeapInv, HeaderFor
    <2>2. Good(hdr) /\ Agrees(hdr, live) /\ Fitting(hdr, refused) = {}
      BY <2>1, SizesAssumption DEF RefusalStands
    <2>3. Tiling(hdr) /\ Merged(hdr)
      BY <2>2 DEF Good
    <2>4. PICK p \in DOMAIN hdr : p <= b /\ b < EndIn(hdr, p)
      BY <2>3, ByteInBlock
    <2>5. /\ p \in Nat /\ EndIn(hdr, p) \in Nat /\ hdr[p] \in Headers
          /\ EndIn(hdr, p) = p + Total(hdr[p]) /\ Total(hdr[p]) \in Nat
      BY <2>3, BlockFacts
    <2>6. b \in b..last
      BY <2>1
    <2>7. ~hdr[p].used
      BY <2>1, <2>2, <2>4, <2>6, UsedTaken
    <2>8. last < EndIn(hdr, p)
      <3> SUFFICES ASSUME EndIn(hdr, p) <= last PROVE FALSE
        BY <2>1, <2>5
      <3> DEFINE e == EndIn(hdr, p)
      <3>1. e \in DOMAIN hdr
        BY <2>1, <2>3, <2>5, SizesAssumption DEF Tiling
      <3>2. hdr[e].used
        BY <2>3, <2>7, <3>1 DEF Merged
      <3>3. e \in b..last /\ e \in Nat
        BY <2>1, <2>4, <2>5
      <3>4. e < EndIn(hdr, e)
        BY <2>3, <3>1, BlockFacts
      <3> HIDE DEF e
      <3>5. Taken(e)
        BY <2>2, <3>1, <3>2, <3>3, <3>4, UsedTaken
      <3> QED
        BY <3>3, <3>5
    <2>9. Total(hdr[p]) >= refused + HeaderFor(refused)
      BY <2>1, <2>4, <2>5, <2>8
    <2>10. hdr[p].size >= refused
      BY <2>1, <2>2, <2>5, <2>7, <2>9, RoomFits DEF Good
    <2> QED
      BY <2>2, <2>7, <2>10 DEF Fitting
  <1> QED
    BY <1>1, <1>2, <1>3, HeapInvariance, PTL DEF MallocSpec
=============================================================================
