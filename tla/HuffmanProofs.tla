---------------------------- MODULE HuffmanProofs -----------------------------
(* What holds of the compressor for all files.  First what the two operations   *)
(* of the heap (ds.c) do at any size: both are recursive functions, so that a    *)
(* function with the equation has to be built, place by place, and what it       *)
(* does follows from a least place where it would not.  Then prefixes, the sums  *)
(* of the counts, the trees and the codes of their tokens, the reading of the    *)
(* texts and of the bits, the invariant and its theorems.  Last why no tree over *)
(* the tokens costs less than the one the heap makes: what the least cost of a   *)
(* set of nodes is, that the two that count least may be merged first, and that  *)
(* every step of the merge keeps what is left as cheap as it can be.             *)
EXTENDS Huffman, SequenceTheorems, NaturalsInduction, WellFoundedInduction, FiniteSetTheorems, TLAPS

\* A non-empty set of numbers has a least one.
LEMMA LeastNumber ==
    ASSUME NEW S, S \subseteq Nat, S # {}
    PROVE  \E m \in S : \A n \in S : m <= n
  <1> DEFINE Less == OpToRel(<, Nat)
  <1>1. \A m, n \in Nat : m < n => <<m, n>> \in Less
    BY DEF OpToRel
  <1>2. IsWellFoundedOn(Less, Nat)
    BY NatLessThanWellFounded
  <1> HIDE DEF Less
  <1>3. PICK m \in S : \A n \in S : ~(<<n, m>> \in Less)
    BY <1>2, WFMin
  <1>4. \A n \in S : ~(n < m)
    BY <1>1, <1>3
  <1> QED
    BY <1>3, <1>4

\* What holds of 0, and of n + 1 whenever it holds of n, holds of every number.
LEMMA Upward ==
    ASSUME NEW T, 0 \in T, \A n \in Nat : n \in T => n + 1 \in T
    PROVE  Nat \subseteq T
  <1> SUFFICES ASSUME ~(Nat \subseteq T) PROVE FALSE
    OBVIOUS
  <1>1. PICK m \in Nat \ T : \A n \in Nat \ T : m <= n
    BY LeastNumber
  <1>2. m # 0 /\ m - 1 \in Nat /\ (m - 1) + 1 = m /\ ~(m <= m - 1)
    OBVIOUS
  <1> QED
    BY <1>1, <1>2

-------------------------------------------------------------------------------
(* The places of a heap under another. *)

Closed(T) == \A m \in T : 2 * m \in T /\ 2 * m + 1 \in T
Under(i) == {k \in Nat : \A T \in SUBSET Nat : i \in T /\ Closed(T) => k \in T}

\* A set that is closed and holds i holds all places under i.
LEMMA UnderIn ==
    ASSUME NEW i, NEW T, T \subseteq Nat, i \in T, Closed(T)
    PROVE  Under(i) \subseteq T
  BY DEF Under

\* The places under i are such a set themselves.
LEMMA UnderClosed ==
    ASSUME NEW i \in Nat
    PROVE  i \in Under(i) /\ Closed(Under(i)) /\ Under(i) \subseteq Nat
  BY DEF Under, Closed

\* A place under i is i or is under one of its two children.
LEMMA UnderParts ==
    ASSUME NEW i \in Nat, i > 0
    PROVE  /\ Under(2 * i) \subseteq Under(i) /\ Under(2 * i + 1) \subseteq Under(i)
           /\ Under(i) \subseteq {i} \union Under(2 * i) \union Under(2 * i + 1)
           /\ \A k \in Under(i) : k >= i
           /\ \A k \in Under(i) : k # i => k \div 2 \in Under(i) /\ k \div 2 < k
  <1> DEFINE l == 2 * i
             r == 2 * i + 1
  <1>0. l \in Nat /\ r \in Nat
    OBVIOUS
  <1> HIDE DEF l, r
  <1>1. /\ i \in Under(i) /\ Closed(Under(i)) /\ Under(i) \subseteq Nat
        /\ l \in Under(l) /\ Closed(Under(l)) /\ Under(l) \subseteq Nat
        /\ r \in Under(r) /\ Closed(Under(r)) /\ Under(r) \subseteq Nat
    BY <1>0, UnderClosed
  <1>2. l \in Under(i) /\ r \in Under(i)
    BY <1>1 DEF Closed, l, r
  <1>3. Under(l) \subseteq Under(i) /\ Under(r) \subseteq Under(i)
    BY <1>1, <1>2, UnderIn
  <1>4. Under(i) \subseteq {i} \union Under(l) \union Under(r)
    <2> DEFINE T == {i} \union Under(l) \union Under(r)
    <2>1. Closed(T)
      BY <1>1 DEF Closed, l, r
    <2>2. i \in T /\ T \subseteq Nat
      BY <1>1
    <2> HIDE DEF T
    <2>3. Under(i) \subseteq T
      BY <2>1, <2>2, UnderIn
    <2> QED
      BY <2>3 DEF T
  <1>5. \A k \in Under(i) : k >= i
    <2> DEFINE T == {k \in Nat : k >= i}
    <2>1. Closed(T) /\ i \in T /\ T \subseteq Nat
      BY DEF Closed
    <2> HIDE DEF T
    <2>2. Under(i) \subseteq T
      BY <2>1, UnderIn
    <2> QED
      BY <2>2 DEF T
  <1>6. \A k \in Under(i) : k # i => k \div 2 \in Under(i) /\ k \div 2 < k
    <2> DEFINE T == {k \in Under(i) : k # i => k \div 2 \in Under(i) /\ k \div 2 < k}
    <2>1. ASSUME NEW m \in T
          PROVE  2 * m \in T /\ 2 * m + 1 \in T
      <3>1. m \in Nat /\ m >= i /\ m \in Under(i)
        BY <1>1, <1>5
      <3>2. (2 * m) \div 2 = m /\ (2 * m + 1) \div 2 = m /\ m < 2 * m /\ m < 2 * m + 1
        BY <3>1
      <3>3. 2 * m \in Under(i) /\ 2 * m + 1 \in Under(i)
        BY <1>1, <3>1 DEF Closed
      <3> QED
        BY <3>1, <3>2, <3>3
    <2>2. Closed(T) /\ i \in T /\ T \subseteq Nat
      <3>1. i \in T /\ T \subseteq Nat
        BY <1>1
      <3> HIDE DEF T
      <3> QED
        BY <2>1, <3>1 DEF Closed
    <2> HIDE DEF T
    <2>3. Under(i) \subseteq T
      BY <2>2, UnderIn
    <2> QED
      BY <2>3 DEF T
  <1> QED
    BY <1>3, <1>4, <1>5, <1>6 DEF l, r

\* No place is under both children.
LEMMA UnderApart ==
    ASSUME NEW i \in Nat, i > 0
    PROVE  /\ Under(2 * i) \intersect Under(2 * i + 1) = {}
           /\ i \notin Under(2 * i) /\ i \notin Under(2 * i + 1)
  <1> DEFINE l == 2 * i
             r == 2 * i + 1
             Both == Under(l) \intersect Under(r)
  <1>1. l \in Nat /\ r \in Nat /\ l > 0 /\ r > 0
    OBVIOUS
  <1>2. /\ \A k \in Under(l) : k \in Nat /\ k >= l
        /\ \A k \in Under(r) : k \in Nat /\ k >= r
        /\ \A k \in Under(l) : k # l => k \div 2 \in Under(l) /\ k \div 2 < k
        /\ \A k \in Under(r) : k # r => k \div 2 \in Under(r) /\ k \div 2 < k
    <2> HIDE DEF l, r
    <2> QED
      BY <1>1, UnderParts, UnderClosed
  <1>3. i < l /\ i < r /\ l < r /\ r \div 2 = i
    OBVIOUS
  <1>4. i \notin Under(l) /\ i \notin Under(r)
    <2> HIDE DEF l, r
    <2> QED
      BY <1>1, <1>2, <1>3
  <1>5. l \notin Under(r)
    <2> HIDE DEF l, r
    <2> QED
      BY <1>1, <1>2, <1>3
  <1>6. r \notin Under(l)
    <2> HIDE DEF l, r
    <2> QED
      BY <1>1, <1>2, <1>3, <1>4
  <1>7. Both = {}
    <2> SUFFICES ASSUME Both # {} PROVE FALSE
      OBVIOUS
    <2>1. Both \subseteq Nat
      <3> HIDE DEF l, r
      <3> QED
        BY <1>2
    <2>2. PICK k \in Both : \A m \in Both : k <= m
      <3> HIDE DEF Both
      <3> QED
        BY <2>1, LeastNumber
    <2> HIDE DEF l, r
    <2>3. k \div 2 \in Both /\ k \div 2 < k
      BY <1>2, <1>5, <1>6, <2>2
    <2>4. k \in Nat /\ k \div 2 \in Nat
      BY <2>1, <2>2, <2>3
    <2> HIDE DEF Both
    <2> QED
      BY <2>2, <2>3, <2>4
  <1> QED
    BY <1>4, <1>7

\* All places are under the first.
LEMMA UnderFirst == \A k \in Nat : k > 0 => k \in Under(1)
  <1> DEFINE Others == {k \in Nat : k > 0 /\ k \notin Under(1)}
  <1>1. Others = {}
    <2> SUFFICES ASSUME Others # {} PROVE FALSE
      OBVIOUS
    <2>1. PICK k \in Others : \A m \in Others : k <= m
      <3>1. Others \subseteq Nat
        OBVIOUS
      <3> HIDE DEF Others
      <3> QED
        BY <3>1, LeastNumber
    <2>2. 1 \in Under(1) /\ Closed(Under(1))
      BY UnderClosed
    <2>3. k # 1 /\ k \in Nat /\ k > 1
      BY <2>2
    <2>4. /\ k \div 2 \in Nat /\ k \div 2 > 0 /\ ~(k <= k \div 2)
          /\ k = 2 * (k \div 2) \/ k = 2 * (k \div 2) + 1
      BY <2>3
    <2>5. k \div 2 \in Under(1)
      BY <2>1, <2>4
    <2> QED
      BY <2>2, <2>4, <2>5 DEF Closed
  <1> QED
    BY <1>1

-------------------------------------------------------------------------------
(* heapify.  A heap is an arrangement of the nodes R at the places 1 to n.      *)

Arranged(n, R) == [1..n -> R]

\* One side of a place j: the node at the child c goes up if it is less.
Side(f, n, g, j, c) ==
    IF c <= n /\ g[c].count < g[j].count THEN f[<<Swapped(g, j, c), c>>] ELSE g
Sink(f, n, at) == Side(f, n, Side(f, n, at[1], at[2], 2 * at[2]), at[2], 2 * at[2] + 1)

\* The arguments whose place has fewer than k places after it.
Deep(n, R, k) == {at \in Arranged(n, R) \X (1..n) : n - at[2] < k}

\* f makes arrangements of all in X; e and f agree on X; all below place j is in X.
Lands(f, n, R, X) == \A at \in X : f[at] \in Arranged(n, R)
Agree(e, f, X) == \A at \in X : e[at] = f[at]
Holds(X, n, R, j) == \A g \in Arranged(n, R), c \in 1..n : j < c => <<g, c>> \in X
Sinks(f, n, R, k) ==
    Lands(f, n, R, Deep(n, R, k)) /\ f = [at \in Deep(n, R, k) |-> Sink(f, n, at)]

\* Swapping two nodes leaves an arrangement of the same nodes.
LEMMA SwappedIn ==
    ASSUME NEW n \in Nat, NEW R, NEW g \in Arranged(n, R), NEW i \in 1..n, NEW j \in 1..n
    PROVE  /\ Swapped(g, i, j) \in Arranged(n, R)
           /\ Swapped(g, i, j) = [k \in 1..n |-> IF k = i THEN g[j] ELSE IF k = j THEN g[i] ELSE g[k]]
  BY DEF Swapped, Arranged

\* Sinking on one side of a place leaves an arrangement.
LEMMA SideIn ==
    ASSUME NEW n \in Nat, NEW R, NEW X, NEW f, Lands(f, n, R, X),
           NEW g \in Arranged(n, R), NEW j \in 1..n, Holds(X, n, R, j), NEW c \in Nat, j < c
    PROVE  Side(f, n, g, j, c) \in Arranged(n, R)
  <1>1. CASE c <= n /\ g[c].count < g[j].count
    <2>1. c \in 1..n
      BY <1>1
    <2>2. Swapped(g, j, c) \in Arranged(n, R)
      BY <2>1, SwappedIn
    <2>3. <<Swapped(g, j, c), c>> \in X
      BY <2>1, <2>2 DEF Holds
    <2> QED
      BY <1>1, <2>3 DEF Side, Lands
  <1>2. CASE ~(c <= n /\ g[c].count < g[j].count)
    BY <1>2 DEF Side
  <1> QED
    BY <1>1, <1>2

\* Sinking on a side asks the function only about places further down.
LEMMA SideAgrees ==
    ASSUME NEW n \in Nat, NEW R, NEW X, NEW f, NEW e, Agree(e, f, X),
           NEW g \in Arranged(n, R), NEW j \in 1..n, Holds(X, n, R, j), NEW c \in Nat, j < c
    PROVE  Side(e, n, g, j, c) = Side(f, n, g, j, c)
  <1>1. CASE c <= n /\ g[c].count < g[j].count
    <2>1. c \in 1..n
      BY <1>1
    <2>2. Swapped(g, j, c) \in Arranged(n, R)
      BY <2>1, SwappedIn
    <2>3. <<Swapped(g, j, c), c>> \in X
      BY <2>1, <2>2 DEF Holds
    <2> QED
      BY <1>1, <2>3 DEF Side, Agree
  <1>2. CASE ~(c <= n /\ g[c].count < g[j].count)
    BY <1>2 DEF Side
  <1> QED
    BY <1>1, <1>2

\* One call of heapify leaves an arrangement, if the calls it makes do.
LEMMA SinkIn ==
    ASSUME NEW n \in Nat, NEW R, NEW X, NEW f, Lands(f, n, R, X),
           NEW at \in Arranged(n, R) \X (1..n), Holds(X, n, R, at[2])
    PROVE  /\ Sink(f, n, at) \in Arranged(n, R)
           /\ \A e : Agree(e, f, X) => Sink(e, n, at) = Sink(f, n, at)
  <1> DEFINE g == at[1]
             j == at[2]
             l == 2 * j
             r == 2 * j + 1
             m == Side(f, n, g, j, l)
  <1>1. g \in Arranged(n, R) /\ j \in 1..n /\ Holds(X, n, R, j)
    OBVIOUS
  <1>2. l \in Nat /\ r \in Nat /\ j < l /\ j < r
    BY <1>1
  <1>3. \A e : Sink(e, n, at) = Side(e, n, Side(e, n, g, j, l), j, r)
    BY DEF Sink
  <1> HIDE DEF g, j, l, r
  <1>4. m \in Arranged(n, R)
    BY <1>1, <1>2, SideIn
  <1>5. Side(f, n, m, j, r) \in Arranged(n, R)
    <2> HIDE DEF m
    <2> QED
      BY <1>1, <1>2, <1>4, SideIn
  <1>6. ASSUME NEW e, Agree(e, f, X)
        PROVE  Side(e, n, Side(e, n, g, j, l), j, r) = Side(f, n, m, j, r)
    <2>1. Side(e, n, g, j, l) = m
      BY <1>1, <1>2, <1>6, SideAgrees
    <2> HIDE DEF m
    <2>2. Side(e, n, m, j, r) = Side(f, n, m, j, r)
      BY <1>1, <1>2, <1>4, <1>6, SideAgrees
    <2> QED
      BY <2>1, <2>2
  <1> QED
    BY <1>3, <1>5, <1>6 DEF m

\* The k deepest calls hold the calls made from them.
LEMMA DeepHolds ==
    ASSUME NEW n \in Nat, NEW R, NEW k \in Nat, NEW at \in Deep(n, R, k + 1)
    PROVE  at \in Arranged(n, R) \X (1..n) /\ Holds(Deep(n, R, k), n, R, at[2])
  BY DEF Deep, Holds

\* A function for the calls at the k deepest places extends to one for k + 1.
LEMMA SinksNext ==
    ASSUME NEW n \in Nat, NEW R, NEW k \in Nat, NEW f, Sinks(f, n, R, k)
    PROVE  \E e : Sinks(e, n, R, k + 1)
  <1> DEFINE X == Deep(n, R, k)
             Y == Deep(n, R, k + 1)
             e == [at \in Y |-> Sink(f, n, at)]
  <1>1. \A at \in X : at \in Y
    BY DEF Deep
  <1>2. \A at \in Y : at \in Arranged(n, R) \X (1..n) /\ Holds(X, n, R, at[2])
    BY DeepHolds
  <1>3. Lands(f, n, R, X) /\ f = [at \in X |-> Sink(f, n, at)]
    BY DEF Sinks
  <1> HIDE DEF X, Y
  <1>4. Agree(e, f, X)
    <2>1. \A at \in X : f[at] = Sink(f, n, at)
      BY <1>3
    <2> QED
      BY <1>1, <2>1 DEF Agree
  <1>5. \A at \in Y : e[at] = Sink(f, n, at)
    OBVIOUS
  <1> HIDE DEF e
  <1>6. \A at \in Y : Sink(f, n, at) \in Arranged(n, R) /\ Sink(e, n, at) = Sink(f, n, at)
    BY <1>2, <1>3, <1>4, SinkIn
  <1>7. Lands(e, n, R, Y)
    BY <1>5, <1>6 DEF Lands
  <1>8. e = [at \in Y |-> Sink(e, n, at)]
    BY <1>6 DEF e
  <1> QED
    BY <1>7, <1>8 DEF Sinks, Y

\* There is a function that is the recursion of heapify at every place.
LEMMA SinksExist ==
    ASSUME NEW n \in Nat, NEW R
    PROVE  \A k \in Nat : \E f : Sinks(f, n, R, k)
  <1> DEFINE T == {k \in Nat : \E f : Sinks(f, n, R, k)}
  <1>1. 0 \in T
    <2>1. Deep(n, R, 0) = {}
      BY DEF Deep
    <2>2. Sinks([at \in Deep(n, R, 0) |-> at], n, R, 0)
      BY <2>1 DEF Sinks, Lands
    <2> QED
      BY <2>2
  <1>2. \A k \in Nat : k \in T => k + 1 \in T
    BY SinksNext
  <1> HIDE DEF T
  <1>3. Nat \subseteq T
    BY <1>1, <1>2, Upward
  <1> QED
    BY <1>3 DEF T

\* heapify is what its equation says.
LEMMA HeapifyUnfold ==
    ASSUME NEW n \in Nat, NEW h, DOMAIN h = 1..n, h \in [1..n -> Range(h)], Len(h) = n, NEW i \in 1..n
    PROVE  \E f : Sinks(f, n, Range(h), n) /\ Heapify(h, i) = f[<<h, i>>]
  <1> DEFINE R == Range(h)
             D == Arrangements(h) \X DOMAIN h
             Body(f, at) ==
                LET g == at[1]
                    j == at[2]
                    l == 2 * j
                    r == 2 * j + 1
                    m == IF l <= Len(h) /\ g[l].count < g[j].count THEN f[<<Swapped(g, j, l), l>>] ELSE g
                IN IF r <= Len(h) /\ m[r].count < m[j].count THEN f[<<Swapped(m, j, r), r>>] ELSE m
             Sunk[at \in D] ==
                LET g == at[1]
                    j == at[2]
                    l == 2 * j
                    r == 2 * j + 1
                    m == IF l <= Len(h) /\ g[l].count < g[j].count THEN Sunk[<<Swapped(g, j, l), l>>] ELSE g
                IN IF r <= Len(h) /\ m[r].count < m[j].count THEN Sunk[<<Swapped(m, j, r), r>>] ELSE m
  <1>1. PICK f : Sinks(f, n, R, n)
    BY SinksExist
  <1>2. Deep(n, R, n) = D
    BY DEF Deep, Arrangements, Arranged
  <1>3. \A e : \A at \in D : Sink(e, n, at) = Body(e, at)
    BY DEF Sink, Side
  <1>4. f = [at \in D |-> Body(f, at)]
    <2> HIDE DEF Body, D
    <2> QED
      BY <1>1, <1>2, <1>3 DEF Sinks
  <1>5. Sunk = [at \in D |-> Body(Sunk, at)]
    <2> HIDE DEF D
    <2> QED
      BY <1>4, Zenon
  <1>6. Heapify(h, i) = Sunk[<<h, i>>]
    BY DEF Heapify
  <1> HIDE DEF Sunk
  <1>7. \A at \in D : Sunk[at] = Sink(Sunk, n, at)
    <2> HIDE DEF Body, D
    <2> QED
      BY <1>3, <1>5
  <1> HIDE DEF Body
  <1>8. ASSUME NEW k \in Nat, k < n, Agree(Sunk, f, Deep(n, R, k))
        PROVE  Agree(Sunk, f, Deep(n, R, k + 1))
    <2> DEFINE X == Deep(n, R, k)
               Y == Deep(n, R, k + 1)
    <2>1. \A at \in X : at \in D
      BY <1>2, <1>8 DEF Deep
    <2>2. \A at \in Y : at \in D
      BY <1>2, <1>8 DEF Deep
    <2>3. \A at \in Y : at \in Arranged(n, R) \X (1..n) /\ Holds(X, n, R, at[2])
      BY DeepHolds
    <2>4. Lands(f, n, R, X)
      BY <1>1, <1>2, <2>1 DEF Sinks, Lands
    <2>5. Agree(Sunk, f, X)
      BY <1>8
    <2> HIDE DEF X, Y, D
    <2>6. \A at \in D : f[at] = Sink(f, n, at)
      BY <1>1, <1>2 DEF Sinks
    <2>7. ASSUME NEW at \in Y PROVE Sunk[at] = f[at]
      <3>1. Sink(Sunk, n, at) = Sink(f, n, at)
        BY <2>3, <2>4, <2>5, SinkIn
      <3> QED
        BY <1>7, <2>2, <2>6, <3>1
    <2>8. Agree(Sunk, f, Y)
      BY <2>7 DEF Agree
    <2> QED
      BY <2>8 DEF Y
  <1> DEFINE T == {k \in Nat : k < n + 1 => Agree(Sunk, f, Deep(n, R, k))}
  <1>9. n \in T
    <2>1. 0 \in T
      <3>1. Deep(n, R, 0) = {}
        BY DEF Deep
      <3> QED
        BY <3>1 DEF Agree
    <2>2. \A k \in Nat : k \in T => k + 1 \in T
      BY <1>8
    <2> HIDE DEF T
    <2> QED
      BY <2>1, <2>2, Upward
  <1>10. Agree(Sunk, f, D)
    <2>1. Agree(Sunk, f, Deep(n, R, n))
      BY <1>9
    <2> HIDE DEF D
    <2> QED
      BY <1>2, <2>1
  <1>11. <<h, i>> \in D
    BY DEF Arrangements
  <1>12. Heapify(h, i) = f[<<h, i>>]
    <2> HIDE DEF D
    <2> QED
      BY <1>6, <1>10, <1>11 DEF Agree
  <1> WITNESS f
  <1> QED
    BY <1>1, <1>12

(* What heapify does to the places under the one it starts at. *)

CountsIn(R) == \A x \in R : x.count \in Int

\* In order under c; nothing under c counts less than x.
Sorted(g, n, c) == \A k \in Under(c) : k # c /\ k <= n => g[k \div 2].count <= g[k].count
AtMost(x, g, n, c) == \A k \in Under(c) : k <= n => x <= g[k].count

\* The same nodes, none twice if none was.
Holding(g, n) == {g[k] : k \in 1..n}
Apart(g, n) == \A k, l \in 1..n : g[k] = g[l] => k = l
Shuffled(e, g, n) == Holding(e, n) = Holding(g, n) /\ (Apart(g, n) => Apart(e, n))

Alike(e, g, n, K) == \A k \in 1..n : k \in K => e[k] = g[k]

\* What is to be shown of e made from g by sinking what is at j.
Sunken(e, g, n, j) ==
    /\ Shuffled(e, g, n)
    /\ Alike(e, g, n, Nat \ Under(j))
    /\ Sorted(g, n, 2 * j) /\ Sorted(g, n, 2 * j + 1) => Sorted(e, n, j)
    /\ \A x \in Int : AtMost(x, g, n, j) => AtMost(x, e, n, j)

\* A shuffle of a shuffle is one.
LEMMA ShuffledTwice ==
    ASSUME NEW n, NEW e, NEW g, NEW h, Shuffled(e, g, n), Shuffled(g, h, n)
    PROVE  Shuffled(e, h, n)
  BY DEF Shuffled

\* Swapping two nodes is a shuffle.
LEMMA SwappedShuffles ==
    ASSUME NEW n \in Nat, NEW R, NEW g \in Arranged(n, R), NEW i \in 1..n, NEW j \in 1..n
    PROVE  Shuffled(Swapped(g, i, j), g, n)
  <1> DEFINE e == Swapped(g, i, j)
             to(k) == IF k = i THEN j ELSE IF k = j THEN i ELSE k
  <1>1. \A k \in 1..n : to(k) \in 1..n /\ to(to(k)) = k /\ e[k] = g[to(k)]
    BY SwappedIn
  <1>2. \A k, l \in 1..n : to(k) = to(l) => k = l
    OBVIOUS
  <1> HIDE DEF e, to
  <1>3. \A k \in 1..n : e[to(k)] = g[k]
    BY <1>1
  <1>4. Holding(e, n) = Holding(g, n)
    BY <1>1, <1>3 DEF Holding
  <1>5. Apart(g, n) => Apart(e, n)
    BY <1>1, <1>2 DEF Apart
  <1> QED
    BY <1>4, <1>5 DEF Shuffled, e

\* Arrays that agree under a place are both in order there, or neither is.
LEMMA SortedAlike ==
    ASSUME NEW n \in Nat, NEW e, NEW g, NEW c \in Nat, c > 0, Alike(e, g, n, Under(c)), Sorted(g, n, c)
    PROVE  Sorted(e, n, c)
  <1>1. \A k \in Under(c) : k \in Nat /\ k >= c /\ (k # c => k \div 2 \in Under(c) /\ k \div 2 < k)
    BY UnderParts, UnderClosed
  <1>2. ASSUME NEW k \in Under(c), k # c, k <= n
        PROVE  e[k \div 2].count <= e[k].count
    <2>1. k \in Nat /\ k \div 2 \in Under(c) /\ k \div 2 < k /\ k \div 2 \in Nat /\ k \div 2 >= c
      BY <1>1, <1>2
    <2>2. k \in 1..n /\ k \div 2 \in 1..n
      BY <1>2, <2>1
    <2>3. e[k] = g[k] /\ e[k \div 2] = g[k \div 2]
      BY <2>1, <2>2 DEF Alike
    <2> QED
      BY <1>2, <2>3 DEF Sorted
  <1> QED
    BY <1>2 DEF Sorted

\* What is in order under a place is so under its two children.
LEMMA SortedParts ==
    ASSUME NEW n \in Nat, NEW g, NEW c \in Nat, c > 0, Sorted(g, n, c)
    PROVE  Sorted(g, n, 2 * c) /\ Sorted(g, n, 2 * c + 1)
  <1>1. /\ Under(2 * c) \subseteq Under(c) /\ Under(2 * c + 1) \subseteq Under(c)
        /\ c \notin Under(2 * c) /\ c \notin Under(2 * c + 1)
    BY UnderParts, UnderApart
  <1> QED
    BY <1>1 DEF Sorted

\* Where the places under c are in order, what is at c is least.
LEMMA LeastOnTop ==
    ASSUME NEW n \in Nat, NEW R, CountsIn(R), NEW g \in Arranged(n, R),
           NEW c \in 1..n, Sorted(g, n, c)
    PROVE  AtMost(g[c].count, g, n, c)
  <1> DEFINE T == {k \in Under(c) : k <= n => g[c].count <= g[k].count}
  <1>1. /\ c \in Under(c) /\ Closed(Under(c)) /\ Under(c) \subseteq Nat
        /\ \A k \in Under(c) : k >= c
    BY UnderClosed, UnderParts
  <1>2. \A k \in 1..n : g[k].count \in Int
    BY DEF Arranged, CountsIn
  <1>3. ASSUME NEW m \in T, NEW k \in {2 * m, 2 * m + 1}
        PROVE  k \in T
    <2>1. m \in Nat /\ m >= c /\ m \in Under(c)
      BY <1>1
    <2>2. k \in Under(c)
      BY <1>1, <2>1 DEF Closed
    <2>3. k \in Nat /\ k \div 2 = m /\ m < k
      BY <2>1
    <2>4. CASE k <= n
      <3>1. g[k \div 2].count <= g[k].count
        BY <2>1, <2>2, <2>3, <2>4 DEF Sorted
      <3>2. m \in 1..n /\ k \in 1..n
        BY <2>1, <2>3, <2>4
      <3>3. g[c].count <= g[m].count
        BY <3>2
      <3> QED
        BY <1>2, <2>2, <2>3, <3>1, <3>2, <3>3
    <2> QED
      BY <2>2, <2>4
  <1>4. Closed(T) /\ c \in T /\ T \subseteq Nat
    <2>1. c \in T /\ T \subseteq Nat
      BY <1>1, <1>2
    <2> HIDE DEF T
    <2> QED
      BY <1>3, <2>1 DEF Closed
  <1> HIDE DEF T
  <1>5. Under(c) \subseteq T
    BY <1>4, UnderIn
  <1> QED
    BY <1>5 DEF AtMost, T

\* What is to be shown of e made from g by one side of j, where the child is c.
SideDone(e, g, n, j, c) ==
    /\ Shuffled(e, g, n)
    /\ \A k \in 1..n : k # j /\ k \notin Under(c) => e[k] = g[k]
    /\ Sorted(g, n, c) => /\ Sorted(e, n, c)
                          /\ c <= n => e[j].count <= e[c].count
                          /\ e[j].count <= g[j].count
    /\ \A x \in Int : x <= g[j].count /\ AtMost(x, g, n, c) => x <= e[j].count /\ AtMost(x, e, n, c)

\* Sinking on the side of a lesser child leaves that side in order.
LEMMA SideSwapped ==
    ASSUME NEW n \in Nat, NEW R, CountsIn(R), NEW g \in Arranged(n, R), NEW j \in 1..n,
           NEW c \in 1..n, c = 2 * j \/ c = 2 * j + 1, g[c].count < g[j].count,
           NEW s, s = Swapped(g, j, c), NEW e, Sunken(e, s, n, c)
    PROVE  SideDone(e, g, n, j, c)
  <1>1. /\ s \in Arranged(n, R) /\ s[j] = g[c] /\ s[c] = g[j] /\ j # c
        /\ \A k \in 1..n : k # j /\ k # c => s[k] = g[k]
    BY SwappedIn, Z3T(40)
  <1>2. \A k \in 1..n : g[k].count \in Int
    BY DEF Arranged, CountsIn
  <1>3. c \in Nat /\ c > 0 /\ j \in Nat /\ j > 0
    OBVIOUS
  <1>4. j \notin Under(c) /\ c \in Under(c)
    BY <1>3, UnderApart, UnderClosed
  <1>5. /\ Under(2 * c) \subseteq Under(c) /\ Under(2 * c + 1) \subseteq Under(c)
        /\ c \notin Under(2 * c) /\ c \notin Under(2 * c + 1)
    BY <1>3, UnderParts, UnderApart
  <1>6. Shuffled(e, g, n)
    <2>1. Shuffled(s, g, n)
      BY SwappedShuffles
    <2> QED
      BY <2>1, ShuffledTwice DEF Sunken
  <1>7. \A k \in 1..n : k \notin Under(c) => e[k] = s[k]
    BY <1>3 DEF Sunken, Alike
  <1>8. \A k \in 1..n : k # j /\ k \notin Under(c) => e[k] = g[k]
    BY <1>1, <1>4, <1>7
  <1>9. e[j] = g[c]
    BY <1>1, <1>4, <1>7
  <1>10. ASSUME NEW x \in Int, x <= g[j].count, AtMost(x, g, n, c)
         PROVE  AtMost(x, s, n, c) /\ AtMost(x, e, n, c) /\ x <= e[j].count
    <2>1. \A k \in Under(c) : k \in Nat /\ k > 0
      BY <1>3, UnderClosed, UnderParts
    <2>2. ASSUME NEW k \in Under(c), k <= n PROVE x <= s[k].count
      <3>1. k \in 1..n
        BY <2>1, <2>2
      <3> QED
        BY <1>1, <1>4, <1>10, <2>2, <3>1 DEF AtMost
    <2>3. AtMost(x, s, n, c)
      BY <2>2 DEF AtMost
    <2> QED
      BY <1>4, <1>9, <1>10, <2>3 DEF Sunken, AtMost
  <1>11. ASSUME Sorted(g, n, c)
         PROVE  Sorted(e, n, c) /\ e[j].count <= e[c].count /\ e[j].count <= g[j].count
    <2>1. Sorted(g, n, 2 * c) /\ Sorted(g, n, 2 * c + 1)
      BY <1>3, <1>11, SortedParts
    <2>2. Alike(s, g, n, Under(2 * c)) /\ Alike(s, g, n, Under(2 * c + 1))
      BY <1>1, <1>4, <1>5 DEF Alike
    <2>3. Sorted(s, n, 2 * c) /\ Sorted(s, n, 2 * c + 1)
      <3> DEFINE l == 2 * c
                 r == 2 * c + 1
      <3>1. l \in Nat /\ l > 0 /\ r \in Nat /\ r > 0
        BY <1>3
      <3>2. Sorted(s, n, l) /\ Sorted(s, n, r)
        <4>1. Alike(s, g, n, Under(l)) /\ Alike(s, g, n, Under(r)) /\ Sorted(g, n, l) /\ Sorted(g, n, r)
          BY <2>1, <2>2
        <4> HIDE DEF l, r
        <4> QED
          BY <3>1, <4>1, SortedAlike
      <3> QED
        BY <3>2
    <2>4. Sorted(e, n, c)
      BY <2>3 DEF Sunken
    <2>5. AtMost(g[c].count, g, n, c)
      BY <1>11, LeastOnTop
    <2>6. g[c].count \in Int /\ g[j].count \in Int /\ g[c].count <= g[j].count
      BY <1>2
    <2>7. AtMost(g[c].count, e, n, c)
      BY <1>10, <2>5, <2>6
    <2>8. g[c].count <= e[c].count
      BY <1>4, <2>7 DEF AtMost
    <2> QED
      BY <1>9, <2>4, <2>6, <2>8
  <1> QED
    BY <1>6, <1>8, <1>10, <1>11 DEF SideDone

\* Where the child is not less, the side stays as it is.
LEMMA SideKept ==
    ASSUME NEW n \in Nat, NEW R, CountsIn(R), NEW g \in Arranged(n, R), NEW j \in 1..n,
           NEW c \in Nat, c > 0, ~(c <= n /\ g[c].count < g[j].count)
    PROVE  SideDone(g, g, n, j, c)
  <1>1. \A k \in 1..n : g[k].count \in Int
    BY DEF Arranged, CountsIn
  <1>2. c <= n => c \in 1..n /\ g[j].count <= g[c].count
    BY <1>1
  <1>3. g[j].count <= g[j].count
    BY <1>1
  <1> QED
    BY <1>2, <1>3 DEF SideDone, Shuffled

\* The right side after the left one: both are in order and the top is least.
LEMMA BothSides ==
    ASSUME NEW n \in Nat, NEW R, CountsIn(R), NEW g \in Arranged(n, R), NEW j \in 1..n,
           NEW l, NEW r, l = 2 * j, r = 2 * j + 1,
           NEW e \in Arranged(n, R), SideDone(e, g, n, j, l),
           NEW d \in Arranged(n, R), SideDone(d, e, n, j, r)
    PROVE  Sunken(d, g, n, j)
  <1>1. /\ l \in Nat /\ r \in Nat /\ l > 0 /\ r > 0 /\ j \in Nat /\ j > 0
        /\ l \div 2 = j /\ r \div 2 = j /\ l # j /\ r # j
    OBVIOUS
  <1>2. /\ Under(l) \subseteq Under(j) /\ Under(r) \subseteq Under(j)
        /\ Under(j) \subseteq {j} \union Under(l) \union Under(r)
        /\ Under(l) \intersect Under(r) = {} /\ j \notin Under(l) /\ j \notin Under(r)
        /\ j \in Under(j) /\ l \in Under(l) /\ r \in Under(r)
        /\ Under(j) \subseteq Nat /\ Under(l) \subseteq Nat /\ Under(r) \subseteq Nat
    BY <1>1, UnderParts, UnderApart, UnderClosed
  <1>3. /\ \A k \in 1..n : e[k].count \in Int /\ d[k].count \in Int /\ g[k].count \in Int
    BY DEF Arranged, CountsIn
  <1>4. Shuffled(d, g, n)
    BY ShuffledTwice DEF SideDone
  <1>5. /\ \A k \in 1..n : k # j /\ k \notin Under(l) => e[k] = g[k]
        /\ \A k \in 1..n : k # j /\ k \notin Under(r) => d[k] = e[k]
    BY DEF SideDone
  <1>6. Alike(d, g, n, Nat \ Under(j))
    <2>1. ASSUME NEW k \in 1..n, k \notin Under(j) PROVE d[k] = g[k]
      BY <1>2, <1>5, <2>1
    <2> QED
      BY <2>1 DEF Alike
  <1>7. ASSUME Sorted(g, n, l), Sorted(g, n, r)
        PROVE  Sorted(d, n, j)
    <2>1. Sorted(e, n, l) /\ (l <= n => e[j].count <= e[l].count)
      BY <1>7 DEF SideDone
    <2>2. Alike(e, g, n, Under(r))
      BY <1>2, <1>5 DEF Alike
    <2>3. Sorted(e, n, r)
      BY <1>1, <1>7, <2>2, SortedAlike
    <2>4. /\ Sorted(d, n, r) /\ (r <= n => d[j].count <= d[r].count)
          /\ d[j].count <= e[j].count
      BY <2>3 DEF SideDone
    <2>5. Alike(d, e, n, Under(l))
      BY <1>2, <1>5 DEF Alike
    <2>6. Sorted(d, n, l)
      BY <1>1, <2>1, <2>5, SortedAlike
    <2>7. l <= n => d[j].count <= d[l].count
      <3>1. l <= n => l \in 1..n /\ d[l] = e[l]
        BY <1>1, <1>2, <2>5 DEF Alike
      <3> QED
        BY <1>3, <2>1, <2>4, <3>1
    <2>8. ASSUME NEW k \in Under(j), k # j, k <= n
          PROVE  d[k \div 2].count <= d[k].count
      <3>1. CASE k = l
        BY <1>1, <2>7, <2>8, <3>1
      <3>2. CASE k = r
        BY <1>1, <2>4, <2>8, <3>2
      <3>3. CASE k \in Under(l) /\ k # l
        BY <2>6, <2>8, <3>3 DEF Sorted
      <3>4. CASE k \in Under(r) /\ k # r
        BY <2>4, <2>8, <3>4 DEF Sorted
      <3> QED
        BY <1>2, <2>8, <3>1, <3>2, <3>3, <3>4
    <2> QED
      BY <2>8 DEF Sorted
  <1>8. ASSUME NEW x \in Int, AtMost(x, g, n, j)
        PROVE  AtMost(x, d, n, j)
    <2>1. x <= g[j].count /\ AtMost(x, g, n, l) /\ AtMost(x, g, n, r)
      BY <1>2, <1>8 DEF AtMost
    <2>2. x <= e[j].count /\ AtMost(x, e, n, l)
      BY <2>1 DEF SideDone
    <2>3. \A k \in Under(r) : k > 0
      BY <1>1, <1>2, UnderParts
    <2>4. \A k \in Under(l) : k > 0
      BY <1>1, <1>2, UnderParts
    <2>5. AtMost(x, e, n, r)
      <3>1. ASSUME NEW k \in Under(r), k <= n PROVE x <= e[k].count
        <4>1. k \in 1..n
          BY <1>2, <2>3, <3>1
        <4>2. e[k] = g[k]
          BY <1>2, <1>5, <4>1
        <4> QED
          BY <2>1, <3>1, <4>2 DEF AtMost
      <3> QED
        BY <3>1 DEF AtMost
    <2>6. x <= d[j].count /\ AtMost(x, d, n, r)
      BY <2>2, <2>5 DEF SideDone
    <2>7. AtMost(x, d, n, l)
      <3>1. ASSUME NEW k \in Under(l), k <= n PROVE x <= d[k].count
        <4>1. k \in 1..n
          BY <1>2, <2>4, <3>1
        <4>2. d[k] = e[k]
          BY <1>2, <1>5, <4>1
        <4> QED
          BY <2>2, <3>1, <4>2 DEF AtMost
      <3> QED
        BY <3>1 DEF AtMost
    <2> QED
      BY <1>2, <2>6, <2>7 DEF AtMost
  <1> QED
    BY <1>1, <1>4, <1>6, <1>7, <1>8 DEF Sunken

\* All that is below j has been sunk.
Done(f, n, R, X) == \A at \in X : Sunken(f[at], at[1], n, at[2])

\* One side of a call does what it should, if the calls further down do.
LEMMA SideDoes ==
    ASSUME NEW n \in Nat, NEW R, CountsIn(R), NEW X, NEW f, Done(f, n, R, X),
           NEW g \in Arranged(n, R), NEW j \in 1..n, Holds(X, n, R, j),
           NEW c, c = 2 * j \/ c = 2 * j + 1
    PROVE  SideDone(Side(f, n, g, j, c), g, n, j, c)
  <1>1. CASE c <= n /\ g[c].count < g[j].count
    <2> DEFINE s == Swapped(g, j, c)
               e == f[<<s, c>>]
    <2>1. c \in 1..n /\ j < c
      BY <1>1
    <2>2. s \in Arranged(n, R)
      BY <2>1, SwappedIn
    <2>3. <<s, c>> \in X
      BY <2>1, <2>2 DEF Holds
    <2>4. Sunken(e, s, n, c)
      BY <2>3 DEF Done
    <2> HIDE DEF e
    <2>5. SideDone(e, g, n, j, c)
      BY <1>1, <2>1, <2>4, SideSwapped
    <2> QED
      BY <1>1, <2>5 DEF Side, e
  <1>2. CASE ~(c <= n /\ g[c].count < g[j].count)
    <2>1. c \in Nat /\ c > 0
      OBVIOUS
    <2>2. SideDone(g, g, n, j, c)
      BY <1>2, <2>1, SideKept
    <2> QED
      BY <1>2, <2>2 DEF Side
  <1> QED
    BY <1>1, <1>2

\* One call does what it should, if the calls further down do.
LEMMA SinkDoes ==
    ASSUME NEW n \in Nat, NEW R, CountsIn(R), NEW X, NEW f, Done(f, n, R, X), Lands(f, n, R, X),
           NEW at \in Arranged(n, R) \X (1..n), Holds(X, n, R, at[2])
    PROVE  Sunken(Sink(f, n, at), at[1], n, at[2])
  <1> DEFINE g == at[1]
             j == at[2]
             l == 2 * j
             r == 2 * j + 1
             e == Side(f, n, g, j, l)
             d == Side(f, n, e, j, r)
  <1>1. g \in Arranged(n, R) /\ j \in 1..n /\ Holds(X, n, R, j)
    OBVIOUS
  <1>2. l \in Nat /\ r \in Nat /\ j < l /\ j < r
    BY <1>1
  <1>3. Sink(f, n, at) = d
    BY DEF Sink
  <1>4. l = 2 * j /\ r = 2 * j + 1
    OBVIOUS
  <1> HIDE DEF g, j, l, r
  <1>5. e \in Arranged(n, R) /\ SideDone(e, g, n, j, l)
    BY <1>1, <1>2, <1>4, SideIn, SideDoes
  <1> HIDE DEF e
  <1>6. d \in Arranged(n, R) /\ SideDone(d, e, n, j, r)
    BY <1>1, <1>2, <1>4, <1>5, SideIn, SideDoes
  <1> HIDE DEF d
  <1>7. Sunken(d, g, n, j)
    BY <1>1, <1>4, <1>5, <1>6, BothSides
  <1> QED
    BY <1>3, <1>7 DEF g, j

\* heapify sinks the node at any place, whatever the size of the heap.
LEMMA SinksDo ==
    ASSUME NEW n \in Nat, NEW R, CountsIn(R), NEW f, Sinks(f, n, R, n)
    PROVE  Done(f, n, R, Deep(n, R, n))
  <1> DEFINE D == Deep(n, R, n)
  <1>1. Lands(f, n, R, D) /\ \A at \in D : f[at] = Sink(f, n, at)
    BY DEF Sinks
  <1>2. ASSUME NEW k \in Nat, k < n, Done(f, n, R, Deep(n, R, k))
        PROVE  Done(f, n, R, Deep(n, R, k + 1))
    <2> DEFINE X == Deep(n, R, k)
               Y == Deep(n, R, k + 1)
    <2>1. \A at \in X : at \in D
      BY <1>2 DEF Deep
    <2>2. \A at \in Y : at \in D
      BY <1>2 DEF Deep
    <2>3. \A at \in Y : at \in Arranged(n, R) \X (1..n) /\ Holds(X, n, R, at[2])
      BY DeepHolds
    <2>4. Done(f, n, R, X)
      BY <1>2
    <2> HIDE DEF X, Y, D
    <2>5. Lands(f, n, R, X)
      BY <1>1, <2>1 DEF Lands
    <2>6. ASSUME NEW at \in Y PROVE Sunken(f[at], at[1], n, at[2])
      <3>1. Sunken(Sink(f, n, at), at[1], n, at[2])
        BY <2>3, <2>4, <2>5, SinkDoes
      <3> QED
        BY <1>1, <2>2, <3>1
    <2>7. Done(f, n, R, Y)
      BY <2>6 DEF Done
    <2> QED
      BY <2>7 DEF Y
  <1> DEFINE T == {k \in Nat : k < n + 1 => Done(f, n, R, Deep(n, R, k))}
  <1>3. n \in T
    <2>1. 0 \in T
      <3>1. Deep(n, R, 0) = {}
        BY DEF Deep
      <3> QED
        BY <3>1 DEF Done
    <2>2. \A k \in Nat : k \in T => k + 1 \in T
      BY <1>2
    <2> HIDE DEF T
    <2> QED
      BY <2>1, <2>2, Upward
  <1> QED
    BY <1>3

Distinct(h) == Apart(h, Len(h))

\* Taking the least node leaves the others, and leaves them in order.
LEMMA WithoutMinLeaves ==
    ASSUME NEW S, CountsIn(S), NEW h \in Seq(S), h # << >>, NEW w, w = WithoutMin(h)
    PROVE  /\ w \in Seq(S) /\ Len(w) = Len(h) - 1
           /\ Distinct(h) => /\ Distinct(w)
                             /\ \A x : x \in Range(w) <=> x \in Range(h) /\ x # h[1]
           /\ Ordered(h) => Ordered(w)
  <1> DEFINE n == Len(h) - 1
             p == LastFirst(h)
  <1>1. Len(h) \in Nat /\ Len(h) >= 1 /\ DOMAIN h = 1..Len(h) /\ \A k \in 1..Len(h) : h[k] \in S
    OBVIOUS
  <1>2. CASE Len(h) = 1
    <2>1. w = << >>
      BY <1>2 DEF WithoutMin
    <2>2. Ordered(w) /\ Distinct(w) /\ Range(w) = {}
      BY <2>1 DEF Ordered, Distinct, Apart, Range
    <2>3. \A x : ~(x \in Range(h) /\ x # h[1])
      BY <1>1, <1>2 DEF Range
    <2> QED
      BY <1>2, <2>1, <2>2, <2>3
  <1>3. CASE Len(h) # 1
    <2>1. n \in Nat /\ n > 0 /\ 1 \in 1..n /\ Len(h) = n + 1
      BY <1>1, <1>3
    <2>2. /\ p = [k \in 1..n |-> IF k = 1 THEN h[n + 1] ELSE h[k]]
          /\ w = Heapify(p, 1)
      <3>1. p = [k \in 1..n |-> IF k = 1 THEN h[Len(h)] ELSE h[k]]
        BY DEF LastFirst
      <3>2. w = Heapify(p, 1)
        BY <1>3 DEF WithoutMin
      <3> QED
        BY <2>1, <3>1, <3>2
    <2> HIDE DEF n, p
    <2>3. /\ DOMAIN p = 1..n /\ p[1] = h[n + 1] /\ \A k \in 2..n : p[k] = h[k]
          /\ \A k \in 1..n : p[k] \in S
      BY <1>1, <2>1, <2>2
    <2>4. p \in [1..n -> Range(p)] /\ Len(p) = n
      BY <2>1, <2>2, <2>3 DEF Range
    <2>5. CountsIn(Range(p)) /\ Range(p) \subseteq S
      BY <2>3 DEF CountsIn, Range
    <2>6. PICK f : Sinks(f, n, Range(p), n) /\ w = f[<<p, 1>>]
      <3>1. n \in Nat /\ DOMAIN p = 1..n /\ p \in [1..n -> Range(p)] /\ Len(p) = n
        BY <2>1, <2>3, <2>4
      <3>2. \A i \in 1..n : \E f : Sinks(f, n, Range(p), n) /\ Heapify(p, i) = f[<<p, i>>]
        BY <3>1, HeapifyUnfold
      <3> QED
        BY <2>1, <2>2, <3>2
    <2>7. <<p, 1>> \in Deep(n, Range(p), n)
      BY <2>1, <2>4 DEF Deep, Arranged
    <2>8. Sunken(w, p, n, 1)
      <3>1. Done(f, n, Range(p), Deep(n, Range(p), n))
        BY <2>1, <2>5, <2>6, SinksDo
      <3> QED
        BY <2>6, <2>7, <3>1 DEF Done
    <2>9. w \in [1..n -> Range(p)]
      BY <2>6, <2>7 DEF Sinks, Lands, Arranged
    <2>10. w \in Seq(S) /\ Len(w) = n
      <3>1. w \in [1..n -> S]
        BY <2>5, <2>9
      <3> QED
        BY <2>1, <3>1, SeqDef
    <2>11. ASSUME Distinct(h)
           PROVE  /\ Distinct(w)
                  /\ \A x : x \in Range(w) <=> x \in Range(h) /\ x # h[1]
      <3>1. \A k, l \in 1..(n + 1) : h[k] = h[l] => k = l
        BY <2>1, <2>11 DEF Distinct, Apart
      <3>2. Apart(p, n)
        <4>1. ASSUME NEW k \in 1..n, NEW l \in 1..n, p[k] = p[l] PROVE k = l
          <5> DEFINE at(x) == IF x = 1 THEN n + 1 ELSE x
          <5>1. /\ at(k) \in 1..(n + 1) /\ at(l) \in 1..(n + 1)
                /\ p[k] = h[at(k)] /\ p[l] = h[at(l)]
            BY <2>1, <2>3
          <5>2. at(k) = at(l)
            <6> HIDE DEF at
            <6> QED
              BY <3>1, <4>1, <5>1
          <5> QED
            BY <2>1, <5>2
        <4> QED
          BY <4>1 DEF Apart
      <3>3. Apart(w, n) /\ Holding(w, n) = Holding(p, n)
        BY <2>8, <3>2 DEF Sunken, Shuffled
      <3>4. ASSUME NEW x
            PROVE  x \in Range(w) <=> x \in Range(h) /\ x # h[1]
        <4>1. x \in Range(w) <=> x \in Holding(p, n)
          BY <2>9, <3>3 DEF Range, Holding
        <4>2. x \in Holding(p, n) => \E k \in 2..(n + 1) : x = h[k]
          <5>1. ASSUME x \in Holding(p, n) PROVE \E k \in 2..(n + 1) : x = h[k]
            <6>1. PICK k \in 1..n : x = p[k]
              BY <5>1 DEF Holding
            <6>2. k = 1 \/ k \in 2..n
              BY <2>1
            <6>3. n + 1 \in 2..(n + 1) /\ \A m \in 2..n : m \in 2..(n + 1)
              BY <2>1
            <6> QED
              BY <2>3, <6>1, <6>2, <6>3
          <5> QED
            BY <5>1
        <4>3. ASSUME NEW k \in 2..(n + 1), x = h[k]
              PROVE  x \in Holding(p, n)
          <5>1. CASE k = n + 1
            BY <2>1, <2>3, <4>3, <5>1 DEF Holding
          <5>2. CASE k # n + 1
            <6>1. k \in 2..n /\ k \in 1..n
              BY <2>1, <5>2
            <6> QED
              BY <2>3, <4>3, <6>1 DEF Holding
          <5> QED
            BY <5>1, <5>2
        <4>4. (\E k \in 2..(n + 1) : x = h[k]) <=> x \in Range(h) /\ x # h[1]
          <5>1. \A k \in 1..(n + 1) : k = 1 \/ k \in 2..(n + 1)
            BY <2>1
          <5>2. \A k \in 2..(n + 1) : k # 1 /\ k \in 1..(n + 1)
            BY <2>1
          <5>3. 1 \in 1..(n + 1) /\ DOMAIN h = 1..(n + 1)
            BY <1>1, <2>1
          <5>4. x \in Range(h) <=> \E k \in 1..(n + 1) : x = h[k]
            BY <5>3 DEF Range
          <5> QED
            BY <3>1, <5>1, <5>2, <5>3, <5>4
        <4> QED
          BY <4>1, <4>2, <4>3, <4>4
      <3> QED
        BY <2>10, <3>3, <3>4 DEF Distinct
    <2>12. ASSUME Ordered(h)
           PROVE  Ordered(w)
      <3>1. ASSUME NEW c \in {2, 3}
            PROVE  Sorted(p, n, c)
        <4>1. \A k \in Under(c) : k \in Nat /\ (k # c => k \div 2 \in Under(c)) /\ k >= c
          BY UnderParts, UnderClosed
        <4>2. ASSUME NEW k \in Under(c), k # c, k <= n
              PROVE  p[k \div 2].count <= p[k].count
          <5>1. k \in Nat /\ k \div 2 >= c /\ k >= c /\ k \div 2 \in Nat
            BY <4>1, <4>2
          <5>2. k \in 2..n /\ k \div 2 \in 2..n /\ k \in 2..Len(h)
            BY <2>1, <4>2, <5>1
          <5>3. h[k \div 2].count <= h[k].count
            BY <2>12, <5>2 DEF Ordered
          <5> QED
            BY <2>3, <5>2, <5>3
        <4> QED
          BY <4>2 DEF Sorted
      <3>2. Sorted(p, n, 2 * 1) /\ Sorted(p, n, 2 * 1 + 1)
        <4>1. 2 * 1 = 2 /\ 2 * 1 + 1 = 3
          OBVIOUS
        <4> QED
          BY <3>1, <4>1
      <3>3. Sorted(w, n, 1)
        BY <2>8, <3>2 DEF Sunken
      <3>4. \A k \in 2..n : k \in Under(1) /\ k # 1 /\ k <= n
        BY UnderFirst
      <3>5. \A k \in 2..n : w[k \div 2].count <= w[k].count
        BY <3>3, <3>4 DEF Sorted
      <3> QED
        BY <2>10, <3>5 DEF Ordered
    <2> QED
      BY <2>1, <2>10, <2>11, <2>12
  <1> QED
    BY <1>2, <1>3

(* insertNode.                                                                  *)

\* One turn, the node to insert being x.
Sift(f, x, at) ==
    IF at[2] > 1 /\ x.count < at[1][at[2] \div 2].count
    THEN f[<<[at[1] EXCEPT ![at[2]] = at[1][at[2] \div 2]], at[2] \div 2>>]
    ELSE [at[1] EXCEPT ![at[2]] = x]

Shallow(n, R, k) == {at \in Arranged(n, R) \X (1..n) : at[2] < k}
Sifts(f, x, n, R, k) == f = [at \in Shallow(n, R, k) |-> Sift(f, x, at)]

\* Sifting asks the function only about places further up.
LEMMA SiftAgrees ==
    ASSUME NEW n \in Nat, NEW R, NEW X, NEW f, NEW e, Agree(e, f, X), NEW x,
           NEW at \in Arranged(n, R) \X (1..n),
           \A g \in Arranged(n, R), i \in 1..n : i < at[2] => <<g, i>> \in X
    PROVE  Sift(e, x, at) = Sift(f, x, at)
  <1> DEFINE g == at[1]
             i == at[2]
             p == i \div 2
  <1>1. g \in Arranged(n, R) /\ i \in 1..n
    OBVIOUS
  <1>2. CASE i > 1 /\ x.count < g[p].count
    <2>1. p \in 1..n /\ p < i
      BY <1>1, <1>2
    <2> HIDE DEF g, i, p
    <2>2. [g EXCEPT ![i] = g[p]] \in Arranged(n, R)
      BY <1>1, <2>1 DEF Arranged
    <2>3. <<[g EXCEPT ![i] = g[p]], p>> \in X
      BY <2>1, <2>2 DEF i
    <2>4. e[<<[g EXCEPT ![i] = g[p]], p>>] = f[<<[g EXCEPT ![i] = g[p]], p>>]
      BY <2>3 DEF Agree
    <2> QED
      BY <1>2, <2>4 DEF Sift, g, i, p
  <1>3. CASE ~(i > 1 /\ x.count < g[p].count)
    BY <1>3 DEF Sift
  <1> QED
    BY <1>2, <1>3

\* A function for the places below k extends to one that has k.
LEMMA SiftsNext ==
    ASSUME NEW n \in Nat, NEW R, NEW x, NEW k \in Nat, NEW f, Sifts(f, x, n, R, k)
    PROVE  \E e : Sifts(e, x, n, R, k + 1)
  <1> DEFINE X == Shallow(n, R, k)
             Y == Shallow(n, R, k + 1)
             e == [at \in Y |-> Sift(f, x, at)]
  <1>1. \A at \in X : at \in Y
    BY DEF Shallow
  <1>2. \A at \in Y : /\ at \in Arranged(n, R) \X (1..n)
                      /\ \A g \in Arranged(n, R), i \in 1..n : i < at[2] => <<g, i>> \in X
    BY DEF Shallow
  <1>3. f = [at \in X |-> Sift(f, x, at)]
    BY DEF Sifts
  <1> HIDE DEF X, Y
  <1>4. Agree(e, f, X)
    <2>1. \A at \in X : f[at] = Sift(f, x, at)
      BY <1>3
    <2> QED
      BY <1>1, <2>1 DEF Agree
  <1> HIDE DEF e
  <1>5. \A at \in Y : Sift(e, x, at) = Sift(f, x, at)
    BY <1>2, <1>4, SiftAgrees
  <1>6. e = [at \in Y |-> Sift(e, x, at)]
    BY <1>5 DEF e
  <1> QED
    BY <1>6 DEF Sifts, Y

\* There is a function that is the recursion of insertNode at every place.
LEMMA SiftsExist ==
    ASSUME NEW n \in Nat, NEW R, NEW x
    PROVE  \A k \in Nat : \E f : Sifts(f, x, n, R, k)
  <1> DEFINE T == {k \in Nat : \E f : Sifts(f, x, n, R, k)}
  <1>1. 0 \in T
    <2>1. Shallow(n, R, 0) = {}
      BY DEF Shallow
    <2>2. Sifts([at \in Shallow(n, R, 0) |-> at], x, n, R, 0)
      BY <2>1 DEF Sifts
    <2> QED
      BY <2>2
  <1>2. \A k \in Nat : k \in T => k + 1 \in T
    BY SiftsNext
  <1> HIDE DEF T
  <1>3. Nat \subseteq T
    BY <1>1, <1>2, Upward
  <1> QED
    BY <1>3 DEF T

\* insertNode is what its equation says.
Unfolds(f, h, x, n, R) ==
    /\ Inserted(h, x) = f[<<Append(h, x), n>>]
    /\ \A at \in Arranged(n, R) \X (1..n) : f[at] = Sift(f, x, at)

\* insertNode is what its equation says.
LEMMA InsertedUnfold ==
    ASSUME NEW h, NEW x, Len(h) \in Nat
    PROVE  \E f : Unfolds(f, h, x, Len(h) + 1, Range(h) \union {x})
  <1> DEFINE m == Len(h) + 1
             R == Range(h) \union {x}
             E == [1..m -> Range(h) \union {x}] \X (1..m)
             Body(f, at) ==
                LET g == at[1]
                    i == at[2]
                IN IF i > 1 /\ x.count < g[i \div 2].count
                   THEN f[<<[g EXCEPT ![i] = g[i \div 2]], i \div 2>>]
                   ELSE [g EXCEPT ![i] = x]
             Sifted[at \in E] ==
                LET g == at[1]
                    i == at[2]
                IN IF i > 1 /\ x.count < g[i \div 2].count
                   THEN Sifted[<<[g EXCEPT ![i] = g[i \div 2]], i \div 2>>]
                   ELSE [g EXCEPT ![i] = x]
  <1>1. PICK f : Sifts(f, x, m, R, m + 1)
    <2>1. m \in Nat /\ m + 1 \in Nat
      OBVIOUS
    <2> HIDE DEF m, R
    <2> QED
      BY <2>1, SiftsExist
  <1>2. Shallow(m, R, m + 1) = E /\ Arranged(m, R) \X (1..m) = E
    BY DEF Shallow, Arranged
  <1>3. \A e : \A at \in E : Sift(e, x, at) = Body(e, at)
    BY DEF Sift
  <1>4. f = [at \in E |-> Body(f, at)]
    <2> HIDE DEF Body, E
    <2> QED
      BY <1>1, <1>2, <1>3 DEF Sifts
  <1>5. Sifted = [at \in E |-> Body(Sifted, at)]
    <2> HIDE DEF E
    <2> QED
      BY <1>4, Zenon
  <1>6. Inserted(h, x) = Sifted[<<Append(h, x), m>>]
    BY DEF Inserted
  <1> HIDE DEF Sifted
  <1>7. \A at \in E : Sifted[at] = Sift(Sifted, x, at)
    <2> HIDE DEF Body, E
    <2> QED
      BY <1>3, <1>5
  <1> HIDE DEF E
  <1>8. Unfolds(Sifted, h, x, m, R)
    BY <1>2, <1>6, <1>7 DEF Unfolds
  <1> QED
    BY <1>8

\* In order but between i and its parent, and i's parent with i's children.
SortedAll(g, n) == \A k \in 2..n : g[k \div 2].count <= g[k].count
SortedBut(g, n, i) ==
    /\ \A k \in 2..n : k # i => g[k \div 2].count <= g[k].count
    /\ \A k \in 2..n : k \div 2 = i /\ i > 1 => g[i \div 2].count <= g[k].count

\* What is to be shown of e made from g by moving up what is at i.
Settled(e, g, n, R, i) ==
    /\ e \in Arranged(n, R)
    /\ Shuffled(e, g, n)
    /\ SortedBut(g, n, i) => SortedAll(e, n)

IsParent(p, i) == p = i \div 2
Filled(a, g, i, x) == a = [g EXCEPT ![i] = x]

\* A node that is less than its parent goes up one place.
LEMMA SettledOnce ==
    ASSUME NEW n \in Nat, NEW R, CountsIn(R), NEW x \in R, NEW g \in Arranged(n, R),
           NEW i \in 1..n, i > 1, NEW p, IsParent(p, i), x.count < g[p].count,
           NEW a, Filled(a, g, i, x), NEW u, Filled(u, g, i, g[p]), NEW b, Filled(b, u, p, x),
           NEW e, Settled(e, b, n, R, p)
    PROVE  Settled(e, a, n, R, i)
  <1>0. i \div 2 = p
    BY DEF IsParent
  <1>1. p \in 1..n /\ p < i /\ i \in Nat /\ p \in Nat
    BY DEF IsParent
  <1>2. /\ a \in Arranged(n, R) /\ a[i] = x /\ \A k \in 1..n : k # i => a[k] = g[k]
        /\ b \in Arranged(n, R) /\ b[i] = g[p] /\ b[p] = x
        /\ \A k \in 1..n : k # i /\ k # p => b[k] = g[k]
    BY <1>1 DEF Arranged, Filled
  <1>3. b = Swapped(a, i, p)
    <2> DEFINE t == Swapped(a, i, p)
    <2>2. /\ t \in Arranged(n, R)
          /\ t = [k \in 1..n |-> IF k = i THEN a[p] ELSE IF k = p THEN a[i] ELSE a[k]]
      BY <1>1, <1>2 DEF Swapped, Arranged
    <2> HIDE DEF t
    <2>3. t[i] = a[p] /\ t[p] = a[i] /\ \A k \in 1..n : k # i /\ k # p => t[k] = a[k]
      BY <1>1, <2>2
    <2>1. \A k \in 1..n : b[k] = t[k]
      BY <1>1, <1>2, <2>3
    <2> QED
      BY <1>2, <2>1, <2>2 DEF Arranged, t
  <1>4. Shuffled(e, a, n)
    <2>1. Shuffled(b, a, n)
      BY <1>1, <1>2, <1>3, SwappedShuffles
    <2> QED
      BY <2>1, ShuffledTwice DEF Settled
  <1>5. \A k \in 1..n : a[k].count \in Int /\ b[k].count \in Int
    BY <1>2 DEF Arranged, CountsIn
  <1>6. x.count \in Int /\ g[p].count \in Int /\ x.count <= g[p].count
    BY <1>1 DEF Arranged, CountsIn
  <1>7. ASSUME SortedBut(a, n, i)
        PROVE  SortedBut(b, n, p)
    <2>1. ASSUME NEW k \in 2..n
          PROVE  k \in 1..n /\ k \div 2 \in 1..n /\ k \div 2 < k
      OBVIOUS
    <2>2. ASSUME NEW k \in 2..n, k # p
          PROVE  b[k \div 2].count <= b[k].count
      <3>1. CASE k = i
        BY <1>0, <1>1, <1>2, <1>6, <3>1
      <3>2. CASE k # i /\ k \div 2 = i
        <4>1. a[p].count <= a[k].count
          BY <1>0, <1>1, <1>7, <3>2 DEF SortedBut
        <4> QED
          BY <1>1, <1>2, <2>1, <2>2, <3>2, <4>1
      <3>3. CASE k # i /\ k \div 2 = p
        <4>1. a[p].count <= a[k].count
          BY <1>7, <3>3 DEF SortedBut
        <4>2. a[p] = g[p] /\ a[k] = g[k] /\ b[k] = g[k] /\ b[k \div 2] = x
          BY <1>1, <1>2, <2>1, <2>2, <3>3
        <4> QED
          BY <1>5, <1>6, <2>1, <4>1, <4>2
      <3>4. CASE k # i /\ k \div 2 # i /\ k \div 2 # p
        <4>1. a[k \div 2].count <= a[k].count
          BY <1>7, <3>4 DEF SortedBut
        <4> QED
          BY <1>2, <2>1, <2>2, <3>4, <4>1
      <3> QED
        BY <3>1, <3>2, <3>3, <3>4
    <2>3. ASSUME NEW k \in 2..n, k \div 2 = p, p > 1
          PROVE  b[p \div 2].count <= b[k].count
      <3> DEFINE q == p \div 2
      <3>1. q \in 1..n /\ q # p /\ q # i /\ p \in 2..n
        BY <1>1, <2>3
      <3>2. a[q].count <= a[p].count
        BY <1>1, <1>7, <3>1 DEF SortedBut
      <3> HIDE DEF q
      <3>3. a[p] = g[p] /\ a[q] = g[q] /\ b[q] = g[q]
        BY <1>1, <1>2, <3>1
      <3>4. CASE k = i
        BY <1>0, <1>2, <3>2, <3>3, <3>4 DEF q
      <3>5. CASE k # i
        <4>1. a[p].count <= a[k].count
          BY <1>7, <2>3, <3>5 DEF SortedBut
        <4>2. a[k] = g[k] /\ b[k] = g[k]
          <5>1. k \in 1..n /\ k # p
            BY <2>1, <2>3
          <5> QED
            BY <1>2, <3>5, <5>1
        <4>3. b[q].count <= b[k].count
          BY <1>1, <1>5, <2>1, <3>1, <3>2, <3>3, <4>1, <4>2
        <4> QED
          BY <4>3 DEF q
      <3> QED
        BY <3>4, <3>5
    <2> QED
      BY <2>2, <2>3 DEF SortedBut
  <1> QED
    BY <1>4, <1>7 DEF Settled

\* A node that is not less stays where it is.
LEMMA SettledAtOnce ==
    ASSUME NEW n \in Nat, NEW R, CountsIn(R), NEW x \in R, NEW g \in Arranged(n, R),
           NEW i \in 1..n, ~(i > 1 /\ x.count < g[i \div 2].count),
           NEW a, a = [g EXCEPT ![i] = x]
    PROVE  Settled(a, a, n, R, i)
  <1>1. a \in Arranged(n, R) /\ a[i] = x /\ \A k \in 1..n : k # i => a[k] = g[k]
    BY DEF Arranged
  <1>2. ASSUME SortedBut(a, n, i)
        PROVE  SortedAll(a, n)
    <2>1. i \in 2..n => a[i \div 2].count <= a[i].count
      <3>1. i \in 2..n => i > 1 /\ i \div 2 \in 1..n /\ i \div 2 # i
        OBVIOUS
      <3>2. \A k \in 1..n : g[k].count \in Int
        BY DEF Arranged, CountsIn
      <3>3. x.count \in Int
        BY DEF CountsIn
      <3> QED
        BY <1>1, <3>1, <3>2, <3>3
    <2> QED
      BY <1>2, <2>1 DEF SortedBut, SortedAll
  <1> QED
    BY <1>1, <1>2 DEF Settled, Shuffled

\* One step of the way up settles the node, if the steps further up do.
LEMMA SiftSettles ==
    ASSUME NEW n \in Nat, NEW R, CountsIn(R), NEW x \in R,
           NEW f, \A at \in Arranged(n, R) \X (1..n) : f[at] = Sift(f, x, at),
           NEW at \in Arranged(n, R) \X (1..n),
           \A to \in Arranged(n, R) \X (1..n) :
              to[2] < at[2] => Settled(f[to], [to[1] EXCEPT ![to[2]] = x], n, R, to[2])
    PROVE  Settled(f[at], [at[1] EXCEPT ![at[2]] = x], n, R, at[2])
  <1> DEFINE g == at[1]
             i == at[2]
             p == i \div 2
             a == [g EXCEPT ![i] = x]
             u == [g EXCEPT ![i] = g[p]]
             b == [u EXCEPT ![p] = x]
  <1>1. g \in Arranged(n, R) /\ i \in 1..n /\ f[at] = Sift(f, x, at)
    OBVIOUS
  <1>2. CASE i > 1 /\ x.count < g[p].count
    <2>1. p \in 1..n /\ p < i /\ IsParent(p, i)
      BY <1>1, <1>2 DEF IsParent
    <2>2. f[at] = f[<<u, p>>]
      BY <1>1, <1>2 DEF Sift
    <2> DEFINE e == f[<<u, p>>]
    <2> HIDE DEF p
    <2>3. u \in Arranged(n, R)
      BY <1>1, <2>1 DEF Arranged
    <2>4. <<u, p>> \in Arranged(n, R) \X (1..n)
      BY <2>1, <2>3
    <2>5. Settled(e, b, n, R, p)
      <3> DEFINE to == <<u, p>>
      <3>1. to \in Arranged(n, R) \X (1..n) /\ to[2] < at[2] /\ to[1] = u /\ to[2] = p
        BY <2>1, <2>4
      <3> HIDE DEF to, u
      <3>2. Settled(f[to], [to[1] EXCEPT ![to[2]] = x], n, R, to[2])
        BY <3>1
      <3> QED
        BY <3>1, <3>2 DEF to
    <2>7. Filled(a, g, i, x) /\ Filled(u, g, i, g[p]) /\ Filled(b, u, p, x)
      BY DEF Filled
    <2> HIDE DEF e, g, i, a, b, u
    <2>6. Settled(e, a, n, R, i)
      BY <1>1, <1>2, <2>1, <2>5, <2>7, SettledOnce
    <2> QED
      BY <2>2, <2>6 DEF e, g, i, a, u
  <1>3. CASE ~(i > 1 /\ x.count < g[p].count)
    <2>1. f[at] = a
      BY <1>1, <1>3 DEF Sift
    <2>2. Settled(a, a, n, R, i)
      <3> HIDE DEF g, i
      <3> QED
        BY <1>1, <1>3, SettledAtOnce
    <2> QED
      BY <2>1, <2>2
  <1> QED
    BY <1>2, <1>3

\* insertNode settles the node it appends, whatever the size of the heap.
LEMMA SiftedSettles ==
    ASSUME NEW n \in Nat, NEW R, CountsIn(R), NEW x \in R,
           NEW f, \A at \in Arranged(n, R) \X (1..n) : f[at] = Sift(f, x, at)
    PROVE  \A at \in Arranged(n, R) \X (1..n) :
              Settled(f[at], [at[1] EXCEPT ![at[2]] = x], n, R, at[2])
  <1> DEFINE D == Arranged(n, R) \X (1..n)
             Fine(at) == Settled(f[at], [at[1] EXCEPT ![at[2]] = x], n, R, at[2])
             T == {k \in Nat : \A at \in D : at[2] < k => Fine(at)}
  <1>1. 0 \in T
    OBVIOUS
  <1>2. ASSUME NEW k \in Nat, k \in T
        PROVE  k + 1 \in T
    <2>1. \A at \in D : at[2] < k => Fine(at)
      BY <1>2
    <2>2. ASSUME NEW at \in D, at[2] < k + 1 PROVE Fine(at)
      <3>1. \A to \in D : to[2] < at[2] => to[2] < k
        BY <2>2
      <3>2. \A to \in D : to[2] < at[2] => Fine(to)
        <4> HIDE DEF D, Fine
        <4> QED
          BY <2>1, <3>1
      <3> QED
        BY <3>2, SiftSettles
    <2> HIDE DEF Fine, D
    <2> QED
      BY <2>2
  <1> HIDE DEF T
  <1>3. Nat \subseteq T
    BY <1>1, <1>2, Upward
  <1>4. n + 1 \in T
    BY <1>3
  <1>5. \A at \in D : at[2] < n + 1
    OBVIOUS
  <1>6. \A at \in D : Fine(at)
    <2> HIDE DEF Fine, D
    <2> QED
      BY <1>4, <1>5 DEF T
  <1> QED
    BY <1>6

\* Putting a node into a heap.
LEMMA InsertedAdds ==
    ASSUME NEW S, CountsIn(S), NEW h \in Seq(S), NEW x \in S, NEW w, w = Inserted(h, x)
    PROVE  /\ w \in Seq(S) /\ Len(w) = Len(h) + 1
           /\ \A y : y \in Range(w) <=> y = x \/ y \in Range(h)
           /\ Distinct(h) /\ x \notin Range(h) => Distinct(w)
           /\ Ordered(h) => Ordered(w)
  <1> DEFINE n == Len(h) + 1
             R == Range(h) \union {x}
             g == Append(h, x)
  <1>1. /\ Len(h) \in Nat /\ n \in Nat /\ n \in 1..n /\ n = Len(h) + 1 /\ R = Range(h) \union {x}
        /\ DOMAIN h = 1..Len(h) /\ \A k \in 1..Len(h) : h[k] \in S
    OBVIOUS
  <1>2. /\ g \in Seq(S) /\ Len(g) = n /\ DOMAIN g = 1..n /\ g[n] = x
        /\ \A k \in 1..Len(h) : g[k] = h[k]
    OBVIOUS
  <1> HIDE DEF n, R, g
  <1>3. g \in Arranged(n, R)
    <2>1. \A k \in 1..n : k = n \/ k \in 1..Len(h)
      BY <1>1
    <2>2. \A k \in 1..n : g[k] \in R
      BY <1>1, <1>2, <2>1 DEF Range
    <2>3. g = [k \in 1..n |-> g[k]]
      BY <1>2
    <2> QED
      BY <2>2, <2>3 DEF Arranged
  <1>4. CountsIn(R) /\ R \subseteq S /\ x \in R
    BY <1>1 DEF CountsIn, Range
  <1>5. PICK f : /\ Inserted(h, x) = f[<<g, n>>]
                 /\ \A at \in Arranged(n, R) \X (1..n) : f[at] = Sift(f, x, at)
    <2>1. \E f : Unfolds(f, h, x, n, R)
      BY <1>1, InsertedUnfold DEF n, R
    <2> QED
      BY <2>1 DEF Unfolds, g
  <1>6. [g EXCEPT ![n] = x] = g
    BY <1>1, <1>2
  <1>7. Settled(w, g, n, R, n)
    <2>1. \A at \in Arranged(n, R) \X (1..n) :
              Settled(f[at], [at[1] EXCEPT ![at[2]] = x], n, R, at[2])
      BY <1>1, <1>4, <1>5, SiftedSettles
    <2> DEFINE at == <<g, n>>
    <2>2. at \in Arranged(n, R) \X (1..n) /\ at[1] = g /\ at[2] = n
      BY <1>1, <1>3
    <2> HIDE DEF at
    <2>3. Settled(f[at], [at[1] EXCEPT ![at[2]] = x], n, R, at[2])
      BY <2>1, <2>2
    <2> QED
      BY <1>5, <1>6, <2>2, <2>3 DEF at
  <1>8. w \in Seq(S) /\ Len(w) = n /\ DOMAIN w = 1..n
    <2>1. w \in [1..n -> S]
      BY <1>4, <1>7 DEF Settled, Arranged
    <2> QED
      BY <1>1, <2>1, SeqDef
  <1>9. \A y : y \in Range(w) <=> y = x \/ y \in Range(h)
    <2>1. Holding(w, n) = Holding(g, n)
      BY <1>7 DEF Settled, Shuffled
    <2>2. \A y : y \in Range(w) <=> y \in Holding(w, n)
      BY <1>8 DEF Range, Holding
    <2>3. ASSUME NEW y, y \in Holding(g, n) PROVE y = x \/ y \in Range(h)
      <3>1. PICK k \in 1..n : y = g[k]
        BY <2>3 DEF Holding
      <3>2. k = n \/ k \in 1..Len(h)
        BY <1>1
      <3> QED
        BY <1>1, <1>2, <3>1, <3>2 DEF Range
    <2>4. x \in Holding(g, n)
      BY <1>1, <1>2 DEF Holding
    <2>5. ASSUME NEW y \in Range(h) PROVE y \in Holding(g, n)
      <3>1. PICK k \in 1..Len(h) : y = h[k]
        BY <1>1 DEF Range
      <3>2. k \in 1..n
        BY <1>1
      <3> QED
        BY <1>2, <3>1, <3>2 DEF Holding
    <2> QED
      BY <2>1, <2>2, <2>3, <2>4, <2>5
  <1>10. ASSUME Distinct(h), x \notin Range(h)
         PROVE  Distinct(w)
    <2>1. \A k \in 1..n : k = n \/ k \in 1..Len(h)
      BY <1>1
    <2>2. \A k, l \in 1..Len(h) : h[k] = h[l] => k = l
      BY <1>10 DEF Distinct, Apart
    <2>3. \A k \in 1..Len(h) : h[k] # x
      BY <1>1, <1>10 DEF Range
    <2>4. Apart(g, n)
      BY <1>2, <2>1, <2>2, <2>3 DEF Apart
    <2> QED
      BY <1>7, <1>8, <2>4 DEF Settled, Shuffled, Distinct
  <1>11. ASSUME Ordered(h)
         PROVE  Ordered(w)
    <2>1. \A k \in 2..n : k # n => k \in 2..Len(h) /\ k \in 1..Len(h) /\ k \div 2 \in 1..Len(h)
      BY <1>1
    <2>2. \A k \in 2..n : k # n => h[k \div 2].count <= h[k].count
      BY <1>11, <2>1 DEF Ordered
    <2>3. \A k \in 2..n : k # n => g[k \div 2].count <= g[k].count
      BY <1>2, <2>1, <2>2
    <2>4. \A k \in 2..n : k \div 2 # n
      BY <1>1
    <2>5. SortedBut(g, n, n)
      BY <2>3, <2>4 DEF SortedBut
    <2> QED
      BY <1>7, <1>8, <2>5 DEF Settled, SortedAll, Ordered
  <1> QED
    BY <1>1, <1>8, <1>9, <1>10, <1>11
-------------------------------------------------------------------------------
(* Prefixes.                                                                    *)

\* A prefix is what a sequence starts with.
LEMMA PrefixStarts ==
    ASSUME NEW S, NEW p \in Seq(S), NEW q \in Seq(S)
    PROVE  IsPrefix(p, q) <=> \E r \in Seq(S) : q = p \o r
  <1>1. ASSUME IsPrefix(p, q)
        PROVE  \E r \in Seq(S) : q = p \o r
    <2> DEFINE m == Len(p)
               n == Len(q)
               r == SubSeq(q, m + 1, n)
    <2>1. m \in Nat /\ n \in Nat /\ m <= n /\ SubSeq(p, 1, m) = SubSeq(q, 1, m)
      BY <1>1 DEF IsPrefix
    <2>2. SubSeq(p, 1, m) = p /\ SubSeq(q, 1, n) = q
      BY SubSeqFull
    <2>3. SubSeq(q, 1, m) \o SubSeq(q, m + 1, n) = SubSeq(q, 1, n)
      <3>1. 1 \in 1..(Len(q) + 1) /\ m \in (1 - 1)..Len(q) /\ n \in m..Len(q)
        BY <2>1
      <3> QED
        BY <3>1, ConcatAdjacentSubSeq
    <2>4. r \in Seq(S)
      BY <2>1
    <2> QED
      BY <2>1, <2>2, <2>3, <2>4
  <1>2. ASSUME NEW r \in Seq(S), q = p \o r
        PROVE  IsPrefix(p, q)
    <2>1. /\ Len(p) \in Nat /\ Len(q) = Len(p) + Len(r) /\ Len(r) \in Nat
          /\ \A i \in 1..Len(p) : q[i] = p[i]
      BY <1>2, ConcatProperties
    <2>2. SubSeq(p, 1, Len(p)) = SubSeq(q, 1, Len(p))
      BY <2>1
    <2> QED
      BY <2>1, <2>2 DEF IsPrefix
  <1> QED
    BY <1>1, <1>2

\* Prefixes by places.
LEMMA PrefixPlaces ==
    ASSUME NEW S, NEW p \in Seq(S), NEW q \in Seq(S)
    PROVE  IsPrefix(p, q) <=> Len(p) <= Len(q) /\ \A i \in 1..Len(p) : p[i] = q[i]
  <1>1. ASSUME IsPrefix(p, q)
        PROVE  Len(p) <= Len(q) /\ \A i \in 1..Len(p) : p[i] = q[i]
    <2>1. PICK r \in Seq(S) : q = p \o r
      BY <1>1, PrefixStarts
    <2> QED
      BY <2>1, ConcatProperties
  <1>2. ASSUME Len(p) <= Len(q), \A i \in 1..Len(p) : p[i] = q[i]
        PROVE  IsPrefix(p, q)
    <2>1. SubSeq(p, 1, Len(p)) = SubSeq(q, 1, Len(p))
      BY <1>2
    <2> QED
      BY <1>2, <2>1 DEF IsPrefix
  <1> QED
    BY <1>1, <1>2

\* One is a prefix of the other when both are of a third.
LEMMA PrefixesCompare ==
    ASSUME NEW S, NEW p \in Seq(S), NEW q \in Seq(S), NEW a \in Seq(S), NEW b \in Seq(S),
           p \o a = q \o b
    PROVE  IsPrefix(p, q) \/ IsPrefix(q, p)
  <1>1. /\ Len(p) \in Nat /\ Len(q) \in Nat
        /\ \A i \in 1..(Len(p) + Len(a)) : (p \o a)[i] = IF i <= Len(p) THEN p[i] ELSE a[i - Len(p)]
        /\ \A i \in 1..(Len(q) + Len(b)) : (q \o b)[i] = IF i <= Len(q) THEN q[i] ELSE b[i - Len(q)]
        /\ Len(p \o a) = Len(p) + Len(a) /\ Len(q \o b) = Len(q) + Len(b)
        /\ Len(a) \in Nat /\ Len(b) \in Nat
    BY ConcatProperties
  <1>2. \A i : i \in 1..Len(p) /\ i \in 1..Len(q) => p[i] = q[i]
    BY <1>1
  <1>3. CASE Len(p) <= Len(q)
    <2>1. \A i \in 1..Len(p) : p[i] = q[i]
      BY <1>1, <1>2, <1>3
    <2> QED
      BY <1>3, <2>1, PrefixPlaces
  <1>4. CASE Len(q) <= Len(p)
    <2>1. \A i \in 1..Len(q) : q[i] = p[i]
      BY <1>1, <1>2, <1>4
    <2> QED
      BY <1>4, <2>1, PrefixPlaces
  <1> QED
    BY <1>1, <1>3, <1>4

\* Prefixes are ordered, and those of one sequence are in a line.
LEMMA PrefixOrder ==
    ASSUME NEW S, NEW p \in Seq(S), NEW q \in Seq(S), NEW r \in Seq(S)
    PROVE  /\ IsPrefix(p, p) /\ IsPrefix(<< >>, p)
           /\ IsPrefix(p, q) /\ IsPrefix(q, r) => IsPrefix(p, r)
           /\ IsPrefix(p, q) /\ IsPrefix(q, p) => p = q
           /\ IsPrefix(p, r) /\ IsPrefix(q, r) => IsPrefix(p, q) \/ IsPrefix(q, p)
           /\ IsPrefix(p, << >>) => p = << >>
  <1>1. << >> \in Seq(S) /\ Len(<< >>) = 0 /\ Len(p) \in Nat /\ Len(q) \in Nat /\ Len(r) \in Nat
    OBVIOUS
  <1>2. IsPrefix(p, p)
    BY <1>1 DEF IsPrefix
  <1>3. IsPrefix(<< >>, p)
    <2>1. << >> \o p = p
      BY <1>1
    <2> QED
      BY <1>1, <2>1, PrefixStarts
  <1>4. IsPrefix(p, q) /\ IsPrefix(q, r) => IsPrefix(p, r)
    <2>1. ASSUME IsPrefix(p, q), IsPrefix(q, r) PROVE IsPrefix(p, r)
      <3>1. Len(p) <= Len(q) /\ \A i \in 1..Len(p) : p[i] = q[i]
        BY <2>1, PrefixPlaces
      <3>2. Len(q) <= Len(r) /\ \A i \in 1..Len(q) : q[i] = r[i]
        BY <2>1, PrefixPlaces
      <3>3. Len(p) <= Len(r) /\ \A i \in 1..Len(p) : p[i] = r[i]
        BY <1>1, <3>1, <3>2
      <3> QED
        BY <3>3, PrefixPlaces
    <2> QED
      BY <2>1
  <1>5. IsPrefix(p, q) /\ IsPrefix(q, p) => p = q
    BY <1>1, PrefixPlaces, SeqEqual
  <1>6. IsPrefix(p, r) /\ IsPrefix(q, r) => IsPrefix(p, q) \/ IsPrefix(q, p)
    <2>1. ASSUME IsPrefix(p, r), IsPrefix(q, r) PROVE IsPrefix(p, q) \/ IsPrefix(q, p)
      <3>1. /\ \E a \in Seq(S) : r = p \o a
            /\ \E b \in Seq(S) : r = q \o b
        BY <2>1, PrefixStarts
      <3> QED
        BY <3>1, PrefixesCompare
    <2> QED
      BY <2>1
  <1>7. IsPrefix(p, << >>) => p = << >>
    <2>1. ASSUME IsPrefix(p, << >>) PROVE p = << >>
      <3>1. Len(p) <= 0
        BY <1>1, <2>1 DEF IsPrefix
      <3> QED
        BY <1>1, <3>1
    <2> QED
      BY <2>1
  <1> QED
    BY <1>2, <1>3, <1>4, <1>5, <1>6, <1>7
-------------------------------------------------------------------------------
(* The sum of the counts of a set of tokens.                                    *)

First(s) == CHOOSE x \in s : TRUE
Without(s) == s \ {First(s)}
Summed(f, c, s) == IF s = {} THEN 0 ELSE c[First(s)] + f[Without(s)]
Parts(S) == SUBSET S
Small(S, k) == {s \in Parts(S) : Cardinality(s) < k}
Sums(f, c, X) == f = [s \in X |-> Summed(f, c, s)]

\* A part of the tokens without one of them is smaller.
LEMMA SmallerParts ==
    ASSUME NEW S, IsFiniteSet(S)
    PROVE  /\ Cardinality(S) \in Nat
           /\ \A s \in Parts(S) : Cardinality(s) \in Nat /\ Cardinality(s) <= Cardinality(S)
           /\ \A s \in Parts(S) : s # {} => First(s) \in s /\ Without(s) \in Parts(S)
           /\ \A s \in Parts(S) : s # {} => Cardinality(Without(s)) = Cardinality(s) - 1
  <1>1. Cardinality(S) \in Nat
    BY FS_CardinalityType
  <1>2. ASSUME NEW s \in Parts(S)
        PROVE  /\ Cardinality(s) \in Nat /\ Cardinality(s) <= Cardinality(S)
               /\ s # {} => First(s) \in s /\ Without(s) \in Parts(S)
               /\ s # {} => Cardinality(Without(s)) = Cardinality(s) - 1
    <2>1. IsFiniteSet(s) /\ Cardinality(s) \in Nat /\ Cardinality(s) <= Cardinality(S)
      BY FS_Subset, FS_CardinalityType DEF Parts
    <2>2. s # {} => First(s) \in s
      BY DEF First
    <2> QED
      BY <2>1, <2>2, FS_RemoveElement DEF Parts, Without
  <1> QED
    BY <1>1, <1>2, Zenon

\* A function of sums has the sum at each of its sets.
LEMMA SumsAt ==
    ASSUME NEW f, NEW c, NEW X, Sums(f, c, X)
    PROVE  \A s \in X : f[s] = Summed(f, c, s)
  BY DEF Sums

\* Sums of the sets smaller than k extend to those smaller than k + 1.
LEMMA SumsNext ==
    ASSUME NEW S, IsFiniteSet(S), NEW c, NEW k \in Nat, NEW f, Sums(f, c, Small(S, k))
    PROVE  \E g : Sums(g, c, Small(S, k + 1))
  <1> DEFINE X == Small(S, k)
             Y == Small(S, k + 1)
             g == [s \in Y |-> Summed(f, c, s)]
  <1>1. \A s \in X : s \in Y
    BY SmallerParts DEF Small
  <1>2. \A s \in Y : s # {} => Without(s) \in X
    <2>1. \A s \in Parts(S) : Cardinality(s) \in Nat /\ (s # {} => Without(s) \in Parts(S) /\ Cardinality(Without(s)) = Cardinality(s) - 1)
      BY SmallerParts
    <2> QED
      BY <2>1 DEF Small
  <1>3. \A s \in X : f[s] = Summed(f, c, s)
    BY SumsAt
  <1> HIDE DEF X, Y
  <1>4. \A s \in X : g[s] = f[s]
    BY <1>1, <1>3
  <1>5. \A s \in Y : Summed(g, c, s) = Summed(f, c, s)
    <2> HIDE DEF g
    <2> QED
      BY <1>2, <1>4 DEF Summed
  <1>6. g = [s \in Y |-> Summed(g, c, s)]
    BY <1>5
  <1> HIDE DEF g
  <1> QED
    BY <1>6 DEF Sums, Y

\* There are sums for all parts of a finite set.
LEMMA SumsExist ==
    ASSUME NEW S, IsFiniteSet(S), NEW c
    PROVE  \E g : Sums(g, c, Parts(S))
  <1> DEFINE T == {k \in Nat : \E g : Sums(g, c, Small(S, k))}
  <1>1. 0 \in T
    <2>1. Small(S, 0) = {}
      <3>1. \A s \in Parts(S) : ~(Cardinality(s) < 0)
        BY SmallerParts
      <3> QED
        BY <3>1 DEF Small
    <2>2. Sums([s \in Small(S, 0) |-> s], c, Small(S, 0))
      BY <2>1 DEF Sums
    <2> QED
      BY <2>2
  <1>2. \A k \in Nat : k \in T => k + 1 \in T
    BY SumsNext
  <1> HIDE DEF T
  <1>3. Nat \subseteq T
    BY <1>1, <1>2, Upward
  <1>4. Cardinality(S) \in Nat /\ Cardinality(S) + 1 \in Nat
    BY FS_CardinalityType
  <1>5. Small(S, Cardinality(S) + 1) = Parts(S)
    <2>1. \A s \in Parts(S) : Cardinality(s) < Cardinality(S) + 1
      BY SmallerParts
    <2> QED
      BY <2>1 DEF Small
  <1> QED
    BY <1>3, <1>4, <1>5 DEF T

\* Two functions of sums agree where both are defined.
LEMMA SumsAgree ==
    ASSUME NEW S, IsFiniteSet(S), NEW c, NEW f, Sums(f, c, Parts(S)),
           NEW T, T \subseteq S, NEW g, Sums(g, c, Parts(T))
    PROVE  \A s \in Parts(T) : f[s] = g[s]
  <1> DEFINE A == {k \in Nat : \A s \in Parts(T) : Cardinality(s) < k => f[s] = g[s]}
  <1>1. /\ \A s \in Parts(T) : f[s] = Summed(f, c, s)
        /\ \A s \in Parts(T) : g[s] = Summed(g, c, s)
    <2>1. \A s \in Parts(S) : f[s] = Summed(f, c, s)
      BY SumsAt
    <2>2. \A s \in Parts(T) : g[s] = Summed(g, c, s)
      BY SumsAt
    <2>3. \A s \in Parts(T) : s \in Parts(S)
      BY DEF Parts
    <2> QED
      BY <2>1, <2>2, <2>3, Zenon
  <1>2. \A s \in Parts(T) : /\ Cardinality(s) \in Nat /\ Cardinality(s) <= Cardinality(S)
                            /\ s # {} => /\ Without(s) \in Parts(T)
                                         /\ Cardinality(Without(s)) = Cardinality(s) - 1
    <2>1. IsFiniteSet(T) /\ Cardinality(T) <= Cardinality(S) /\ Cardinality(T) \in Nat /\ Cardinality(S) \in Nat
      BY FS_Subset, FS_CardinalityType
    <2>2. \A s \in Parts(T) : /\ Cardinality(s) \in Nat /\ Cardinality(s) <= Cardinality(T)
                              /\ s # {} => /\ Without(s) \in Parts(T)
                                           /\ Cardinality(Without(s)) = Cardinality(s) - 1
      BY <2>1, SmallerParts
    <2> QED
      BY <2>1, <2>2
  <1>3. 0 \in A
    BY <1>2
  <1>4. ASSUME NEW k \in Nat, k \in A
        PROVE  k + 1 \in A
    <2>1. ASSUME NEW s \in Parts(T), Cardinality(s) < k + 1
          PROVE  f[s] = g[s]
      <3>1. s # {} => f[Without(s)] = g[Without(s)]
        BY <1>2, <1>4, <2>1
      <3> QED
        BY <1>1, <3>1 DEF Summed
    <2> QED
      BY <2>1
  <1> HIDE DEF A
  <1>5. Nat \subseteq A
    BY <1>3, <1>4, Upward
  <1>6. Cardinality(S) + 1 \in Nat
    BY FS_CardinalityType
  <1> QED
    BY <1>2, <1>5, <1>6, FS_CardinalityType DEF A

\* Weight is such a function, at any finite set.
LEMMA WeightSums ==
    ASSUME NEW S, IsFiniteSet(S), NEW c
    PROVE  \E f : Sums(f, c, Parts(S)) /\ Weight(c, S) = f[S]
  <1> DEFINE iter[s \in Parts(S)] ==
                IF s = {} THEN 0
                ELSE LET x == CHOOSE x \in s : TRUE
                     IN c[x] + iter[s \ {x}]
  <1>1. Weight(c, S) = iter[S]
    BY DEF Weight, FoldSet, MapThenFoldSet, Parts
  <1>2. PICK g : g = [s \in Parts(S) |-> Summed(g, c, s)]
    <2>1. PICK g : Sums(g, c, Parts(S))
      BY SumsExist
    <2> QED
      BY <2>1 DEF Sums
  <1>3. iter = [s \in Parts(S) |-> Summed(iter, c, s)]
    BY <1>2, Zenon DEF Summed, First, Without
  <1> HIDE DEF iter
  <1> WITNESS iter
  <1> QED
    BY <1>1, <1>3 DEF Sums

Countable(c, D) == \A x \in D : c[x] \in Int

\* Weight is what its equation says.
LEMMA WeightUnfold ==
    ASSUME NEW D, IsFiniteSet(D), NEW c, NEW S \in Parts(D)
    PROVE  Weight(c, S) = IF S = {} THEN 0 ELSE c[First(S)] + Weight(c, Without(S))
  <1>1. IsFiniteSet(S) /\ S \in Parts(S)
    BY FS_Subset DEF Parts
  <1>2. PICK f : Sums(f, c, Parts(S)) /\ Weight(c, S) = f[S]
    BY <1>1, WeightSums
  <1>3. f[S] = Summed(f, c, S)
    BY <1>1, <1>2, SumsAt
  <1>4. S # {} => f[Without(S)] = Weight(c, Without(S))
    <2> SUFFICES ASSUME S # {} PROVE f[Without(S)] = Weight(c, Without(S))
      OBVIOUS
    <2> DEFINE T == Without(S)
    <2>1. T \subseteq S /\ T \in Parts(T) /\ IsFiniteSet(T)
      BY <1>1, FS_Subset DEF Without, Parts
    <2> HIDE DEF T
    <2>2. PICK g : Sums(g, c, Parts(T)) /\ Weight(c, T) = g[T]
      BY <2>1, WeightSums
    <2>3. \A s \in Parts(T) : f[s] = g[s]
      BY <1>1, <1>2, <2>1, <2>2, SumsAgree
    <2>4. f[T] = Weight(c, T)
      BY <2>1, <2>2, <2>3
    <2> QED
      BY <2>4 DEF T
  <1> QED
    BY <1>2, <1>3, <1>4 DEF Summed

\* The sum of numbers is a number.
LEMMA WeightInt ==
    ASSUME NEW D, IsFiniteSet(D), NEW c, Countable(c, D)
    PROVE  \A S \in Parts(D) : Weight(c, S) \in Int
  <1> DEFINE A == {k \in Nat : \A S \in Parts(D) : Cardinality(S) < k => Weight(c, S) \in Int}
  <1>1. \A S \in Parts(D) : Cardinality(S) \in Nat /\ Cardinality(S) <= Cardinality(D)
    BY SmallerParts, Zenon
  <1>2. \A S \in Parts(D) : S # {} => Without(S) \in Parts(D) /\ First(S) \in D
    <2>1. \A S \in Parts(D) : S # {} => Without(S) \in Parts(D) /\ First(S) \in S
      BY SmallerParts, Zenon
    <2> QED
      BY <2>1 DEF Parts
  <1>3. \A S \in Parts(D) : S # {} => Cardinality(Without(S)) = Cardinality(S) - 1
    BY SmallerParts, Zenon
  <1>4. \A S \in Parts(D) : Weight(c, S) = IF S = {} THEN 0 ELSE c[First(S)] + Weight(c, Without(S))
    BY WeightUnfold, Zenon
  <1>5. 0 \in A
    BY <1>1
  <1>6. ASSUME NEW k \in Nat, k \in A
        PROVE  k + 1 \in A
    <2>1. ASSUME NEW S \in Parts(D), Cardinality(S) < k + 1
          PROVE  Weight(c, S) \in Int
      <3>1. CASE S = {}
        BY <1>4, <3>1
      <3>2. CASE S # {}
        <4>1. Without(S) \in Parts(D) /\ First(S) \in D /\ Cardinality(Without(S)) = Cardinality(S) - 1
          BY <1>2, <1>3, <3>2
        <4>2. Cardinality(Without(S)) < k /\ c[First(S)] \in Int
          BY <1>1, <2>1, <4>1 DEF Countable
        <4>3. Weight(c, Without(S)) \in Int
          BY <1>6, <4>1, <4>2
        <4>4. Weight(c, S) = c[First(S)] + Weight(c, Without(S))
          BY <1>4, <3>2
        <4> QED
          BY <4>2, <4>3, <4>4
      <3> QED
        BY <3>1, <3>2
    <2> QED
      BY <2>1
  <1> HIDE DEF A
  <1>7. Nat \subseteq A
    BY <1>5, <1>6, Upward
  <1>8. Cardinality(D) + 1 \in Nat
    BY FS_CardinalityType
  <1>9. ASSUME NEW S \in Parts(D)
        PROVE  Weight(c, S) \in Int
    <2>1. Cardinality(S) < Cardinality(D) + 1
      BY <1>1, <1>8, FS_CardinalityType
    <2> QED
      BY <1>7, <1>8, <2>1 DEF A
  <1> QED
    BY <1>9

\* Any token may be counted first.
LEMMA WeightTaken ==
    ASSUME NEW D, IsFiniteSet(D), NEW c, Countable(c, D)
    PROVE  \A S \in Parts(D) : \A x \in S : Weight(c, S) = c[x] + Weight(c, S \ {x})
  <1> DEFINE A == {k \in Nat : \A S \in Parts(D) : Cardinality(S) < k =>
                                    \A x \in S : Weight(c, S) = c[x] + Weight(c, S \ {x})}
  <1>1. \A S \in Parts(D) : Cardinality(S) \in Nat /\ Cardinality(S) <= Cardinality(D)
    BY SmallerParts, Zenon
  <1>2. \A S \in Parts(D) : \A x \in S : /\ S \ {x} \in Parts(D) /\ x \in D
                                       /\ Cardinality(S \ {x}) = Cardinality(S) - 1
    <2> SUFFICES ASSUME NEW S \in Parts(D), NEW x \in S
                 PROVE  S \ {x} \in Parts(D) /\ x \in D /\ Cardinality(S \ {x}) = Cardinality(S) - 1
      OBVIOUS
    <2>1. IsFiniteSet(S)
      BY FS_Subset DEF Parts
    <2> QED
      BY <2>1, FS_RemoveElement DEF Parts
  <1>3. \A S \in Parts(D) : Weight(c, S) \in Int
    BY WeightInt, Zenon
  <1>4. \A S \in Parts(D) : S # {} => First(S) \in S /\ Weight(c, S) = c[First(S)] + Weight(c, S \ {First(S)})
    <2>1. \A S \in Parts(D) : S # {} => First(S) \in S
      BY SmallerParts, Zenon
    <2>2. \A S \in Parts(D) : Weight(c, S) = IF S = {} THEN 0 ELSE c[First(S)] + Weight(c, S \ {First(S)})
      BY WeightUnfold, Zenon DEF Without
    <2> QED
      BY <2>1, <2>2, Zenon
  <1>5. 0 \in A
    BY <1>1
  <1>6. ASSUME NEW k \in Nat, k \in A
        PROVE  k + 1 \in A
    <2>1. ASSUME NEW S \in Parts(D), Cardinality(S) < k + 1, NEW x \in S
          PROVE  Weight(c, S) = c[x] + Weight(c, S \ {x})
      <3>1. PICK y \in S : Weight(c, S) = c[y] + Weight(c, S \ {y})
        BY <1>4
      <3>2. CASE x = y
        BY <3>1, <3>2
      <3>3. CASE x # y
        <4> DEFINE X == S \ {x}
                   Y == S \ {y}
        <4>1. /\ X \in Parts(D) /\ Cardinality(X) = Cardinality(S) - 1 /\ y \in X
              /\ Y \in Parts(D) /\ Cardinality(Y) = Cardinality(S) - 1 /\ x \in Y
          BY <1>2, <3>3
        <4>2. X \ {y} = Y \ {x} /\ X \ {y} \in Parts(D)
          BY <1>2, <4>1
        <4> HIDE DEF X, Y
        <4>3. Cardinality(X) < k /\ Cardinality(Y) < k
          BY <1>1, <2>1, <4>1
        <4>4. Weight(c, X) = c[y] + Weight(c, X \ {y})
          BY <1>6, <4>1, <4>3
        <4>5. Weight(c, Y) = c[x] + Weight(c, Y \ {x})
          BY <1>6, <4>1, <4>3
        <4>6. c[x] \in Int /\ c[y] \in Int /\ Weight(c, X \ {y}) \in Int
          <5>1. x \in D /\ y \in D
            BY <1>2, <2>1, <3>1
          <5> QED
            BY <1>3, <4>2, <5>1 DEF Countable
        <4>7. Weight(c, S) = c[y] + Weight(c, Y)
          BY <3>1 DEF Y
        <4>8. Weight(c, S) = c[x] + Weight(c, X)
          <5>1. Weight(c, X \ {y}) = Weight(c, Y \ {x})
            BY <4>2
          <5> QED
            BY <4>4, <4>5, <4>6, <4>7, <5>1
        <4> QED
          BY <4>8 DEF X
      <3> QED
        BY <3>2, <3>3
    <2> QED
      BY <2>1
  <1> HIDE DEF A
  <1>7. Nat \subseteq A
    BY <1>5, <1>6, Upward
  <1>8. Cardinality(D) \in Nat /\ Cardinality(D) + 1 \in Nat
    BY FS_CardinalityType
  <1>9. ASSUME NEW S \in Parts(D), NEW x \in S
        PROVE  Weight(c, S) = c[x] + Weight(c, S \ {x})
    <2>1. Cardinality(S) < Cardinality(D) + 1
      BY <1>1, <1>8
    <2> QED
      BY <1>7, <1>8, <2>1 DEF A
  <1> QED
    BY <1>9

\* The weight of a single token is its count.
LEMMA WeightOne ==
    ASSUME NEW D, IsFiniteSet(D), NEW c, Countable(c, D), NEW x \in D
    PROVE  Weight(c, {x}) = c[x]
  <1>1. {x} \in Parts(D) /\ {} \in Parts(D) /\ {x} \ {x} = {}
    BY DEF Parts
  <1>2. Weight(c, {x}) = c[x] + Weight(c, {x} \ {x})
    BY <1>1, WeightTaken
  <1>3. Weight(c, {}) = 0
    BY <1>1, WeightUnfold
  <1> QED
    <2>1. Weight(c, {x}) = c[x] + 0 /\ c[x] \in Int
      BY <1>1, <1>2, <1>3 DEF Countable
    <2> QED
      BY <2>1

\* The counts of two sets of tokens that share none add up.
LEMMA WeightUnion ==
    ASSUME NEW D, IsFiniteSet(D), NEW c, Countable(c, D), NEW U \in Parts(D)
    PROVE  \A S \in Parts(D) : S \intersect U = {} => Weight(c, S \union U) = Weight(c, S) + Weight(c, U)
  <1> DEFINE A == {k \in Nat : \A S \in Parts(D) : Cardinality(S) < k /\ S \intersect U = {} =>
                                    Weight(c, S \union U) = Weight(c, S) + Weight(c, U)}
  <1>1. \A S \in Parts(D) : Cardinality(S) \in Nat /\ Cardinality(S) <= Cardinality(D)
    BY SmallerParts, Zenon
  <1>2. \A S \in Parts(D) : S # {} => First(S) \in S /\ Without(S) \in Parts(D)
    BY SmallerParts, Zenon
  <1>3. \A S \in Parts(D) : S # {} => Cardinality(Without(S)) = Cardinality(S) - 1
    BY SmallerParts, Zenon
  <1>4. \A S \in Parts(D) : Weight(c, S) \in Int
    BY WeightInt, Zenon
  <1>5. \A S \in Parts(D) : \A x \in S : Weight(c, S) = c[x] + Weight(c, S \ {x})
    <2>1. ASSUME NEW S \in Parts(D), NEW x \in S
          PROVE  Weight(c, S) = c[x] + Weight(c, S \ {x})
      BY WeightTaken
    <2> QED
      BY <2>1, Zenon
  <1>6. 0 \in A
    <2>1. \A S \in Parts(D) : ~(Cardinality(S) < 0)
      BY <1>1
    <2> QED
      BY <2>1
  <1>7. ASSUME NEW k \in Nat, k \in A
        PROVE  k + 1 \in A
    <2>1. ASSUME NEW S \in Parts(D), Cardinality(S) < k + 1, S \intersect U = {}
          PROVE  Weight(c, S \union U) = Weight(c, S) + Weight(c, U)
      <3>1. CASE S = {}
        <4>1. {} \in Parts(D) /\ {} \union U = U
          BY DEF Parts
        <4>2. Weight(c, {}) = 0
          BY <4>1, WeightUnfold
        <4> QED
          BY <1>4, <3>1, <4>1, <4>2
      <3>2. CASE S # {}
        <4> DEFINE x == First(S)
                   T == Without(S)
                   V == S \union U
        <4>1. x \in S /\ T \in Parts(D) /\ Cardinality(T) = Cardinality(S) - 1 /\ T = S \ {x}
          BY <1>2, <1>3, <3>2 DEF Without
        <4>2. T \intersect U = {} /\ V \ {x} = T \union U /\ x \in V /\ V \in Parts(D) /\ x \in D
          BY <2>1, <4>1 DEF Parts
        <4> HIDE DEF x, T, V
        <4>3. Cardinality(T) < k
          BY <1>1, <2>1, <4>1
        <4>4. Weight(c, T \union U) = Weight(c, T) + Weight(c, U)
          BY <1>7, <4>1, <4>2, <4>3
        <4>5. Weight(c, V) = c[x] + Weight(c, V \ {x})
          BY <1>5, <4>2
        <4>6. Weight(c, S) = c[x] + Weight(c, T)
          BY <1>5, <4>1
        <4>7. c[x] \in Int /\ Weight(c, T) \in Int /\ Weight(c, U) \in Int
          <5>1. c[x] \in Int
            BY <4>2 DEF Countable
          <5> QED
            BY <1>4, <4>1, <5>1
        <4>8. Weight(c, V) = Weight(c, S) + Weight(c, U)
          <5>1. Weight(c, V \ {x}) = Weight(c, T \union U)
            BY <4>2
          <5> QED
            BY <4>4, <4>5, <4>6, <4>7, <5>1
        <4> QED
          BY <4>8 DEF V
      <3> QED
        BY <3>1, <3>2
    <2> QED
      BY <2>1
  <1> HIDE DEF A
  <1>8. Nat \subseteq A
    BY <1>6, <1>7, Upward
  <1>9. Cardinality(D) \in Nat /\ Cardinality(D) + 1 \in Nat
    BY FS_CardinalityType
  <1>10. ASSUME NEW S \in Parts(D), S \intersect U = {}
         PROVE  Weight(c, S \union U) = Weight(c, S) + Weight(c, U)
    <2>1. Cardinality(S) < Cardinality(D) + 1
      BY <1>1, <1>9
    <2> QED
      BY <1>8, <1>9, <1>10, <2>1 DEF A
  <1> QED
    BY <1>10
-------------------------------------------------------------------------------
(* Trees.                                                                       *)

Bits == {0, 1}
Codes == Seq(Bits)
Tokens == Seq(Chars) \ {<< >>}
Labels == Tokens \union {Inner}

\* Below a leaf there is nothing.
LeavesLast(f) == \A p, q \in DOMAIN f : f[p] # Inner /\ IsPrefix(p, q) => p = q
Trees ==
    {f \in UNION {[P -> Labels] : P \in SUBSET Codes} :
        << >> \in DOMAIN f /\ LeavesLast(f) /\ TokensIn(f) # {}}
Nodes == [count : Int, tree : Trees]

\* A bit before a code is a code.
LEMMA ConsCode ==
    ASSUME NEW b \in Bits, NEW q \in Codes
    PROVE  /\ Cons(b, q) \in Codes /\ Cons(b, q) # << >> /\ Len(Cons(b, q)) = Len(q) + 1
           /\ Cons(b, q)[1] = b /\ Tail(Cons(b, q)) = q
           /\ \A i \in 1..Len(q) : Cons(b, q)[i + 1] = q[i]
  <1>1. /\ <<b>> \in Seq(Bits) /\ Len(<<b>>) = 1 /\ <<b>>[1] = b /\ Len(q) \in Nat
        /\ Cons(b, q) \in Codes /\ Len(Cons(b, q)) = Len(q) + 1
    BY DEF Cons, Codes
  <1>2. /\ Cons(b, q)[1] = b
        /\ \A i \in 1..Len(q) : Cons(b, q)[i + 1] = q[i]
    BY <1>1, ConcatProperties DEF Cons, Codes
  <1>3. Cons(b, q) # << >>
    BY <1>1
  <1>4. Tail(Cons(b, q)) = q
    BY <1>1, <1>2, <1>3, SeqEqual DEF Codes
  <1> QED
    BY <1>1, <1>2, <1>3, <1>4

\* One code is a prefix of another where it is after the same first bit.
LEMMA ConsPrefix ==
    ASSUME NEW b \in Bits, NEW c \in Bits, NEW p \in Codes, NEW q \in Codes
    PROVE  /\ IsPrefix(Cons(b, p), Cons(c, q)) => b = c /\ IsPrefix(p, q)
           /\ ~IsPrefix(Cons(b, p), << >>)
  <1>1. /\ Cons(b, p) \in Codes /\ Cons(b, p) # << >> /\ Len(Cons(b, p)) = Len(p) + 1
        /\ Cons(c, q) \in Codes /\ Cons(c, q) # << >> /\ Len(Cons(c, q)) = Len(q) + 1
        /\ Cons(b, p)[1] = b /\ Cons(c, q)[1] = c
        /\ \A i \in 1..Len(p) : Cons(b, p)[i + 1] = p[i]
        /\ \A i \in 1..Len(q) : Cons(c, q)[i + 1] = q[i]
        /\ Len(p) \in Nat /\ Len(q) \in Nat
    <2>1. Len(p) \in Nat /\ Len(q) \in Nat
      BY DEF Codes
    <2>2. /\ Cons(b, p) \in Codes /\ Cons(b, p) # << >> /\ Len(Cons(b, p)) = Len(p) + 1
          /\ Cons(b, p)[1] = b /\ \A i \in 1..Len(p) : Cons(b, p)[i + 1] = p[i]
      BY ConsCode
    <2>3. /\ Cons(c, q) \in Codes /\ Cons(c, q) # << >> /\ Len(Cons(c, q)) = Len(q) + 1
          /\ Cons(c, q)[1] = c /\ \A i \in 1..Len(q) : Cons(c, q)[i + 1] = q[i]
      BY ConsCode
    <2> QED
      BY <2>1, <2>2, <2>3
  <1>2. ASSUME IsPrefix(Cons(b, p), Cons(c, q))
        PROVE  b = c /\ IsPrefix(p, q)
    <2>1. /\ Len(p) + 1 <= Len(q) + 1
          /\ \A i \in 1..(Len(p) + 1) : Cons(b, p)[i] = Cons(c, q)[i]
      BY <1>1, <1>2, PrefixPlaces DEF Codes
    <2>2. b = c
      BY <1>1, <2>1
    <2>3. \A i \in 1..Len(p) : p[i] = q[i]
      BY <1>1, <2>1
    <2>4. Len(p) <= Len(q)
      BY <1>1, <2>1
    <2> QED
      BY <2>2, <2>3, <2>4, PrefixPlaces DEF Codes
  <1>3. ~IsPrefix(Cons(b, p), << >>)
    BY <1>1 DEF IsPrefix
  <1> QED
    BY <1>2, <1>3

\* What a tree is.
LEMMA TreeSet ==
    ASSUME NEW f
    PROVE  f \in Trees <=> /\ DOMAIN f \subseteq Codes /\ f \in [DOMAIN f -> Labels]
                           /\ << >> \in DOMAIN f /\ LeavesLast(f) /\ TokensIn(f) # {}
  BY DEF Trees

\* A node of one token is a tree.
LEMMA AloneTree ==
    ASSUME NEW t \in Tokens
    PROVE  Alone(t) \in Trees /\ TokensIn(Alone(t)) = {t}
  <1> DEFINE f == Alone(t)
  <1>1. /\ DOMAIN f = {<< >>} /\ f[<< >>] = t /\ f \in [DOMAIN f -> Labels]
        /\ << >> \in Codes
    BY DEF Alone, Labels, Codes
  <1>2. TokensIn(f) = {t}
    BY <1>1 DEF TokensIn, Range, Tokens, Inner
  <1>3. LeavesLast(f)
    BY <1>1 DEF LeavesLast
  <1> HIDE DEF f
  <1>4. f \in Trees
    BY <1>1, <1>2, <1>3, TreeSet
  <1> QED
    BY <1>2, <1>4 DEF f

\* A tree made of two has their tokens, and each of its leaves is one of theirs.
LEMMA JoinedTree ==
    ASSUME NEW f \in Trees, NEW g \in Trees
    PROVE  Joined(f, g) \in Trees /\ TokensIn(Joined(f, g)) = TokensIn(f) \union TokensIn(g)
  <1> DEFINE e == Joined(f, g)
             L == {Cons(0, q) : q \in DOMAIN f}
             R == {Cons(1, q) : q \in DOMAIN g}
  <1>1. /\ DOMAIN f \subseteq Codes /\ f \in [DOMAIN f -> Labels] /\ LeavesLast(f) /\ TokensIn(f) # {}
        /\ DOMAIN g \subseteq Codes /\ g \in [DOMAIN g -> Labels] /\ LeavesLast(g) /\ TokensIn(g) # {}
    BY TreeSet
  <1>2. /\ e = [p \in {<< >>} \union L \union R |->
                   IF p = << >> THEN Inner ELSE IF p[1] = 0 THEN f[Tail(p)] ELSE g[Tail(p)]]
        /\ DOMAIN e = {<< >>} \union L \union R
    BY DEF Joined, Cons
  <1>3. \A q \in DOMAIN f : Cons(0, q) \in Codes /\ Cons(0, q) \in DOMAIN e /\ e[Cons(0, q)] = f[q]
    <2>1. \A q \in DOMAIN f : /\ Cons(0, q) \in Codes /\ Cons(0, q) # << >>
                              /\ Cons(0, q)[1] = 0 /\ Tail(Cons(0, q)) = q
      BY <1>1, ConsCode DEF Bits
    <2> HIDE DEF e
    <2> QED
      BY <1>2, <2>1
  <1>4. \A q \in DOMAIN g : Cons(1, q) \in Codes /\ Cons(1, q) \in DOMAIN e /\ e[Cons(1, q)] = g[q]
    <2>1. \A q \in DOMAIN g : /\ Cons(1, q) \in Codes /\ Cons(1, q) # << >>
                              /\ Cons(1, q)[1] # 0 /\ Tail(Cons(1, q)) = q
      <3>1. \A q \in DOMAIN g : /\ Cons(1, q) \in Codes /\ Cons(1, q) # << >>
                                /\ Cons(1, q)[1] = 1 /\ Tail(Cons(1, q)) = q
        BY <1>1, ConsCode DEF Bits
      <3> QED
        BY <3>1
    <2>2. \A q \in DOMAIN g : Cons(1, q) \in R
      OBVIOUS
    <2> HIDE DEF e, R, L
    <2>3. ASSUME NEW q \in DOMAIN g
          PROVE  Cons(1, q) \in DOMAIN e /\ e[Cons(1, q)] = g[q]
      <3>1. Cons(1, q) \in {<< >>} \union L \union R
        BY <2>2
      <3>2. e[Cons(1, q)] = g[Tail(Cons(1, q))]
        BY <1>2, <2>1, <3>1
      <3> QED
        BY <1>2, <2>1, <3>1, <3>2
    <2> QED
      BY <2>1, <2>3
  <1>5. << >> \in DOMAIN e /\ e[<< >>] = Inner /\ << >> \in Codes
    <2> HIDE DEF e
    <2> QED
      BY <1>2 DEF Codes
  <1>6. \A p \in DOMAIN e : \/ p = << >>
                            \/ \E q \in DOMAIN f : p = Cons(0, q)
                            \/ \E q \in DOMAIN g : p = Cons(1, q)
    BY <1>2
  <1>7. DOMAIN e \subseteq Codes /\ e = [p \in DOMAIN e |-> e[p]]
    <2>1. e = [p \in DOMAIN e |-> e[p]]
      BY DEF Joined
    <2> HIDE DEF e, L, R
    <2> QED
      BY <1>3, <1>4, <1>5, <1>6, <2>1
  <1> HIDE DEF e, L, R
  <1>8. e \in [DOMAIN e -> Labels]
    <2>1. \A p \in DOMAIN e : e[p] \in Labels
      BY <1>1, <1>3, <1>4, <1>5, <1>6 DEF Labels
    <2> QED
      BY <1>7, <2>1
  <1>9. TokensIn(e) = TokensIn(f) \union TokensIn(g)
    BY <1>3, <1>4, <1>5, <1>6 DEF TokensIn, Range
  <1>10. LeavesLast(e)
    <2> SUFFICES ASSUME NEW p \in DOMAIN e, NEW q \in DOMAIN e, e[p] # Inner, IsPrefix(p, q)
                 PROVE  p = q
      BY DEF LeavesLast
    <2>1. CASE \E a \in DOMAIN f : p = Cons(0, a)
      <3>1. PICK a \in DOMAIN f : p = Cons(0, a)
        BY <2>1
      <3>2. f[a] # Inner /\ a \in Codes
        BY <1>1, <1>3, <3>1
      <3>3. CASE q = << >>
        BY <3>1, <3>2, <3>3, ConsPrefix DEF Bits
      <3>4. CASE \E b \in DOMAIN f : q = Cons(0, b)
        <4>1. PICK b \in DOMAIN f : q = Cons(0, b)
          BY <3>4
        <4>2. b \in Codes
          BY <1>1
        <4>3. IsPrefix(a, b)
          BY <3>1, <3>2, <4>1, <4>2, ConsPrefix DEF Bits
        <4> QED
          BY <1>1, <3>1, <3>2, <4>1, <4>3 DEF LeavesLast
      <3>5. CASE \E b \in DOMAIN g : q = Cons(1, b)
        <4>1. PICK b \in DOMAIN g : q = Cons(1, b)
          BY <3>5
        <4>2. b \in Codes
          BY <1>1
        <4>3. 0 = 1
          BY <3>1, <3>2, <4>1, <4>2, ConsPrefix DEF Bits
        <4> QED
          BY <4>3
      <3> QED
        BY <1>6, <3>3, <3>4, <3>5
    <2>2. CASE \E a \in DOMAIN g : p = Cons(1, a)
      <3>1. PICK a \in DOMAIN g : p = Cons(1, a)
        BY <2>2
      <3>2. g[a] # Inner /\ a \in Codes
        BY <1>1, <1>4, <3>1
      <3>3. CASE q = << >>
        BY <3>1, <3>2, <3>3, ConsPrefix DEF Bits
      <3>4. CASE \E b \in DOMAIN g : q = Cons(1, b)
        <4>1. PICK b \in DOMAIN g : q = Cons(1, b)
          BY <3>4
        <4>2. b \in Codes
          BY <1>1
        <4>3. IsPrefix(a, b)
          BY <3>1, <3>2, <4>1, <4>2, ConsPrefix DEF Bits
        <4> QED
          BY <1>1, <3>1, <3>2, <4>1, <4>3 DEF LeavesLast
      <3>5. CASE \E b \in DOMAIN f : q = Cons(0, b)
        <4>1. PICK b \in DOMAIN f : q = Cons(0, b)
          BY <3>5
        <4>2. b \in Codes
          BY <1>1
        <4>3. 0 = 1
          BY <3>1, <3>2, <4>1, <4>2, ConsPrefix DEF Bits
        <4> QED
          BY <4>3
      <3> QED
        BY <1>6, <3>3, <3>4, <3>5
    <2> QED
      BY <1>5, <1>6, <2>1, <2>2
  <1>11. TokensIn(e) # {}
    BY <1>1, <1>9
  <1>12. e \in Trees
    BY <1>5, <1>7, <1>8, <1>10, <1>11, TreeSet
  <1> QED
    BY <1>9, <1>12 DEF e

\* What the code book of a tree is: every token has a code, no code is a prefix of
\* another token's, and only a token that is alone has the empty code.
Readable(b) ==
    /\ b \in [DOMAIN b -> Codes]
    /\ \A t, u \in DOMAIN b : t # u => ~IsPrefix(b[t], b[u])
    /\ \A t \in DOMAIN b : b[t] = << >> => DOMAIN b = {t}

\* The codes of a tree are a book that can be read back: they are distinct, and
\* none is a prefix of another.
LEMMA BookReadable ==
    ASSUME NEW f \in Trees
    PROVE  DOMAIN BookOf(f) = TokensIn(f) /\ Readable(BookOf(f)) /\ TokensIn(f) \subseteq Tokens
  <1> DEFINE b == BookOf(f)
  <1>1. DOMAIN f \subseteq Codes /\ f \in [DOMAIN f -> Labels] /\ LeavesLast(f) /\ << >> \in DOMAIN f
    BY TreeSet
  <1>2. DOMAIN b = TokensIn(f) /\ b = [t \in DOMAIN b |-> b[t]]
    BY DEF BookOf
  <1>3. ASSUME NEW t \in DOMAIN b
        PROVE  b[t] \in DOMAIN f /\ f[b[t]] = t /\ t # Inner /\ t \in Tokens
    <2>1. t \in TokensIn(f)
      BY <1>2
    <2>2. \E p \in DOMAIN f : f[p] = t
      BY <2>1 DEF TokensIn, Range
    <2>3. b[t] = CHOOSE p \in DOMAIN f : f[p] = t
      BY <2>1 DEF BookOf, CodeIn
    <2> QED
      BY <1>1, <2>1, <2>2, <2>3 DEF TokensIn, Labels
  <1> HIDE DEF b
  <1>4. b \in [DOMAIN b -> Codes]
    BY <1>1, <1>2, <1>3
  <1>5. \A t, u \in DOMAIN b : t # u => ~IsPrefix(b[t], b[u])
    BY <1>1, <1>3 DEF LeavesLast
  <1>6. ASSUME NEW t \in DOMAIN b, b[t] = << >>
        PROVE  DOMAIN b = {t}
    <2>1. \A q \in DOMAIN f : q = << >>
      <3>1. \A q \in DOMAIN f : IsPrefix(<< >>, q)
        BY <1>1, PrefixOrder DEF Codes
      <3> QED
        BY <1>1, <1>3, <1>6, <3>1 DEF LeavesLast
    <2>2. \A u \in DOMAIN b : b[u] = << >> /\ f[<< >>] = u
      BY <1>3, <2>1
    <2> QED
      BY <2>2
  <1>7. DOMAIN b \subseteq Tokens
    BY <1>3
  <1> QED
    BY <1>2, <1>4, <1>5, <1>6, <1>7 DEF b, Readable
-------------------------------------------------------------------------------
(* The nodes that are still to be merged.                                       *)

Tallied(c) == IsFiniteSet(DOMAIN c) /\ c \in [DOMAIN c -> Nat] /\ DOMAIN c \subseteq Tokens

\* Each token counted is in the tree of one of the nodes N, and the count of a
\* node is that of its tokens.
Forest(N, c) ==
    /\ N \subseteq Nodes
    /\ \A t : t \in DOMAIN c <=> \E m \in N : t \in TokensIn(m.tree)
    /\ \A l, m \in N : l # m => TokensIn(l.tree) \intersect TokensIn(m.tree) = {}
    /\ \A m \in N : m.count = Weight(c, TokensIn(m.tree))

\* The nodes of the heap have counts.
LEMMA NodesCount == CountsIn(Nodes)
  BY DEF CountsIn, Nodes

\* The counts of the tokens are finitely many numbers.
LEMMA TalliedCounts ==
    ASSUME NEW c, Tallied(c)
    PROVE  /\ IsFiniteSet(DOMAIN c) /\ Countable(c, DOMAIN c)
           /\ \A t \in DOMAIN c : t \in Tokens /\ c[t] \in Nat
  BY DEF Tallied, Countable

\* Two trees of a forest, made one, leave a forest of the same tokens.
LEMMA ForestMerged ==
    ASSUME NEW c, Tallied(c), NEW N, Forest(N, c), NEW a \in N, NEW b \in N, a # b,
           NEW m, m = Merged(<<a, b>>)
    PROVE  /\ m \in Nodes /\ m \notin N \ {a, b}
           /\ Forest((N \ {a, b}) \union {m}, c)
  <1> DEFINE A == TokensIn(a.tree)
             B == TokensIn(b.tree)
             M == TokensIn(m.tree)
             P == (N \ {a, b}) \union {m}
  <1>1. /\ a \in Nodes /\ b \in Nodes /\ N \subseteq Nodes
        /\ A \intersect B = {}
        /\ a.count = Weight(c, A) /\ b.count = Weight(c, B)
    BY DEF Forest
  <1>2. a.tree \in Trees /\ b.tree \in Trees /\ a.count \in Int /\ b.count \in Int
    BY <1>1 DEF Nodes
  <1>3. m = [count |-> a.count + b.count, tree |-> Joined(a.tree, b.tree)]
    BY DEF Merged
  <1>4. Joined(a.tree, b.tree) \in Trees /\ TokensIn(Joined(a.tree, b.tree)) = A \union B
    BY <1>2, JoinedTree
  <1>5. m \in Nodes /\ M = A \union B /\ m.count = a.count + b.count
    BY <1>2, <1>3, <1>4 DEF Nodes
  <1>6. \A n \in Nodes : TokensIn(n.tree) # {}
    BY TreeSet DEF Nodes
  <1>7. A \in Parts(DOMAIN c) /\ B \in Parts(DOMAIN c)
    BY DEF Forest, Parts
  <1>8. Weight(c, A \union B) = Weight(c, A) + Weight(c, B)
    BY <1>1, <1>7, WeightUnion, TalliedCounts
  <1>9. m.count = Weight(c, M)
    BY <1>1, <1>5, <1>8
  <1> HIDE DEF A, B, M, P
  <1>10. \A n \in N : n # a /\ n # b => TokensIn(n.tree) \intersect M = {}
    BY <1>5 DEF Forest, A, B
  <1>11. m \notin N \ {a, b}
    <2>1. M # {}
      BY <1>5, <1>6 DEF M
    <2> QED
      BY <1>10, <2>1 DEF M
  <1>12. \A t : t \in DOMAIN c <=> \E n \in P : t \in TokensIn(n.tree)
    <2>1. ASSUME NEW t \in DOMAIN c
          PROVE  \E n \in P : t \in TokensIn(n.tree)
      <3>1. PICK n \in N : t \in TokensIn(n.tree)
        BY DEF Forest
      <3>2. CASE n = a \/ n = b
        BY <1>5, <3>1, <3>2 DEF P, A, B, M
      <3>3. CASE n # a /\ n # b
        BY <3>1, <3>3 DEF P
      <3> QED
        BY <3>2, <3>3
    <2>2. ASSUME NEW n \in P, NEW t \in TokensIn(n.tree)
          PROVE  t \in DOMAIN c
      <3>1. CASE n = m
        <4>1. t \in A \/ t \in B
          BY <1>5, <2>2, <3>1 DEF M
        <4> QED
          BY <4>1 DEF A, B, Forest
      <3>2. CASE n \in N
        BY <2>2, <3>2 DEF Forest
      <3> QED
        BY <3>1, <3>2 DEF P
    <2> QED
      BY <2>1, <2>2
  <1>13. \A l, n \in P : l # n => TokensIn(l.tree) \intersect TokensIn(n.tree) = {}
    BY <1>10 DEF Forest, P, M
  <1>14. \A n \in P : n.count = Weight(c, TokensIn(n.tree))
    BY <1>9 DEF Forest, P, M
  <1>15. P \subseteq Nodes
    BY <1>1, <1>5 DEF P
  <1>16. Forest(P, c)
    BY <1>12, <1>13, <1>14, <1>15 DEF Forest
  <1> QED
    BY <1>5, <1>11, <1>16 DEF P

\* A node of every token.
LEMMA ForestPlanted ==
    ASSUME Tallied(tally)
    PROVE  /\ \A t \in DOMAIN tally : Leaf(t) \in Nodes
           /\ \A t, u \in DOMAIN tally : Leaf(t) = Leaf(u) => t = u
           /\ \A N : (\A n : n \in N <=> \E t \in DOMAIN tally : n = Leaf(t)) => Forest(N, tally)
  <1>1. \A t \in DOMAIN tally : /\ Alone(t) \in Trees /\ TokensIn(Alone(t)) = {t}
                                /\ tally[t] \in Nat
    BY AloneTree, TalliedCounts
  <1>5. \A t \in DOMAIN tally : tally[t] = Weight(tally, {t})
    BY TalliedCounts, WeightOne
  <1>2. \A t \in DOMAIN tally : Leaf(t) \in Nodes /\ Leaf(t).tree = Alone(t) /\ Leaf(t).count = tally[t]
    <2> SUFFICES ASSUME NEW t \in DOMAIN tally
                 PROVE  Leaf(t) \in Nodes /\ Leaf(t).tree = Alone(t) /\ Leaf(t).count = tally[t]
      OBVIOUS
    <2>1. Alone(t) \in Trees /\ tally[t] \in Int
      BY <1>1
    <2>2. \A a \in Int, b \in Trees : /\ [count |-> a, tree |-> b] \in Nodes
                                      /\ [count |-> a, tree |-> b].tree = b
                                      /\ [count |-> a, tree |-> b].count = a
      BY DEF Nodes
    <2> QED
      BY <2>1, <2>2 DEF Leaf
  <1>3. \A t, u \in DOMAIN tally : Leaf(t) = Leaf(u) => t = u
    <2>1. \A t \in DOMAIN tally : TokensIn(Leaf(t).tree) = {t}
      BY <1>1, <1>2
    <2> QED
      BY <2>1
  <1>4. ASSUME NEW N, \A n : n \in N <=> \E t \in DOMAIN tally : n = Leaf(t)
        PROVE  Forest(N, tally)
    <2>1. ASSUME NEW n \in N
          PROVE  \E t \in DOMAIN tally : /\ n = Leaf(t) /\ TokensIn(n.tree) = {t}
                                         /\ n.count = Weight(tally, {t})
      <3>1. PICK t \in DOMAIN tally : n = Leaf(t)
        BY <1>4
      <3>2. n.tree = Alone(t) /\ n.count = tally[t]
        BY <1>2, <3>1
      <3> QED
        BY <1>1, <1>5, <3>1, <3>2
    <2>2. N \subseteq Nodes
      BY <1>2, <2>1
    <2>3. \A t : t \in DOMAIN tally <=> \E m \in N : t \in TokensIn(m.tree)
      <3>1. ASSUME NEW t \in DOMAIN tally
            PROVE  \E m \in N : t \in TokensIn(m.tree)
        <4>1. Leaf(t) \in N /\ t \in TokensIn(Leaf(t).tree)
          BY <1>1, <1>2, <1>4
        <4> QED
          BY <4>1
      <3>2. ASSUME NEW m \in N, NEW t \in TokensIn(m.tree)
            PROVE  t \in DOMAIN tally
        BY <2>1
      <3> QED
        BY <3>1, <3>2
    <2>4. \A l, m \in N : l # m => TokensIn(l.tree) \intersect TokensIn(m.tree) = {}
      BY <2>1
    <2>5. \A m \in N : m.count = Weight(tally, TokensIn(m.tree))
      BY <2>1
    <2> QED
      BY <2>2, <2>3, <2>4, <2>5 DEF Forest
  <1> QED
    BY <1>2, <1>3, <1>4

\* In order from neighbour to neighbour is in order.
LEMMA NeighboursSort ==
    ASSUME NEW n \in Nat, NEW f, \A i \in 1..n : f[i] \in Int,
           \A i \in 1..(n - 1) : f[i] <= f[i + 1]
    PROVE  \A j \in 1..n : \A i \in 1..j : f[i] <= f[j]
  <1> DEFINE A == {j \in Nat : j \in 1..n => \A i \in 1..j : f[i] <= f[j]}
  <1>1. 0 \in A
    OBVIOUS
  <1>2. ASSUME NEW j \in Nat, j \in A
        PROVE  j + 1 \in A
    <2> SUFFICES ASSUME j + 1 \in 1..n, NEW i \in 1..(j + 1)
                 PROVE  f[i] <= f[j + 1]
      OBVIOUS
    <2>1. CASE i = j + 1
      <3>1. f[j + 1] \in Int
        OBVIOUS
      <3> QED
        BY <2>1, <3>1
    <2>2. CASE i # j + 1
      <3>1. i \in 1..j /\ j \in 1..n /\ j \in 1..(n - 1)
        BY <2>2
      <3>2. f[i] <= f[j] /\ f[j] <= f[j + 1] /\ f[i] \in Int /\ f[j] \in Int /\ f[j + 1] \in Int
        BY <1>2, <3>1
      <3> QED
        BY <3>2
    <2> QED
      BY <2>1, <2>2
  <1> HIDE DEF A
  <1>3. Nat \subseteq A
    BY <1>1, <1>2, Upward
  <1>4. ASSUME NEW j \in 1..n
        PROVE  \A i \in 1..j : f[i] <= f[j]
    BY <1>3 DEF A
  <1> QED
    BY <1>4

\* The permutations of a set hold all of it.
LEMMA PermutationsHold ==
    ASSUME NEW X, IsFiniteSet(X), NEW s \in SetToSeqs(X)
    PROVE  /\ Cardinality(X) \in Nat /\ DOMAIN s = 1..Cardinality(X)
           /\ \A i \in 1..Cardinality(X) : s[i] \in X
           /\ \A i, j \in 1..Cardinality(X) : s[i] = s[j] => i = j
           /\ \A x \in X : \E i \in 1..Cardinality(X) : s[i] = x
  <1>1. Cardinality(X) \in Nat
    BY FS_CardinalityType
  <1>2. PICK n \in Nat : n = Cardinality(X)
    BY <1>1
  <1>3. /\ s \in [1..n -> X]
        /\ \A i, j \in 1..n : i # j => s[i] # s[j]
    BY <1>2 DEF SetToSeqs
  <1>4. IsFiniteSet(1..n) /\ Cardinality(1..n) = n
    BY FS_Interval
  <1>5. s \in Injection(1..n, X)
    BY <1>3 DEF Injection, IsInjective
  <1>6. s \in Surjection(1..n, X)
    BY <1>2, <1>4, <1>5, FS_Injection
  <1>7. /\ DOMAIN s = 1..n
        /\ \A i \in 1..n : s[i] \in X
        /\ \A i, j \in 1..n : s[i] = s[j] => i = j
        /\ \A x \in X : \E i \in 1..n : s[i] = x
    BY <1>3, <1>6 DEF Surjection
  <1> QED
    BY <1>2, <1>7
-------------------------------------------------------------------------------
(* The heap and the nodes taken from it.                                        *)

Pool(h, k, c) ==
    /\ h \in Seq(Nodes) /\ k \in Seq(Nodes)
    /\ Len(k) \in 0..2 /\ (Len(k) < 2 => h # << >>)
    /\ Distinct(h) /\ Distinct(k)
    /\ \A x : ~(x \in Range(h) /\ x \in Range(k))
    /\ Ordered(h)
    /\ Forest(Range(h) \union Range(k), c)

\* The places of a sequence hold elements of its range, and of its type.
LEMMA RangeIs ==
    ASSUME NEW S, NEW s \in Seq(S)
    PROVE  /\ \A x : x \in Range(s) <=> \E i \in 1..Len(s) : s[i] = x
           /\ Range(s) \subseteq S /\ Len(s) \in Nat
           /\ \A i \in 1..Len(s) : s[i] \in S /\ s[i] \in Range(s)
  BY DEF Range

\* The range of a sequence is what its places hold.
LEMMA RangeHolds ==
    ASSUME NEW S, NEW s \in Seq(S)
    PROVE  \A x : x \in Range(s) <=> \E i \in 1..Len(s) : s[i] = x
  BY RangeIs

\* However the sort orders equal counts, the merging starts with a heap in order.
LEMMA SortingsPool ==
    ASSUME Tallied(tally), DOMAIN tally # {}, NEW h \in Sortings
    PROVE  /\ Pool(h, << >>, tally)
           /\ \A x : x \in Range(h) <=> \E t \in DOMAIN tally : x = Leaf(t)
  <1> DEFINE X == DOMAIN tally
  <1>1. /\ IsFiniteSet(X) /\ \A t \in X : tally[t] \in Nat
    BY DEF Tallied
  <1>2. PICK s \in SetToSeqs(X) :
            /\ \A i \in 1..(Len(s) - 1) : tally[s[i]] <= tally[s[i + 1]]
            /\ h = [i \in DOMAIN s |-> Leaf(s[i])]
    BY DEF Sortings
  <1>3. PICK n \in Nat : n = Cardinality(X)
    BY <1>1, FS_CardinalityType
  <1>4. /\ DOMAIN s = 1..n
        /\ \A i \in 1..n : s[i] \in X
        /\ \A i, j \in 1..n : s[i] = s[j] => i = j
        /\ \A x \in X : \E i \in 1..n : s[i] = x
    BY <1>1, <1>3, PermutationsHold
  <1>5. s = [i \in 1..n |-> s[i]]
    BY <1>3 DEF SetToSeqs
  <1>6. s \in Seq(X) /\ Len(s) = n
    BY <1>4, <1>5, SeqDef
  <1>7. /\ \A t \in X : Leaf(t) \in Nodes
        /\ \A t, u \in X : Leaf(t) = Leaf(u) => t = u
    BY ForestPlanted, Zenon
  <1>8. h = [i \in 1..n |-> Leaf(s[i])]
    BY <1>2, <1>4
  <1>9. h \in Seq(Nodes) /\ Len(h) = n /\ \A i \in 1..n : h[i] = Leaf(s[i])
    <2>1. h \in [1..n -> Nodes]
      BY <1>4, <1>7, <1>8
    <2> QED
      BY <1>8, <2>1, SeqDef
  <1>10. Distinct(h)
    <2>1. \A i, j \in 1..n : h[i] = h[j] => i = j
      BY <1>4, <1>7, <1>9
    <2> QED
      BY <1>9, <2>1 DEF Distinct, Apart
  <1>17. \A x : x \in Range(h) <=> \E t \in X : x = Leaf(t)
    BY <1>4, <1>9, RangeIs
  <1>11. Forest(Range(h), tally)
    BY <1>17, ForestPlanted
  <1>12. Ordered(h)
    <2> DEFINE f == [i \in 1..n |-> tally[s[i]]]
    <2>1. \A i \in 1..n : f[i] \in Int
      BY <1>1, <1>4
    <2>2. \A i \in 1..(n - 1) : f[i] <= f[i + 1]
      BY <1>2, <1>6
    <2>3. \A i \in 1..n : f[i] = h[i].count
      BY <1>9 DEF Leaf
    <2> HIDE DEF f
    <2>4. \A j \in 1..n : \A i \in 1..j : f[i] <= f[j]
      BY <2>1, <2>2, NeighboursSort
    <2>5. ASSUME NEW j \in 2..n
          PROVE  h[j \div 2].count <= h[j].count
      <3>1. j \in 1..n /\ j \div 2 \in 1..j /\ j \div 2 \in 1..n
        OBVIOUS
      <3>2. f[j \div 2] <= f[j]
        BY <2>4, <3>1
      <3> QED
        BY <2>3, <3>1, <3>2
    <2> QED
      BY <1>9, <2>5 DEF Ordered
  <1>13. h # << >>
    BY <1>4, <1>9
  <1>14. /\ << >> \in Seq(Nodes) /\ Len(<< >>) = 0 /\ Distinct(<< >>) /\ Range(<< >>) = {}
    BY DEF Distinct, Apart, Range
  <1>15. Range(h) \union Range(<< >>) = Range(h)
    BY <1>14
  <1>16. Forest(Range(h) \union Range(<< >>), tally)
    BY <1>11, <1>15
  <1> QED
    BY <1>9, <1>10, <1>12, <1>13, <1>14, <1>16, <1>17 DEF Pool

\* Taking the least node.
LEMMA PoolTakes ==
    ASSUME NEW c, NEW h, NEW k, Pool(h, k, c), Len(k) < 2, k = << >> => Len(h) # 1,
           NEW w, w = WithoutMin(h), NEW l, l = Append(k, h[1])
    PROVE  Pool(w, l, c)
  <1>1. /\ h \in Seq(Nodes) /\ k \in Seq(Nodes) /\ h # << >> /\ Len(k) \in {0, 1}
        /\ Distinct(h) /\ Distinct(k) /\ Ordered(h)
        /\ \A x : ~(x \in Range(h) /\ x \in Range(k))
        /\ Forest(Range(h) \union Range(k), c)
    BY DEF Pool
  <1>2. /\ w \in Seq(Nodes) /\ Len(w) = Len(h) - 1 /\ Distinct(w) /\ Ordered(w)
        /\ \A x : x \in Range(w) <=> x \in Range(h) /\ x # h[1]
    BY <1>1, WithoutMinLeaves, NodesCount
  <1>3. h[1] \in Nodes /\ h[1] \in Range(h) /\ Len(h) \in Nat /\ Len(h) > 0
    BY <1>1, RangeIs
  <1>4. l \in Seq(Nodes) /\ Len(l) = Len(k) + 1 /\ l[Len(k) + 1] = h[1]
        /\ \A i \in 1..Len(k) : l[i] = k[i]
    BY <1>1, <1>3
  <1>5. \A x : x \in Range(l) <=> x \in Range(k) \/ x = h[1]
    <2>4. \A x : x \in Range(l) <=> \E i \in 1..Len(l) : l[i] = x
      <3>1. l \in Seq(Nodes)
        BY <1>4
      <3> QED
        BY <3>1, RangeHolds, Zenon
    <2>5. \A x : x \in Range(k) <=> \E i \in 1..Len(k) : k[i] = x
      <3>1. k \in Seq(Nodes)
        BY <1>1
      <3> QED
        BY <3>1, RangeIs
    <2>1. ASSUME NEW x \in Range(l)
          PROVE  x \in Range(k) \/ x = h[1]
      <3>1. PICK i \in 1..Len(l) : l[i] = x
        BY <2>1, <2>4
      <3>2. i = Len(k) + 1 \/ i \in 1..Len(k)
        BY <1>1, <1>4
      <3> QED
        BY <1>4, <2>5, <3>1, <3>2
    <2>2. ASSUME NEW x \in Range(k)
          PROVE  x \in Range(l)
      <3>1. PICK i \in 1..Len(k) : k[i] = x
        BY <1>1, RangeIs
      <3>2. i \in 1..Len(l) /\ l[i] = x
        BY <1>1, <1>4, <3>1
      <3> QED
        BY <2>4, <3>2
    <2>3. h[1] \in Range(l)
      <3>1. Len(k) + 1 \in 1..Len(l)
        BY <1>1, <1>4
      <3> QED
        BY <1>4, <2>4, <3>1
    <2> QED
      BY <2>1, <2>2, <2>3
  <1>6. Distinct(l)
    <2>1. \A i, j \in 1..Len(k) : k[i] = k[j] => i = j
      BY <1>1 DEF Distinct, Apart
    <2>2. \A i \in 1..Len(k) : k[i] # h[1]
      BY <1>1, <1>3, RangeIs
    <2>3. \A i \in 1..Len(l) : i = Len(k) + 1 \/ i \in 1..Len(k)
      BY <1>1, <1>4
    <2>4. \A i, j \in 1..Len(l) : l[i] = l[j] => i = j
      BY <1>4, <2>1, <2>2, <2>3
    <2> QED
      BY <2>4 DEF Distinct, Apart
  <1>7. \A x : ~(x \in Range(w) /\ x \in Range(l))
    BY <1>1, <1>2, <1>5
  <1>8. Range(w) \union Range(l) = Range(h) \union Range(k)
    BY <1>2, <1>3, <1>5
  <1>9. Forest(Range(w) \union Range(l), c)
    BY <1>1, <1>8
  <1>10. Len(l) \in 0..2 /\ (Len(l) < 2 => w # << >>)
    <2>1. ASSUME Len(l) < 2 PROVE w # << >>
      <3>1. Len(k) = 0 /\ k = << >>
        BY <1>1, <1>4, <2>1
      <3>2. Len(w) > 0
        BY <1>2, <1>3, <3>1
      <3> QED
        BY <3>2
    <2> QED
      BY <1>1, <1>4, <2>1
  <1> QED
    BY <1>2, <1>4, <1>6, <1>7, <1>9, <1>10 DEF Pool

\* Merging the two nodes taken.
LEMMA PoolMerges ==
    ASSUME NEW c, Tallied(c), NEW h, NEW k, Pool(h, k, c), Len(k) = 2,
           NEW w, w = Inserted(h, Merged(k))
    PROVE  Pool(w, << >>, c)
  <1> DEFINE N == Range(h) \union Range(k)
  <1>1. /\ h \in Seq(Nodes) /\ k \in Seq(Nodes)
        /\ Distinct(h) /\ Distinct(k) /\ Ordered(h)
        /\ \A x : ~(x \in Range(h) /\ x \in Range(k))
        /\ Forest(N, c)
    BY DEF Pool
  <1>2. PICK a, b, m : a = k[1] /\ b = k[2] /\ m = Merged(k)
    OBVIOUS
  <1>3. a \in Range(k) /\ b \in Range(k) /\ a # b /\ \A x : x \in Range(k) <=> x = a \/ x = b
    <2>1. 1 \in 1..Len(k) /\ 2 \in 1..Len(k) /\ \A i \in 1..Len(k) : i = 1 \/ i = 2
      OBVIOUS
    <2>2. a # b
      BY <1>1, <1>2, <2>1 DEF Distinct, Apart
    <2> QED
      BY <1>1, <1>2, <2>1, <2>2, RangeIs
  <1>4. m = Merged(<<a, b>>)
    BY <1>2 DEF Merged
  <1>5. a \in N /\ b \in N
    BY <1>3
  <1>6. N \ {a, b} = Range(h)
    BY <1>1, <1>3
  <1> HIDE DEF N
  <1>7. /\ m \in Nodes /\ m \notin Range(h)
        /\ Forest(Range(h) \union {m}, c)
    BY <1>1, <1>3, <1>4, <1>5, <1>6, ForestMerged
  <1>8. w = Inserted(h, m)
    BY <1>2
  <1>9. /\ w \in Seq(Nodes) /\ Len(w) = Len(h) + 1 /\ Distinct(w) /\ Ordered(w)
        /\ \A y : y \in Range(w) <=> y = m \/ y \in Range(h)
    BY <1>1, <1>7, <1>8, InsertedAdds, NodesCount
  <1>10. /\ << >> \in Seq(Nodes) /\ Len(<< >>) = 0 /\ Distinct(<< >>) /\ Range(<< >>) = {}
    BY DEF Distinct, Apart, Range
  <1>11. Range(w) \union Range(<< >>) = Range(h) \union {m}
    BY <1>9, <1>10
  <1>12. Forest(Range(w) \union Range(<< >>), c)
    BY <1>7, <1>11
  <1>13. w # << >>
    <2>1. Len(h) \in Nat
      BY <1>1
    <2> QED
      BY <1>9, <2>1
  <1> QED
    BY <1>9, <1>10, <1>12, <1>13 DEF Pool
-------------------------------------------------------------------------------
\* A pool is what HeapOrdered asks of the heap and the nodes taken from it.
LEMMA PoolOrdered ==
    ASSUME Pool(heap, taken, tally)
    PROVE  HeapOrdered
  <1> DEFINE nodes == heap \o taken
             tokens(k) == TokensIn(nodes[k].tree)
             N == Range(heap) \union Range(taken)
  <1>1. /\ heap \in Seq(Nodes) /\ taken \in Seq(Nodes)
        /\ Distinct(heap) /\ Distinct(taken) /\ Ordered(heap)
        /\ \A x : ~(x \in Range(heap) /\ x \in Range(taken))
        /\ Forest(N, tally)
    BY DEF Pool
  <1>2. PICK m, n \in Nat : m = Len(heap) /\ n = Len(taken)
    BY <1>1
  <1>3. /\ nodes \in Seq(Nodes) /\ Len(nodes) = m + n /\ DOMAIN nodes = 1..(m + n)
        /\ \A i \in 1..(m + n) : nodes[i] = IF i <= m THEN heap[i] ELSE taken[i - m]
    <2>1. /\ nodes \in Seq(Nodes) /\ Len(nodes) = m + n
          /\ \A i \in 1..(m + n) : nodes[i] = IF i <= m THEN heap[i] ELSE taken[i - m]
      BY <1>1, <1>2, ConcatProperties
    <2> HIDE DEF nodes
    <2> QED
      BY <2>1
  <1>4. /\ \A i \in 1..m : heap[i] \in Range(heap)
        /\ \A x \in Range(heap) : \E i \in 1..m : heap[i] = x
    BY <1>1, <1>2, RangeIs
  <1>5. /\ \A i \in 1..n : taken[i] \in Range(taken)
        /\ \A x \in Range(taken) : \E i \in 1..n : taken[i] = x
    BY <1>1, <1>2, RangeIs
  <1>6. \A i, j \in 1..m : heap[i] = heap[j] => i = j
    BY <1>1, <1>2 DEF Distinct, Apart
  <1>7. \A i, j \in 1..n : taken[i] = taken[j] => i = j
    BY <1>1, <1>2 DEF Distinct, Apart
  <1> HIDE DEF nodes, N
  <1>8. \A i \in 1..(m + n) : \/ i \in 1..m /\ nodes[i] = heap[i]
                              \/ i - m \in 1..n /\ ~(i <= m) /\ nodes[i] = taken[i - m]
    BY <1>3
  <1>9. \A i \in DOMAIN nodes : nodes[i] \in N
    BY <1>3, <1>4, <1>5, <1>8 DEF N
  <1>10. \A x \in N : \E i \in DOMAIN nodes : nodes[i] = x
    <2>1. ASSUME NEW x \in Range(heap)
          PROVE  \E i \in DOMAIN nodes : nodes[i] = x
      <3>1. PICK i \in 1..m : heap[i] = x
        BY <1>4
      <3>2. i \in DOMAIN nodes /\ nodes[i] = x
        BY <1>3, <3>1
      <3> QED
        BY <3>2
    <2>2. ASSUME NEW x \in Range(taken)
          PROVE  \E i \in DOMAIN nodes : nodes[i] = x
      <3>1. PICK i \in 1..n : taken[i] = x
        BY <1>5
      <3>2. m + i \in 1..(m + n) /\ ~(m + i <= m) /\ (m + i) - m = i
        OBVIOUS
      <3>3. m + i \in DOMAIN nodes /\ nodes[m + i] = x
        BY <1>3, <3>1, <3>2
      <3> QED
        BY <3>3
    <2> QED
      BY <2>1, <2>2 DEF N
  <1>11. \A i, j \in DOMAIN nodes : i # j => nodes[i] # nodes[j]
    <2> SUFFICES ASSUME NEW i \in 1..(m + n), NEW j \in 1..(m + n), nodes[i] = nodes[j]
                 PROVE  i = j
      BY <1>3
    <2>1. CASE i \in 1..m /\ j \in 1..m
      BY <1>6, <1>3, <2>1
    <2>2. CASE ~(i <= m) /\ ~(j <= m)
      <3>1. i - m \in 1..n /\ j - m \in 1..n /\ taken[i - m] = taken[j - m]
        BY <1>3, <2>2
      <3>2. i - m = j - m
        BY <1>7, <3>1
      <3> QED
        BY <3>2
    <2>3. CASE i \in 1..m /\ ~(j <= m)
      BY <1>1, <1>3, <1>4, <1>5, <1>8, <2>3
    <2>4. CASE j \in 1..m /\ ~(i <= m)
      BY <1>1, <1>3, <1>4, <1>5, <1>8, <2>4
    <2> QED
      BY <2>1, <2>2, <2>3, <2>4
  <1>12. UNION {tokens(k) : k \in DOMAIN nodes} = DOMAIN tally
    <2>1. \A t : t \in DOMAIN tally <=> \E x \in N : t \in TokensIn(x.tree)
      BY <1>1 DEF Forest
    <2>2. \A t : t \in DOMAIN tally <=> \E k \in DOMAIN nodes : t \in tokens(k)
      BY <1>9, <1>10, <2>1
    <2> QED
      BY <2>2
  <1>13. \A k, l \in DOMAIN nodes : k # l => tokens(k) \intersect tokens(l) = {}
    <2>1. \A x, y \in N : x # y => TokensIn(x.tree) \intersect TokensIn(y.tree) = {}
      BY <1>1 DEF Forest
    <2> QED
      BY <1>9, <1>11, <2>1
  <1>14. \A k \in DOMAIN nodes : nodes[k].count = Weight(tally, tokens(k))
    <2>1. \A x \in N : x.count = Weight(tally, TokensIn(x.tree))
      BY <1>1 DEF Forest
    <2> QED
      BY <1>9, <2>1
  <1> QED
    BY <1>1, <1>12, <1>13, <1>14 DEF HeapOrdered, nodes
-------------------------------------------------------------------------------
(* Reading tokens.                                                              *)

Texts == Seq(Chars)

\* A text that is not over is its next token and what comes after it.
LEMMA TokenRead ==
    ASSUME NEW s \in Seq(Chars), s # << >>
    PROVE  /\ NextToken(s) \in Tokens /\ AfterToken(s) \in Seq(Chars)
           /\ s = NextToken(s) \o AfterToken(s)
  <1>1. Len(s) \in Nat /\ Len(s) >= 1 /\ 1 \in 1..Len(s)
    OBVIOUS
  <1>2. TokenLength(s) \in 1..Len(s)
    <2>1. CASE s[1] \in Delims
      BY <1>1, <2>1 DEF TokenLength
    <2>2. CASE s[1] \notin Delims
      <3> DEFINE Stops == {n \in 1..Len(s) : n = Len(s) \/ s[n + 1] \in Delims}
      <3>1. Stops \subseteq Nat /\ Len(s) \in Stops
        BY <1>1
      <3>2. PICK n \in Stops : \A m \in Stops : n <= m
        <4> HIDE DEF Stops
        <4> QED
          BY <3>1, LeastNumber
      <3>3. \A i \in 1..n : s[i] \notin Delims
        <4> SUFFICES ASSUME NEW i \in 1..n, s[i] \in Delims PROVE FALSE
          OBVIOUS
        <4>1. i > 1 /\ i - 1 \in 1..Len(s) /\ (i - 1) + 1 = i /\ ~(n <= i - 1)
          BY <1>1, <2>2
        <4>2. i - 1 \in Stops
          BY <4>1
        <4> QED
          BY <3>2, <4>1, <4>2
      <3>4. \E k \in 1..Len(s) : /\ \A i \in 1..k : s[i] \notin Delims
                                 /\ k = Len(s) \/ s[k + 1] \in Delims
        BY <3>2, <3>3
      <3>5. TokenLength(s) = CHOOSE k \in 1..Len(s) : /\ \A i \in 1..k : s[i] \notin Delims
                                                      /\ k = Len(s) \/ s[k + 1] \in Delims
        BY <2>2 DEF TokenLength
      <3> QED
        BY <3>4, <3>5
    <2> QED
      BY <2>1, <2>2
  <1>3. PICK n \in 1..Len(s) : n = TokenLength(s)
    BY <1>2
  <1>4. NextToken(s) = SubSeq(s, 1, n) /\ AfterToken(s) = SubSeq(s, n + 1, Len(s))
    BY <1>3 DEF NextToken, AfterToken
  <1>5. SubSeq(s, 1, n) \in Seq(Chars) /\ Len(SubSeq(s, 1, n)) = n /\ SubSeq(s, n + 1, Len(s)) \in Seq(Chars)
    BY <1>1
  <1>6. SubSeq(s, 1, n) # << >>
    BY <1>5
  <1>7. SubSeq(s, 1, Len(s)) = s
    BY SubSeqFull
  <1>8. SubSeq(s, 1, n) \o SubSeq(s, n + 1, Len(s)) = SubSeq(s, 1, Len(s))
    <2>1. 1 \in 1..(Len(s) + 1) /\ n \in (1 - 1)..Len(s) /\ Len(s) \in n..Len(s)
      BY <1>1
    <2> QED
      BY <2>1, ConcatAdjacentSubSeq
  <1> QED
    BY <1>4, <1>5, <1>6, <1>7, <1>8 DEF Tokens
-------------------------------------------------------------------------------
\* Of the texts R, each token is among T, up to one of the texts Q.
Reading(T, R, Q) ==
    \A q \in R : q = << >> \/ q \in Q \/ (NextToken(q) \in T /\ AfterToken(q) \in R)
\* The tokens of s up to one of Q are among T.
Reached(T, s, Q) == \E R \in SUBSET Texts : s \in R /\ Reading(T, R, Q)

\* A text that is still among the unread ones is reached there.
LEMMA ReachedUnread ==
    ASSUME NEW T, NEW Q, Q \subseteq Texts, NEW s \in Q
    PROVE  Reached(T, s, Q)
  BY DEF Reached, Reading

\* Counting the next token of an unread text leaves its tokens reached.
LEMMA ReachedCounts ==
    ASSUME NEW T, NEW Q, NEW s, Reached(T, s, Q), NEW h \in Texts, h # << >>,
           NEW U, NEW P, NextToken(h) \in U, T \subseteq U, AfterToken(h) \in P, \A q \in Q : q # h => q \in P
    PROVE  Reached(U, s, P)
  <1>1. PICK R \in SUBSET Texts : s \in R /\ Reading(T, R, Q)
    BY DEF Reached
  <1> DEFINE A == R \union {AfterToken(h)}
  <1>2. AfterToken(h) \in Texts
    BY TokenRead DEF Texts
  <1>3. A \in SUBSET Texts /\ s \in A
    BY <1>1, <1>2
  <1>4. Reading(U, A, P)
    <2> SUFFICES ASSUME NEW q \in A
                 PROVE  q = << >> \/ q \in P \/ (NextToken(q) \in U /\ AfterToken(q) \in A)
      BY DEF Reading
    <2>1. CASE q = AfterToken(h)
      BY <2>1
    <2>2. CASE q \in R
      <3>1. q = << >> \/ q \in Q \/ (NextToken(q) \in T /\ AfterToken(q) \in R)
        BY <1>1, <2>2 DEF Reading
      <3> QED
        BY <3>1
    <2> QED
      BY <2>1, <2>2
  <1> HIDE DEF A
  <1> QED
    BY <1>3, <1>4 DEF Reached

\* A file that is read out can be put aside.
LEMMA ReachedDrops ==
    ASSUME NEW T, NEW Q, NEW s, Reached(T, s, Q), NEW P, \A q \in Q : q # << >> => q \in P
    PROVE  Reached(T, s, P)
  <1>1. PICK R \in SUBSET Texts : s \in R /\ Reading(T, R, Q)
    BY DEF Reached
  <1>2. Reading(T, R, P)
    BY <1>1 DEF Reading
  <1> QED
    BY <1>1, <1>2 DEF Reached

\* Once nothing is unread, the next token of a text has been counted.
LEMMA ReachedNext ==
    ASSUME NEW T, NEW s, Reached(T, s, {}), s # << >>
    PROVE  NextToken(s) \in T /\ Reached(T, AfterToken(s), {})
  <1>1. PICK R \in SUBSET Texts : s \in R /\ Reading(T, R, {})
    BY DEF Reached
  <1>2. NextToken(s) \in T /\ AfterToken(s) \in R
    BY <1>1 DEF Reading
  <1> QED
    BY <1>1, <1>2 DEF Reached

\* The pairs W of bits and text: the bits are the text's, coded with the book b.
Writing(b, W) ==
    \A w \in W : \/ w[1] = << >> /\ w[2] = << >>
                 \/ \E t \in DOMAIN b, y \in Codes, q \in Texts :
                        w[1] = b[t] \o y /\ w[2] = t \o q /\ <<y, q>> \in W
\* The bits z are the text s, coded with the book b.
Written(b, z, s) == \E W \in SUBSET (Codes \X Texts) : <<z, s>> \in W /\ Writing(b, W)

\* No bits are the empty text.
LEMMA WrittenNothing ==
    ASSUME NEW b
    PROVE  Written(b, << >>, << >>)
  <1>1. PICK e : e = << >> /\ e \in Codes /\ e \in Texts
    <2>1. << >> \in Codes /\ << >> \in Texts
      BY DEF Codes, Texts
    <2> QED
      BY <2>1, Zenon
  <1> DEFINE W == {<<e, e>>}
  <1>2. W \in SUBSET (Codes \X Texts) /\ <<e, e>> \in W
    BY <1>1
  <1>3. \A w \in W : w[1] = e /\ w[2] = e
    OBVIOUS
  <1> HIDE DEF W
  <1>4. Writing(b, W)
    BY <1>1, <1>3 DEF Writing
  <1>5. Written(b, e, e)
    BY <1>2, <1>4 DEF Written
  <1> QED
    BY <1>1, <1>5

\* The code of a token before the bits of a text is the token before the text.
LEMMA WrittenMore ==
    ASSUME NEW b, NEW t \in DOMAIN b, b[t] \in Codes, t \in Texts,
           NEW y \in Codes, NEW q \in Texts, Written(b, y, q)
    PROVE  Written(b, b[t] \o y, t \o q)
  <1>1. PICK W \in SUBSET (Codes \X Texts) : <<y, q>> \in W /\ Writing(b, W)
    BY DEF Written
  <1>2. PICK z, s : z = b[t] \o y /\ s = t \o q
    OBVIOUS
  <1>3. z \in Codes /\ s \in Texts
    BY <1>2 DEF Codes, Texts
  <1> DEFINE V == W \union {<<z, s>>}
  <1>4. V \in SUBSET (Codes \X Texts) /\ <<z, s>> \in V /\ <<y, q>> \in V
    BY <1>1, <1>3
  <1>5. Writing(b, V)
    <2> SUFFICES ASSUME NEW w \in V
                 PROVE  \/ w[1] = << >> /\ w[2] = << >>
                        \/ \E u \in DOMAIN b, e \in Codes, r \in Texts :
                               w[1] = b[u] \o e /\ w[2] = u \o r /\ <<e, r>> \in V
      BY DEF Writing
    <2>1. CASE w = <<z, s>>
      BY <1>2, <1>4, <2>1
    <2>2. CASE w \in W
      BY <1>1, <2>2 DEF Writing
    <2> QED
      BY <2>1, <2>2
  <1> HIDE DEF V
  <1>6. Written(b, z, s)
    BY <1>4, <1>5 DEF Written
  <1> QED
    BY <1>2, <1>6

\* Bits that are a text start with the code of its first token.
LEMMA WrittenStarts ==
    ASSUME NEW b, NEW z, NEW s, Written(b, z, s)
    PROVE  \/ z = << >> /\ s = << >>
           \/ \E t \in DOMAIN b, y \in Codes, q \in Texts :
                  z = b[t] \o y /\ s = t \o q /\ Written(b, y, q)
  <1>1. PICK W \in SUBSET (Codes \X Texts) : <<z, s>> \in W /\ Writing(b, W)
    BY DEF Written
  <1>2. <<z, s>>[1] = z /\ <<z, s>>[2] = s
    OBVIOUS
  <1>3. \/ z = << >> /\ s = << >>
        \/ \E t \in DOMAIN b, y \in Codes, q \in Texts :
               z = b[t] \o y /\ s = t \o q /\ <<y, q>> \in W
    BY <1>1, <1>2 DEF Writing
  <1> QED
    BY <1>1, <1>3 DEF Written
-------------------------------------------------------------------------------
(* The tree built from the codes.                                               *)

Along(p, b) == \E t \in DOMAIN b : IsPrefix(p, b[t])

Growing(f, b) ==
    /\ DOMAIN f \subseteq Codes
    /\ \A p \in DOMAIN f : p = << >> \/ Along(p, b)
    /\ \A p \in DOMAIN f : f[p] = Inner \/ (f[p] \in DOMAIN b /\ b[f[p]] = p)
    /\ \A t \in DOMAIN b : t \in Range(f) =>
            /\ \A p \in Codes : IsPrefix(p, b[t]) => p \in DOMAIN f
            /\ f[b[t]] = t

\* The places buildHuffmanTreeFromCodes goes through are the prefixes of the code.
LEMMA StartingPlaces ==
    ASSUME NEW q \in Codes, NEW p
    PROVE  p \in {SubSeq(q, 1, i) : i \in 0..Len(q)} <=> p \in Codes /\ IsPrefix(p, q)
  <1>1. Len(q) \in Nat
    BY DEF Codes
  <1>2. ASSUME NEW i \in 0..Len(q), p = SubSeq(q, 1, i)
        PROVE  p \in Codes /\ IsPrefix(p, q)
    <2>1. SubSeq(q, 1, i) \in Seq(Bits) /\ Len(SubSeq(q, 1, i)) = i
      BY <1>1 DEF Codes
    <2>2. \A j \in 1..i : SubSeq(q, 1, i)[j] = q[j]
      BY <1>1 DEF Codes
    <2>3. q \in Seq(Bits) /\ i <= Len(q)
      BY <1>1 DEF Codes
    <2>4. p \in Seq(Bits) /\ Len(p) <= Len(q) /\ \A j \in 1..Len(p) : p[j] = q[j]
      BY <1>2, <2>1, <2>2, <2>3
    <2> QED
      BY <2>3, <2>4, PrefixPlaces DEF Codes
  <1>3. ASSUME p \in Codes, IsPrefix(p, q)
        PROVE  \E i \in 0..Len(q) : p = SubSeq(q, 1, i)
    <2>1. Len(p) \in Nat /\ Len(p) <= Len(q) /\ SubSeq(p, 1, Len(p)) = SubSeq(q, 1, Len(p))
      BY <1>3 DEF Codes, IsPrefix
    <2>2. SubSeq(p, 1, Len(p)) = p
      <3>1. p \in Seq(Bits)
        BY <1>3 DEF Codes
      <3> QED
        BY <3>1, SubSeqFull
    <2>3. Len(p) \in 0..Len(q)
      BY <1>1, <2>1
    <2>4. p = SubSeq(q, 1, Len(p))
      BY <2>1, <2>2, Zenon
    <2> QED
      BY <2>3, <2>4, Zenon
  <1> QED
    BY <1>2, <1>3

\* buildHuffmanTreeFromCodes puts a token at the place of its code, and keeps the places of the
\* others.
LEMMA GrownGrows ==
    ASSUME NEW b, Readable(b), DOMAIN b \subseteq Tokens, NEW f, Growing(f, b), NEW t \in DOMAIN b,
           NEW g, g = Grown(f, b[t], t)
    PROVE  Growing(g, b)
  <1> DEFINE code == b[t]
             P == {SubSeq(code, 1, i) : i \in 0..Len(code)}
  <1>1. /\ \A u \in DOMAIN b : b[u] \in Codes
        /\ \A u, v \in DOMAIN b : u # v => ~IsPrefix(b[u], b[v])
        /\ \A u \in DOMAIN b : u # Inner
    BY DEF Readable, Tokens, Inner
  <1>2. code \in Codes
    BY <1>1
  <1>3. /\ DOMAIN g = DOMAIN f \union P
        /\ \A p \in DOMAIN g : g[p] = IF p = code THEN t ELSE IF p \in DOMAIN f THEN f[p] ELSE Inner
    BY DEF Grown
  <1> HIDE DEF code, P
  <1>4. \A p : p \in P <=> p \in Codes /\ IsPrefix(p, code)
    BY <1>2, StartingPlaces DEF P
  <1>5. code \in P
    BY <1>2, <1>4, PrefixOrder DEF Codes
  <1>6. DOMAIN g \subseteq Codes
    BY <1>3, <1>4 DEF Growing
  <1>7. \A p \in DOMAIN g : p = << >> \/ Along(p, b)
    BY <1>3, <1>4 DEF Growing, Along, code
  <1>8. \A p \in DOMAIN g : g[p] = Inner \/ (g[p] \in DOMAIN b /\ b[g[p]] = p)
    BY <1>3 DEF Growing, code
  <1>9. \A u \in DOMAIN b : u # t => b[u] # code
    BY <1>1, PrefixOrder DEF code, Codes
  <1>10. ASSUME NEW u \in DOMAIN b, u \in Range(g)
         PROVE  /\ \A p \in Codes : IsPrefix(p, b[u]) => p \in DOMAIN g
                /\ g[b[u]] = u
    <2>1. CASE u = t
      BY <1>3, <1>4, <1>5, <2>1 DEF code
    <2>2. CASE u # t
      <3>1. PICK p \in DOMAIN g : g[p] = u
        BY <1>10 DEF Range
      <3>2. p \in DOMAIN f /\ f[p] = u
        BY <1>1, <1>3, <2>2, <3>1
      <3>3. /\ \A q \in Codes : IsPrefix(q, b[u]) => q \in DOMAIN f
            /\ f[b[u]] = u
        BY <3>2 DEF Growing, Range
      <3>4. b[u] \in DOMAIN f
        BY <1>1, <3>3, PrefixOrder DEF Codes
      <3> QED
        BY <1>3, <1>9, <2>2, <3>3, <3>4
    <2> QED
      BY <2>1, <2>2
  <1> QED
    BY <1>6, <1>7, <1>8, <1>10 DEF Growing

\* Where all codes have been added, the decoder is at a leaf when it has read a code.
LEMMA LeavesAreCodes ==
    ASSUME NEW b, Readable(b), NEW f, Growing(f, b), DOMAIN b \subseteq Range(f),
           NEW t \in DOMAIN b, NEW p \in Codes, IsPrefix(p, b[t])
    PROVE  p \in DOMAIN f /\ (IsLeaf(f, p) <=> p = b[t]) /\ f[b[t]] = t
  <1>1. /\ \A u \in DOMAIN b : b[u] \in Codes
        /\ \A u, v \in DOMAIN b : u # v => ~IsPrefix(b[u], b[v])
    BY DEF Readable
  <1>2. /\ \A q \in Codes : IsPrefix(q, b[t]) => q \in DOMAIN f
        /\ f[b[t]] = t
    BY DEF Growing
  <1>3. \A c \in Bits : Append(p, c) \in Codes /\ Len(Append(p, c)) = Len(p) + 1
                        /\ Append(p, c) = p \o <<c>> /\ <<c>> \in Codes /\ Len(p) \in Nat
    BY DEF Codes
  <1>4. ASSUME p = b[t], NEW c \in Bits, Append(p, c) \in DOMAIN f
        PROVE  FALSE
    <2> DEFINE e == Append(p, c)
    <2>1. e \in Codes /\ Len(e) = Len(p) + 1 /\ e = p \o <<c>> /\ <<c>> \in Codes /\ Len(p) \in Nat
      BY <1>3
    <2>2. e # << >> /\ e \in DOMAIN f
      BY <1>4, <2>1
    <2> HIDE DEF e
    <2>3. PICK u \in DOMAIN b : IsPrefix(e, b[u])
      BY <2>2 DEF Growing, Along
    <2>4. IsPrefix(p, e)
      BY <2>1, PrefixStarts DEF Codes
    <2>5. IsPrefix(p, b[u])
      BY <1>1, <2>1, <2>3, <2>4, PrefixOrder DEF Codes
    <2>6. u = t
      BY <1>1, <1>4, <2>5
    <2>7. Len(e) <= Len(p)
      BY <1>4, <2>3, <2>6 DEF IsPrefix
    <2> QED
      BY <2>1, <2>7
  <1>5. ASSUME p # b[t]
        PROVE  \E c \in Bits : Append(p, c) \in DOMAIN f
    <2>1. PICK r \in Codes : b[t] = p \o r
      BY <1>1, PrefixStarts DEF Codes
    <2>2. r # << >>
      <3>1. p \o << >> = p
        BY DEF Codes
      <3> QED
        BY <1>5, <2>1, <3>1
    <2>3. PICK c \in Bits, q \in Codes : r = <<c>> \o q
      <3>1. r[1] \in Bits /\ Tail(r) \in Codes /\ r = <<r[1]>> \o Tail(r)
        BY <2>2 DEF Codes
      <3> QED
        BY <3>1
    <2>4. b[t] = Append(p, c) \o q
      <3>1. p \o (<<c>> \o q) = (p \o <<c>>) \o q
        BY ConcatAssociative DEF Codes
      <3> QED
        BY <1>3, <2>1, <2>3, <3>1
    <2>5. IsPrefix(Append(p, c), b[t])
      BY <1>1, <1>3, <2>4, PrefixStarts DEF Codes
    <2> QED
      BY <1>2, <1>3, <2>5
  <1>6. IsLeaf(f, p) <=> \A c \in Bits : Append(p, c) \notin DOMAIN f
    BY DEF IsLeaf, Bits
  <1> QED
    BY <1>2, <1>4, <1>5, <1>6
-------------------------------------------------------------------------------
\* Whatever the rest of the text becomes, the whole of it is x.
Extends(b, d, s, x) == \A z \in Codes : Written(b, z, s) => Written(b, d \o z, x)

\* Writing the code of the next token keeps the bits of the text.
LEMMA CompressedOn ==
    ASSUME NEW b, Readable(b), NEW s \in Texts, s # << >>, NextToken(s) \in DOMAIN b,
           NEW d \in Codes, NEW x, Extends(b, d, s, x)
    PROVE  /\ d \o b[NextToken(s)] \in Codes /\ AfterToken(s) \in Texts
           /\ Extends(b, d \o b[NextToken(s)], AfterToken(s), x)
  <1>1. PICK t, q, c : t = NextToken(s) /\ q = AfterToken(s) /\ c = b[t]
    OBVIOUS
  <1>2. t \in DOMAIN b /\ c \in Codes /\ t \in Texts /\ q \in Texts /\ s = t \o q
    BY <1>1, TokenRead DEF Texts, Tokens, Readable
  <1>3. d \o c \in Codes
    BY <1>2 DEF Codes
  <1>4. ASSUME NEW z \in Codes, Written(b, z, q)
        PROVE  Written(b, (d \o c) \o z, x)
    <2>1. Written(b, c \o z, s)
      BY <1>1, <1>2, <1>4, WrittenMore
    <2>2. c \o z \in Codes
      BY <1>2 DEF Codes
    <2>3. Written(b, d \o (c \o z), x)
      BY <2>1, <2>2 DEF Extends
    <2>4. d \o (c \o z) = (d \o c) \o z
      <3>1. d \in Seq(Bits) /\ c \in Seq(Bits) /\ z \in Seq(Bits)
        BY <1>2 DEF Codes
      <3> QED
        BY <3>1, ConcatAssociative, SMTT(40)
    <2> QED
      BY <2>3, <2>4
  <1>5. Extends(b, d \o c, q, x)
    BY <1>4 DEF Extends
  <1> QED
    BY <1>1, <1>2, <1>3, <1>5

\* What the decoder is left with at p, when the bits y are still to be read.
DecodedTo(b, f, p, y, r) ==
    /\ p \in DOMAIN f /\ p \in Codes /\ y \in Codes
    /\ IsLeaf(f, p) => \E q \in Texts : /\ f[p] \in Texts /\ r = f[p] \o q
                                         /\ Written(b, y, q)
    /\ ~IsLeaf(f, p) => /\ Written(b, p \o y, r)
                        /\ \A t \in DOMAIN b : ~IsPrefix(b[t], p)

\* One bit takes the decoder further along a code, or to the end of one.
LEMMA DecodedOn ==
    ASSUME NEW b, Readable(b), DOMAIN b \subseteq Tokens, NEW f, Growing(f, b), DOMAIN b \subseteq Range(f),
           NEW a \in Codes, \A t \in DOMAIN b : ~IsPrefix(b[t], a),
           NEW z \in Codes, z # << >>, NEW r \in Texts, Written(b, a \o z, r)
    PROVE  DecodedTo(b, f, Append(a, Head(z)), Tail(z), r)
  <1>0. PICK p : p = Append(a, Head(z))
    OBVIOUS
  <1>1. PICK c, y : c = Head(z) /\ y = Tail(z)
    OBVIOUS
  <1>2. /\ c \in Bits /\ y \in Codes /\ z = <<c>> \o y /\ <<c>> \in Codes
        /\ p \in Codes /\ p = a \o <<c>> /\ Len(p) = Len(a) + 1 /\ Len(a) \in Nat
    BY <1>0, <1>1 DEF Codes
  <1>3. a \o z = p \o y
    BY <1>2, ConcatAssociative, SMTT(40) DEF Codes
  <1>4. p \o y # << >>
    <2>1. Len(p \o y) = Len(p) + Len(y) /\ Len(y) \in Nat
      BY <1>2 DEF Codes
    <2> QED
      BY <1>2, <2>1
  <1>5. PICK t \in DOMAIN b, e \in Codes, q \in Texts :
            p \o y = b[t] \o e /\ r = t \o q /\ Written(b, e, q)
    <2> DEFINE x == p \o y
    <2>1. Written(b, x, r) /\ x # << >>
      BY <1>3, <1>4
    <2> HIDE DEF x
    <2>2. \E t \in DOMAIN b, e \in Codes, q \in Texts : x = b[t] \o e /\ r = t \o q /\ Written(b, e, q)
      BY <2>1, WrittenStarts, SMTT(40)
    <2> QED
      BY <2>2 DEF x
  <1>6. /\ \A u \in DOMAIN b : b[u] \in Codes
        /\ \A u, v \in DOMAIN b : u # v => ~IsPrefix(b[u], b[v])
        /\ t \in Texts
    BY DEF Readable, Tokens, Texts
  <1>7. IsPrefix(p, b[t]) \/ IsPrefix(b[t], p)
    BY <1>2, <1>5, <1>6, PrefixesCompare DEF Codes
  <1>8. \A u \in DOMAIN b : IsPrefix(b[u], p) => b[u] = p
    <2> SUFFICES ASSUME NEW u \in DOMAIN b, IsPrefix(b[u], p) PROVE b[u] = p
      OBVIOUS
    <2>1. b[u] \in Seq(Bits) /\ p \in Seq(Bits) /\ a \in Seq(Bits) /\ <<c>> \in Seq(Bits)
      BY <1>2, <1>6 DEF Codes
    <2>2. Len(b[u]) \in Nat /\ Len(b[u]) <= Len(p) /\ \A i \in 1..Len(b[u]) : b[u][i] = p[i]
      <3>1. \A g, h \in Seq(Bits) : IsPrefix(g, h) =>
                Len(g) \in Nat /\ Len(g) <= Len(h) /\ \A i \in 1..Len(g) : g[i] = h[i]
        BY PrefixPlaces
      <3> QED
        BY <2>1, <3>1, Zenon
    <2>3. IsPrefix(a, p)
      BY <1>2, <2>1, PrefixStarts
    <2>4. \A i \in 1..Len(a) : a[i] = p[i]
      BY <2>1, <2>3, PrefixPlaces
    <2>5. ~(Len(b[u]) <= Len(a))
      <3> SUFFICES ASSUME Len(b[u]) <= Len(a) PROVE FALSE
        OBVIOUS
      <3>1. \A i \in 1..Len(b[u]) : b[u][i] = a[i]
        BY <1>2, <2>2, <2>4
      <3>2. IsPrefix(b[u], a)
        BY <2>1, <3>1, PrefixPlaces
      <3> QED
        BY <3>2
    <2>6. Len(b[u]) = Len(p)
      BY <1>2, <2>2, <2>5
    <2> QED
      BY <2>1, <2>2, <2>6, SeqEqual
  <1>9. IsPrefix(p, b[t])
    BY <1>2, <1>7, <1>8, PrefixOrder DEF Codes
  <1>10. p \in DOMAIN f /\ (IsLeaf(f, p) <=> p = b[t]) /\ f[b[t]] = t
    <2>1. p \in Codes
      BY <1>2
    <2> QED
      BY <1>9, <2>1, LeavesAreCodes
  <1>11. ASSUME IsLeaf(f, p)
         PROVE  \E w \in Texts : f[p] \in Texts /\ r = f[p] \o w /\ Written(b, y, w)
    <2>1. p = b[t] /\ f[p] = t
      BY <1>10, <1>11
    <2>2. y = e
      <3>1. p \o y = p \o e /\ p \in Seq(Bits) /\ y \in Seq(Bits) /\ e \in Seq(Bits)
        BY <1>2, <1>5, <2>1 DEF Codes
      <3> HIDE <1>1
      <3> QED
        BY <3>1, ConcatSimplifications
    <2> QED
      BY <1>5, <1>6, <2>1, <2>2
  <1>12. ASSUME ~IsLeaf(f, p)
         PROVE  \A u \in DOMAIN b : ~IsPrefix(b[u], p)
    <2> SUFFICES ASSUME NEW u \in DOMAIN b, IsPrefix(b[u], p) PROVE FALSE
      OBVIOUS
    <2>1. b[u] = p
      BY <1>8
    <2>2. u = t
      BY <1>6, <1>9, <2>1
    <2> QED
      BY <1>10, <1>12, <2>1, <2>2
  <1>13. DecodedTo(b, f, p, y, r)
    BY <1>2, <1>3, <1>5, <1>10, <1>11, <1>12 DEF DecodedTo
  <1> QED
    BY <1>0, <1>1, <1>13
-------------------------------------------------------------------------------
(* The inductive invariant, phase by phase.                                     *)

Files == /\ corpus \in Seq(Texts) /\ text \in Texts
         /\ text \in Range(corpus) \/ text \in Strangers

Untouched == /\ phase \in {"count", "merge"} => coded = << >>
             /\ phase \in {"count", "merge", "compress", "build"} => star = << >> /\ output = << >>

\* What has not been counted of a file is still to be read.
Counting ==
    phase = "count" =>
        /\ taken = << >> /\ unread \in Seq(Texts)
        /\ \A x \in Range(corpus) : Reached(DOMAIN tally, x, Range(unread))

Merging ==
    phase = "merge" =>
        /\ Pool(heap, taken, tally)
        /\ \A x \in Range(corpus) : Reached(DOMAIN tally, x, {})

Booked == Coded => Readable(book) /\ DOMAIN book = DOMAIN tally

\* The bits written so far and those of the unread text are those of the text.
Compressing ==
    phase = "compress" =>
        \E s \in Texts : /\ unread = <<s>> /\ coded \in Codes
                         /\ Extends(book, coded, s, text)
                         /\ text \in Range(corpus) => Reached(DOMAIN tally, s, {})

Building ==
    phase \in {"build", "decompress"} =>
        /\ coded \in Codes /\ Written(book, coded, text)
        /\ \A t \in DOMAIN book : book[t] # << >>
        /\ Growing(trie, book)

\* The path of the decoder and the bits it has not read are those of the text it
\* has not written; it is not past a code.
Decompressing ==
    phase = "decompress" =>
        /\ DOMAIN book \subseteq Range(trie) /\ star \in Codes
        /\ \A t \in DOMAIN book : ~IsPrefix(book[t], star)
        /\ \E z \in Codes, r \in Texts : /\ unread = <<z>> /\ Written(book, star \o z, r)
                                         /\ output \in Texts /\ output \o r = text

Faulted == phase = "fault" /\ text \in Range(corpus) => Cardinality(DOMAIN tally) < 2

HuffmanInv ==
    /\ phase \in Phases /\ Files /\ Tallied(tally) /\ Untouched
    /\ Counting /\ Merging /\ Booked /\ Compressing /\ Building /\ Decompressing
    /\ RoundTrip /\ Faulted

\* The elements of a sequence with one more in front.
LEMMA HeadedRange ==
    ASSUME NEW S, NEW x \in S, NEW s \in Seq(S)
    PROVE  <<x>> \o s \in Seq(S) /\ Range(<<x>> \o s) = {x} \union Range(s)
  <1> DEFINE e == <<x>> \o s
  <1>1. /\ e \in Seq(S) /\ Len(s) \in Nat /\ Len(e) = Len(s) + 1 /\ e[1] = x
        /\ \A i \in 1..Len(s) : e[i + 1] = s[i]
    OBVIOUS
  <1> HIDE DEF e
  <1>2. \A y : y \in Range(s) <=> \E i \in 1..Len(s) : s[i] = y
    BY RangeIs
  <1>3. \A y : y \in Range(e) <=> \E i \in 1..Len(e) : e[i] = y
    BY <1>1, RangeIs
  <1>4. ASSUME NEW y \in Range(e)
        PROVE  y = x \/ y \in Range(s)
    <2>1. PICK i \in 1..Len(e) : e[i] = y
      BY <1>3
    <2>2. CASE i = 1
      BY <1>1, <2>1, <2>2
    <2>3. CASE i # 1
      <3>1. i - 1 \in 1..Len(s) /\ (i - 1) + 1 = i
        BY <1>1, <2>3
      <3>2. s[i - 1] = y
        BY <1>1, <2>1, <3>1
      <3> QED
        BY <1>2, <3>1, <3>2
    <2> QED
      BY <2>2, <2>3
  <1>5. x \in Range(e)
    <2>1. 1 \in 1..Len(e)
      BY <1>1
    <2> QED
      BY <1>1, <1>3, <2>1
  <1>6. ASSUME NEW y \in Range(s)
        PROVE  y \in Range(e)
    <2>1. PICK i \in 1..Len(s) : s[i] = y
      BY <1>2
    <2>2. i + 1 \in 1..Len(e) /\ e[i + 1] = y
      BY <1>1, <2>1
    <2> QED
      BY <1>3, <2>2
  <1> QED
    BY <1>1, <1>4, <1>5, <1>6 DEF e

\* Counting a token adds it to the tokens that have a count.
LEMMA IncrementedTallied ==
    ASSUME NEW c, Tallied(c), NEW t \in Tokens
    PROVE  DOMAIN Incremented(c, t) = DOMAIN c \union {t} /\ Tallied(Incremented(c, t))
  <1> DEFINE e == Incremented(c, t)
  <1>1. /\ DOMAIN e = DOMAIN c \union {t} /\ e = [u \in DOMAIN e |-> e[u]]
        /\ \A u \in DOMAIN e : e[u] = (IF u \in DOMAIN c THEN c[u] ELSE 0) + (IF u = t THEN 1 ELSE 0)
    BY DEF Incremented
  <1> HIDE DEF e
  <1>2. \A u \in DOMAIN e : e[u] \in Nat
    BY <1>1 DEF Tallied
  <1>3. e \in [DOMAIN e -> Nat]
    BY <1>1, <1>2
  <1>4. IsFiniteSet(DOMAIN e) /\ DOMAIN e \subseteq Tokens
    BY <1>1, FS_AddElement DEF Tallied
  <1> QED
    BY <1>1, <1>3, <1>4 DEF Tallied, e

\* The invariant holds at the start; below, one lemma for each step of the program.
LEMMA InitHolds == HuffmanInit => HuffmanInv
  <1> SUFFICES ASSUME HuffmanInit PROVE HuffmanInv
    OBVIOUS
  <1>1. /\ corpus \in Seq(Texts) /\ phase = "count" /\ unread = corpus /\ taken = << >>
        /\ coded = << >> /\ star = << >> /\ output = << >> /\ tally = Empty
        /\ text \in Range(corpus) \union Strangers
    BY HuffmanAssumption DEF HuffmanInit, Texts
  <1>2. Range(corpus) \subseteq Texts
    BY <1>1, RangeIs
  <1>3. Files
    BY <1>1, <1>2, HuffmanAssumption DEF Files, Texts
  <1>4. Tallied(tally)
    <2>1. DOMAIN Empty = {} /\ Empty = [t \in {} |-> Empty[t]]
      BY DEF Empty
    <2> QED
      BY <1>1, <2>1, FS_EmptySet DEF Tallied
  <1>5. Counting
    BY <1>1, <1>2, ReachedUnread DEF Counting
  <1>6. Untouched /\ Merging /\ Booked /\ Compressing /\ Building /\ Decompressing /\ RoundTrip /\ Faulted
    BY <1>1 DEF Untouched, Merging, Booked, Coded, Compressing, Building, Decompressing, RoundTrip, Faulted
  <1> QED
    BY <1>1, <1>3, <1>4, <1>5, <1>6 DEF HuffmanInv, Phases

LEMMA CountTokenHolds == HuffmanInv /\ CountToken => HuffmanInv'
  <1> SUFFICES ASSUME HuffmanInv, CountToken PROVE HuffmanInv'
    OBVIOUS
  <1>1. /\ phase = "count" /\ unread # << >> /\ phase' = "count"
        /\ corpus' = corpus /\ text' = text /\ taken' = taken /\ coded' = coded /\ star' = star /\ output' = output
    BY DEF CountToken
  <1>2. /\ Files /\ Tallied(tally) /\ Untouched /\ taken = << >> /\ unread \in Seq(Texts)
        /\ \A x \in Range(corpus) : Reached(DOMAIN tally, x, Range(unread))
    BY <1>1 DEF HuffmanInv, Counting
  <1>3. PICK h : h = Head(unread)
    OBVIOUS
  <1>4. h \in Texts /\ Tail(unread) \in Seq(Texts) /\ unread = <<h>> \o Tail(unread)
    BY <1>1, <1>2, <1>3
  <1>5. \A x : x \in Range(unread) <=> x = h \/ x \in Range(Tail(unread))
    <2>1. Range(<<h>> \o Tail(unread)) = {h} \union Range(Tail(unread))
      BY <1>4, HeadedRange
    <2> QED
      BY <1>4, <2>1
  <1>6. Tallied(tally') /\ Counting'
    <2>1. CASE h = << >>
      <3>1. unread' = Tail(unread) /\ tally' = tally
        BY <1>1, <1>3, <2>1 DEF CountToken
      <3>2. \A x \in Range(corpus) : Reached(DOMAIN tally, x, Range(unread'))
        BY <1>2, <1>5, <2>1, <3>1, ReachedDrops
      <3> QED
        BY <1>1, <1>2, <1>4, <3>1, <3>2 DEF Counting
    <2>2. CASE h # << >>
      <3>1. PICK t, q : t = NextToken(h) /\ q = AfterToken(h)
        OBVIOUS
      <3>2. t \in Tokens /\ q \in Texts
        BY <1>4, <2>2, <3>1, TokenRead DEF Texts
      <3>3. unread' = <<q>> \o Tail(unread) /\ tally' = Incremented(tally, t)
        BY <1>1, <1>3, <2>2, <3>1 DEF CountToken
      <3>4. /\ DOMAIN tally' = DOMAIN tally \union {t} /\ Tallied(tally')
        BY <1>2, <3>2, <3>3, IncrementedTallied
      <3>5. unread' \in Seq(Texts) /\ Range(unread') = {q} \union Range(Tail(unread))
        BY <1>4, <3>2, <3>3, HeadedRange, ZenonT(40)
      <3>6. \A x \in Range(corpus) : Reached(DOMAIN tally', x, Range(unread'))
        <4> DEFINE T == DOMAIN tally
                   U == DOMAIN tally'
                   Q == Range(unread)
                   P == Range(unread')
        <4>1. /\ NextToken(h) \in U /\ T \subseteq U /\ AfterToken(h) \in P
              /\ \A y \in Q : y # h => y \in P
          BY <1>5, <3>1, <3>4, <3>5
        <4>2. \A x \in Range(corpus) : Reached(T, x, Q)
          BY <1>2
        <4> HIDE DEF T, U, P, Q
        <4>3. \A x \in Range(corpus) : Reached(U, x, P)
          BY <1>4, <2>2, <4>1, <4>2, ReachedCounts
        <4> QED
          BY <4>3 DEF U, P
      <3> QED
        BY <1>1, <1>2, <3>4, <3>5, <3>6 DEF Counting
    <2> QED
      BY <2>1, <2>2
  <1>7. /\ Files' /\ Untouched'
    BY <1>1, <1>2 DEF Files, Untouched
  <1>8. Merging' /\ Booked' /\ Compressing' /\ Building' /\ Decompressing' /\ RoundTrip' /\ Faulted'
    BY <1>1 DEF Merging, Booked, Coded, Compressing, Building, Decompressing, RoundTrip, Faulted
  <1> QED
    BY <1>1, <1>6, <1>7, <1>8 DEF HuffmanInv, Phases
-------------------------------------------------------------------------------
LEMMA SortHolds == HuffmanInv /\ Sort => HuffmanInv'
  <1> SUFFICES ASSUME HuffmanInv, Sort PROVE HuffmanInv'
    OBVIOUS
  <1>1. /\ phase = "count" /\ unread = << >>
        /\ corpus' = corpus /\ text' = text /\ tally' = tally /\ taken' = taken
        /\ coded' = coded /\ star' = star /\ output' = output
    BY DEF Sort
  <1>2. /\ Files /\ Tallied(tally) /\ Untouched /\ taken = << >>
        /\ \A x \in Range(corpus) : Reached(DOMAIN tally, x, Range(unread))
    BY <1>1 DEF HuffmanInv, Counting
  <1>3. Files' /\ Tallied(tally')
    BY <1>1, <1>2 DEF Files
  <1>4. CASE tally = Empty
    <2>1. phase' = "fault"
      BY <1>4 DEF Sort
    <2>2. DOMAIN tally' = {}
      BY <1>1, <1>4 DEF Empty
    <2>3. Faulted'
      BY <2>2, FS_EmptySet DEF Faulted
    <2>4. /\ Untouched' /\ Counting' /\ Merging' /\ Booked' /\ Compressing' /\ Building' /\ Decompressing'
          /\ RoundTrip'
      BY <2>1 DEF Untouched, Counting, Merging, Booked, Coded, Compressing, Building, Decompressing, RoundTrip
    <2> QED
      BY <1>3, <2>1, <2>3, <2>4 DEF HuffmanInv, Phases
  <1>5. CASE tally # Empty
    <2>1. phase' = "merge" /\ heap' \in Sortings
      BY <1>5 DEF Sort
    <2>2. DOMAIN tally # {}
      BY <1>2, <1>5 DEF Tallied, Empty
    <2>3. Pool(heap', << >>, tally)
      BY <1>2, <2>1, <2>2, SortingsPool
    <2>4. Range(unread) = {}
      BY <1>1 DEF Range
    <2>5. Merging'
      BY <1>1, <1>2, <2>3, <2>4 DEF Merging
    <2>6. Untouched'
      BY <1>1, <1>2, <2>1 DEF Untouched
    <2>7. Counting' /\ Booked' /\ Compressing' /\ Building' /\ Decompressing' /\ RoundTrip' /\ Faulted'
      BY <2>1 DEF Counting, Booked, Coded, Compressing, Building, Decompressing, RoundTrip, Faulted
    <2> QED
      BY <1>3, <2>1, <2>5, <2>6, <2>7 DEF HuffmanInv, Phases
  <1> QED
    BY <1>4, <1>5

LEMMA TakeLeastHolds == HuffmanInv /\ TakeLeast => HuffmanInv'
  <1> SUFFICES ASSUME HuffmanInv, TakeLeast PROVE HuffmanInv'
    OBVIOUS
  <1>1. /\ phase = "merge" /\ phase' = "merge" /\ Len(taken) < 2 /\ (taken = << >> => Len(heap) # 1)
        /\ taken' = Append(taken, heap[1]) /\ heap' = WithoutMin(heap)
        /\ corpus' = corpus /\ text' = text /\ tally' = tally
        /\ coded' = coded /\ star' = star /\ output' = output
    BY DEF TakeLeast, MinNode
  <1>2. /\ Files /\ Tallied(tally) /\ Untouched /\ Pool(heap, taken, tally)
        /\ \A x \in Range(corpus) : Reached(DOMAIN tally, x, {})
    BY <1>1 DEF HuffmanInv, Merging
  <1>3. Pool(heap', taken', tally)
    BY <1>1, <1>2, PoolTakes
  <1>4. Merging'
    BY <1>1, <1>2, <1>3 DEF Merging
  <1>5. Files' /\ Tallied(tally') /\ Untouched'
    BY <1>1, <1>2 DEF Files, Untouched
  <1>6. Counting' /\ Booked' /\ Compressing' /\ Building' /\ Decompressing' /\ RoundTrip' /\ Faulted'
    BY <1>1 DEF Counting, Booked, Coded, Compressing, Building, Decompressing, RoundTrip, Faulted
  <1> QED
    BY <1>1, <1>4, <1>5, <1>6 DEF HuffmanInv, Phases

LEMMA MergeHolds == HuffmanInv /\ Merge => HuffmanInv'
  <1> SUFFICES ASSUME HuffmanInv, Merge PROVE HuffmanInv'
    OBVIOUS
  <1>1. /\ phase = "merge" /\ phase' = "merge" /\ Len(taken) = 2
        /\ taken' = << >> /\ heap' = Inserted(heap, Merged(taken))
        /\ corpus' = corpus /\ text' = text /\ tally' = tally
        /\ coded' = coded /\ star' = star /\ output' = output
    BY DEF Merge
  <1>2. /\ Files /\ Tallied(tally) /\ Untouched /\ Pool(heap, taken, tally)
        /\ \A x \in Range(corpus) : Reached(DOMAIN tally, x, {})
    BY <1>1 DEF HuffmanInv, Merging
  <1>3. Pool(heap', taken', tally)
    BY <1>1, <1>2, PoolMerges
  <1>4. Merging'
    BY <1>1, <1>2, <1>3 DEF Merging
  <1>5. Files' /\ Tallied(tally') /\ Untouched'
    BY <1>1, <1>2 DEF Files, Untouched
  <1>6. Counting' /\ Booked' /\ Compressing' /\ Building' /\ Decompressing' /\ RoundTrip' /\ Faulted'
    BY <1>1 DEF Counting, Booked, Coded, Compressing, Building, Decompressing, RoundTrip, Faulted
  <1> QED
    BY <1>1, <1>4, <1>5, <1>6 DEF HuffmanInv, Phases

\* The last node has the tokens that were counted.
LEMMA LastNode ==
    ASSUME NEW c, NEW h, Pool(h, << >>, c), Len(h) = 1
    PROVE  h[1].tree \in Trees /\ TokensIn(h[1].tree) = DOMAIN c
  <1>1. h \in Seq(Nodes) /\ Forest(Range(h) \union Range(<< >>), c)
    BY DEF Pool
  <1>2. \A i : i \in 1..Len(h) <=> i = 1
    OBVIOUS
  <1>3. h[1] \in Nodes /\ \A x : x \in Range(h) <=> x = h[1]
    BY <1>1, <1>2, RangeIs
  <1>4. Range(<< >>) = {}
    BY DEF Range
  <1>5. \A t : t \in DOMAIN c <=> t \in TokensIn(h[1].tree)
    BY <1>1, <1>3, <1>4 DEF Forest
  <1> QED
    BY <1>3, <1>5 DEF Nodes

LEMMA ExportHolds == HuffmanInv /\ Export => HuffmanInv'
  <1> SUFFICES ASSUME HuffmanInv, Export PROVE HuffmanInv'
    OBVIOUS
  <1>1. /\ phase = "merge" /\ phase' = "compress" /\ taken = << >> /\ Len(heap) = 1
        /\ book' = BookOf(heap[1].tree) /\ unread' = <<text>>
        /\ corpus' = corpus /\ text' = text /\ tally' = tally
        /\ coded' = coded /\ star' = star /\ output' = output
    BY DEF Export
  <1>2. /\ Files /\ Tallied(tally) /\ Untouched /\ Pool(heap, << >>, tally)
        /\ \A x \in Range(corpus) : Reached(DOMAIN tally, x, {})
    BY <1>1 DEF HuffmanInv, Merging
  <1>3. Readable(book') /\ DOMAIN book' = DOMAIN tally
    BY <1>1, <1>2, LastNode, BookReadable
  <1>4. Booked'
    BY <1>1, <1>3 DEF Booked
  <1>5. coded = << >> /\ text \in Texts
    BY <1>1, <1>2 DEF Untouched, Files
  <1>6. Extends(book', << >>, text, text)
    <2>1. \A z \in Codes : << >> \o z = z
      BY DEF Codes
    <2> QED
      BY <2>1 DEF Extends
  <1>7. << >> \in Codes
    BY DEF Codes
  <1>8. Compressing'
    <2> SUFFICES /\ unread' = <<text>> /\ coded' \in Codes /\ Extends(book', coded', text, text)
                 /\ text \in Range(corpus) => Reached(DOMAIN tally, text, {})
      BY <1>1, <1>5 DEF Compressing
    <2> QED
      BY <1>1, <1>2, <1>5, <1>6, <1>7
  <1>9. Files' /\ Tallied(tally') /\ Untouched'
    BY <1>1, <1>2 DEF Files, Untouched
  <1>10. Counting' /\ Merging' /\ Building' /\ Decompressing' /\ RoundTrip' /\ Faulted'
    BY <1>1 DEF Counting, Merging, Building, Decompressing, RoundTrip, Faulted
  <1> QED
    BY <1>1, <1>4, <1>8, <1>9, <1>10 DEF HuffmanInv, Phases

LEMMA CompressTokenHolds == HuffmanInv /\ CompressToken => HuffmanInv'
  <1> SUFFICES ASSUME HuffmanInv, CompressToken PROVE HuffmanInv'
    OBVIOUS
  <1>1. /\ phase = "compress" /\ unread # << << >> >>
        /\ corpus' = corpus /\ text' = text /\ tally' = tally /\ book' = book
        /\ star' = star /\ output' = output
    BY DEF CompressToken
  <1>2. /\ Files /\ Tallied(tally) /\ Untouched /\ Readable(book) /\ DOMAIN book = DOMAIN tally
    BY <1>1 DEF HuffmanInv, Booked, Coded
  <1>3. PICK s \in Texts : /\ unread = <<s>> /\ coded \in Codes /\ Extends(book, coded, s, text)
                           /\ text \in Range(corpus) => Reached(DOMAIN tally, s, {})
    BY <1>1 DEF HuffmanInv, Compressing
  <1>4. unread[1] = s /\ s # << >>
    BY <1>1, <1>3
  <1>5. PICK t, q : t = NextToken(s) /\ q = AfterToken(s)
    OBVIOUS
  <1>6. text \in Range(corpus) => t \in DOMAIN book /\ Reached(DOMAIN tally, q, {})
    BY <1>2, <1>3, <1>4, <1>5, ReachedNext
  <1>7. Files' /\ Tallied(tally')
    BY <1>1, <1>2 DEF Files
  <1>8. CASE t \in DOMAIN book
    <2>1. phase' = "compress" /\ coded' = coded \o book[t] /\ unread' = <<q>>
      BY <1>4, <1>5, <1>8 DEF CompressToken
    <2>2. coded' \in Codes /\ q \in Texts /\ Extends(book, coded', q, text)
      BY <1>2, <1>3, <1>4, <1>5, <1>8, <2>1, CompressedOn
    <2>3. Compressing'
      BY <1>1, <1>6, <2>1, <2>2 DEF Compressing
    <2>4. Untouched' /\ Booked'
      BY <1>1, <1>2, <2>1 DEF Untouched, Booked
    <2>5. Counting' /\ Merging' /\ Building' /\ Decompressing' /\ RoundTrip' /\ Faulted'
      BY <2>1 DEF Counting, Merging, Building, Decompressing, RoundTrip, Faulted
    <2> QED
      BY <1>7, <2>1, <2>3, <2>4, <2>5 DEF HuffmanInv, Phases
  <1>9. CASE t \notin DOMAIN book
    <2>1. phase' = "fault" /\ ~(text \in Range(corpus))
      BY <1>4, <1>5, <1>6, <1>9 DEF CompressToken
    <2>2. Faulted'
      BY <1>1, <2>1 DEF Faulted
    <2>3. /\ Untouched' /\ Counting' /\ Merging' /\ Booked' /\ Compressing' /\ Building' /\ Decompressing'
          /\ RoundTrip'
      BY <2>1 DEF Untouched, Counting, Merging, Booked, Coded, Compressing, Building, Decompressing, RoundTrip
    <2> QED
      BY <1>7, <2>1, <2>2, <2>3 DEF HuffmanInv, Phases
  <1> QED
    BY <1>8, <1>9

LEMMA LoadBookHolds == HuffmanInv /\ LoadBook => HuffmanInv'
  <1> SUFFICES ASSUME HuffmanInv, LoadBook PROVE HuffmanInv'
    OBVIOUS
  <1>1. /\ phase = "compress" /\ unread = << << >> >>
        /\ phase' = IF \E t \in DOMAIN book : book[t] = << >> THEN "fault" ELSE "build"
        /\ trie' = Alone(Inner)
        /\ corpus' = corpus /\ text' = text /\ tally' = tally /\ book' = book /\ coded' = coded
        /\ star' = star /\ output' = output
    BY DEF LoadBook
  <1>2. /\ Files /\ Tallied(tally) /\ Untouched /\ Readable(book) /\ DOMAIN book = DOMAIN tally
    BY <1>1 DEF HuffmanInv, Booked, Coded
  <1>3. Files' /\ Tallied(tally')
    BY <1>1, <1>2 DEF Files
  <1>4. CASE \E t \in DOMAIN book : book[t] = << >>
    <2>1. phase' = "fault"
      BY <1>1, <1>4
    <2>2. PICK t : DOMAIN tally = {t}
      BY <1>2, <1>4 DEF Readable
    <2>3. Cardinality(DOMAIN tally) = 1
      BY <2>2, FS_Singleton
    <2>4. Faulted'
      BY <1>1, <2>3 DEF Faulted
    <2>5. /\ Untouched' /\ Counting' /\ Merging' /\ Booked' /\ Compressing' /\ Building' /\ Decompressing'
          /\ RoundTrip'
      BY <2>1 DEF Untouched, Counting, Merging, Booked, Coded, Compressing, Building, Decompressing, RoundTrip
    <2> QED
      BY <1>3, <2>1, <2>4, <2>5 DEF HuffmanInv, Phases
  <1>5. CASE ~(\E t \in DOMAIN book : book[t] = << >>)
    <2>1. phase' = "build"
      BY <1>1, <1>5
    <2>2. PICK s \in Texts : unread = <<s>> /\ coded \in Codes /\ Extends(book, coded, s, text)
      BY <1>1 DEF HuffmanInv, Compressing
    <2>3. Written(book, coded, text)
      <3>1. s = << >>
        BY <1>1, <2>2
      <3>2. Written(book, << >>, << >>)
        BY WrittenNothing
      <3>3. << >> \in Codes /\ coded \o << >> = coded
        BY <2>2 DEF Codes
      <3>4. Written(book, coded \o << >>, text)
        BY <2>2, <3>1, <3>2, <3>3 DEF Extends
      <3> QED
        BY <3>3, <3>4
    <2>4. Growing(trie', book)
      <3>1. DOMAIN trie' = {<< >>} /\ trie'[<< >>] = Inner /\ << >> \in Codes
        BY <1>1 DEF Alone, Codes
      <3>2. Range(trie') = {Inner}
        BY <3>1 DEF Range
      <3>3. Inner \notin DOMAIN book
        BY <1>2 DEF Tallied, Tokens, Inner
      <3> QED
        BY <3>1, <3>2, <3>3 DEF Growing
    <2>5. Building'
      BY <1>1, <1>5, <2>2, <2>3, <2>4 DEF Building
    <2>6. Untouched' /\ Booked'
      BY <1>1, <1>2, <2>1 DEF Untouched, Booked
    <2>7. Counting' /\ Merging' /\ Compressing' /\ Decompressing' /\ RoundTrip' /\ Faulted'
      BY <2>1 DEF Counting, Merging, Compressing, Decompressing, RoundTrip, Faulted
    <2> QED
      BY <1>3, <2>1, <2>5, <2>6, <2>7 DEF HuffmanInv, Phases
  <1> QED
    BY <1>4, <1>5

LEMMA AddCodeHolds == HuffmanInv /\ AddCode => HuffmanInv'
  <1> SUFFICES ASSUME HuffmanInv, AddCode PROVE HuffmanInv'
    OBVIOUS
  <1>1. /\ phase = "build" /\ phase' = "build"
        /\ corpus' = corpus /\ text' = text /\ tally' = tally /\ book' = book /\ coded' = coded
        /\ star' = star /\ output' = output
    BY DEF AddCode
  <1>2. /\ Files /\ Tallied(tally) /\ Untouched /\ Readable(book) /\ DOMAIN book = DOMAIN tally
        /\ coded \in Codes /\ Written(book, coded, text)
        /\ \A t \in DOMAIN book : book[t] # << >>
        /\ Growing(trie, book)
    BY <1>1 DEF HuffmanInv, Booked, Coded, Building
  <1>3. PICK t \in DOMAIN book : trie' = Grown(trie, book[t], t)
    BY DEF AddCode
  <1>4. Growing(trie', book)
    BY <1>2, <1>3, GrownGrows DEF Tallied
  <1>5. Building'
    BY <1>1, <1>2, <1>4 DEF Building
  <1>6. Files' /\ Tallied(tally') /\ Untouched' /\ Booked'
    BY <1>1, <1>2 DEF Files, Untouched, Booked
  <1>7. Counting' /\ Merging' /\ Compressing' /\ Decompressing' /\ RoundTrip' /\ Faulted'
    BY <1>1 DEF Counting, Merging, Compressing, Decompressing, RoundTrip, Faulted
  <1> QED
    BY <1>1, <1>5, <1>6, <1>7 DEF HuffmanInv, Phases

LEMMA StartDecompressHolds == HuffmanInv /\ StartDecompress => HuffmanInv'
  <1> SUFFICES ASSUME HuffmanInv, StartDecompress PROVE HuffmanInv'
    OBVIOUS
  <1>1. /\ phase = "build" /\ phase' = "decompress" /\ DOMAIN book \subseteq Range(trie) /\ unread' = <<coded>>
        /\ corpus' = corpus /\ text' = text /\ tally' = tally /\ book' = book /\ coded' = coded
        /\ trie' = trie /\ star' = star /\ output' = output
    BY DEF StartDecompress
  <1>2. /\ Files /\ Tallied(tally) /\ star = << >> /\ output = << >>
        /\ Readable(book) /\ DOMAIN book = DOMAIN tally
        /\ coded \in Codes /\ Written(book, coded, text)
        /\ \A t \in DOMAIN book : book[t] # << >>
        /\ Growing(trie, book)
    BY <1>1 DEF HuffmanInv, Booked, Coded, Building, Untouched
  <1>3. /\ << >> \in Codes /\ << >> \in Texts /\ << >> \o coded = coded /\ << >> \o text = text
    BY <1>2 DEF Codes, Texts, Files
  <1>4. \A t \in DOMAIN book : ~IsPrefix(book[t], << >>)
    BY <1>2, PrefixOrder DEF Readable, Codes
  <1>5. Decompressing'
    <2> SUFFICES /\ DOMAIN book \subseteq Range(trie) /\ << >> \in Codes
                 /\ \A t \in DOMAIN book : ~IsPrefix(book[t], << >>)
                 /\ \E z \in Codes, r \in Texts : /\ <<coded>> = <<z>> /\ Written(book, << >> \o z, r)
                                                  /\ << >> \in Texts /\ << >> \o r = text
      BY <1>1, <1>2 DEF Decompressing
    <2>1. text \in Texts
      BY <1>2 DEF Files
    <2> QED
      BY <1>1, <1>2, <1>3, <1>4, <2>1
  <1>6. Building' /\ Booked' /\ Files' /\ Tallied(tally')
    BY <1>1, <1>2 DEF Building, Booked, Files
  <1>7. Untouched' /\ Counting' /\ Merging' /\ Compressing' /\ RoundTrip' /\ Faulted'
    BY <1>1 DEF Untouched, Counting, Merging, Compressing, RoundTrip, Faulted
  <1> QED
    BY <1>1, <1>5, <1>6, <1>7 DEF HuffmanInv, Phases
-------------------------------------------------------------------------------
\* What a step of the decoder has to leave.
LEMMA DecompressedOn ==
    ASSUME HuffmanInv, phase = "decompress", phase' = "decompress",
           corpus' = corpus, text' = text, tally' = tally, book' = book, coded' = coded, trie' = trie,
           star' \in Codes, \A t \in DOMAIN book : ~IsPrefix(book[t], star'),
           NEW z \in Codes, NEW r \in Texts, unread' = <<z>>, Written(book, star' \o z, r),
           output' \in Texts, output' \o r = text
    PROVE  HuffmanInv'
  <1>1. Decompressing'
    BY DEF HuffmanInv, Decompressing
  <1>2. Files' /\ Tallied(tally') /\ Booked' /\ Building'
    BY DEF HuffmanInv, Files, Booked, Coded, Building
  <1>3. /\ Untouched' /\ Counting' /\ Merging' /\ Compressing' /\ RoundTrip' /\ Faulted'
    BY DEF Untouched, Counting, Merging, Compressing, RoundTrip, Faulted
  <1> QED
    BY <1>1, <1>2, <1>3 DEF HuffmanInv, Phases

LEMMA DecompressBitHolds == HuffmanInv /\ DecompressBit => HuffmanInv'
  <1> SUFFICES ASSUME HuffmanInv, DecompressBit PROVE HuffmanInv'
    OBVIOUS
  <1>1. /\ phase = "decompress" /\ unread # << << >> >>
        /\ corpus' = corpus /\ text' = text /\ tally' = tally /\ book' = book /\ coded' = coded
        /\ trie' = trie
    BY DEF DecompressBit
  <1>2. /\ Files /\ Tallied(tally) /\ Readable(book) /\ DOMAIN book = DOMAIN tally
        /\ coded \in Codes /\ Written(book, coded, text)
        /\ \A t \in DOMAIN book : book[t] # << >>
        /\ Growing(trie, book) /\ DOMAIN book \subseteq Range(trie) /\ star \in Codes
        /\ \A t \in DOMAIN book : ~IsPrefix(book[t], star)
    BY <1>1 DEF HuffmanInv, Booked, Coded, Building, Decompressing
  <1>3. PICK z \in Codes, r \in Texts : /\ unread = <<z>> /\ Written(book, star \o z, r)
                                        /\ output \in Texts /\ output \o r = text
    BY <1>1 DEF HuffmanInv, Decompressing
  <1>4. unread[1] = z /\ z # << >>
    BY <1>1, <1>3
  <1>5. PICK p, y : p = Append(star, Head(z)) /\ y = Tail(z)
    OBVIOUS
  <1>6. DOMAIN book \subseteq Tokens
    BY <1>2 DEF Tallied
  <1>7. DecodedTo(book, trie, p, y, r)
    <2>1. DecodedTo(book, trie, Append(star, Head(z)), Tail(z), r)
      BY <1>2, <1>3, <1>4, <1>6, DecodedOn
    <2> QED
      BY <1>5, <2>1
  <1> HIDE <1>5
  <1>8. /\ phase' = "decompress"
        /\ output' = IF IsLeaf(trie, p) THEN output \o trie[p] ELSE output
        /\ star' = IF IsLeaf(trie, p) THEN << >> ELSE p
        /\ unread' = <<y>>
    BY <1>1, <1>4, <1>5, <1>7 DEF DecompressBit, Onward, DecodedTo
  <1>9. CASE IsLeaf(trie, p)
    <2>1. PICK q \in Texts : trie[p] \in Texts /\ r = trie[p] \o q /\ Written(book, y, q)
      BY <1>7, <1>9 DEF DecodedTo
    <2>2. /\ << >> \in Codes /\ << >> \o y = y /\ output \o trie[p] \in Texts
      BY <1>3, <1>7, <2>1 DEF Codes, Texts, DecodedTo
    <2>3. (output \o trie[p]) \o q = text
      <3>1. output \in Seq(Chars) /\ trie[p] \in Seq(Chars) /\ q \in Seq(Chars)
        BY <1>3, <2>1 DEF Texts
      <3>2. (output \o trie[p]) \o q = output \o (trie[p] \o q)
        <4>1. \A u, v, w \in Seq(Chars) : (u \o v) \o w = u \o (v \o w)
          BY ConcatAssociative
        <4> QED
          BY <3>1, <4>1, Zenon
      <3> QED
        BY <1>3, <2>1, <3>2
    <2>4. \A t \in DOMAIN book : ~IsPrefix(book[t], << >>)
      BY <1>2, PrefixOrder DEF Readable, Codes
    <2>5. star' = << >> /\ output' = output \o trie[p]
      BY <1>8, <1>9
    <2> QED
      BY <1>1, <1>2, <1>7, <1>8, <2>1, <2>2, <2>3, <2>4, <2>5, DecompressedOn DEF DecodedTo
  <1>10. CASE ~IsLeaf(trie, p)
    <2>1. star' = p /\ output' = output
      BY <1>8, <1>10
    <2> QED
      BY <1>1, <1>2, <1>3, <1>7, <1>8, <1>10, <2>1, DecompressedOn DEF DecodedTo
  <1> QED
    BY <1>9, <1>10

LEMMA FinishHolds == HuffmanInv /\ Finish => HuffmanInv'
  <1> SUFFICES ASSUME HuffmanInv, Finish PROVE HuffmanInv'
    OBVIOUS
  <1>1. /\ phase = "decompress" /\ unread = << << >> >> /\ phase' = "done"
        /\ corpus' = corpus /\ text' = text /\ tally' = tally /\ book' = book /\ output' = output
    BY DEF Finish
  <1>2. /\ Files /\ Tallied(tally) /\ Readable(book) /\ DOMAIN book = DOMAIN tally /\ star \in Codes
        /\ \A t \in DOMAIN book : ~IsPrefix(book[t], star)
    BY <1>1 DEF HuffmanInv, Booked, Coded, Decompressing
  <1>3. PICK z \in Codes, r \in Texts : /\ unread = <<z>> /\ Written(book, star \o z, r)
                                        /\ output \in Texts /\ output \o r = text
    BY <1>1 DEF HuffmanInv, Decompressing
  <1>4. z = << >> /\ star \o z = star
    BY <1>1, <1>2, <1>3 DEF Codes
  <1>5. Written(book, star, r)
    BY <1>3, <1>4
  <1>6. r = << >>
    <2> SUFFICES ASSUME r # << >> PROVE FALSE
      OBVIOUS
    <2>1. PICK t \in DOMAIN book, y \in Codes : star = book[t] \o y
      BY <1>5, WrittenStarts, Z3T(60)
    <2>2. IsPrefix(book[t], star)
      BY <1>2, <2>1, PrefixStarts DEF Readable, Codes
    <2> QED
      BY <1>2, <2>2
  <1>7. RoundTrip'
    BY <1>1, <1>3, <1>6 DEF RoundTrip, Texts
  <1>8. Files' /\ Tallied(tally') /\ Booked'
    BY <1>1, <1>2 DEF Files, Booked
  <1>9. /\ Untouched' /\ Counting' /\ Merging' /\ Compressing' /\ Building' /\ Decompressing' /\ Faulted'
    BY <1>1 DEF Untouched, Counting, Merging, Compressing, Building, Decompressing, Faulted
  <1> QED
    BY <1>1, <1>7, <1>8, <1>9 DEF HuffmanInv, Phases

\* The invariant holds of every step, whatever order the sort leaves and whatever
\* the files are.
THEOREM HuffmanInvHolds == HuffmanSpec => []HuffmanInv
  <1>1. HuffmanInit => HuffmanInv
    BY InitHolds
  <1>2. HuffmanInv /\ [HuffmanNext]_vars => HuffmanInv'
    <2> SUFFICES ASSUME HuffmanInv, [HuffmanNext]_vars PROVE HuffmanInv'
      OBVIOUS
    <2>1. CASE CountToken
      BY <2>1, CountTokenHolds
    <2>2. CASE Sort
      BY <2>2, SortHolds
    <2>3. CASE TakeLeast
      BY <2>3, TakeLeastHolds
    <2>4. CASE Merge
      BY <2>4, MergeHolds
    <2>5. CASE Export
      BY <2>5, ExportHolds
    <2>6. CASE CompressToken
      BY <2>6, CompressTokenHolds
    <2>7. CASE LoadBook
      BY <2>7, LoadBookHolds
    <2>8. CASE AddCode
      BY <2>8, AddCodeHolds
    <2>9. CASE StartDecompress
      BY <2>9, StartDecompressHolds
    <2>10. CASE DecompressBit
      BY <2>10, DecompressBitHolds
    <2>11. CASE Finish
      BY <2>11, FinishHolds
    <2>12. CASE UNCHANGED vars
      BY <2>12 DEF vars, HuffmanInv, Files, Untouched, Counting, Merging, Booked, Coded, Compressing,
                   Building, Decompressing, RoundTrip, Faulted
    <2> QED
      BY <2>1, <2>2, <2>3, <2>4, <2>5, <2>6, <2>7, <2>8, <2>9, <2>10, <2>11, <2>12 DEF HuffmanNext
  <1> QED
    BY <1>1, <1>2, PTL DEF HuffmanSpec

\* While trees are merged, no node of the heap counts less than its parent, so that
\* getMinNodeHeap (ds.c) takes a least one; and the trees in the heap and those just
\* taken by buildHuffmanTreeFromNodesArray (huffman.c) share out the tokens of the
\* files, each with the sum of the counts of its tokens: none is lost or counted
\* twice, whatever the files are and however qsort orders equal counts.
THEOREM HeapOrderedHolds == HuffmanSpec => []HeapOrdered
  <1>1. HuffmanInv => HeapOrdered
    <2> SUFFICES ASSUME HuffmanInv PROVE HeapOrdered
      OBVIOUS
    <2>1. CASE phase = "merge"
      BY <2>1, PoolOrdered DEF HuffmanInv, Merging
    <2>2. CASE phase # "merge"
      BY <2>2 DEF HeapOrdered
    <2> QED
      BY <2>1, <2>2
  <1> QED
    BY <1>1, HuffmanInvHolds, PTL

\* No code that TraverseTreePrefix writes into the codebook is a prefix of another,
\* and the codebook has a code for each token that was counted.
THEOREM PrefixFreeHolds == HuffmanSpec => []PrefixFree
  <1>1. HuffmanInv => PrefixFree
    BY DEF HuffmanInv, Booked, Readable, PrefixFree
  <1> QED
    BY <1>1, HuffmanInvHolds, PTL

\* What decompress writes for the bits that compress wrote, with the tree that
\* buildHuffmanTreeFromCodes makes of the codebook, is the file that was compressed,
\* white space and all, in whatever order it takes the codes.
THEOREM RoundTripHolds == HuffmanSpec => []RoundTrip
  <1>1. HuffmanInv => RoundTrip
    BY DEF HuffmanInv
  <1> QED
    BY <1>1, HuffmanInvHolds, PTL

\* Where the file compressed is one the codebook was built from, the program only
\* fails when there were fewer than two tokens to build a tree of.
THEOREM FaultsWithoutChoiceOnly ==
    ASSUME Strangers = {}
    PROVE  HuffmanSpec => []FaultsOnlyWithoutChoice
  <1>1. HuffmanInv => FaultsOnlyWithoutChoice
    BY DEF HuffmanInv, Files, Faulted, FaultsOnlyWithoutChoice
  <1> QED
    BY <1>1, HuffmanInvHolds, PTL
-------------------------------------------------------------------------------
(* The least cost of a tree.                                                    *)

\* What holds of a set whenever it holds of all smaller ones holds of every set.
LEMMA BySize ==
    ASSUME NEW F, \A S \in F : IsFiniteSet(S), NEW P,
           \A S \in F : (\A T \in F : Cardinality(T) < Cardinality(S) => T \in P) => S \in P
    PROVE  \A S \in F : S \in P
  <1> SUFFICES ASSUME NEW S \in F, S \notin P PROVE FALSE
    OBVIOUS
  <1> DEFINE N == {Cardinality(T) : T \in F \ P}
  <1>1. \A T \in F : Cardinality(T) \in Nat
    BY FS_CardinalityType
  <1>2. N \subseteq Nat /\ N # {}
    BY <1>1
  <1> HIDE DEF N
  <1>3. PICK n \in N : \A m \in N : n <= m
    BY <1>2, LeastNumber
  <1> USE DEF N
  <1>4. PICK T \in F \ P : n = Cardinality(T)
    BY <1>3
  <1>5. \A U \in F : Cardinality(U) < Cardinality(T) => U \in P
    <2> SUFFICES ASSUME NEW U \in F, Cardinality(U) < Cardinality(T), U \notin P PROVE FALSE
      OBVIOUS
    <2>1. n <= Cardinality(U)
      BY <1>3
    <2> QED
      BY <1>1, <1>4, <2>1
  <1> QED
    BY <1>4, <1>5

Splits(s) == (SUBSET s) \ {{}, s}
SplitCosts(f, s) == {f[T] + f[s \ T] : T \in Splits(s)}
Costed(f, c, s) == IF Cardinality(s) <= 1 THEN 0 ELSE Weight(c, s) + Min(SplitCosts(f, s))
Costs(f, c, X) == f = [s \in X |-> Costed(f, c, s)]

\* The two sides of a split are smaller.
LEMMA SplitSmaller ==
    ASSUME NEW S, IsFiniteSet(S)
    PROVE  \A T \in Splits(S) :
               /\ S \ T \in Splits(S) /\ IsFiniteSet(T) /\ IsFiniteSet(S \ T)
               /\ Cardinality(T) \in Nat /\ Cardinality(S \ T) \in Nat /\ Cardinality(S) \in Nat
               /\ Cardinality(T) > 0 /\ Cardinality(S \ T) > 0
               /\ Cardinality(T) + Cardinality(S \ T) = Cardinality(S)
               /\ Cardinality(T) < Cardinality(S) /\ Cardinality(S \ T) < Cardinality(S)
  <1> SUFFICES ASSUME NEW T \in Splits(S)
               PROVE  /\ S \ T \in Splits(S) /\ IsFiniteSet(T) /\ IsFiniteSet(S \ T)
                      /\ Cardinality(T) \in Nat /\ Cardinality(S \ T) \in Nat /\ Cardinality(S) \in Nat
                      /\ Cardinality(T) > 0 /\ Cardinality(S \ T) > 0
                      /\ Cardinality(T) + Cardinality(S \ T) = Cardinality(S)
                      /\ Cardinality(T) < Cardinality(S) /\ Cardinality(S \ T) < Cardinality(S)
    OBVIOUS
  <1>1. T \subseteq S /\ T # {} /\ S \ T # {} /\ S \ T \subseteq S /\ S \ T # S
    BY DEF Splits
  <1>2. IsFiniteSet(T) /\ IsFiniteSet(S \ T)
    BY <1>1, FS_Subset
  <1>3. Cardinality(T) \in Nat /\ Cardinality(S \ T) \in Nat /\ Cardinality(S) \in Nat
    BY <1>2, FS_CardinalityType
  <1>4. Cardinality(T) # 0 /\ Cardinality(S \ T) # 0
    BY <1>1, <1>2, FS_EmptySet
  <1>5. /\ Cardinality(T) + Cardinality(S \ T) = Cardinality(S)
        /\ Cardinality(T) < Cardinality(S) /\ Cardinality(S \ T) < Cardinality(S)
    <2> DEFINE U == S \ T
    <2>1. T \union U = S /\ T \intersect U = {} /\ IsFiniteSet(U)
      BY <1>1, <1>2
    <2> HIDE DEF U
    <2>2. Cardinality(T \union U) = Cardinality(T) + Cardinality(U) - Cardinality(T \intersect U)
      BY <1>2, <2>1, FS_Union
    <2>3. Cardinality(T) \in Nat /\ Cardinality(U) \in Nat
      BY <1>2, <2>1, FS_CardinalityType
    <2>4. Cardinality(T \intersect U) = 0 /\ Cardinality(T \union U) = Cardinality(S)
      BY <2>1, FS_EmptySet
    <2>5. Cardinality(T) # 0 /\ Cardinality(U) # 0
      BY <1>4 DEF U
    <2>6. /\ Cardinality(T) + Cardinality(U) = Cardinality(S)
          /\ Cardinality(T) < Cardinality(S) /\ Cardinality(U) < Cardinality(S)
      BY <2>2, <2>3, <2>4, <2>5
    <2> QED
      BY <2>6 DEF U
  <1>9. S \ T \in Splits(S)
    BY <1>1 DEF Splits
  <1> QED
    BY <1>2, <1>3, <1>4, <1>5, <1>9

\* What a set costs depends on what smaller ones do.
LEMMA CostedAlike ==
    ASSUME NEW S, IsFiniteSet(S), NEW c, NEW f, NEW g, \A T \in Splits(S) : f[T] = g[T]
    PROVE  Costed(f, c, S) = Costed(g, c, S)
  <1>1. \A T \in Splits(S) : f[S \ T] = g[S \ T]
    <2>1. \A T \in Splits(S) : S \ T \in Splits(S)
      BY SplitSmaller
    <2> QED
      BY <2>1
  <1>2. SplitCosts(f, S) = SplitCosts(g, S)
    BY <1>1 DEF SplitCosts
  <1> QED
    BY <1>2 DEF Costed

\* Costs of the sets smaller than k extend to those smaller than k + 1.
LEMMA CostsNext ==
    ASSUME NEW S, IsFiniteSet(S), NEW c, NEW k \in Nat, NEW f, Costs(f, c, Small(S, k))
    PROVE  \E g : Costs(g, c, Small(S, k + 1))
  <1> DEFINE X == Small(S, k)
             Y == Small(S, k + 1)
             g == [s \in Y |-> Costed(f, c, s)]
  <1>1. \A s \in X : s \in Y
    BY SmallerParts DEF Small
  <1>2. \A s \in Y : IsFiniteSet(s) /\ \A T \in Splits(s) : T \in X
    <2> SUFFICES ASSUME NEW s \in Y PROVE IsFiniteSet(s) /\ \A T \in Splits(s) : T \in X
      OBVIOUS
    <2>1. IsFiniteSet(s) /\ s \subseteq S /\ Cardinality(s) \in Nat /\ Cardinality(s) < k + 1
      BY FS_Subset, FS_CardinalityType DEF Small, Parts
    <2>2. ASSUME NEW T \in Splits(s)
          PROVE  T \in X
      <3>1. /\ Cardinality(T) \in Nat /\ Cardinality(s \ T) \in Nat /\ Cardinality(s \ T) > 0
            /\ Cardinality(T) + Cardinality(s \ T) = Cardinality(s)
        BY <2>1, SplitSmaller
      <3>2. T \in Parts(S)
        BY <2>1 DEF Splits, Parts
      <3>3. Cardinality(T) < k
        BY <2>1, <3>1
      <3> QED
        BY <3>2, <3>3 DEF Small
    <2> QED
      BY <2>1, <2>2
  <1>3. \A s \in X : f[s] = Costed(f, c, s)
    BY DEF Costs
  <1> HIDE DEF X, Y
  <1>4. \A s \in X : g[s] = f[s]
    BY <1>1, <1>3
  <1>5. \A s \in Y : Costed(g, c, s) = Costed(f, c, s)
    <2> HIDE DEF g
    <2> QED
      BY <1>2, <1>4, CostedAlike
  <1>6. g = [s \in Y |-> Costed(g, c, s)]
    BY <1>5
  <1> HIDE DEF g
  <1> QED
    BY <1>6 DEF Costs, Y

\* There are costs for all parts of a finite set.
LEMMA CostsExist ==
    ASSUME NEW S, IsFiniteSet(S), NEW c
    PROVE  \E g : Costs(g, c, Parts(S))
  <1> DEFINE T == {k \in Nat : \E g : Costs(g, c, Small(S, k))}
  <1>1. 0 \in T
    <2>1. Small(S, 0) = {}
      <3>1. \A s \in Parts(S) : ~(Cardinality(s) < 0)
        BY SmallerParts
      <3> QED
        BY <3>1 DEF Small
    <2>2. Costs([s \in Small(S, 0) |-> s], c, Small(S, 0))
      BY <2>1 DEF Costs
    <2> QED
      BY <2>2
  <1>2. \A k \in Nat : k \in T => k + 1 \in T
    BY CostsNext
  <1> HIDE DEF T
  <1>3. Nat \subseteq T
    BY <1>1, <1>2, Upward
  <1>4. Cardinality(S) \in Nat /\ Cardinality(S) + 1 \in Nat
    BY FS_CardinalityType
  <1>5. Small(S, Cardinality(S) + 1) = Parts(S)
    <2>1. \A s \in Parts(S) : Cardinality(s) < Cardinality(S) + 1
      BY SmallerParts
    <2> QED
      BY <2>1 DEF Small
  <1> QED
    BY <1>3, <1>4, <1>5 DEF T

\* Two functions of costs agree where both are defined.
LEMMA CostsAgree ==
    ASSUME NEW S, IsFiniteSet(S), NEW c, NEW f, Costs(f, c, Parts(S)),
           NEW T, T \subseteq S, NEW g, Costs(g, c, Parts(T))
    PROVE  \A s \in Parts(T) : f[s] = g[s]
  <1> DEFINE F == Parts(T)
             P == {s \in F : f[s] = g[s]}
  <1>1. \A s \in F : IsFiniteSet(s) /\ s \in Parts(S)
    BY FS_Subset DEF Parts
  <1>2. \A s \in F : f[s] = Costed(f, c, s) /\ g[s] = Costed(g, c, s)
    BY <1>1 DEF Costs
  <1>3. ASSUME NEW s \in F, \A u \in F : Cardinality(u) < Cardinality(s) => u \in P
        PROVE  s \in P
    <2>1. \A u \in Splits(s) : Cardinality(u) < Cardinality(s) /\ u \in F
      <3>1. IsFiniteSet(s)
        BY <1>1
      <3>2. \A u \in Splits(s) : Cardinality(u) < Cardinality(s)
        BY <3>1, SplitSmaller, Zenon
      <3>3. s \subseteq T
        BY DEF Parts
      <3>4. \A u \in Splits(s) : u \subseteq s
        BY DEF Splits
      <3>5. \A u \in Splits(s) : u \in F
        BY <3>3, <3>4, Zenon DEF Parts
      <3> QED
        BY <3>2, <3>5
    <2>2. \A u \in Splits(s) : f[u] = g[u]
      BY <1>3, <2>1
    <2>3. Costed(f, c, s) = Costed(g, c, s)
      BY <1>1, <2>2, CostedAlike
    <2> QED
      BY <1>2, <2>3
  <1> HIDE DEF F, P
  <1>4. \A s \in F : s \in P
    BY <1>1, <1>3, BySize
  <1> QED
    BY <1>4 DEF F, P

\* Least is such a function, at any finite set.
LEMMA LeastCosts ==
    ASSUME NEW S, IsFiniteSet(S), NEW c
    PROVE  \E f : Costs(f, c, Parts(S)) /\ Least(c, S) = f[S]
  <1> DEFINE cost[s \in Parts(S)] ==
                IF Cardinality(s) <= 1 THEN 0
                ELSE Weight(c, s) + Min({cost[T] + cost[s \ T] : T \in (SUBSET s) \ {{}, s}})
  <1>1. Least(c, S) = cost[S]
    BY DEF Least, Parts
  <1>2. PICK g : g = [s \in Parts(S) |-> Costed(g, c, s)]
    <2>1. PICK g : Costs(g, c, Parts(S))
      BY CostsExist
    <2> QED
      BY <2>1 DEF Costs
  <1>3. cost = [s \in Parts(S) |-> Costed(cost, c, s)]
    BY <1>2, Zenon DEF Costed, SplitCosts, Splits
  <1> HIDE DEF cost
  <1> WITNESS cost
  <1> QED
    BY <1>1, <1>3 DEF Costs

\* Least is what its equation says.
LEMMA LeastUnfold ==
    ASSUME NEW S, IsFiniteSet(S), NEW c
    PROVE  \E f : /\ \A T \in Splits(S) : f[T] = Least(c, T)
                  /\ Least(c, S) = Costed(f, c, S)
  <1>1. PICK f : Costs(f, c, Parts(S)) /\ Least(c, S) = f[S]
    BY LeastCosts
  <1>2. Least(c, S) = Costed(f, c, S)
    BY <1>1 DEF Costs, Parts
  <1>3. ASSUME NEW T \in Splits(S)
        PROVE  f[T] = Least(c, T)
    <2>1. T \subseteq S /\ IsFiniteSet(T) /\ T \in Parts(T)
      BY FS_Subset DEF Splits, Parts
    <2>2. PICK g : Costs(g, c, Parts(T)) /\ Least(c, T) = g[T]
      BY <2>1, LeastCosts
    <2>3. \A s \in Parts(T) : f[s] = g[s]
      BY <1>1, <2>1, <2>2, CostsAgree
    <2> QED
      BY <2>1, <2>2, <2>3
  <1> QED
    BY <1>2, <1>3


Natural(c, S) == \A x \in S : c[x] \in Nat

\* The sum of natural numbers is one.
LEMMA WeightNat ==
    ASSUME NEW S, IsFiniteSet(S), NEW c, Natural(c, S)
    PROVE  Weight(c, S) \in Nat
  <1> DEFINE F == Parts(S)
             P == {s \in F : Weight(c, s) \in Nat}
  <1>1. \A s \in F : IsFiniteSet(s)
    BY FS_Subset DEF Parts
  <1>2. \A s \in F : s # {} => /\ First(s) \in s /\ Without(s) \in F /\ Cardinality(s) \in Nat
                               /\ Cardinality(Without(s)) = Cardinality(s) - 1
    BY SmallerParts, Zenon
  <1>3. \A s \in F : Weight(c, s) = IF s = {} THEN 0 ELSE c[First(s)] + Weight(c, Without(s))
    BY WeightUnfold, Zenon
  <1>4. \A s \in F : s # {} => c[First(s)] \in Nat
    BY <1>2 DEF Natural, Parts
  <1> HIDE DEF F
  <1>5. ASSUME NEW s \in F, \A u \in F : Cardinality(u) < Cardinality(s) => u \in P
        PROVE  s \in P
    <2>1. CASE s = {}
      BY <1>3, <2>1
    <2>2. CASE s # {}
      <3>1. Without(s) \in P
        BY <1>2, <1>5, <2>2
      <3> QED
        BY <1>3, <1>4, <2>2, <3>1
    <2> QED
      BY <2>1, <2>2
  <1> HIDE DEF P
  <1>6. \A s \in F : s \in P
    BY <1>1, <1>5, BySize
  <1>7. S \in F
    BY DEF F, Parts
  <1> QED
    BY <1>6, <1>7 DEF P

\* Less than two have no cost.
LEMMA LeastSingle ==
    ASSUME NEW S, IsFiniteSet(S), NEW c, Cardinality(S) <= 1
    PROVE  Least(c, S) = 0
  BY LeastUnfold DEF Costed

\* Two or more can be split.
LEMMA SplitThere ==
    ASSUME NEW S, IsFiniteSet(S), Cardinality(S) > 1
    PROVE  Splits(S) # {}
  <1>1. S # {}
    BY FS_EmptySet
  <1>2. PICK x : x \in S
    BY <1>1
  <1>3. Cardinality({x}) = 1
    BY FS_Singleton
  <1>4. {x} # S /\ {x} # {} /\ {x} \subseteq S
    BY <1>2, <1>3
  <1>5. {x} \in Splits(S)
    BY <1>4, Zenon DEF Splits
  <1> QED
    BY <1>5

\* A set of numbers has a least one, and Min is it.
LEMMA MinIs ==
    ASSUME NEW N, N \subseteq Nat, N # {}
    PROVE  Min(N) \in N /\ \A n \in N : Min(N) <= n
  BY LeastNumber DEF Min

\* The least cost is a natural number.
LEMMA LeastNat ==
    ASSUME NEW S, IsFiniteSet(S), NEW c, Natural(c, S)
    PROVE  Least(c, S) \in Nat
  <1> DEFINE F == Parts(S)
             P == {s \in F : Least(c, s) \in Nat}
  <1>1. \A s \in F : IsFiniteSet(s)
    BY FS_Subset DEF Parts
  <1>2. \A s \in F : Weight(c, s) \in Nat
    <2> SUFFICES ASSUME NEW s \in F PROVE Weight(c, s) \in Nat
      OBVIOUS
    <2>1. Natural(c, s)
      BY DEF Natural, Parts
    <2> QED
      BY <1>1, <2>1, WeightNat
  <1>3. \A s \in F : Splits(s) \subseteq F
    BY DEF Splits, Parts
  <1> HIDE DEF F
  <1>4. ASSUME NEW s \in F, \A u \in F : Cardinality(u) < Cardinality(s) => u \in P
        PROVE  s \in P
    <2>1. IsFiniteSet(s) /\ Cardinality(s) \in Nat
      BY <1>1, FS_CardinalityType
    <2>2. CASE Cardinality(s) <= 1
      BY <2>1, <2>2, LeastSingle
    <2>3. CASE Cardinality(s) > 1
      <3>1. PICK f : /\ \A T \in Splits(s) : f[T] = Least(c, T)
                     /\ Least(c, s) = Costed(f, c, s)
        BY <2>1, LeastUnfold
      <3>2. \A T \in Splits(s) : s \ T \in Splits(s) /\ Cardinality(T) < Cardinality(s)
        BY <2>1, SplitSmaller, Zenon
      <3>3. \A T \in Splits(s) : f[T] \in Nat
        BY <1>3, <1>4, <3>1, <3>2
      <3>4. \A T \in Splits(s) : f[T] + f[s \ T] \in Nat
        BY <3>2, <3>3
      <3>5. SplitCosts(f, s) \subseteq Nat /\ SplitCosts(f, s) # {}
        BY <2>1, <2>3, <3>4, SplitThere DEF SplitCosts
      <3>6. Min(SplitCosts(f, s)) \in Nat
        BY <3>5, MinIs
      <3>7. Costed(f, c, s) \in Nat
        BY <1>2, <2>1, <2>3, <3>6 DEF Costed
      <3> QED
        BY <3>1, <3>7
    <2> QED
      BY <2>1, <2>2, <2>3
  <1> HIDE DEF P
  <1>5. \A s \in F : s \in P
    BY <1>1, <1>4, BySize
  <1>6. S \in F
    BY DEF F, Parts
  <1> QED
    BY <1>5, <1>6 DEF P

\* Least costs no more than any split, and as much as one.
LEMMA LeastSplits ==
    ASSUME NEW S, IsFiniteSet(S), NEW c, Natural(c, S), Cardinality(S) > 1
    PROVE  /\ \A T \in Splits(S) : Least(c, S) <= Weight(c, S) + (Least(c, T) + Least(c, S \ T))
           /\ \E T \in Splits(S) : Least(c, S) = Weight(c, S) + (Least(c, T) + Least(c, S \ T))
  <1>1. PICK f : /\ \A T \in Splits(S) : f[T] = Least(c, T)
                 /\ Least(c, S) = Costed(f, c, S)
    BY LeastUnfold
  <1>2. \A T \in Splits(S) : S \ T \in Splits(S) /\ IsFiniteSet(T)
    BY SplitSmaller, Zenon
  <1>3. \A T \in Splits(S) : Natural(c, T)
    BY DEF Splits, Natural
  <1>4. \A T \in Splits(S) : Least(c, T) \in Nat
    BY <1>2, <1>3, LeastNat
  <1> DEFINE Both(T) == Least(c, T) + Least(c, S \ T)
             N == SplitCosts(f, S)
  <1>5. \A T \in Splits(S) : f[T] + f[S \ T] = Both(T)
    BY <1>1, <1>2
  <1>6. \A T \in Splits(S) : Both(T) \in Nat
    BY <1>2, <1>4
  <1> HIDE DEF Both
  <1>7. N = {Both(T) : T \in Splits(S)}
    BY <1>5 DEF SplitCosts
  <1>8. N \subseteq Nat /\ N # {}
    BY <1>6, <1>7, SplitThere
  <1> HIDE DEF N
  <1>9. Min(N) \in N /\ \A n \in N : Min(N) <= n
    BY <1>8, MinIs
  <1>10. Least(c, S) = Weight(c, S) + Min(N) /\ Weight(c, S) \in Nat
    BY <1>1, FS_CardinalityType, WeightNat DEF Costed, N
  <1>11. \A T \in Splits(S) : Least(c, S) <= Weight(c, S) + Both(T)
    <2> SUFFICES ASSUME NEW T \in Splits(S) PROVE Least(c, S) <= Weight(c, S) + Both(T)
      OBVIOUS
    <2>1. Both(T) \in N
      BY <1>7
    <2>2. Min(N) <= Both(T) /\ Min(N) \in Nat /\ Both(T) \in Nat
      BY <1>6, <1>8, <1>9, <2>1
    <2> QED
      BY <1>10, <2>2
  <1>12. \E T \in Splits(S) : Least(c, S) = Weight(c, S) + Both(T)
    BY <1>7, <1>9, <1>10
  <1> QED
    BY <1>11, <1>12 DEF Both

-------------------------------------------------------------------------------
\* One element taken from a sum.
LEMMA SumWithout ==
    ASSUME NEW S, IsFiniteSet(S), NEW c, Natural(c, S), NEW x \in S
    PROVE  /\ Weight(c, S) = c[x] + Weight(c, S \ {x})
           /\ Weight(c, S) \in Nat /\ Weight(c, S \ {x}) \in Nat /\ c[x] \in Nat
  <1>1. Countable(c, S) /\ S \in Parts(S)
    BY DEF Natural, Countable, Parts
  <1>2. Weight(c, S) = c[x] + Weight(c, S \ {x})
    BY <1>1, WeightTaken
  <1>3. IsFiniteSet(S \ {x}) /\ Natural(c, S \ {x})
    BY FS_RemoveElement DEF Natural
  <1>4. Weight(c, S) \in Nat /\ Weight(c, S \ {x}) \in Nat
    BY <1>3, WeightNat
  <1> QED
    BY <1>2, <1>4 DEF Natural

\* One element added to a sum.
LEMMA SumWith ==
    ASSUME NEW S, IsFiniteSet(S), NEW c, NEW x, x \notin S, Natural(c, S \union {x})
    PROVE  /\ Weight(c, S \union {x}) = c[x] + Weight(c, S)
           /\ Weight(c, S) \in Nat /\ c[x] \in Nat
  <1> DEFINE R == S \union {x}
  <1>1. IsFiniteSet(R) /\ x \in R
    BY FS_AddElement
  <1>2. R \ {x} = S
    OBVIOUS
  <1>3. Natural(c, R)
    OBVIOUS
  <1> HIDE DEF R
  <1>4. /\ Weight(c, R) = c[x] + Weight(c, R \ {x})
        /\ Weight(c, R) \in Nat /\ Weight(c, R \ {x}) \in Nat /\ c[x] \in Nat
    BY <1>1, <1>3, SumWithout
  <1>5. /\ Weight(c, R) = c[x] + Weight(c, S)
        /\ Weight(c, S) \in Nat /\ c[x] \in Nat
    BY <1>2, <1>4
  <1> QED
    BY <1>5 DEF R

\* T and U are the two sides of a split of S.
Halves(S, T, U) == T # {} /\ U # {} /\ T \union U = S /\ T \intersect U = {}

\* Both are smaller.
LEMMA HalvesSmaller ==
    ASSUME NEW S, IsFiniteSet(S), NEW T, NEW U, Halves(S, T, U)
    PROVE  /\ T \in Splits(S) /\ S \ T = U /\ T \subseteq S /\ U \subseteq S
           /\ IsFiniteSet(T) /\ IsFiniteSet(U)
           /\ Cardinality(T) < Cardinality(S) /\ Cardinality(U) < Cardinality(S)
           /\ Cardinality(S) > 1
  <1>1. T \in Splits(S) /\ S \ T = U /\ T \subseteq S /\ U \subseteq S
    BY DEF Halves, Splits
  <1>2. /\ IsFiniteSet(T) /\ IsFiniteSet(S \ T)
        /\ Cardinality(T) \in Nat /\ Cardinality(S \ T) \in Nat /\ Cardinality(S) \in Nat
        /\ Cardinality(T) > 0 /\ Cardinality(S \ T) > 0
        /\ Cardinality(T) + Cardinality(S \ T) = Cardinality(S)
        /\ Cardinality(T) < Cardinality(S) /\ Cardinality(S \ T) < Cardinality(S)
    BY <1>1, SplitSmaller, Zenon
  <1>3. IsFiniteSet(S \ T) /\ Cardinality(S \ T) < Cardinality(S)
    BY <1>2
  <1>4. IsFiniteSet(U) /\ Cardinality(U) < Cardinality(S)
    BY <1>1, <1>3
  <1>5. Cardinality(S) > 1
    BY <1>2
  <1> QED
    BY <1>1, <1>2, <1>4, <1>5

\* Least costs no more than any split.
LEMMA LeastHalves ==
    ASSUME NEW S, IsFiniteSet(S), NEW c, Natural(c, S), NEW T, NEW U, Halves(S, T, U)
    PROVE  /\ Least(c, S) <= Weight(c, S) + (Least(c, T) + Least(c, U))
           /\ Least(c, S) \in Nat /\ Weight(c, S) \in Nat /\ Least(c, T) \in Nat /\ Least(c, U) \in Nat
  <1>1. /\ T \in Splits(S) /\ S \ T = U /\ T \subseteq S /\ U \subseteq S
        /\ IsFiniteSet(T) /\ IsFiniteSet(U) /\ Cardinality(S) > 1
    BY HalvesSmaller
  <1>2. Natural(c, T) /\ Natural(c, U)
    BY <1>1 DEF Natural
  <1>3. Least(c, S) \in Nat /\ Weight(c, S) \in Nat /\ Least(c, T) \in Nat /\ Least(c, U) \in Nat
    BY <1>1, <1>2, LeastNat, WeightNat
  <1>4. \A V \in Splits(S) : Least(c, S) <= Weight(c, S) + (Least(c, V) + Least(c, S \ V))
    BY <1>1, LeastSplits, Zenon
  <1>5. Least(c, S) <= Weight(c, S) + (Least(c, T) + Least(c, S \ T))
    BY <1>1, <1>4, Zenon
  <1>6. Least(c, S) <= Weight(c, S) + (Least(c, T) + Least(c, U))
    BY <1>1, <1>5, Zenon
  <1> QED
    BY <1>3, <1>6, SMT

\* Two or more cost as much as one of their splits.
LEMMA Halved ==
    ASSUME NEW S, IsFiniteSet(S), NEW c, Natural(c, S), NEW x \in S, NEW y \in S, x # y
    PROVE  \E T, U : /\ Halves(S, T, U)
                     /\ Least(c, S) = Weight(c, S) + (Least(c, T) + Least(c, U))
  <1>1. Cardinality(S) > 1
    <2>1. {x} \subseteq S /\ {x} # S
      OBVIOUS
    <2>2. Cardinality({x}) = 1 /\ Cardinality(S) \in Nat
      BY FS_Singleton, FS_CardinalityType
    <2>3. Cardinality({x}) < Cardinality(S)
      <3>1. {x} \in SUBSET S
        BY <2>1
      <3>2. Cardinality({x}) <= Cardinality(S) /\ (Cardinality(S) = Cardinality({x}) => S = {x})
        BY <3>1, FS_Subset, Zenon
      <3> QED
        BY <2>1, <2>2, <3>2
    <2> QED
      BY <2>2, <2>3
  <1>2. PICK T \in Splits(S) : Least(c, S) = Weight(c, S) + (Least(c, T) + Least(c, S \ T))
    BY <1>1, LeastSplits, Zenon
  <1>3. Halves(S, T, S \ T)
    BY DEF Halves, Splits
  <1> QED
    BY <1>2, <1>3, Zenon

\* One element has no cost.
LEMMA LeastOne ==
    ASSUME NEW x, NEW c
    PROVE  Least(c, {x}) = 0
  <1>1. IsFiniteSet({x}) /\ Cardinality({x}) = 1
    BY FS_Singleton, Zenon
  <1>2. Cardinality({x}) <= 1
    BY <1>1
  <1> QED
    BY <1>1, <1>2, LeastSingle, Zenon

-------------------------------------------------------------------------------
\* S with z instead of i.
Swap(S, i, z) == (S \ {i}) \union {z}

\* Halves, with z instead of i.
LEMMA SwapHalves ==
    ASSUME NEW S, NEW T, NEW U, Halves(S, T, U), NEW i \in T, NEW z, z \notin S
    PROVE  Halves(Swap(S, i, z), Swap(T, i, z), U)
  BY DEF Halves, Swap

\* Halves, with two elements exchanged.
LEMMA Exchange ==
    ASSUME NEW S, NEW T, NEW U, Halves(S, T, U), NEW x \in T, NEW b \in U
    PROVE  Halves(S, Swap(T, x, b), Swap(U, b, x))
  BY DEF Halves, Swap

\* The weight, with z instead of i.
LEMMA SwapWeight ==
    ASSUME NEW S, IsFiniteSet(S), NEW c, Natural(c, S), NEW i \in S, NEW z, z \notin S, c[z] \in Nat
    PROVE  /\ Weight(c, Swap(S, i, z)) = Weight(c, S) + (c[z] - c[i])
           /\ IsFiniteSet(Swap(S, i, z)) /\ Natural(c, Swap(S, i, z))
           /\ Weight(c, S) \in Nat /\ c[i] \in Nat
  <1> DEFINE R == S \ {i}
  <1>1. IsFiniteSet(R) /\ z \notin R
    BY FS_RemoveElement
  <1>2. Natural(c, R \union {z})
    BY DEF Natural
  <1>3. Weight(c, S) = c[i] + Weight(c, R) /\ Weight(c, S) \in Nat /\ Weight(c, R) \in Nat /\ c[i] \in Nat
    BY SumWithout
  <1>4. Swap(S, i, z) = R \union {z}
    BY DEF Swap
  <1> HIDE DEF R
  <1>5. Weight(c, R \union {z}) = c[z] + Weight(c, R)
    BY <1>1, <1>2, SumWith
  <1>6. IsFiniteSet(R \union {z})
    BY <1>1, FS_AddElement
  <1>7. c[z] + Weight(c, R) = Weight(c, S) + (c[z] - c[i])
    BY <1>3
  <1> QED
    BY <1>2, <1>3, <1>4, <1>5, <1>6, <1>7

-------------------------------------------------------------------------------
\* A deeper place gains more from a smaller count.
LEMMA Leverage ==
    ASSUME NEW d \in Nat, NEW e \in Nat, e <= d, NEW p \in Nat, NEW q \in Nat, p <= q
    PROVE  d * (p - q) + e * (q - p) <= 0
  <1>1. PICK k \in Nat : q = p + k
    <2>1. q - p \in Nat /\ q = p + (q - p)
      OBVIOUS
    <2> QED
      BY <2>1
  <1>2. PICK g \in Nat : d = e + g
    <2>1. d - e \in Nat /\ d = e + (d - e)
      OBVIOUS
    <2> QED
      BY <2>1
  <1>3. d * (p - q) + e * (q - p) = -(g * k)
    BY <1>1, <1>2
  <1>4. g * k \in Nat
    OBVIOUS
  <1> QED
    BY <1>3, <1>4

\* What a place costs more below a split.
LEMMA Steeper ==
    ASSUME NEW w \in Int, NEW l \in Int, NEW u \in Int, NEW d \in Nat, NEW k \in Int,
           NEW m \in Int, m <= l + d * k, NEW s \in Int, s = w + (l + u),
           NEW r \in Int, r <= (w + k) + (m + u)
    PROVE  r <= s + (1 + d) * k
  <1>1. (1 + d) * k = k + d * k /\ d * k \in Int
    OBVIOUS
  <1> QED
    BY <1>1

\* Two deepest places of S.
Deepest(dep, S, x, y) ==
    /\ \A i \in S : dep[i] <= dep[x] /\ dep[i] <= dep[y]
    /\ x = y => S = {x} /\ dep[x] = 0

\* What least costs at most if z takes the place of i.
Slope(c, S, i, z, d) == Least(c, Swap(S, i, z)) <= Least(c, S) + d * (c[z] - c[i])

\* The depths of the elements of S in a tree of least cost.
Depths(c, X, S, dep) ==
    /\ dep \in [S -> Nat]
    /\ \A i \in S, z \in X \ S : Slope(c, S, i, z, dep[i])
    /\ \E x, y \in S : Deepest(dep, S, x, y)

\* Below a split, places are one deeper.
LEMMA SlopeBelow ==
    ASSUME NEW X, NEW c, Natural(c, X), NEW S, IsFiniteSet(S), S \subseteq X,
           NEW T, NEW U, Halves(S, T, U), Least(c, S) = Weight(c, S) + (Least(c, T) + Least(c, U)),
           NEW i \in T, NEW z \in X, z \notin S, NEW d \in Nat, Slope(c, T, i, z, d)
    PROVE  Slope(c, S, i, z, 1 + d)
  <1>1. Natural(c, S) /\ c[z] \in Nat /\ i \in S
    BY DEF Natural, Halves
  <1>2. /\ Weight(c, Swap(S, i, z)) = Weight(c, S) + (c[z] - c[i])
        /\ IsFiniteSet(Swap(S, i, z)) /\ Natural(c, Swap(S, i, z))
        /\ Weight(c, S) \in Nat /\ c[i] \in Nat
    BY <1>1, SwapWeight
  <1>3. Halves(Swap(S, i, z), Swap(T, i, z), U)
    BY SwapHalves
  <1> DEFINE s == Swap(S, i, z)
             t == Swap(T, i, z)
             k == c[z] - c[i]
  <1>4. Least(c, t) <= Least(c, T) + d * k
    BY DEF Slope
  <1>5. k \in Int
    BY <1>1, <1>2
  <1> HIDE DEF s, t, k
  <1>6. /\ Least(c, s) <= Weight(c, s) + (Least(c, t) + Least(c, U))
        /\ Least(c, s) \in Nat /\ Weight(c, s) \in Nat /\ Least(c, t) \in Nat /\ Least(c, U) \in Nat
    BY <1>2, <1>3, LeastHalves DEF s, t
  <1>7. Least(c, S) \in Nat /\ Weight(c, S) \in Nat /\ Least(c, T) \in Nat
    BY <1>1, LeastHalves
  <1>8. Least(c, s) <= (Weight(c, S) + k) + (Least(c, t) + Least(c, U))
    BY <1>2, <1>6 DEF s, k
  <1>9. Least(c, s) <= Least(c, S) + (1 + d) * k
    BY <1>4, <1>5, <1>6, <1>7, <1>8, Steeper
  <1> QED
    BY <1>9 DEF Slope, s, k

\* The deepest of the two sides are the deepest of all.
LEMMA DeepestOfTwo ==
    ASSUME NEW S, NEW T, NEW U, Halves(S, T, U),
           NEW dt \in [T -> Nat], NEW du \in [U -> Nat], NEW dep \in [S -> Nat],
           \A i \in T : dep[i] = 1 + dt[i], \A i \in U : dep[i] = 1 + du[i],
           NEW x1 \in T, NEW y1 \in T, Deepest(dt, T, x1, y1),
           NEW x2 \in U, NEW y2 \in U, Deepest(du, U, x2, y2)
    PROVE  \E x, y \in S : Deepest(dep, S, x, y)
  <1>1. \A i \in S : i \in T \/ i \in U
    BY DEF Halves
  <1>2. \A i \in T \union U : i \in S
    BY DEF Halves
  <1>3. \A i \in T : dt[i] \in Nat /\ dt[i] <= dt[x1] /\ dt[i] <= dt[y1]
    BY DEF Deepest
  <1>4. \A i \in U : du[i] \in Nat /\ du[i] <= du[x2] /\ du[i] <= du[y2]
    BY DEF Deepest
  <1>5. CASE x1 # y1 /\ du[x2] <= dt[x1]
    <2>1. \A i \in S : dep[i] <= dep[x1] /\ dep[i] <= dep[y1]
      BY <1>1, <1>3, <1>4, <1>5
    <2> QED
      BY <1>2, <1>5, <2>1 DEF Deepest
  <1>6. CASE x2 # y2 /\ dt[x1] <= du[x2]
    <2>1. \A i \in S : dep[i] <= dep[x2] /\ dep[i] <= dep[y2]
      BY <1>1, <1>3, <1>4, <1>6
    <2> QED
      BY <1>2, <1>6, <2>1 DEF Deepest
  <1>7. CASE ~(x1 # y1 /\ du[x2] <= dt[x1]) /\ ~(x2 # y2 /\ dt[x1] <= du[x2])
    <2>1. (x1 = y1 => dt[x1] = 0) /\ (x2 = y2 => du[x2] = 0)
      BY DEF Deepest
    <2>2. dt[x1] \in Nat /\ du[x2] \in Nat
      BY <1>3, <1>4
    <2>3. dt[x1] = 0 /\ du[x2] = 0
      BY <1>7, <2>1, <2>2
    <2>4. \A i \in S : dep[i] = 1
      BY <1>1, <1>3, <1>4, <2>3
    <2>5. x1 # x2
      BY DEF Halves
    <2>6. x1 \in S /\ x2 \in S
      BY <1>2
    <2>7. Deepest(dep, S, x1, x2)
      BY <2>4, <2>5, <2>6 DEF Deepest
    <2> QED
      BY <2>6, <2>7
  <1> QED
    BY <1>5, <1>6, <1>7

\* The depths of the two sides give those of the whole.
LEMMA DepthsJoined ==
    ASSUME NEW X, NEW c, Natural(c, X), NEW S, IsFiniteSet(S), S \subseteq X,
           NEW T, NEW U, Halves(S, T, U), Least(c, S) = Weight(c, S) + (Least(c, T) + Least(c, U)),
           NEW dt, Depths(c, X, T, dt), NEW du, Depths(c, X, U, du)
    PROVE  \E dep : Depths(c, X, S, dep)
  <1> DEFINE dep == [i \in S |-> IF i \in T THEN 1 + dt[i] ELSE 1 + du[i]]
  <1>1. dt \in [T -> Nat] /\ du \in [U -> Nat]
    BY DEF Depths
  <1>2. \A i \in S : i \in T \/ i \in U
    BY DEF Halves
  <1>3. (\A i \in T : i \in S /\ i \notin U) /\ (\A i \in U : i \in S /\ i \notin T)
    BY DEF Halves
  <1>4. dep \in [S -> Nat]
    BY <1>1, <1>2
  <1>5. (\A i \in T : dep[i] = 1 + dt[i]) /\ (\A i \in U : dep[i] = 1 + du[i])
    BY <1>3
  <1> HIDE DEF dep
  <1>6. ASSUME NEW i \in S, NEW z \in X \ S
        PROVE  Slope(c, S, i, z, dep[i])
    <2>1. CASE i \in T
      <3>1. Slope(c, T, i, z, dt[i]) /\ dt[i] \in Nat
        BY <1>1, <1>3, <2>1 DEF Depths
      <3>2. Slope(c, S, i, z, 1 + dt[i])
        BY <2>1, <3>1, SlopeBelow
      <3> QED
        BY <1>5, <2>1, <3>2
    <2>2. CASE i \in U
      <3>1. Slope(c, U, i, z, du[i]) /\ du[i] \in Nat
        BY <1>1, <1>3, <2>2 DEF Depths
      <3>2. Halves(S, U, T)
        BY DEF Halves
      <3>3. Least(c, S) = Weight(c, S) + (Least(c, U) + Least(c, T))
        <4>1. Natural(c, S)
          BY DEF Natural
        <4>2. Least(c, U) \in Nat /\ Least(c, T) \in Nat
          BY <4>1, LeastHalves
        <4> QED
          BY <4>2
      <3>4. Slope(c, S, i, z, 1 + du[i])
        BY <2>2, <3>1, <3>2, <3>3, SlopeBelow
      <3> QED
        BY <1>5, <2>2, <3>4
    <2> QED
      BY <1>2, <2>1, <2>2
  <1>7. \E x, y \in S : Deepest(dep, S, x, y)
    <2>1. PICK x1, y1 \in T : Deepest(dt, T, x1, y1)
      BY DEF Depths
    <2>2. PICK x2, y2 \in U : Deepest(du, U, x2, y2)
      BY DEF Depths
    <2> QED
      BY <1>1, <1>4, <1>5, <2>1, <2>2, DeepestOfTwo
  <1> WITNESS dep
  <1> QED
    BY <1>4, <1>6, <1>7 DEF Depths

\* One element alone is at the top.
LEMMA DepthsOne ==
    ASSUME NEW X, NEW c, Natural(c, X), NEW x \in X
    PROVE  \E dep : Depths(c, X, {x}, dep)
  <1> DEFINE dep == [i \in {x} |-> 0]
  <1>1. dep \in [{x} -> Nat]
    OBVIOUS
  <1>2. Deepest(dep, {x}, x, x)
    BY DEF Deepest
  <1>3. \A i \in {x} : dep[i] = 0
    OBVIOUS
  <1> HIDE DEF dep
  <1>4. ASSUME NEW i \in {x}, NEW z \in X \ {x}
        PROVE  Slope(c, {x}, i, z, dep[i])
    <2>1. Swap({x}, i, z) = {z}
      BY DEF Swap
    <2>2. Least(c, Swap({x}, i, z)) = 0 /\ Least(c, {x}) = 0
      BY <2>1, LeastOne
    <2>3. 0 * (c[z] - c[i]) = 0
      BY DEF Natural
    <2>4. 0 <= 0 + 0 * (c[z] - c[i])
      BY <2>3
    <2> QED
      BY <1>3, <2>2, <2>4 DEF Slope
  <1> WITNESS dep
  <1> QED
    BY <1>1, <1>2, <1>4 DEF Depths

\* The elements of a set have depths.
LEMMA DepthsThere ==
    ASSUME NEW X, IsFiniteSet(X), NEW c, Natural(c, X), NEW S, S \subseteq X, S # {}
    PROVE  \E dep : Depths(c, X, S, dep)
  <1> DEFINE F == Parts(X) \ {{}}
             P == {s \in F : \E dep : Depths(c, X, s, dep)}
  <1>1. \A s \in F : IsFiniteSet(s) /\ s \subseteq X /\ s # {}
    BY FS_Subset DEF Parts
  <1>2. \A s : s \subseteq X /\ s # {} => s \in F
    BY DEF Parts
  <1> HIDE DEF F
  <1>3. ASSUME NEW s \in F, \A u \in F : Cardinality(u) < Cardinality(s) => u \in P
        PROVE  s \in P
    <2>1. PICK x : x \in s
      BY <1>1
    <2>2. CASE s = {x}
      <3>1. x \in X
        BY <1>1, <2>1
      <3>2. \E dep : Depths(c, X, {x}, dep)
        BY <3>1, DepthsOne
      <3> QED
        BY <2>2, <3>2
    <2>3. CASE s # {x}
      <3>1. PICK y \in s : x # y
        BY <2>1, <2>3
      <3>2. Natural(c, s) /\ IsFiniteSet(s) /\ s \subseteq X
        BY <1>1 DEF Natural
      <3>3. PICK T, U : Halves(s, T, U) /\ Least(c, s) = Weight(c, s) + (Least(c, T) + Least(c, U))
        BY <2>1, <3>1, <3>2, Halved
      <3>4. /\ T \subseteq s /\ U \subseteq s
            /\ Cardinality(T) < Cardinality(s) /\ Cardinality(U) < Cardinality(s)
        BY <3>2, <3>3, HalvesSmaller
      <3>5. T \in F /\ U \in F
        BY <1>2, <3>2, <3>3, <3>4 DEF Halves
      <3>6. T \in P /\ U \in P
        BY <1>3, <3>4, <3>5
      <3>7. PICK dt : Depths(c, X, T, dt)
        BY <3>6
      <3>8. PICK du : Depths(c, X, U, du)
        BY <3>6
      <3> QED
        BY <3>2, <3>3, <3>7, <3>8, DepthsJoined
    <2> QED
      BY <2>2, <2>3
  <1> HIDE DEF P
  <1>4. \A s \in F : s \in P
    BY <1>1, <1>3, BySize
  <1>5. S \in P
    BY <1>2, <1>4
  <1> QED
    BY <1>5 DEF P

-------------------------------------------------------------------------------
\* A split of S with a and b on one side that costs no more than T and U.
Uniting(c, S, a, b, T, U) ==
    \E P, Q : /\ Halves(S, P, Q) /\ a \in P /\ b \in P
              /\ Least(c, P) + Least(c, Q) <= Least(c, T) + Least(c, U)

\* b changes places with x, which is at least as deep beside a.
LEMMA Moved ==
    ASSUME NEW S, IsFiniteSet(S), NEW c, Natural(c, S), NEW T, NEW U, Halves(S, T, U),
           NEW a \in T, NEW b \in U, NEW dt, Depths(c, S, T, dt), NEW du, Depths(c, S, U, du),
           NEW x \in T, x # a, du[b] <= dt[x], c[b] <= c[x]
    PROVE  Uniting(c, S, a, b, T, U)
  <1> DEFINE P == Swap(T, x, b)
             Q == Swap(U, b, x)
  <1>1. Halves(S, P, Q)
    BY Exchange
  <1>2. a \in P /\ b \in P
    BY DEF Swap
  <1>3. x \in S \ U /\ b \in S \ T
    BY DEF Halves
  <1>4. Slope(c, T, x, b, dt[x]) /\ Slope(c, U, b, x, du[b])
    BY <1>3 DEF Depths
  <1>5. Least(c, P) <= Least(c, T) + dt[x] * (c[b] - c[x])
    BY <1>4 DEF Slope
  <1>6. Least(c, Q) <= Least(c, U) + du[b] * (c[x] - c[b])
    BY <1>4 DEF Slope
  <1> HIDE DEF P, Q
  <1>7. Least(c, P) \in Nat /\ Least(c, Q) \in Nat
    BY <1>1, LeastHalves
  <1>8. Least(c, T) \in Nat /\ Least(c, U) \in Nat
    BY LeastHalves
  <1>9. dt[x] \in Nat /\ du[b] \in Nat /\ c[b] \in Nat /\ c[x] \in Nat
    BY <1>3 DEF Depths, Natural
  <1> DEFINE m == dt[x] * (c[b] - c[x])
             n == du[b] * (c[x] - c[b])
  <1>10. m + n <= 0 /\ m \in Int /\ n \in Int
    BY <1>9, Leverage
  <1> HIDE DEF m, n
  <1>11. Least(c, P) + Least(c, Q) <= Least(c, T) + Least(c, U)
    <2>1. Least(c, P) <= Least(c, T) + m /\ Least(c, Q) <= Least(c, U) + n
      BY <1>5, <1>6 DEF m, n
    <2> QED
      BY <1>7, <1>8, <1>10, <2>1
  <1> QED
    BY <1>1, <1>2, <1>11 DEF Uniting

\* a and b count least in S.
Rarest(c, S, a, b) ==
    a \in S /\ b \in S /\ a # b /\ \A i \in S \ {a, b} : c[a] <= c[i] /\ c[b] <= c[i]

\* Of three or more, some split of least cost has the two that count least on one side.
LEMMA Together ==
    ASSUME NEW S, IsFiniteSet(S), NEW c, Natural(c, S), NEW a, NEW b, Rarest(c, S, a, b),
           NEW o \in S \ {a, b}
    PROVE  \E P, Q : /\ Halves(S, P, Q) /\ a \in P /\ b \in P
                     /\ Weight(c, S) + (Least(c, P) + Least(c, Q)) <= Least(c, S)
  <1>1. a \in S /\ b \in S /\ a # b /\ (\A i \in S \ {a, b} : c[a] <= c[i] /\ c[b] <= c[i])
    BY DEF Rarest
  <1>2. PICK T, U : /\ Halves(S, T, U) /\ a \in T
                    /\ Least(c, S) = Weight(c, S) + (Least(c, T) + Least(c, U))
    <2>1. PICK T, U : Halves(S, T, U) /\ Least(c, S) = Weight(c, S) + (Least(c, T) + Least(c, U))
      BY <1>1, Halved
    <2>2. Halves(S, U, T) /\ (a \in T \/ a \in U)
      BY <1>1, <2>1 DEF Halves
    <2>3. Least(c, T) + Least(c, U) = Least(c, U) + Least(c, T)
      BY <2>1, LeastHalves
    <2> QED
      BY <2>1, <2>2, <2>3
  <1>3. /\ Least(c, S) \in Nat /\ Weight(c, S) \in Nat /\ Least(c, T) \in Nat /\ Least(c, U) \in Nat
        /\ T \subseteq S /\ U \subseteq S
    BY <1>2, LeastHalves, HalvesSmaller
  <1>4. CASE b \in T
    BY <1>2, <1>3, <1>4
  <1>5. CASE b \in U
    <2>1. PICK dt : Depths(c, S, T, dt)
      BY <1>2, <1>3, DepthsThere DEF Halves
    <2>2. PICK du : Depths(c, S, U, du)
      BY <1>2, <1>3, DepthsThere DEF Halves
    <2>3. PICK x1, y1 \in T : Deepest(dt, T, x1, y1)
      BY <2>1 DEF Depths
    <2>4. PICK x2, y2 \in U : Deepest(du, U, x2, y2)
      BY <2>2 DEF Depths
    <2>5. Halves(S, U, T)
      BY <1>2 DEF Halves
    <2>6. \A i \in T : dt[i] \in Nat /\ dt[i] <= dt[x1] /\ dt[i] <= dt[y1]
      BY <2>1, <2>3 DEF Depths, Deepest
    <2>7. \A i \in U : du[i] \in Nat /\ du[i] <= du[x2] /\ du[i] <= du[y2]
      BY <2>2, <2>4 DEF Depths, Deepest
    <2>8. a \notin U /\ b \notin T
      BY <1>2, <1>5 DEF Halves
    <2>9. Uniting(c, S, a, b, T, U)
      <3>1. CASE x1 # y1 /\ du[x2] <= dt[x1]
        <4>1. PICK x \in T : x # a /\ dt[x1] <= dt[x]
          BY <2>3, <2>6, <3>1
        <4>2. c[b] <= c[x]
          BY <1>1, <1>3, <2>8, <4>1
        <4>3. du[b] <= dt[x]
          BY <1>5, <2>6, <2>7, <3>1, <4>1
        <4> QED
          BY <1>2, <1>5, <2>1, <2>2, <4>1, <4>2, <4>3, Moved
      <3>2. CASE x2 # y2 /\ dt[x1] <= du[x2]
        <4>1. PICK x \in U : x # b /\ du[x2] <= du[x]
          BY <2>4, <2>7, <3>2
        <4>2. c[a] <= c[x]
          BY <1>1, <1>3, <2>8, <4>1
        <4>3. dt[a] <= du[x]
          BY <1>2, <2>6, <2>7, <3>2, <4>1
        <4>4. Uniting(c, S, b, a, U, T)
          BY <1>2, <1>5, <2>1, <2>2, <2>5, <4>1, <4>2, <4>3, Moved
        <4>5. Least(c, T) + Least(c, U) = Least(c, U) + Least(c, T)
          BY <1>3
        <4> QED
          BY <4>4, <4>5 DEF Uniting
      <3>3. CASE ~(x1 # y1 /\ du[x2] <= dt[x1]) /\ ~(x2 # y2 /\ dt[x1] <= du[x2])
        <4>1. (x1 = y1 => T = {x1} /\ dt[x1] = 0) /\ (x2 = y2 => U = {x2} /\ du[x2] = 0)
          BY <2>3, <2>4 DEF Deepest
        <4>2. dt[x1] \in Nat /\ du[x2] \in Nat
          BY <2>3, <2>4, <2>6, <2>7
        <4>3. x1 = y1 /\ x2 = y2
          BY <3>3, <4>1, <4>2
        <4>4. T = {a} /\ U = {b}
          BY <1>2, <1>5, <4>1, <4>3
        <4>5. o \in T \/ o \in U
          BY <1>2 DEF Halves
        <4> QED
          BY <4>4, <4>5
      <3> QED
        BY <3>1, <3>2, <3>3
    <2>10. PICK P, Q : /\ Halves(S, P, Q) /\ a \in P /\ b \in P
                       /\ Least(c, P) + Least(c, Q) <= Least(c, T) + Least(c, U)
      BY <2>9 DEF Uniting
    <2>11. Least(c, P) \in Nat /\ Least(c, Q) \in Nat
      BY <2>10, LeastHalves
    <2>12. Weight(c, S) + (Least(c, P) + Least(c, Q)) <= Least(c, S)
      BY <1>2, <1>3, <2>10, <2>11
    <2> QED
      BY <2>10, <2>12
  <1> QED
    BY <1>1, <1>2, <1>4, <1>5 DEF Halves

-------------------------------------------------------------------------------
\* S with m instead of a and b, and what makes m their parent.
Fused(S, a, b, m) == (S \ {a, b}) \union {m}
Fusing(c, S, a, b, m) ==
    /\ IsFiniteSet(S) /\ Natural(c, S \union {m})
    /\ a \in S /\ b \in S /\ a # b /\ m \notin S
    /\ c[m] = c[a] + c[b]

\* Halves, with m instead of a and b.
LEMMA FusedHalves ==
    ASSUME NEW S, NEW T, NEW U, Halves(S, T, U), NEW a \in T, NEW b \in T, NEW m, m \notin S
    PROVE  Halves(Fused(S, a, b, m), Fused(T, a, b, m), U)
  <1>1. Fused(T, a, b, m) # {} /\ U # {}
    BY DEF Fused, Halves
  <1>2. Fused(T, a, b, m) \union U = Fused(S, a, b, m)
    BY DEF Fused, Halves
  <1>3. Fused(T, a, b, m) \intersect U = {}
    BY DEF Fused, Halves
  <1> QED
    BY <1>1, <1>2, <1>3 DEF Halves

\* Halves, with a and b instead of m.
LEMMA UnfusedHalves ==
    ASSUME NEW S, NEW a \in S, NEW b \in S, NEW m, m \notin S,
           NEW P, NEW Q, Halves(Fused(S, a, b, m), P, Q), m \in P
    PROVE  \E T : Halves(S, T, Q) /\ a \in T /\ b \in T /\ Fused(T, a, b, m) = P
  <1> DEFINE T == (P \ {m}) \union {a, b}
  <1>1. a \notin Fused(S, a, b, m) /\ b \notin Fused(S, a, b, m)
    BY DEF Fused
  <1>2. a \notin P /\ b \notin P /\ a \notin Q /\ b \notin Q /\ m \notin Q
    BY <1>1 DEF Halves
  <1>3. Fused(T, a, b, m) = P
    BY <1>2 DEF Fused
  <1>4. T \intersect Q = {} /\ T # {} /\ Q # {}
    BY <1>2 DEF Halves
  <1>5. T \union Q = S
    BY <1>2 DEF Halves, Fused
  <1>6. a \in T /\ b \in T
    OBVIOUS
  <1> HIDE DEF T
  <1> QED
    BY <1>3, <1>4, <1>5, <1>6 DEF Halves

\* Fusing keeps the weight.
LEMMA Fusion ==
    ASSUME NEW S, NEW c, NEW a, NEW b, NEW m, Fusing(c, S, a, b, m)
    PROVE  /\ IsFiniteSet(Fused(S, a, b, m)) /\ Natural(c, Fused(S, a, b, m))
           /\ IsFiniteSet(S) /\ Natural(c, S) /\ c[m] \in Nat
           /\ Weight(c, Fused(S, a, b, m)) = Weight(c, S) /\ Weight(c, S) \in Nat
           /\ Least(c, Fused(S, a, b, m)) \in Nat /\ Least(c, S) \in Nat
  <1>1. /\ IsFiniteSet(S) /\ Natural(c, S) /\ Natural(c, S \union {m}) /\ c[m] \in Nat
        /\ a \in S /\ b \in S /\ a # b /\ m \notin S /\ c[m] = c[a] + c[b]
    BY DEF Fusing, Natural
  <1> DEFINE R == S \ {a}
             V == R \ {b}
  <1>2. IsFiniteSet(R) /\ IsFiniteSet(V) /\ b \in R /\ m \notin V
    BY <1>1, FS_RemoveElement
  <1>3. Natural(c, R) /\ Natural(c, V \union {m})
    BY <1>1 DEF Natural
  <1>4. Fused(S, a, b, m) = V \union {m}
    BY DEF Fused
  <1>5. Weight(c, S) = c[a] + Weight(c, R) /\ Weight(c, S) \in Nat /\ c[a] \in Nat
    BY <1>1, SumWithout
  <1>6. Weight(c, R) = c[b] + Weight(c, V) /\ Weight(c, V) \in Nat /\ c[b] \in Nat
    <2> HIDE DEF R
    <2> QED
      BY <1>2, <1>3, SumWithout
  <1> HIDE DEF R, V
  <1>7. Weight(c, V \union {m}) = c[m] + Weight(c, V)
    BY <1>2, <1>3, SumWith
  <1>8. IsFiniteSet(V \union {m})
    BY <1>2, FS_AddElement
  <1>9. Weight(c, V \union {m}) = Weight(c, S)
    BY <1>1, <1>5, <1>6, <1>7
  <1>10. Least(c, V \union {m}) \in Nat /\ Least(c, S) \in Nat
    BY <1>1, <1>3, <1>8, LeastNat
  <1> QED
    BY <1>1, <1>3, <1>4, <1>5, <1>8, <1>9, <1>10

\* The same for the sets between {a, b} and S.
LEMMA FusingPart ==
    ASSUME NEW S, NEW c, NEW a, NEW b, NEW m, Fusing(c, S, a, b, m),
           NEW T, T \subseteq S, a \in T, b \in T
    PROVE  Fusing(c, T, a, b, m)
  BY FS_Subset DEF Fusing, Natural

\* a and b alone.
LEMMA FusedPair ==
    ASSUME NEW S, NEW c, NEW a, NEW b, NEW m, Fusing(c, S, a, b, m), S = {a, b}
    PROVE  Least(c, S) = c[m] /\ Least(c, Fused(S, a, b, m)) = 0
  <1>1. /\ IsFiniteSet(S) /\ Natural(c, S) /\ c[m] \in Nat
        /\ Weight(c, Fused(S, a, b, m)) = Weight(c, S) /\ Weight(c, S) \in Nat
    BY Fusion
  <1>2. Fused(S, a, b, m) = {m}
    BY DEF Fused
  <1>3. Weight(c, {m}) = c[m]
    <2>1. IsFiniteSet({m}) /\ Countable(c, {m})
      BY <1>1, FS_Singleton DEF Countable
    <2> QED
      BY <2>1, WeightOne
  <1>4. Least(c, Fused(S, a, b, m)) = 0
    BY <1>2, LeastOne
  <1>5. \A T, U : Halves(S, T, U) => (T = {a} /\ U = {b}) \/ (T = {b} /\ U = {a})
    BY DEF Halves
  <1>6. a \in S /\ b \in S /\ a # b
    BY DEF Fusing
  <1>7. PICK T, U : Halves(S, T, U) /\ Least(c, S) = Weight(c, S) + (Least(c, T) + Least(c, U))
    BY <1>1, <1>6, Halved
  <1>8. Least(c, T) = 0 /\ Least(c, U) = 0
    BY <1>5, <1>7, LeastOne
  <1>9. Least(c, S) = Weight(c, S)
    BY <1>1, <1>7, <1>8
  <1> QED
    BY <1>1, <1>2, <1>3, <1>4, <1>9

\* A tree with m at a leaf becomes one with a and b below it.
LEMMA FusedAtMost ==
    ASSUME NEW S, NEW c, NEW a, NEW b, NEW m, Fusing(c, S, a, b, m)
    PROVE  Least(c, S) <= Least(c, Fused(S, a, b, m)) + c[m]
  <1> DEFINE F == {s \in Parts(S) : a \in s /\ b \in s}
             P == {s \in F : Least(c, s) <= Least(c, Fused(s, a, b, m)) + c[m]}
  <1>1. \A s \in F : Fusing(c, s, a, b, m)
    BY FusingPart DEF Parts
  <1>2. \A s \in F : \A t : t \subseteq s /\ a \in t /\ b \in t => t \in F
    BY DEF Parts
  <1>3. S \in F
    BY DEF Parts, Fusing
  <1> HIDE DEF F
  <1>4. ASSUME NEW s \in F, \A u \in F : Cardinality(u) < Cardinality(s) => u \in P
        PROVE  s \in P
    <2>1. /\ IsFiniteSet(Fused(s, a, b, m)) /\ Natural(c, Fused(s, a, b, m))
          /\ IsFiniteSet(s) /\ Natural(c, s) /\ c[m] \in Nat
          /\ Weight(c, Fused(s, a, b, m)) = Weight(c, s) /\ Weight(c, s) \in Nat
          /\ Least(c, Fused(s, a, b, m)) \in Nat /\ Least(c, s) \in Nat
      BY <1>1, Fusion
    <2>2. a \in s /\ b \in s /\ a # b /\ m \notin s
      BY <1>1 DEF Fusing
    <2>3. CASE s = {a, b}
      <3>1. Least(c, s) = c[m] /\ Least(c, Fused(s, a, b, m)) = 0
        BY <1>1, <2>3, FusedPair
      <3>2. c[m] <= 0 + c[m]
        BY <2>1
      <3> QED
        BY <3>1, <3>2
    <2>4. CASE s # {a, b}
      <3>1. PICK o : o \in s /\ o # a /\ o # b
        BY <2>2, <2>4
      <3>2. m \in Fused(s, a, b, m) /\ o \in Fused(s, a, b, m) /\ m # o
        BY <2>2, <3>1 DEF Fused
      <3>3. PICK V, Q : /\ Halves(Fused(s, a, b, m), V, Q) /\ m \in V
                        /\ Least(c, Fused(s, a, b, m)) = Weight(c, s) + (Least(c, V) + Least(c, Q))
        <4>1. PICK V, Q : /\ Halves(Fused(s, a, b, m), V, Q)
                          /\ Least(c, Fused(s, a, b, m)) = Weight(c, s) + (Least(c, V) + Least(c, Q))
          BY <2>1, <3>2, Halved
        <4>2. Halves(Fused(s, a, b, m), Q, V) /\ (m \in V \/ m \in Q)
          BY <3>2, <4>1 DEF Halves
        <4>3. Least(c, V) + Least(c, Q) = Least(c, Q) + Least(c, V)
          BY <2>1, <4>1, LeastHalves
        <4> QED
          BY <4>1, <4>2, <4>3
      <3>4. PICK T : Halves(s, T, Q) /\ a \in T /\ b \in T /\ Fused(T, a, b, m) = V
        BY <2>2, <3>3, UnfusedHalves
      <3>5. T \subseteq s /\ Cardinality(T) < Cardinality(s)
        BY <2>1, <3>4, HalvesSmaller
      <3>6. T \in P
        BY <1>2, <1>4, <3>4, <3>5
      <3>7. Least(c, T) <= Least(c, V) + c[m]
        BY <3>4, <3>6
      <3>8. /\ Least(c, s) <= Weight(c, s) + (Least(c, T) + Least(c, Q))
            /\ Least(c, T) \in Nat /\ Least(c, Q) \in Nat
        BY <2>1, <3>4, LeastHalves
      <3>9. Least(c, V) \in Nat
        BY <2>1, <3>3, LeastHalves
      <3>10. Least(c, s) <= Least(c, Fused(s, a, b, m)) + c[m]
        BY <2>1, <3>3, <3>7, <3>8, <3>9
      <3> QED
        BY <3>10
    <2> QED
      BY <2>3, <2>4
  <1>5. \A s \in F : IsFiniteSet(s)
    BY <1>1 DEF Fusing
  <1> HIDE DEF P
  <1>6. \A s \in F : s \in P
    BY <1>4, <1>5, BySize
  <1>7. S \in P
    BY <1>3, <1>6
  <1> QED
    BY <1>7 DEF P

\* With the two rarest under one node, the tree has that node at a leaf.
LEMMA FusedAtLeast ==
    ASSUME NEW S, NEW c, NEW a, NEW b, NEW m, Fusing(c, S, a, b, m), Rarest(c, S, a, b)
    PROVE  Least(c, Fused(S, a, b, m)) + c[m] <= Least(c, S)
  <1> DEFINE F == {s \in Parts(S) : a \in s /\ b \in s}
             P == {s \in F : Least(c, Fused(s, a, b, m)) + c[m] <= Least(c, s)}
  <1>1. \A s \in F : Fusing(c, s, a, b, m)
    BY FusingPart DEF Parts
  <1>2. \A s \in F : \A t : t \subseteq s /\ a \in t /\ b \in t => t \in F
    BY DEF Parts
  <1>3. S \in F
    BY DEF Parts, Fusing
  <1>4. \A s \in F : Rarest(c, s, a, b)
    BY DEF Parts, Rarest
  <1> HIDE DEF F
  <1>5. ASSUME NEW s \in F, \A u \in F : Cardinality(u) < Cardinality(s) => u \in P
        PROVE  s \in P
    <2>1. /\ IsFiniteSet(Fused(s, a, b, m)) /\ Natural(c, Fused(s, a, b, m))
          /\ IsFiniteSet(s) /\ Natural(c, s) /\ c[m] \in Nat
          /\ Weight(c, Fused(s, a, b, m)) = Weight(c, s) /\ Weight(c, s) \in Nat
          /\ Least(c, Fused(s, a, b, m)) \in Nat /\ Least(c, s) \in Nat
      BY <1>1, Fusion
    <2>2. a \in s /\ b \in s /\ a # b /\ m \notin s
      BY <1>1 DEF Fusing
    <2>3. CASE s = {a, b}
      <3>1. Least(c, s) = c[m] /\ Least(c, Fused(s, a, b, m)) = 0
        BY <1>1, <2>3, FusedPair
      <3>2. 0 + c[m] <= c[m]
        BY <2>1
      <3> QED
        BY <3>1, <3>2
    <2>4. CASE s # {a, b}
      <3>1. PICK o : o \in s \ {a, b}
        BY <2>2, <2>4
      <3>2. PICK T, Q : /\ Halves(s, T, Q) /\ a \in T /\ b \in T
                        /\ Weight(c, s) + (Least(c, T) + Least(c, Q)) <= Least(c, s)
        BY <1>4, <2>1, <3>1, Together
      <3>3. Halves(Fused(s, a, b, m), Fused(T, a, b, m), Q)
        BY <2>2, <3>2, FusedHalves
      <3>4. T \subseteq s /\ Cardinality(T) < Cardinality(s)
        BY <2>1, <3>2, HalvesSmaller
      <3>5. T \in P
        BY <1>2, <1>5, <3>2, <3>4
      <3>6. Least(c, Fused(T, a, b, m)) + c[m] <= Least(c, T)
        BY <3>5
      <3>7. Least(c, T) \in Nat /\ Least(c, Q) \in Nat
        BY <2>1, <3>2, LeastHalves
      <3>8. /\ Least(c, Fused(s, a, b, m)) <= Weight(c, s) + (Least(c, Fused(T, a, b, m)) + Least(c, Q))
            /\ Least(c, Fused(T, a, b, m)) \in Nat
        BY <2>1, <3>3, LeastHalves
      <3>9. Least(c, Fused(s, a, b, m)) + c[m] <= Least(c, s)
        BY <2>1, <3>2, <3>6, <3>7, <3>8
      <3> QED
        BY <3>9
    <2> QED
      BY <2>3, <2>4
  <1>6. \A s \in F : IsFiniteSet(s)
    BY <1>1 DEF Fusing
  <1> HIDE DEF P
  <1>7. \A s \in F : s \in P
    BY <1>5, <1>6, BySize
  <1>8. S \in P
    BY <1>3, <1>7
  <1> QED
    BY <1>8 DEF P

\* Huffman's step: the two that count least can be merged first.
LEMMA Greedy ==
    ASSUME NEW S, NEW c, NEW a, NEW b, NEW m, Fusing(c, S, a, b, m), Rarest(c, S, a, b)
    PROVE  Least(c, S) = Least(c, Fused(S, a, b, m)) + c[m]
  <1>1. Least(c, Fused(S, a, b, m)) \in Nat /\ Least(c, S) \in Nat /\ c[m] \in Nat
    BY Fusion
  <1>2. /\ Least(c, S) <= Least(c, Fused(S, a, b, m)) + c[m]
        /\ Least(c, Fused(S, a, b, m)) + c[m] <= Least(c, S)
    BY FusedAtMost, FusedAtLeast
  <1> QED
    BY <1>1, <1>2

-------------------------------------------------------------------------------
\* r gives other names, under which d counts what c did.
Renamed(r, S) == {r[t] : t \in S}
Renames(r, c, d, S) ==
    /\ \A t, u \in S : r[t] = r[u] => t = u
    /\ \A t \in S : d[r[t]] = c[t]

\* No elements, no weight.
LEMMA NothingWeighs == \A c : Weight(c, {}) = 0
  <1> SUFFICES ASSUME NEW c PROVE Weight(c, {}) = 0
    OBVIOUS
  <1>1. {} \in Parts({}) /\ IsFiniteSet({})
    BY FS_EmptySet DEF Parts
  <1> QED
    BY <1>1, WeightUnfold

\* Under other names there are as many, and they count the same.
LEMMA RenamedNatural ==
    ASSUME NEW S, IsFiniteSet(S), NEW c, Natural(c, S), NEW r, NEW d, Renames(r, c, d, S)
    PROVE  IsFiniteSet(Renamed(r, S)) /\ Natural(d, Renamed(r, S))
  <1>1. Natural(d, Renamed(r, S))
    BY DEF Natural, Renamed, Renames
  <1> DEFINE F == Parts(S)
             P == {s \in F : IsFiniteSet(Renamed(r, s))}
  <1>2. \A s \in F : IsFiniteSet(s)
    BY FS_Subset DEF Parts
  <1>3. ASSUME NEW s \in F, \A u \in F : Cardinality(u) < Cardinality(s) => u \in P
        PROVE  s \in P
    <2>1. CASE s = {}
      <3>1. Renamed(r, s) = {}
        BY <2>1 DEF Renamed
      <3>2. IsFiniteSet(Renamed(r, s))
        BY <3>1, FS_EmptySet
      <3> QED
        BY <3>2
    <2>2. CASE s # {}
      <3>1. PICK x : x \in s
        BY <2>2
      <3> DEFINE u == s \ {x}
      <3>2. u \in F /\ IsFiniteSet(u)
        BY <1>2, FS_RemoveElement DEF Parts
      <3>3. Cardinality(u) = Cardinality(s) - 1 /\ Cardinality(s) \in Nat
        BY <1>2, <3>1, FS_RemoveElement, FS_CardinalityType
      <3>4. Renamed(r, s) = Renamed(r, u) \union {r[x]}
        BY <3>1 DEF Renamed
      <3> HIDE DEF u
      <3>5. IsFiniteSet(Renamed(r, u))
        BY <1>3, <3>2, <3>3
      <3>6. IsFiniteSet(Renamed(r, s))
        BY <3>4, <3>5, FS_AddElement
      <3> QED
        BY <3>6
    <2> QED
      BY <2>1, <2>2
  <1> HIDE DEF P
  <1>4. \A s \in F : s \in P
    BY <1>2, <1>3, BySize
  <1>5. S \in F
    BY DEF Parts
  <1> QED
    BY <1>1, <1>4, <1>5 DEF P

\* Names do not matter for sums.
LEMMA WeightRenamed ==
    ASSUME NEW S, IsFiniteSet(S), NEW c, Natural(c, S), NEW r, NEW d, Renames(r, c, d, S)
    PROVE  Weight(d, Renamed(r, S)) = Weight(c, S)
  <1> DEFINE F == Parts(S)
             P == {s \in F : Weight(d, Renamed(r, s)) = Weight(c, s)}
  <1>1. \A s \in F : IsFiniteSet(s)
    BY FS_Subset DEF Parts
  <1>2. \A s \in F : Natural(c, s) /\ Renames(r, c, d, s)
    BY DEF Parts, Natural, Renames
  <1>3. ASSUME NEW s \in F, \A u \in F : Cardinality(u) < Cardinality(s) => u \in P
        PROVE  s \in P
    <2>1. CASE s = {}
      <3>1. Renamed(r, s) = {}
        BY <2>1 DEF Renamed
      <3>2. Weight(d, Renamed(r, s)) = Weight(c, s)
        BY <2>1, <3>1, NothingWeighs
      <3> QED
        BY <3>2
    <2>2. CASE s # {}
      <3>1. PICK x : x \in s
        BY <2>2
      <3> DEFINE u == s \ {x}
      <3>2. u \in F
        BY DEF Parts
      <3>3. Cardinality(u) = Cardinality(s) - 1 /\ Cardinality(s) \in Nat
        BY <1>1, <3>1, FS_RemoveElement, FS_CardinalityType
      <3>4. Renamed(r, u) = Renamed(r, s) \ {r[x]}
        BY <1>2, <3>1 DEF Renamed, Renames
      <3>5. r[x] \in Renamed(r, s) /\ d[r[x]] = c[x]
        BY <1>2, <3>1 DEF Renamed, Renames
      <3>6. Weight(c, s) = c[x] + Weight(c, u)
        BY <1>1, <1>2, <3>1, SumWithout
      <3> HIDE DEF u
      <3>7. IsFiniteSet(Renamed(r, s)) /\ Natural(d, Renamed(r, s))
        BY <1>1, <1>2, RenamedNatural
      <3>8. Weight(d, Renamed(r, s)) = d[r[x]] + Weight(d, Renamed(r, s) \ {r[x]})
        BY <3>5, <3>7, SumWithout
      <3>9. Weight(d, Renamed(r, u)) = Weight(c, u)
        BY <1>3, <3>2, <3>3
      <3>10. Weight(d, Renamed(r, s)) = Weight(c, s)
        BY <3>4, <3>5, <3>6, <3>8, <3>9
      <3> QED
        BY <3>10
    <2> QED
      BY <2>1, <2>2
  <1> HIDE DEF P
  <1>4. \A s \in F : s \in P
    BY <1>1, <1>3, BySize
  <1>5. S \in F
    BY DEF Parts
  <1> QED
    BY <1>4, <1>5 DEF P

\* Halves, under other names.
LEMMA RenamedHalves ==
    ASSUME NEW S, NEW c, NEW r, NEW d, Renames(r, c, d, S), NEW T, NEW U, Halves(S, T, U)
    PROVE  Halves(Renamed(r, S), Renamed(r, T), Renamed(r, U))
  <1>1. Renamed(r, T) # {} /\ Renamed(r, U) # {}
    BY DEF Halves, Renamed
  <1>2. Renamed(r, T) \union Renamed(r, U) = Renamed(r, S)
    BY DEF Halves, Renamed
  <1>3. Renamed(r, T) \intersect Renamed(r, U) = {}
    BY DEF Halves, Renamed, Renames
  <1> QED
    BY <1>1, <1>2, <1>3 DEF Halves

\* A tree is no dearer under other names.
LEMMA RenamedAtMost ==
    ASSUME NEW S, IsFiniteSet(S), NEW c, Natural(c, S), NEW r, NEW d, Renames(r, c, d, S)
    PROVE  Least(d, Renamed(r, S)) <= Least(c, S)
  <1> DEFINE F == Parts(S)
             P == {s \in F : Least(d, Renamed(r, s)) <= Least(c, s)}
  <1>1. \A s \in F : IsFiniteSet(s)
    BY FS_Subset DEF Parts
  <1>2. \A s \in F : Natural(c, s) /\ Renames(r, c, d, s)
    BY DEF Parts, Natural, Renames
  <1>3. \A s \in F : \A t : t \subseteq s => t \in F
    BY DEF Parts
  <1>4. S \in F
    BY DEF Parts
  <1> HIDE DEF F
  <1>5. ASSUME NEW s \in F, \A u \in F : Cardinality(u) < Cardinality(s) => u \in P
        PROVE  s \in P
    <2>1. IsFiniteSet(Renamed(r, s)) /\ Natural(d, Renamed(r, s))
      BY <1>1, <1>2, RenamedNatural
    <2>2. CASE s = {}
      <3>1. Renamed(r, s) = {}
        BY <2>2 DEF Renamed
      <3>2. IsFiniteSet(s) /\ Cardinality(s) = 0
        BY <1>1, <2>2, FS_EmptySet
      <3>3. Least(c, s) = 0 /\ Least(d, s) = 0
        BY <3>2, LeastSingle
      <3> QED
        BY <2>2, <3>1, <3>3
    <2>3. CASE \E x : s = {x}
      <3>1. PICK x : s = {x}
        BY <2>3
      <3>2. Renamed(r, s) = {r[x]}
        BY <3>1 DEF Renamed
      <3>3. Least(c, s) = 0 /\ Least(d, Renamed(r, s)) = 0
        BY <3>1, <3>2, LeastOne
      <3> QED
        BY <3>3
    <2>4. CASE s # {} /\ ~ \E x : s = {x}
      <3>1. PICK x, y \in s : x # y
        <4>1. PICK x : x \in s
          BY <2>4
        <4>2. s # {x}
          BY <2>4
        <4>3. \E y \in s : x # y
          BY <4>1, <4>2
        <4> QED
          BY <4>1, <4>3
      <3>2. PICK T, U : Halves(s, T, U) /\ Least(c, s) = Weight(c, s) + (Least(c, T) + Least(c, U))
        BY <1>1, <1>2, <3>1, Halved
      <3>3. /\ T \subseteq s /\ U \subseteq s
            /\ Cardinality(T) < Cardinality(s) /\ Cardinality(U) < Cardinality(s)
        BY <1>1, <3>2, HalvesSmaller
      <3>4. T \in P /\ U \in P
        BY <1>3, <1>5, <3>3
      <3>5. Least(d, Renamed(r, T)) <= Least(c, T) /\ Least(d, Renamed(r, U)) <= Least(c, U)
        BY <3>4
      <3>6. Halves(Renamed(r, s), Renamed(r, T), Renamed(r, U))
        BY <1>2, <3>2, RenamedHalves
      <3>7. /\ Least(d, Renamed(r, s)) <= Weight(d, Renamed(r, s))
                                              + (Least(d, Renamed(r, T)) + Least(d, Renamed(r, U)))
            /\ Least(d, Renamed(r, s)) \in Nat
            /\ Least(d, Renamed(r, T)) \in Nat /\ Least(d, Renamed(r, U)) \in Nat
        BY <2>1, <3>6, LeastHalves
      <3>8. Weight(d, Renamed(r, s)) = Weight(c, s)
        BY <1>1, <1>2, WeightRenamed
      <3>9. /\ Least(c, s) \in Nat /\ Weight(c, s) \in Nat
            /\ Least(c, T) \in Nat /\ Least(c, U) \in Nat
        BY <1>1, <1>2, <3>2, LeastHalves
      <3>10. Least(d, Renamed(r, s)) <= Least(c, s)
        BY <3>2, <3>5, <3>7, <3>8, <3>9
      <3> QED
        BY <3>10
    <2> QED
      BY <2>2, <2>3, <2>4
  <1> HIDE DEF P
  <1>6. \A s \in F : s \in P
    BY <1>1, <1>5, BySize
  <1> QED
    BY <1>4, <1>6 DEF P

\* Nor for the least cost.
LEMMA LeastRenamed ==
    ASSUME NEW S, IsFiniteSet(S), NEW c, Natural(c, S), NEW r, NEW d, Renames(r, c, d, S)
    PROVE  Least(d, Renamed(r, S)) = Least(c, S)
  <1> DEFINE R == Renamed(r, S)
             q == [y \in R |-> CHOOSE t \in S : r[t] = y]
  <1>1. \A t \in S : r[t] \in R /\ q[r[t]] = t
    BY DEF Renamed, Renames
  <1>2. \A y \in R : \E t \in S : y = r[t]
    BY DEF Renamed
  <1>3. IsFiniteSet(R) /\ Natural(d, R)
    BY RenamedNatural
  <1> HIDE DEF R, q
  <1>4. Renamed(q, R) = S
    BY <1>1, <1>2 DEF Renamed
  <1>5. Renames(q, d, c, R)
    BY <1>1, <1>2 DEF Renames
  <1>6. Least(c, Renamed(q, R)) <= Least(d, R)
    BY <1>3, <1>5, RenamedAtMost
  <1>7. Least(d, R) <= Least(c, S)
    BY RenamedAtMost DEF R
  <1>8. Least(d, R) \in Nat /\ Least(c, S) \in Nat
    BY <1>3, LeastNat
  <1>9. Least(d, R) = Least(c, S)
    BY <1>4, <1>6, <1>7, <1>8
  <1> QED
    BY <1>9 DEF R

\* The sum of sums.
LEMMA WeightAdds ==
    ASSUME NEW S, IsFiniteSet(S), NEW f, NEW g, NEW h, Natural(f, S), Natural(g, S),
           \A t \in S : h[t] = f[t] + g[t]
    PROVE  Weight(h, S) = Weight(f, S) + Weight(g, S)
  <1> DEFINE F == Parts(S)
             P == {s \in F : Weight(h, s) = Weight(f, s) + Weight(g, s)}
  <1>1. \A s \in F : IsFiniteSet(s)
    BY FS_Subset DEF Parts
  <1>2. \A s \in F : Natural(f, s) /\ Natural(g, s) /\ Natural(h, s)
    BY DEF Parts, Natural
  <1>3. ASSUME NEW s \in F, \A u \in F : Cardinality(u) < Cardinality(s) => u \in P
        PROVE  s \in P
    <2>1. CASE s = {}
      <3>1. Weight(h, s) = 0 /\ Weight(f, s) = 0 /\ Weight(g, s) = 0
        BY <2>1, NothingWeighs
      <3> QED
        BY <3>1
    <2>2. CASE s # {}
      <3>1. PICK x : x \in s
        BY <2>2
      <3> DEFINE u == s \ {x}
      <3>2. u \in F
        BY DEF Parts
      <3>3. Cardinality(u) = Cardinality(s) - 1 /\ Cardinality(s) \in Nat
        BY <1>1, <3>1, FS_RemoveElement, FS_CardinalityType
      <3>4. Weight(f, s) = f[x] + Weight(f, u) /\ Weight(f, u) \in Nat /\ f[x] \in Nat
        BY <1>1, <1>2, <3>1, SumWithout
      <3>5. Weight(g, s) = g[x] + Weight(g, u) /\ Weight(g, u) \in Nat /\ g[x] \in Nat
        BY <1>1, <1>2, <3>1, SumWithout
      <3>6. Weight(h, s) = h[x] + Weight(h, u)
        BY <1>1, <1>2, <3>1, SumWithout
      <3>7. h[x] = f[x] + g[x]
        BY <3>1 DEF Parts
      <3> HIDE DEF u
      <3>8. Weight(h, u) = Weight(f, u) + Weight(g, u)
        BY <1>3, <3>2, <3>3
      <3>9. Weight(h, s) = Weight(f, s) + Weight(g, s)
        BY <3>4, <3>5, <3>6, <3>7, <3>8
      <3> QED
        BY <3>9
    <2> QED
      BY <2>1, <2>2
  <1> HIDE DEF P
  <1>4. \A s \in F : s \in P
    BY <1>1, <1>3, BySize
  <1>5. S \in F
    BY DEF Parts
  <1> QED
    BY <1>4, <1>5 DEF P

\* Zeros add to zero.
LEMMA WeightZero ==
    ASSUME NEW S, IsFiniteSet(S), NEW f, \A t \in S : f[t] = 0
    PROVE  Weight(f, S) = 0
  <1>1. Natural(f, S)
    BY DEF Natural
  <1>2. \A h : Natural(h, S) /\ (\A t \in S : h[t] = f[t] + f[t])
                => Weight(h, S) = Weight(f, S) + Weight(f, S)
    BY <1>1, WeightAdds
  <1>3. \A t \in S : f[t] = f[t] + f[t]
    OBVIOUS
  <1>4. Weight(f, S) = Weight(f, S) + Weight(f, S)
    BY <1>1, <1>2, <1>3, Zenon
  <1>5. Weight(f, S) \in Nat
    BY <1>1, WeightNat
  <1>6. \A n \in Nat : n = n + n => n = 0
    OBVIOUS
  <1> QED
    BY <1>4, <1>5, <1>6, Zenon

\* The weight depends on the counts of the elements only.
LEMMA WeightAlike ==
    ASSUME NEW S, IsFiniteSet(S), NEW f, Natural(f, S), NEW g, \A t \in S : g[t] = f[t]
    PROVE  Weight(g, S) = Weight(f, S)
  <1> DEFINE r == [t \in S |-> t]
  <1>1. Renamed(r, S) = S /\ Renames(r, f, g, S)
    BY DEF Renamed, Renames
  <1> HIDE DEF r
  <1> QED
    BY <1>1, WeightRenamed

-------------------------------------------------------------------------------
(* The heap makes a tree of least cost.                                         *)

CountOf == [n \in Nodes |-> n.count]

\* d[t] is the level of token t in the trees of N.
Levels(d, N) == \A n \in N : \A p \in DOMAIN n.tree : n.tree[p] # Inner => d[n.tree[p]] = Len(p)
Costing(d, c) == [t \in DOMAIN c |-> c[t] * d[t]]

\* The branches made so far and a tree of least cost over the nodes that are left
\* make a tree of least cost.
Thrifty(N, c) ==
    \E d \in [DOMAIN c -> Nat] :
        /\ Levels(d, N)
        /\ Least(c, DOMAIN c) = Least(CountOf, N) + Weight(Costing(d, c), DOMAIN c)

\* A leaf of a tree made of two is one level below where it was.
LEMMA JoinedLeaves ==
    ASSUME NEW f \in Trees, NEW g \in Trees, NEW e, e = Joined(f, g)
    PROVE  \A p \in DOMAIN e : e[p] # Inner =>
               \/ \E q \in DOMAIN f : e[p] = f[q] /\ Len(p) = Len(q) + 1
               \/ \E q \in DOMAIN g : e[p] = g[q] /\ Len(p) = Len(q) + 1
  <1> DEFINE L == {Cons(0, q) : q \in DOMAIN f}
             R == {Cons(1, q) : q \in DOMAIN g}
  <1>1. DOMAIN f \subseteq Codes /\ DOMAIN g \subseteq Codes
    BY TreeSet
  <1>2. /\ e = [p \in {<< >>} \union L \union R |->
                   IF p = << >> THEN Inner ELSE IF p[1] = 0 THEN f[Tail(p)] ELSE g[Tail(p)]]
        /\ DOMAIN e = {<< >>} \union L \union R
    BY DEF Joined, Cons
  <1>3. \A q \in DOMAIN f : /\ Cons(0, q) # << >> /\ Len(Cons(0, q)) = Len(q) + 1
                            /\ Cons(0, q)[1] = 0 /\ Tail(Cons(0, q)) = q
    BY <1>1, ConsCode DEF Bits
  <1>4. \A q \in DOMAIN g : /\ Cons(1, q) # << >> /\ Len(Cons(1, q)) = Len(q) + 1
                            /\ Cons(1, q)[1] = 1 /\ Tail(Cons(1, q)) = q
    BY <1>1, ConsCode DEF Bits
  <1>5. ASSUME NEW p \in DOMAIN e, e[p] # Inner
        PROVE  \/ \E q \in DOMAIN f : e[p] = f[q] /\ Len(p) = Len(q) + 1
               \/ \E q \in DOMAIN g : e[p] = g[q] /\ Len(p) = Len(q) + 1
    <2>1. p \in {<< >>} \union L \union R
      BY <1>2
    <2>2. e[p] = IF p = << >> THEN Inner ELSE IF p[1] = 0 THEN f[Tail(p)] ELSE g[Tail(p)]
      <3> HIDE DEF L, R
      <3> QED
        BY <1>2, <2>1
    <2>3. p # << >>
      BY <1>5, <2>2
    <2>4. CASE p \in L
      <3>1. PICK q \in DOMAIN f : p = Cons(0, q)
        BY <2>4
      <3>2. p[1] = 0 /\ Tail(p) = q /\ Len(p) = Len(q) + 1
        BY <1>3, <3>1
      <3> QED
        BY <2>2, <2>3, <3>2
    <2>5. CASE p \in R
      <3>1. PICK q \in DOMAIN g : p = Cons(1, q)
        BY <2>5
      <3>2. p[1] = 1 /\ Tail(p) = q /\ Len(p) = Len(q) + 1
        BY <1>4, <3>1
      <3>3. p[1] # 0
        BY <3>2
      <3>4. e[p] = g[q]
        BY <2>2, <2>3, <3>2, <3>3
      <3> QED
        BY <3>2, <3>4
    <2> QED
      BY <2>1, <2>3, <2>4, <2>5
  <1> QED
    BY <1>5

\* A sequence has finitely many elements.
LEMMA RangeFinite ==
    ASSUME NEW S, NEW s \in Seq(S)
    PROVE  IsFiniteSet(Range(s))
  <1>1. Len(s) \in Nat /\ \A x : x \in Range(s) <=> \E i \in 1..Len(s) : s[i] = x
    BY RangeIs
  <1>2. IsFiniteSet(1..Len(s))
    BY <1>1, FS_Interval
  <1>3. s \in [1..Len(s) -> Range(s)]
    BY <1>1
  <1>4. s \in Surjection(1..Len(s), Range(s))
    BY <1>1, <1>3 DEF Surjection
  <1> QED
    BY <1>2, <1>4, FS_Surjection

\* The nodes count natural numbers, and have tokens of their own.
LEMMA ForestCounts ==
    ASSUME NEW c, Tallied(c), NEW N, Forest(N, c)
    PROVE  /\ Natural(CountOf, N)
           /\ \A n \in N : /\ n \in Nodes /\ CountOf[n] = n.count /\ n.count \in Nat
                           /\ n.tree \in Trees /\ TokensIn(n.tree) # {}
                           /\ TokensIn(n.tree) \subseteq DOMAIN c
                           /\ n.count = Weight(c, TokensIn(n.tree))
  <1>1. ASSUME NEW n \in N
        PROVE  /\ n \in Nodes /\ CountOf[n] = n.count /\ n.count \in Nat
               /\ n.tree \in Trees /\ TokensIn(n.tree) # {}
               /\ TokensIn(n.tree) \subseteq DOMAIN c
               /\ n.count = Weight(c, TokensIn(n.tree))
    <2>1. n \in Nodes /\ TokensIn(n.tree) \subseteq DOMAIN c /\ n.count = Weight(c, TokensIn(n.tree))
      BY DEF Forest
    <2>2. CountOf[n] = n.count /\ n.tree \in Trees
      BY <2>1 DEF CountOf, Nodes
    <2>3. TokensIn(n.tree) # {}
      BY <2>2, TreeSet
    <2>4. IsFiniteSet(TokensIn(n.tree)) /\ Natural(c, TokensIn(n.tree))
      BY <2>1, TalliedCounts, FS_Subset DEF Natural
    <2>5. n.count \in Nat
      BY <2>1, <2>4, WeightNat
    <2> QED
      BY <2>1, <2>2, <2>3, <2>5
  <1> QED
    BY <1>1 DEF Natural

\* The cost of one more level for the tokens of one node is its count.
LEMMA OneLevelDown ==
    ASSUME NEW c, Tallied(c), NEW d \in [DOMAIN c -> Nat], NEW M, M \subseteq DOMAIN c,
           NEW e \in [DOMAIN c -> Nat], \A t \in DOMAIN c : e[t] = IF t \in M THEN d[t] + 1 ELSE d[t]
    PROVE  Weight(Costing(e, c), DOMAIN c) = Weight(Costing(d, c), DOMAIN c) + Weight(c, M)
  <1> DEFINE D == DOMAIN c
             g == [t \in D |-> IF t \in M THEN c[t] ELSE 0]
             R == D \ M
  <1>1. IsFiniteSet(D) /\ \A t \in D : c[t] \in Nat /\ d[t] \in Nat /\ e[t] \in Nat
    BY TalliedCounts
  <1>2. \A t \in D : c[t] * d[t] \in Nat
    BY <1>1
  <1>3. \A t \in D : c[t] * e[t] = c[t] * d[t] + g[t]
    BY <1>1
  <1>4. Natural(Costing(d, c), D) /\ Natural(g, D)
    BY <1>1, <1>2 DEF Natural, Costing
  <1>5. \A t \in D : Costing(e, c)[t] = Costing(d, c)[t] + g[t]
    BY <1>3 DEF Costing
  <1>6. \A t \in M : g[t] = c[t]
    OBVIOUS
  <1>7. \A t \in R : g[t] = 0
    OBVIOUS
  <1>8. M \in Parts(D) /\ R \in Parts(D) /\ R \intersect M = {} /\ R \union M = D
    BY DEF Parts
  <1>9. IsFiniteSet(M) /\ IsFiniteSet(R)
    BY <1>1, <1>8, FS_Subset DEF Parts
  <1> HIDE DEF D, g, R
  <1>10. Weight(Costing(e, c), D) = Weight(Costing(d, c), D) + Weight(g, D)
    BY <1>1, <1>4, <1>5, WeightAdds
  <1>11. Countable(g, D)
    BY <1>4 DEF Natural, Countable
  <1>12. Weight(g, R \union M) = Weight(g, R) + Weight(g, M)
    BY <1>1, <1>8, <1>11, WeightUnion
  <1>13. Natural(c, M)
    BY <1>1, <1>8 DEF Natural, Parts
  <1>14. Weight(g, M) = Weight(c, M) /\ Weight(g, R) = 0
    BY <1>6, <1>7, <1>9, <1>13, WeightAlike, WeightZero
  <1>15. Weight(c, M) \in Nat
    BY <1>9, <1>13, WeightNat
  <1>16. Weight(g, D) = Weight(c, M)
    BY <1>8, <1>12, <1>14, <1>15
  <1> QED
    BY <1>10, <1>16 DEF D

\* Merging the two nodes that count least is thrifty.
LEMMA ThriftyMerged ==
    ASSUME NEW c, Tallied(c), NEW N, IsFiniteSet(N), Forest(N, c), Thrifty(N, c),
           NEW a \in N, NEW b \in N, Rarest(CountOf, N, a, b), NEW m, m = Merged(<<a, b>>)
    PROVE  Thrifty(Fused(N, a, b, m), c)
  <1> DEFINE A == TokensIn(a.tree)
             B == TokensIn(b.tree)
  <1>1. /\ Natural(CountOf, N) /\ a # b
        /\ \A n \in N : /\ n \in Nodes /\ CountOf[n] = n.count /\ n.count \in Nat
                        /\ n.tree \in Trees /\ TokensIn(n.tree) # {}
                        /\ TokensIn(n.tree) \subseteq DOMAIN c
                        /\ n.count = Weight(c, TokensIn(n.tree))
    BY ForestCounts DEF Rarest
  <1>2. m = [count |-> a.count + b.count, tree |-> Joined(a.tree, b.tree)]
    BY DEF Merged
  <1>3. m.tree = Joined(a.tree, b.tree) /\ m.count = a.count + b.count
    BY <1>2
  <1>4. /\ m \in Nodes /\ m \notin N \ {a, b}
        /\ Forest((N \ {a, b}) \union {m}, c)
    BY <1>1, ForestMerged
  <1>5. TokensIn(m.tree) = A \union B
    BY <1>1, <1>3, JoinedTree
  <1>6. A \intersect B = {} /\ A # {} /\ B # {}
    BY <1>1 DEF Forest
  <1>7. m \notin N
    BY <1>4, <1>5, <1>6
  <1>8. Fusing(CountOf, N, a, b, m)
    <2>1. CountOf[m] = m.count
      BY <1>4 DEF CountOf
    <2>2. CountOf[m] = CountOf[a] + CountOf[b] /\ CountOf[m] \in Nat
      BY <1>1, <1>3, <2>1
    <2>3. Natural(CountOf, N \union {m})
      BY <1>1, <2>2 DEF Natural
    <2> QED
      BY <1>1, <1>7, <2>2, <2>3 DEF Fusing
  <1>9. /\ Least(CountOf, N) = Least(CountOf, Fused(N, a, b, m)) + m.count
        /\ Least(CountOf, Fused(N, a, b, m)) \in Nat
    <2>1. Least(CountOf, N) = Least(CountOf, Fused(N, a, b, m)) + CountOf[m]
      BY <1>8, Greedy
    <2>2. Least(CountOf, Fused(N, a, b, m)) \in Nat
      BY <1>8, Fusion
    <2> QED
      BY <1>4, <2>1, <2>2 DEF CountOf
  <1>10. PICK d \in [DOMAIN c -> Nat] :
            /\ Levels(d, N)
            /\ Least(c, DOMAIN c) = Least(CountOf, N) + Weight(Costing(d, c), DOMAIN c)
    BY DEF Thrifty
  <1> DEFINE M == TokensIn(m.tree)
             e == [t \in DOMAIN c |-> IF t \in M THEN d[t] + 1 ELSE d[t]]
  <1>11. M \subseteq DOMAIN c /\ m.count = Weight(c, M)
    BY <1>4 DEF Forest
  <1>12. e \in [DOMAIN c -> Nat] /\ \A t \in DOMAIN c : e[t] = IF t \in M THEN d[t] + 1 ELSE d[t]
    OBVIOUS
  <1>13. \A n \in N \ {a, b} : TokensIn(n.tree) \intersect M = {}
    BY <1>5 DEF Forest
  <1> HIDE DEF e, M, A, B
  <1>14. ASSUME NEW n \in Fused(N, a, b, m), NEW p \in DOMAIN n.tree, n.tree[p] # Inner
         PROVE  e[n.tree[p]] = Len(p)
    <2>1. CASE n = m
      <3>1. \/ \E q \in DOMAIN a.tree : n.tree[p] = a.tree[q] /\ Len(p) = Len(q) + 1
            \/ \E q \in DOMAIN b.tree : n.tree[p] = b.tree[q] /\ Len(p) = Len(q) + 1
        <4>1. a.tree \in Trees /\ b.tree \in Trees /\ n.tree = Joined(a.tree, b.tree)
          BY <1>1, <1>3, <2>1
        <4>2. PICK f, g, h : f = a.tree /\ g = b.tree /\ h = n.tree
          OBVIOUS
        <4>3. f \in Trees /\ g \in Trees /\ h = Joined(f, g)
          BY <4>1, <4>2
        <4>4. \A i \in DOMAIN h : h[i] # Inner =>
                 \/ \E q \in DOMAIN f : h[i] = f[q] /\ Len(i) = Len(q) + 1
                 \/ \E q \in DOMAIN g : h[i] = g[q] /\ Len(i) = Len(q) + 1
          BY <4>3, JoinedLeaves
        <4> QED
          BY <1>14, <4>2, <4>4
      <3>2. PICK q : d[n.tree[p]] = Len(q) /\ Len(p) = Len(q) + 1
        BY <1>10, <1>14, <3>1 DEF Levels
      <3>3. n.tree[p] \in M
        BY <1>14, <2>1 DEF M, TokensIn, Range
      <3> QED
        BY <1>11, <1>12, <3>2, <3>3
    <2>2. CASE n \in N \ {a, b}
      <3>1. d[n.tree[p]] = Len(p)
        BY <1>10, <1>14, <2>2 DEF Levels
      <3>2. n.tree[p] \in TokensIn(n.tree)
        BY <1>14 DEF TokensIn, Range
      <3>3. n.tree[p] \in DOMAIN c /\ n.tree[p] \notin M
        BY <1>1, <1>13, <2>2, <3>2
      <3> QED
        BY <1>12, <3>1, <3>3
    <2> QED
      BY <2>1, <2>2 DEF Fused
  <1>15. Levels(e, Fused(N, a, b, m))
    BY <1>14 DEF Levels
  <1>16. Weight(Costing(e, c), DOMAIN c) = Weight(Costing(d, c), DOMAIN c) + m.count
    BY <1>11, <1>12, OneLevelDown
  <1>17. Weight(Costing(d, c), DOMAIN c) \in Nat
    <2>1. IsFiniteSet(DOMAIN c) /\ \A t \in DOMAIN c : c[t] \in Nat /\ d[t] \in Nat
      BY TalliedCounts
    <2>2. \A t \in DOMAIN c : c[t] * d[t] \in Nat
      BY <2>1
    <2>3. Natural(Costing(d, c), DOMAIN c)
      BY <2>2 DEF Natural, Costing
    <2> QED
      BY <2>1, <2>3, WeightNat
  <1>18. m.count \in Nat
    BY <1>1, <1>3
  <1>19. Least(c, DOMAIN c) = Least(CountOf, Fused(N, a, b, m)) + Weight(Costing(e, c), DOMAIN c)
    BY <1>9, <1>10, <1>16, <1>17, <1>18
  <1> QED
    BY <1>12, <1>15, <1>19 DEF Thrifty

\* So is a node for every token.
LEMMA ThriftyPlanted ==
    ASSUME Tallied(tally), NEW N, \A x : x \in N <=> \E t \in DOMAIN tally : x = Leaf(t)
    PROVE  Thrifty(N, tally)
  <1> DEFINE D == DOMAIN tally
             r == [t \in D |-> Leaf(t)]
             d == [t \in D |-> 0]
  <1>1. IsFiniteSet(D) /\ \A t \in D : t \in Tokens /\ tally[t] \in Nat
    BY TalliedCounts
  <1>2. /\ \A t \in D : Leaf(t) \in Nodes
        /\ \A t, u \in D : Leaf(t) = Leaf(u) => t = u
    BY ForestPlanted, Zenon
  <1>3. \A t \in D : CountOf[Leaf(t)] = tally[t]
    BY <1>2 DEF CountOf, Leaf
  <1>4. Natural(tally, D)
    BY <1>1 DEF Natural
  <1>5. \A t \in D : r[t] = Leaf(t)
    OBVIOUS
  <1>6. d \in [D -> Nat] /\ \A t \in D : d[t] = 0
    OBVIOUS
  <1>7. \A n \in N : \A p \in DOMAIN n.tree : n.tree[p] \in D /\ Len(p) = 0
    BY DEF Leaf, Alone
  <1> HIDE DEF r, d, D
  <1>8. Renames(r, tally, CountOf, D)
    BY <1>2, <1>3, <1>5 DEF Renames
  <1>9. Renamed(r, D) = N
    BY <1>5 DEF Renamed, D
  <1>10. Least(CountOf, N) = Least(tally, D)
    BY <1>1, <1>4, <1>8, <1>9, LeastRenamed
  <1>11. Levels(d, N)
    BY <1>6, <1>7 DEF Levels
  <1>12. \A t \in D : tally[t] * d[t] = 0
    BY <1>1, <1>6
  <1>13. \A t \in D : Costing(d, tally)[t] = 0
    BY <1>12 DEF Costing, D
  <1>14. Weight(Costing(d, tally), D) = 0
    BY <1>1, <1>13, WeightZero
  <1>15. Least(tally, D) \in Nat
    BY <1>1, <1>4, LeastNat
  <1>16. Least(tally, D) = Least(CountOf, N) + Weight(Costing(d, tally), D)
    BY <1>10, <1>14, <1>15
  <1> QED
    BY <1>6, <1>11, <1>16 DEF Thrifty, D

\* The codes of the last tree cost what it does.
LEMMA ThriftyLast ==
    ASSUME NEW c, Tallied(c), NEW n, n.tree \in Trees, TokensIn(n.tree) = DOMAIN c,
           Thrifty({n}, c), NEW b, b = BookOf(n.tree)
    PROVE  Weight([t \in DOMAIN b |-> c[t] * Len(b[t])], DOMAIN b) = Least(c, DOMAIN c)
  <1> DEFINE f == n.tree
             D == DOMAIN c
             g == [t \in DOMAIN b |-> c[t] * Len(b[t])]
  <1>1. PICK d \in [D -> Nat] : /\ Levels(d, {n})
                                /\ Least(c, D) = Least(CountOf, {n}) + Weight(Costing(d, c), D)
    BY DEF Thrifty
  <1>2. DOMAIN b = D
    BY BookReadable
  <1>3. ASSUME NEW t \in D
        PROVE  Len(b[t]) = d[t]
    <2>1. t \in TokensIn(f)
      OBVIOUS
    <2>2. \E p \in DOMAIN f : f[p] = t
      BY <2>1 DEF TokensIn, Range
    <2>3. b[t] = CHOOSE p \in DOMAIN f : f[p] = t
      BY <2>1 DEF BookOf, CodeIn
    <2>4. b[t] \in DOMAIN f /\ f[b[t]] = t
      BY <2>2, <2>3
    <2>5. t # Inner
      BY <2>1 DEF TokensIn
    <2>6. d[f[b[t]]] = Len(b[t])
      BY <1>1, <2>4, <2>5 DEF Levels
    <2> QED
      BY <2>4, <2>6
  <1>4. IsFiniteSet(D) /\ \A t \in D : c[t] \in Nat /\ d[t] \in Nat
    BY TalliedCounts
  <1>5. \A t \in D : c[t] * d[t] \in Nat
    BY <1>4
  <1>6. Natural(Costing(d, c), D)
    BY <1>5 DEF Natural, Costing
  <1>7. \A t \in D : g[t] = Costing(d, c)[t]
    BY <1>2, <1>3 DEF Costing
  <1> HIDE DEF g, D
  <1>8. Weight(g, D) = Weight(Costing(d, c), D) /\ Weight(Costing(d, c), D) \in Nat
    BY <1>4, <1>6, <1>7, WeightAlike, WeightNat
  <1>9. Least(CountOf, {n}) = 0
    BY LeastOne
  <1>10. Weight(g, D) = Least(c, D)
    BY <1>1, <1>8, <1>9
  <1> QED
    BY <1>2, <1>10 DEF g, D


\* The nodes taken count no more than those in the heap.
Aside(k, h) == \A x \in Range(k), y \in Range(h) : x.count <= y.count

\* The first node of a heap counts least.
LEMMA FirstCounts ==
    ASSUME NEW h \in Seq(Nodes), h # << >>, Ordered(h)
    PROVE  h[1] \in Range(h) /\ \A y \in Range(h) : h[1].count <= y.count
  <1> DEFINE n == Len(h)
             R == Range(h)
  <1>1. n \in Nat /\ n > 0 /\ 1 \in 1..n /\ h \in Arranged(n, R)
    BY RangeIs DEF Arranged, Range
  <1>2. CountsIn(R)
    BY RangeIs, NodesCount DEF CountsIn
  <1>3. \A y \in R : \E i \in 1..n : h[i] = y
    BY RangeHolds
  <1>4. \A k \in 2..n : h[k \div 2].count <= h[k].count
    BY DEF Ordered
  <1> HIDE DEF n, R
  <1>5. Under(1) \subseteq Nat /\ \A k \in Under(1) : k >= 1
    BY UnderParts DEF Under
  <1>6. Sorted(h, n, 1)
    <2> SUFFICES ASSUME NEW k \in Under(1), k # 1, k <= n PROVE h[k \div 2].count <= h[k].count
      BY DEF Sorted
    <2>1. k \in 2..n
      BY <1>1, <1>5
    <2> QED
      BY <1>4, <2>1
  <1>7. AtMost(h[1].count, h, n, 1)
    BY <1>1, <1>2, <1>6, LeastOnTop
  <1>8. \A k \in 1..n : h[1].count <= h[k].count
    BY <1>7, UnderFirst DEF AtMost
  <1>9. h[1] \in R
    BY <1>1, RangeIs DEF n, R
  <1> QED
    BY <1>3, <1>8, <1>9 DEF R

\* w and l have the nodes of h and k.
SameNodes(h, k, w, l) == Range(w) \union Range(l) = Range(h) \union Range(k)

\* Taking the least node: the same nodes, and those taken count no more.
LEMMA ThriftyTakes ==
    ASSUME NEW c, NEW h, NEW k, Pool(h, k, c), Len(k) < 2, Aside(k, h),
           NEW w, w = WithoutMin(h), NEW l, l = Append(k, h[1])
    PROVE  SameNodes(h, k, w, l) /\ Aside(l, w)
  <1>1. /\ h \in Seq(Nodes) /\ k \in Seq(Nodes) /\ h # << >> /\ Len(k) \in Nat
        /\ Distinct(h) /\ Ordered(h)
    BY DEF Pool
  <1>2. /\ w \in Seq(Nodes) /\ Len(w) = Len(h) - 1 /\ Distinct(w) /\ Ordered(w)
        /\ \A x : x \in Range(w) <=> x \in Range(h) /\ x # h[1]
    BY <1>1, WithoutMinLeaves, NodesCount
  <1>3. h[1] \in Range(h) /\ h[1] \in Nodes /\ \A y \in Range(h) : h[1].count <= y.count
    BY <1>1, FirstCounts, RangeIs
  <1>4. \A x : x \in Range(l) <=> x \in Range(k) \/ x = h[1]
    <2>1. /\ l \in Seq(Nodes) /\ Len(l) = Len(k) + 1 /\ l[Len(k) + 1] = h[1]
          /\ \A i \in 1..Len(k) : l[i] = k[i]
      BY <1>1, <1>3
    <2>2. \A i : i \in 1..Len(l) <=> i \in 1..Len(k) \/ i = Len(k) + 1
      BY <1>1, <2>1
    <2>3. \A x : x \in Range(l) <=> \E i \in 1..Len(l) : l[i] = x
      <3>1. l \in Seq(Nodes)
        BY <2>1
      <3> QED
        BY <3>1, RangeHolds, Zenon
    <2>4. \A x : x \in Range(k) <=> \E i \in 1..Len(k) : k[i] = x
      BY <1>1, RangeHolds
    <2> QED
      BY <2>1, <2>2, <2>3, <2>4
  <1>5. SameNodes(h, k, w, l)
    BY <1>2, <1>3, <1>4 DEF SameNodes
  <1>6. Aside(l, w)
    BY <1>2, <1>3, <1>4 DEF Aside
  <1> QED
    BY <1>5, <1>6

\* The parent of two nodes is a node.
LEMMA MergedNode ==
    ASSUME NEW a \in Nodes, NEW b \in Nodes, NEW m, m = Merged(<<a, b>>)
    PROVE  m \in Nodes
  <1>1. a.tree \in Trees /\ b.tree \in Trees /\ a.count \in Int /\ b.count \in Int
    BY DEF Nodes
  <1>2. m = [count |-> a.count + b.count, tree |-> Joined(a.tree, b.tree)]
    BY DEF Merged
  <1>3. Joined(a.tree, b.tree) \in Trees
    BY <1>1, JoinedTree
  <1> QED
    BY <1>1, <1>2, <1>3 DEF Nodes

\* Merging the two nodes taken.
LEMMA ThriftyMerges ==
    ASSUME NEW c, Tallied(c), NEW h, NEW k, Pool(h, k, c), Len(k) = 2, Aside(k, h),
           Thrifty(Range(h) \union Range(k), c), NEW w, w = Inserted(h, Merged(k))
    PROVE  Thrifty(Range(w) \union Range(<< >>), c)
  <1> DEFINE N == Range(h) \union Range(k)
  <1>1. /\ h \in Seq(Nodes) /\ k \in Seq(Nodes) /\ Distinct(k)
        /\ \A x : ~(x \in Range(h) /\ x \in Range(k))
        /\ Forest(N, c)
    BY DEF Pool
  <1>2. PICK a, b, m : a = k[1] /\ b = k[2] /\ m = Merged(k)
    OBVIOUS
  <1>3. a \in Range(k) /\ b \in Range(k) /\ a # b /\ \A x : x \in Range(k) <=> x = a \/ x = b
    <2>1. 1 \in 1..Len(k) /\ 2 \in 1..Len(k) /\ \A i \in 1..Len(k) : i = 1 \/ i = 2
      OBVIOUS
    <2>2. a # b
      BY <1>1, <1>2, <2>1 DEF Distinct, Apart
    <2> QED
      BY <1>1, <1>2, <2>1, <2>2, RangeIs
  <1>4. m = Merged(<<a, b>>)
    BY <1>2 DEF Merged
  <1>5. a \in N /\ b \in N
    BY <1>3
  <1>6. N \ {a, b} = Range(h)
    BY <1>1, <1>3
  <1>7. IsFiniteSet(N)
    <2>1. IsFiniteSet(Range(h)) /\ IsFiniteSet(Range(k))
      BY <1>1, RangeFinite
    <2> QED
      BY <2>1, FS_Union
  <1>8. Thrifty(N, c)
    OBVIOUS
  <1> HIDE DEF N
  <1>9. \A n \in N : CountOf[n] = n.count
    BY <1>1, ForestCounts
  <1>10. Rarest(CountOf, N, a, b)
    <2>1. \A i \in N \ {a, b} : a.count <= i.count /\ b.count <= i.count
      BY <1>3, <1>6 DEF Aside
    <2> QED
      BY <1>3, <1>5, <1>9, <2>1 DEF Rarest
  <1>11. Thrifty(Fused(N, a, b, m), c)
    BY <1>1, <1>4, <1>5, <1>7, <1>8, <1>10, ThriftyMerged
  <1>12. m \in Nodes
    <2>1. a \in Nodes /\ b \in Nodes
      BY <1>1, <1>3, RangeIs
    <2> QED
      BY <1>4, <2>1, MergedNode
  <1>15. w = Inserted(h, m)
    BY <1>2
  <1>13. \A y : y \in Range(w) <=> y = m \/ y \in Range(h)
    BY <1>1, <1>12, <1>15, InsertedAdds, NodesCount
  <1>14. Range(w) \union Range(<< >>) = Fused(N, a, b, m)
    <2>1. Range(<< >>) = {}
      BY DEF Range
    <2> QED
      BY <1>6, <1>13, <2>1 DEF Fused
  <1> QED
    BY <1>11, <1>14

\* While merging, what has been merged is as cheap as can be, and so is the book
\* that comes of it.
ThriftInv ==
    /\ phase = "merge" => Thrifty(Range(heap) \union Range(taken), tally) /\ Aside(taken, heap)
    /\ Coded => BookCost = Least(tally, DOMAIN tally)

\* Each step of the merging is thrifty.
LEMMA SortThrifty == HuffmanInv /\ Sort => ThriftInv'
  <1> SUFFICES ASSUME HuffmanInv, Sort PROVE ThriftInv'
    OBVIOUS
  <1>1. phase = "count" /\ tally' = tally /\ taken' = taken
    BY DEF Sort
  <1>2. Tallied(tally) /\ taken = << >>
    BY <1>1 DEF HuffmanInv, Counting
  <1>3. CASE tally = Empty
    BY <1>3 DEF Sort, ThriftInv, Coded
  <1>4. CASE tally # Empty
    <2>1. phase' = "merge" /\ heap' \in Sortings
      BY <1>4 DEF Sort
    <2>2. DOMAIN tally # {}
      BY <1>2, <1>4 DEF Tallied, Empty
    <2>3. \A x : x \in Range(heap') <=> \E t \in DOMAIN tally : x = Leaf(t)
      BY <1>2, <2>1, <2>2, SortingsPool
    <2>4. Range(taken') = {}
      BY <1>1, <1>2 DEF Range
    <2> DEFINE N == Range(heap') \union Range(taken')
    <2>5. \A x : x \in N <=> \E t \in DOMAIN tally : x = Leaf(t)
      BY <2>3, <2>4
    <2> HIDE DEF N
    <2>6. Thrifty(N, tally)
      BY <1>2, <2>5, ThriftyPlanted
    <2>7. Thrifty(Range(heap') \union Range(taken'), tally')
      BY <1>1, <2>6 DEF N
    <2>8. Aside(taken', heap')
      BY <2>4 DEF Aside
    <2> QED
      BY <2>1, <2>7, <2>8 DEF ThriftInv, Coded
  <1> QED
    BY <1>3, <1>4

LEMMA TakeLeastThrifty == HuffmanInv /\ ThriftInv /\ TakeLeast => ThriftInv'
  <1> SUFFICES ASSUME HuffmanInv, ThriftInv, TakeLeast PROVE ThriftInv'
    OBVIOUS
  <1>1. /\ phase = "merge" /\ phase' = "merge" /\ Len(taken) < 2 /\ tally' = tally
        /\ taken' = Append(taken, heap[1]) /\ heap' = WithoutMin(heap)
    BY DEF TakeLeast, MinNode
  <1>2. /\ Pool(heap, taken, tally) /\ Aside(taken, heap)
        /\ Thrifty(Range(heap) \union Range(taken), tally)
    BY <1>1 DEF HuffmanInv, Merging, ThriftInv
  <1>3. SameNodes(heap, taken, heap', taken') /\ Aside(taken', heap')
    BY <1>1, <1>2, ThriftyTakes
  <1>4. Thrifty(Range(heap') \union Range(taken'), tally')
    BY <1>1, <1>2, <1>3 DEF SameNodes
  <1> QED
    BY <1>1, <1>3, <1>4 DEF ThriftInv, Coded

LEMMA MergeThrifty == HuffmanInv /\ ThriftInv /\ Merge => ThriftInv'
  <1> SUFFICES ASSUME HuffmanInv, ThriftInv, Merge PROVE ThriftInv'
    OBVIOUS
  <1>1. /\ phase = "merge" /\ phase' = "merge" /\ Len(taken) = 2 /\ tally' = tally
        /\ taken' = << >> /\ heap' = Inserted(heap, Merged(taken))
    BY DEF Merge
  <1>2. /\ Tallied(tally) /\ Pool(heap, taken, tally) /\ Aside(taken, heap)
        /\ Thrifty(Range(heap) \union Range(taken), tally)
    BY <1>1 DEF HuffmanInv, Merging, ThriftInv
  <1>3. Thrifty(Range(heap') \union Range(<< >>), tally)
    BY <1>1, <1>2, ThriftyMerges
  <1>4. Aside(taken', heap')
    <2>1. Range(<< >>) = {}
      BY DEF Range
    <2> QED
      BY <1>1, <2>1 DEF Aside
  <1> QED
    BY <1>1, <1>3, <1>4 DEF ThriftInv, Coded

LEMMA ExportThrifty == HuffmanInv /\ ThriftInv /\ Export => ThriftInv'
  <1> SUFFICES ASSUME HuffmanInv, ThriftInv, Export PROVE ThriftInv'
    OBVIOUS
  <1>1. /\ phase = "merge" /\ phase' = "compress" /\ taken = << >> /\ Len(heap) = 1
        /\ book' = BookOf(heap[1].tree) /\ tally' = tally
    BY DEF Export
  <1>2. /\ Tallied(tally) /\ Pool(heap, << >>, tally)
        /\ Thrifty(Range(heap) \union Range(<< >>), tally)
    BY <1>1 DEF HuffmanInv, Merging, ThriftInv
  <1>3. PICK n : n = heap[1]
    OBVIOUS
  <1>4. n.tree \in Trees /\ TokensIn(n.tree) = DOMAIN tally
    BY <1>1, <1>2, <1>3, LastNode
  <1>5. Range(heap) \union Range(<< >>) = {n}
    <2>1. heap \in Seq(Nodes)
      BY <1>2 DEF Pool
    <2>2. \A x : x \in Range(heap) <=> x = n
      BY <1>1, <1>3, <2>1, RangeHolds
    <2>3. Range(<< >>) = {}
      BY DEF Range
    <2> QED
      BY <2>2, <2>3
  <1>6. Thrifty({n}, tally)
    BY <1>2, <1>5
  <1>7. book' = BookOf(n.tree)
    BY <1>1, <1>3
  <1>8. Weight([t \in DOMAIN book' |-> tally[t] * Len(book'[t])], DOMAIN book') = Least(tally, DOMAIN tally)
    BY <1>2, <1>4, <1>6, <1>7, ThriftyLast
  <1>9. BookCost' = Least(tally, DOMAIN tally)'
    BY <1>1, <1>8 DEF BookCost
  <1> QED
    BY <1>1, <1>9 DEF ThriftInv

\* Once the book is made, neither it nor the counts change.
LEMMA CodedThrifty ==
    ThriftInv /\ (CompressToken \/ LoadBook \/ AddCode \/ StartDecompress \/ DecompressBit \/ Finish)
        => ThriftInv'
  <1> SUFFICES ASSUME ThriftInv,
                      CompressToken \/ LoadBook \/ AddCode \/ StartDecompress \/ DecompressBit \/ Finish
               PROVE  ThriftInv'
    OBVIOUS
  <1>1. /\ phase \in {"compress", "build", "decompress"} /\ phase' # "merge"
        /\ book' = book /\ tally' = tally
    BY DEF CompressToken, LoadBook, AddCode, StartDecompress, DecompressBit, Finish
  <1>2. BookCost = Least(tally, DOMAIN tally)
    BY <1>1 DEF ThriftInv, Coded
  <1>3. BookCost' = BookCost /\ Least(tally, DOMAIN tally)' = Least(tally, DOMAIN tally)
    BY <1>1 DEF BookCost
  <1> QED
    BY <1>1, <1>2, <1>3 DEF ThriftInv

\* At every step of buildHuffmanTreeFromNodesArray (huffman.c) the branches made so
\* far and a cheapest tree over the nodes that are left make a cheapest tree over the
\* tokens, and the nodes just taken count no more than those left in the heap.
THEOREM ThriftInvHolds == HuffmanSpec => []ThriftInv
  <1>1. HuffmanInit => ThriftInv
    BY DEF HuffmanInit, ThriftInv, Coded
  <1>2. HuffmanInv /\ ThriftInv /\ [HuffmanNext]_vars => ThriftInv'
    <2> SUFFICES ASSUME HuffmanInv, ThriftInv, [HuffmanNext]_vars PROVE ThriftInv'
      OBVIOUS
    <2>1. CASE CountToken
      BY <2>1 DEF CountToken, ThriftInv, Coded
    <2>2. CASE Sort
      BY <2>2, SortThrifty
    <2>3. CASE TakeLeast
      BY <2>3, TakeLeastThrifty
    <2>4. CASE Merge
      BY <2>4, MergeThrifty
    <2>5. CASE Export
      BY <2>5, ExportThrifty
    <2>6. CASE CompressToken \/ LoadBook \/ AddCode \/ StartDecompress \/ DecompressBit \/ Finish
      BY <2>6, CodedThrifty
    <2>7. CASE UNCHANGED vars
      <3>1. phase' = phase /\ heap' = heap /\ taken' = taken /\ book' = book /\ tally' = tally
        BY <2>7 DEF vars
      <3> QED
        BY <3>1 DEF ThriftInv, Coded, BookCost
    <2> QED
      BY <2>1, <2>2, <2>3, <2>4, <2>5, <2>6, <2>7 DEF HuffmanNext
  <1> QED
    BY <1>1, <1>2, HuffmanInvHolds, PTL DEF HuffmanSpec

\* The code book written by exportCodeFromHuffmanTree (huffman.c) spends as few bits
\* on the counted tokens as any binary tree over them: whatever the files are and
\* however qsort orders equal counts, taking the two least nodes of the heap and
\* putting back their parent (buildHuffmanTreeFromNodesArray) never gives away a bit.
THEOREM OptimalHolds == HuffmanSpec => []Optimal
  <1>1. ThriftInv => Optimal
    BY DEF ThriftInv, Optimal, Coded
  <1> QED
    BY <1>1, ThriftInvHolds, PTL
===============================================================================
