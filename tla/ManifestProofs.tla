--------------------------- MODULE ManifestProofs ---------------------------
(***************************************************************************)
(* What TLAPS proves of Manifest: what the merges of util.c return for     *)
(* lists of any length.                                                    *)
(*                                                                         *)
(* A merge is a recursive function on the pairs of places of two lists.    *)
(* Such a function is what its equation says where every turn comes nearer *)
(* to the end (WalkExists), and then what it returns is found by           *)
(* well-founded induction over a set of pairs, the failures: of a          *)
(* non-empty one there is a least.                                         *)
(*                                                                         *)
(* Filter takes what it is told to take, in order; sorted lists of items   *)
(* stay sorted under add, remove and make_new_manifest; Marks has an entry *)
(* for each difference of two sorted manifests and for nothing else; the   *)
(* change lists of update and commit name what has to change, once; and    *)
(* the push merge places every item of the manifest that stays and takes   *)
(* the hash of each anew.                                                  *)
(***************************************************************************)
EXTENDS Manifest, NaturalsInduction, WellFoundedInduction, TLAPS

\* A non-empty set of numbers has a least one.
LEMMA LeastNumber ==
    ASSUME NEW S, S \subseteq Nat, S # {}
    PROVE  \E m \in S : \A n \in S : m <= n
  <1> DEFINE Less == OpToRel(<, Nat)
  <1>1. \A m, n \in Nat : m < n => <<m, n>> \in Less
    BY DEF OpToRel
  <1>2. IsWellFoundedOn(Less, Nat)
    BY NatLessThanWellFounded
  <1> HIDE DEF Less
  <1>3. PICK m \in S : \A n \in S : ~(<<n, m>> \in Less)
    BY <1>2, WFMin
  <1>4. \A n \in S : ~(n < m)
    BY <1>1, <1>3
  <1> QED
    BY <1>3, <1>4

\* The value at p of a list made on a walk: what the turn at p makes, and what f has
\* for the place it goes on to.
Turned(f, p, Stop, emit, next) == IF p \in Stop THEN << >> ELSE emit[p] \o f[next[p]]
IsWalk(f, D, Stop, emit, next) == f = [p \in D |-> Turned(f, p, Stop, emit, next)]

\* Every turn comes nearer to the end.
Nearing(D, rank, Stop, next) ==
    /\ rank \in [D -> Nat]
    /\ \A p \in D \ Stop : next[p] \in D /\ rank[next[p]] < rank[p]

\* A walk that comes nearer to its end with every turn exists.
LEMMA WalkExists ==
    ASSUME NEW D, NEW rank, NEW Stop, NEW emit, NEW next, Nearing(D, rank, Stop, next)
    PROVE  \E f : IsWalk(f, D, Stop, emit, next)
  <1> rank \in [D -> Nat] /\ \A p \in D : p \notin Stop => next[p] \in D /\ rank[next[p]] < rank[p]
    BY DEF Nearing
  <1> DEFINE Below(n) == {p \in D : rank[p] < n}
             Partial(n, g) == g = [p \in Below(n) |-> Turned(g, p, Stop, emit, next)]
             Missed == {n \in Nat : ~\E g : Partial(n, g)}
  <1>1. Partial(0, [p \in {} |-> p])
    <2>1. Below(0) = {}
      OBVIOUS
    <2> QED
      BY <2>1
  <1>2. ASSUME NEW n \in Nat, NEW g, Partial(n, g)
        PROVE  \E h : Partial(n + 1, h)
    <2> DEFINE h == [p \in Below(n + 1) |-> Turned(g, p, Stop, emit, next)]
    <2>1. \A p \in Below(n) : h[p] = g[p] /\ p \in Below(n + 1)
      <3>1. \A p \in Below(n) : p \in Below(n + 1)
        OBVIOUS
      <3>2. \A p \in Below(n) : g[p] = Turned(g, p, Stop, emit, next)
        BY <1>2
      <3> HIDE DEF Below
      <3> QED
        BY <3>1, <3>2
    <2>2. \A p \in Below(n + 1) : p \notin Stop => next[p] \in Below(n)
      OBVIOUS
    <2>3. ASSUME NEW p \in Below(n + 1)
          PROVE  Turned(g, p, Stop, emit, next) = Turned(h, p, Stop, emit, next)
      <3> HIDE DEF Below, h
      <3> QED
        BY <2>1, <2>2 DEF Turned
    <2>4. h = [p \in Below(n + 1) |-> Turned(h, p, Stop, emit, next)]
      <3> HIDE DEF Below
      <3> QED
        BY <2>3
    <2> QED
      BY <2>4
  <1>3. Missed = {}
    <2> SUFFICES ASSUME Missed # {} PROVE FALSE
      OBVIOUS
    <2>1. PICK m \in Missed : \A n \in Missed : m <= n
      <3> HIDE DEF Missed
      <3>1. Missed \subseteq Nat
        BY DEF Missed
      <3> QED
        BY <3>1, LeastNumber
    <2>2. m # 0
      <3> HIDE DEF Partial
      <3> QED
        BY <1>1
    <2>3. m \in Nat /\ m - 1 \in Nat /\ (m - 1) + 1 = m /\ ~(m <= m - 1)
      BY <2>2
    <2>4. m - 1 \notin Missed
      <3> HIDE DEF Missed
      <3> QED
        BY <2>1, <2>3
    <2> HIDE DEF Partial
    <2>5. \E g : Partial(m - 1, g)
      BY <2>3, <2>4
    <2>6. \E g : Partial((m - 1) + 1, g)
      BY <1>2, <2>3, <2>5
    <2> QED
      BY <2>1, <2>3, <2>6
  <1>4. ASSUME NEW m \in Nat, NEW n \in Nat, NEW g, NEW h, Partial(m, g), Partial(n, h)
        PROVE  \A p \in Below(m) \cap Below(n) : g[p] = h[p]
    <2> DEFINE Differ == {p \in Below(m) \cap Below(n) : g[p] # h[p]}
               Ranks == {rank[p] : p \in Differ}
    <2> SUFFICES ASSUME Differ # {} PROVE FALSE
      OBVIOUS
    <2>1. Ranks # {} /\ Ranks \subseteq Nat
      OBVIOUS
    <2>2. PICK r \in Ranks : \A s \in Ranks : r <= s
      <3> HIDE DEF Ranks
      <3> QED
        BY <2>1, LeastNumber
    <2>3. PICK p \in Differ : r = rank[p]
      BY <2>2
    <2>4. \A q \in Differ : rank[p] <= rank[q]
      BY <2>2, <2>3
    <2>5. /\ g[p] = Turned(g, p, Stop, emit, next)
          /\ h[p] = Turned(h, p, Stop, emit, next)
      <3>1. p \in Below(m) /\ p \in Below(n)
        BY <2>3
      <3> HIDE DEF Below
      <3> QED
        BY <1>4, <3>1
    <2>6. p \notin Stop /\ g[next[p]] # h[next[p]]
      <3> HIDE DEF Below, Partial
      <3> QED
        BY <2>3, <2>5 DEF Turned
    <2>7. next[p] \in Differ /\ rank[next[p]] < rank[p]
      BY <2>3, <2>6
    <2>8. rank[p] \in Nat /\ rank[next[p]] \in Nat
      BY <2>3, <2>7
    <2> QED
      BY <2>4, <2>7, <2>8
  <1> DEFINE Part(n) == CHOOSE g : Partial(n, g)
             f == [p \in D |-> Part(rank[p] + 1)[p]]
  <1>5. \A n \in Nat : Partial(n, Part(n))
    <2> HIDE DEF Partial
    <2>1. \A n \in Nat : \E g : Partial(n, g)
      BY <1>3
    <2> QED
      BY <2>1, Zenon
  <1>6. ASSUME NEW p \in D
        PROVE  f[p] = Turned(f, p, Stop, emit, next)
    <2> DEFINE g == Part(rank[p] + 1)
    <2>1. rank[p] + 1 \in Nat /\ p \in Below(rank[p] + 1)
      OBVIOUS
    <2>9. Partial(rank[p] + 1, g)
      <3> HIDE DEF Partial
      <3> QED
        BY <1>5, <2>1
    <2>2. f[p] = Turned(g, p, Stop, emit, next)
      <3>1. f[p] = g[p]
        OBVIOUS
      <3> HIDE DEF Below, g, f
      <3> QED
        BY <2>1, <2>9, <3>1
    <2>3. ASSUME p \notin Stop
          PROVE  g[next[p]] = f[next[p]]
      <3> DEFINE q == next[p]
                 h == Part(rank[q] + 1)
      <3>1. q \in D /\ rank[q] \in Nat /\ rank[q] < rank[p]
        BY <2>3
      <3>2. q \in Below(rank[p] + 1) \cap Below(rank[q] + 1) /\ rank[q] + 1 \in Nat
        BY <3>1
      <3>3. Partial(rank[q] + 1, h)
        BY <1>5, <3>2
      <3>4. f[q] = h[q]
        BY <3>1
      <3> HIDE DEF Partial, Below, g, h, q, f
      <3>5. g[q] = h[q]
        BY <1>4, <2>1, <2>9, <3>2, <3>3
      <3> QED
        BY <3>4, <3>5 DEF q
    <2> HIDE DEF f, g
    <2> QED
      BY <2>2, <2>3 DEF Turned
  <1> HIDE DEF Part
  <1>7. f = [p \in D |-> f[p]]
    OBVIOUS
  <1>8. f = [p \in D |-> Turned(f, p, Stop, emit, next)]
    <2>1. f \in [D -> {f[p] : p \in D}]
      OBVIOUS
    <2> HIDE DEF f
    <2> QED
      BY <1>6, <1>7
  <1> QED
    BY <1>8 DEF IsWalk

\* What holds of a place whenever it holds of all nearer to the end, holds of all.
LEMMA WalkInduction ==
    ASSUME NEW D, NEW rank \in [D -> Nat], NEW T,
           \A p \in D : (\A q \in D : rank[q] < rank[p] => q \in T) => p \in T
    PROVE  D \subseteq T
  <1> DEFINE Left == {rank[p] : p \in D \ T}
  <1> SUFFICES ASSUME ~(D \subseteq T) PROVE FALSE
    OBVIOUS
  <1>1. Left # {} /\ Left \subseteq Nat
    OBVIOUS
  <1>2. PICK r \in Left : \A n \in Left : r <= n
    <2> HIDE DEF Left
    <2> QED
      BY <1>1, LeastNumber
  <1>3. PICK p \in D \ T : r = rank[p]
    BY <1>2
  <1>4. \A q \in D \ T : rank[p] <= rank[q]
    BY <1>2, <1>3
  <1>5. \A q \in D : rank[q] \in Nat
    OBVIOUS
  <1> HIDE DEF Left
  <1>6. \A q \in D : rank[q] < rank[p] => q \in T
    BY <1>3, <1>4, <1>5
  <1> QED
    BY <1>3, <1>6

LEMMA Downward ==
    ASSUME NEW n \in Nat, NEW T, n + 1 \in T, \A i \in 1..n : i + 1 \in T => i \in T
    PROVE  1..(n + 1) \subseteq T
  <1> DEFINE D == 1..(n + 1)
             rank == [i \in D |-> n + 1 - i]
  <1>1. rank \in [D -> Nat]
    OBVIOUS
  <1>2. ASSUME NEW p \in D, \A q \in D : rank[q] < rank[p] => q \in T
        PROVE  p \in T
    <2>1. CASE p = n + 1
      BY <2>1
    <2>2. CASE p # n + 1
      <3>1. p \in 1..n /\ p + 1 \in D /\ rank[p + 1] < rank[p]
        BY <2>2
      <3> QED
        BY <1>2, <3>1
    <2> QED
      BY <2>1, <2>2
  <1> HIDE DEF D, rank
  <1>3. D \subseteq T
    BY <1>1, <1>2, WalkInduction
  <1> QED
    BY <1>3 DEF D

----------------------------------------------------------------------------
(* Filter. *)

\* h leads from the places of r to the places in keep of s, in order.
Selects(h, r, s, keep) ==
    /\ h \in [1..Len(r) -> keep]
    /\ \A a, b \in 1..Len(r) : a < b => h[a] < h[b]
    /\ \A x \in keep : \E a \in 1..Len(r) : h[a] = x
    /\ \A a \in 1..Len(r) : r[a] = s[h[a]]

\* W has what Filter makes of the rest of s from each place.
Unfolds(W, s, keep) ==
    /\ Filter(s, keep) = W[1]
    /\ W[Len(s) + 1] = << >>
    /\ \A i \in 1..Len(s) : W[i] = (IF i \in keep THEN <<s[i]>> ELSE << >>) \o W[i + 1]

LEMMA Prepended ==
    ASSUME NEW S, NEW e \in S, NEW r \in Seq(S), NEW q, q = <<e>> \o r
    PROVE  /\ q \in Seq(S) /\ Len(q) = Len(r) + 1 /\ q[1] = e
           /\ \A a \in 2..(Len(r) + 1) : q[a] = r[a - 1]
  OBVIOUS

LEMMA PrependedRange ==
    ASSUME NEW S, NEW e \in S, NEW r \in Seq(S)
    PROVE  \A n : n \in Range(<<e>> \o r) <=> n = e \/ n \in Range(r)
  <1> DEFINE q == <<e>> \o r
  <1>1. /\ q \in Seq(S) /\ Len(q) = Len(r) + 1 /\ q[1] = e
        /\ \A a \in 2..(Len(r) + 1) : q[a] = r[a - 1]
    BY Prepended
  <1> HIDE DEF q
  <1>2. /\ DOMAIN q = 1..Len(q) /\ DOMAIN r = 1..Len(r) /\ 1 \in 1..Len(q)
        /\ \A a \in 1..Len(r) : a + 1 \in 1..Len(q) /\ q[a + 1] = r[a]
        /\ \A a \in 1..Len(q) : a = 1 \/ (a - 1 \in 1..Len(r) /\ q[a] = r[a - 1])
    BY <1>1
  <1>3. ASSUME NEW n \in Range(q) PROVE n = e \/ n \in Range(r)
    <2>1. PICK a \in 1..Len(q) : n = q[a]
      BY <1>2, <1>3 DEF Range
    <2>2. CASE a = 1
      BY <1>1, <2>1, <2>2
    <2>3. CASE a # 1
      BY <1>2, <2>1, <2>3 DEF Range
    <2> QED
      BY <2>2, <2>3
  <1>4. e \in Range(q)
    BY <1>1, <1>2 DEF Range
  <1>5. ASSUME NEW n \in Range(r) PROVE n \in Range(q)
    <2>1. PICK a \in 1..Len(r) : n = r[a]
      BY <1>2, <1>5 DEF Range
    <2>2. a + 1 \in DOMAIN q /\ q[a + 1] = n
      BY <1>2, <2>1
    <2> QED
      BY <2>2 DEF Range
  <1> QED
    BY <1>3, <1>4, <1>5 DEF q

LEMMA EmptyPrefix ==
    ASSUME NEW S, NEW r \in Seq(S)
    PROVE  << >> \o r = r
  OBVIOUS

LEMMA FilterUnfold ==
    ASSUME NEW S, NEW s \in Seq(S), NEW keep
    PROVE  \E W : Unfolds(W, s, keep)
  <1> DEFINE D == 1..(Len(s) + 1)
             Body(f, i) == IF i = Len(s) + 1 THEN << >>
                           ELSE (IF i \in keep THEN <<s[i]>> ELSE << >>) \o f[i + 1]
             Rest[i \in D] == IF i = Len(s) + 1 THEN << >>
                              ELSE (IF i \in keep THEN <<s[i]>> ELSE << >>) \o Rest[i + 1]
             rank == [i \in D |-> Len(s) + 1 - i]
             emit == [i \in D |-> IF i \in keep THEN <<s[i]>> ELSE << >>]
             next == [i \in D |-> i + 1]
             Stop == {Len(s) + 1}
  <1>1. Nearing(D, rank, Stop, next)
    BY DEF Nearing
  <1>3. PICK f : IsWalk(f, D, Stop, emit, next)
    <2> HIDE DEF D, rank, emit, next, Stop
    <2> QED
      BY <1>1, WalkExists
  <1>4. \A i \in D : Turned(f, i, Stop, emit, next) = Body(f, i)
    BY DEF Turned
  <1>5. f = [i \in D |-> Body(f, i)]
    <2> HIDE DEF Body, D, rank, emit, next, Stop
    <2> QED
      BY <1>3, <1>4 DEF IsWalk
  <1>6. Rest = [i \in D |-> Body(Rest, i)]
    <2> HIDE DEF D
    <2> QED
      BY <1>5, Zenon
  <1>7. Filter(s, keep) = Rest[1]
    BY DEF Filter
  <1> HIDE DEF Rest
  <1>8. Rest[Len(s) + 1] = << >>
    BY <1>6
  <1>9. ASSUME NEW i \in 1..Len(s)
        PROVE  Rest[i] = (IF i \in keep THEN <<s[i]>> ELSE << >>) \o Rest[i + 1]
    <2>1. i \in D /\ i # Len(s) + 1
      OBVIOUS
    <2>2. Rest[i] = Body(Rest, i)
      <3> HIDE DEF Body, D
      <3> QED
        BY <1>6, <2>1
    <2> QED
      BY <2>1, <2>2
  <1> QED
    BY <1>7, <1>8, <1>9 DEF Unfolds

\* A selection with one more entry before it.
LEMMA SelectsMore ==
    ASSUME NEW S, NEW s \in Seq(S), NEW i \in 1..Len(s), NEW r \in Seq(S), NEW h,
           NEW keep, keep \subseteq (i + 1)..Len(s), Selects(h, r, s, keep)
    PROVE  \E g : Selects(g, <<s[i]>> \o r, s, keep \cup {i})
  <1> DEFINE q == <<s[i]>> \o r
             g == [a \in 1..(Len(r) + 1) |-> IF a = 1 THEN i ELSE h[a - 1]]
  <1>1. s[i] \in S
    OBVIOUS
  <1>2. /\ q \in Seq(S) /\ Len(q) = Len(r) + 1 /\ q[1] = s[i]
        /\ \A a \in 2..(Len(r) + 1) : q[a] = r[a - 1]
    <2> DEFINE e == s[i]
    <2> HIDE DEF e
    <2>1. q = <<e>> \o r /\ e \in S
      BY <1>1 DEF e
    <2> HIDE DEF q
    <2> QED
      BY <2>1, Prepended DEF e
  <1> HIDE DEF q
  <1>3. \A a \in 1..Len(r) : h[a] \in keep /\ h[a] \in Nat /\ i < h[a]
    <2>1. h \in [1..Len(r) -> keep]
      BY DEF Selects
    <2>2. \A x \in keep : x \in Nat /\ i < x
      OBVIOUS
    <2> QED
      BY <2>1, <2>2
  <1>4. g \in [1..Len(q) -> keep \cup {i}]
    BY <1>2, <1>3
  <1>5. \A a, b \in 1..Len(q) : a < b => g[a] < g[b]
    <2> SUFFICES ASSUME NEW a \in 1..Len(q), NEW b \in 1..Len(q), a < b PROVE g[a] < g[b]
      OBVIOUS
    <2>1. b - 1 \in 1..Len(r) /\ g[b] = h[b - 1]
      BY <1>2
    <2>2. CASE a = 1
      BY <1>2, <1>3, <2>1, <2>2
    <2>3. CASE a # 1
      <3>1. a - 1 \in 1..Len(r) /\ g[a] = h[a - 1] /\ a - 1 < b - 1
        BY <1>2, <2>3
      <3> QED
        BY <2>1, <3>1 DEF Selects
    <2> QED
      BY <2>2, <2>3
  <1>6. \A x \in keep \cup {i} : \E a \in 1..Len(q) : g[a] = x
    <2> SUFFICES ASSUME NEW x \in keep \cup {i} PROVE \E a \in 1..Len(q) : g[a] = x
      OBVIOUS
    <2>1. CASE x = i
      <3>1. 1 \in 1..Len(q) /\ g[1] = x
        BY <1>2, <2>1
      <3> QED
        BY <3>1
    <2>2. CASE x \in keep
      <3>1. PICK a \in 1..Len(r) : h[a] = x
        BY <2>2 DEF Selects
      <3>2. a + 1 \in 1..Len(q) /\ g[a + 1] = h[a]
        BY <1>2
      <3> QED
        BY <3>1, <3>2
    <2> QED
      BY <2>1, <2>2
  <1>7. \A a \in 1..Len(q) : q[a] = s[g[a]]
    <2> SUFFICES ASSUME NEW a \in 1..Len(q) PROVE q[a] = s[g[a]]
      OBVIOUS
    <2>1. CASE a = 1
      BY <1>2, <2>1
    <2>2. CASE a # 1
      <3>1. a - 1 \in 1..Len(r) /\ g[a] = h[a - 1] /\ q[a] = r[a - 1]
        BY <1>2, <2>2
      <3> QED
        BY <3>1 DEF Selects
    <2> QED
      BY <2>1, <2>2
  <1> HIDE DEF g, q
  <1>8. Selects(g, q, s, keep \cup {i})
    BY <1>4, <1>5, <1>6, <1>7 DEF Selects
  <1> QED
    BY <1>8 DEF q

\* Filter has the entries at the places to keep, each once, in their order.
LEMMA FilterSelects ==
    ASSUME NEW S, NEW s \in Seq(S), NEW keep, keep \subseteq 1..Len(s)
    PROVE  Filter(s, keep) \in Seq(S) /\ \E h : Selects(h, Filter(s, keep), s, keep)
  <1>1. PICK W : Unfolds(W, s, keep)
    BY FilterUnfold
  <1> DEFINE From(i) == keep \cap (i..Len(s))
             Fine(i) == W[i] \in Seq(S) /\ \E h : Selects(h, W[i], s, From(i))
             T == {i \in 1..(Len(s) + 1) : Fine(i)}
  <1>2. Len(s) + 1 \in T
    <2>1. From(Len(s) + 1) = {} /\ W[Len(s) + 1] = << >> /\ Len(<< >>) = 0
      BY <1>1 DEF Unfolds
    <2>2. Selects([a \in {} |-> a], << >>, s, {})
      BY DEF Selects
    <2>3. << >> \in Seq(S)
      OBVIOUS
    <2>4. Len(s) + 1 \in 1..(Len(s) + 1)
      OBVIOUS
    <2> HIDE DEF From
    <2>5. Fine(Len(s) + 1)
      BY <2>1, <2>2, <2>3
    <2> HIDE DEF Fine
    <2> QED
      BY <2>4, <2>5
  <1>3. ASSUME NEW i \in 1..Len(s), i + 1 \in T
        PROVE  i \in T
    <2>1. PICK h : Selects(h, W[i + 1], s, From(i + 1))
      BY <1>3
    <2>2. W[i + 1] \in Seq(S) /\ i \in 1..(Len(s) + 1) /\ s[i] \in S
      BY <1>3
    <2>3. CASE i \in keep
      <3>1. From(i) = From(i + 1) \cup {i} /\ From(i + 1) \subseteq (i + 1)..Len(s)
        BY <2>3
      <3>2. W[i] = <<s[i]>> \o W[i + 1]
        BY <1>1, <2>3 DEF Unfolds
      <3>3. \E g : Selects(g, <<s[i]>> \o W[i + 1], s, From(i + 1) \cup {i})
        <4> HIDE DEF From
        <4> QED
          BY <2>1, <2>2, <3>1, SelectsMore
      <3>4. W[i] \in Seq(S)
        BY <2>2, <3>2
      <3> HIDE DEF From
      <3> QED
        BY <2>2, <3>1, <3>2, <3>3, <3>4
    <2>4. CASE i \notin keep
      <3>1. From(i) = From(i + 1)
        BY <2>4
      <3>2. W[i] = W[i + 1]
        BY <1>1, <2>2, <2>4, EmptyPrefix DEF Unfolds
      <3> HIDE DEF From
      <3> QED
        BY <2>1, <2>2, <3>1, <3>2
    <2> QED
      BY <2>3, <2>4
  <1>4. 1..(Len(s) + 1) \subseteq T
    <2> HIDE DEF T
    <2>1. Len(s) \in Nat
      OBVIOUS
    <2> QED
      BY <1>2, <1>3, <2>1, Downward
  <1>5. 1 \in 1..(Len(s) + 1) /\ From(1) = keep
    <2>1. Len(s) \in Nat
      OBVIOUS
    <2>2. From(1) = keep
      BY Zenon
    <2> QED
      BY <2>1, <2>2
  <1>6. Fine(1)
    BY <1>4, <1>5
  <1> HIDE DEF From
  <1> QED
    BY <1>1, <1>5, <1>6 DEF Unfolds

\* Filter that keeps all keeps the list as it is.
LEMMA FilterAll ==
    ASSUME NEW S, NEW s \in Seq(S)
    PROVE  Filter(s, DOMAIN s) = s
  <1> DEFINE keep == DOMAIN s
  <1>1. PICK W : Unfolds(W, s, keep)
    BY FilterUnfold
  <1> DEFINE Fine(i) == /\ W[i] \in Seq(S) /\ Len(W[i]) = Len(s) + 1 - i
                        /\ \A a \in 1..Len(W[i]) : W[i][a] = s[i + a - 1]
             T == {i \in 1..(Len(s) + 1) : Fine(i)}
  <1>2. Len(s) + 1 \in T
    <2>1. W[Len(s) + 1] = << >> /\ Len(s) \in Nat
      BY <1>1 DEF Unfolds
    <2>2. << >> \in Seq(S) /\ Len(<< >>) = 0
      OBVIOUS
    <2>3. Fine(Len(s) + 1) /\ Len(s) + 1 \in 1..(Len(s) + 1)
      BY <2>1, <2>2
    <2> HIDE DEF Fine
    <2> QED
      BY <2>3
  <1>3. ASSUME NEW i \in 1..Len(s), i + 1 \in T
        PROVE  i \in T
    <2> DEFINE r == W[i + 1]
    <2>1. r \in Seq(S) /\ Len(r) = Len(s) - i /\ \A a \in 1..Len(r) : r[a] = s[i + a]
      <3>1. Fine(i + 1)
        BY <1>3
      <3>2. Len(s) + 1 - (i + 1) = Len(s) - i /\ \A a \in Nat : (i + 1) + a - 1 = i + a
        OBVIOUS
      <3> QED
        BY <3>1, <3>2
    <2>2. W[i] = <<s[i]>> \o r /\ s[i] \in S
      <3>1. W[i] = (IF i \in keep THEN <<s[i]>> ELSE << >>) \o W[i + 1]
        BY <1>1 DEF Unfolds
      <3>2. i \in keep
        OBVIOUS
      <3> HIDE DEF keep
      <3> QED
        BY <3>1, <3>2
    <2> HIDE DEF r, Fine, T, keep
    <2>3. /\ W[i] \in Seq(S) /\ Len(W[i]) = Len(r) + 1 /\ W[i][1] = s[i]
          /\ \A a \in 2..(Len(r) + 1) : W[i][a] = r[a - 1]
      <3> DEFINE e == s[i]
                 q == W[i]
      <3>1. q = <<e>> \o r /\ e \in S /\ r \in Seq(S)
        BY <2>1, <2>2
      <3> HIDE DEF e, q
      <3>2. /\ q \in Seq(S) /\ Len(q) = Len(r) + 1 /\ q[1] = e
            /\ \A a \in 2..(Len(r) + 1) : q[a] = r[a - 1]
        BY <3>1, Prepended
      <3> QED
        BY <3>2 DEF e, q
    <2>4. ASSUME NEW a \in 1..Len(W[i])
          PROVE  W[i][a] = s[i + a - 1]
      <3>1. CASE a = 1
        BY <2>3, <3>1
      <3>2. CASE a # 1
        <4>1. a - 1 \in 1..Len(r) /\ W[i][a] = r[a - 1] /\ i + (a - 1) = i + a - 1
          BY <2>1, <2>3, <3>2
        <4> QED
          BY <2>1, <4>1
      <3> QED
        BY <3>1, <3>2
    <2>5. Len(W[i]) = Len(s) + 1 - i
      BY <2>1, <2>3
    <2>6. i \in 1..(Len(s) + 1)
      OBVIOUS
    <2>7. Fine(i)
      BY <2>3, <2>4, <2>5, Zenon DEF Fine
    <2> QED
      BY <2>6, <2>7 DEF T
  <1>4. 1..(Len(s) + 1) \subseteq T
    <2> HIDE DEF T
    <2>1. Len(s) \in Nat
      OBVIOUS
    <2> QED
      BY <1>2, <1>3, <2>1, Downward
  <1>5. Fine(1)
    BY <1>4
  <1>6. W[1] \in Seq(S) /\ Len(W[1]) = Len(s) /\ \A a \in 1..Len(s) : W[1][a] = s[a]
    BY <1>5
  <1>7. Filter(s, keep) = W[1]
    BY <1>1 DEF Unfolds
  <1>8. W[1] = s
    <2> HIDE DEF Fine, T, keep
    <2> QED
      BY <1>6
  <1> QED
    BY <1>7, <1>8

----------------------------------------------------------------------------
(* The merge of two manifests. *)

Grid(a, b) == (1..(a + 1)) \X (1..(b + 1))
Steps(a, b) == [at \in Grid(a, b) |-> a + 1 - at[1] + (b + 1 - at[2])]

\* A turn goes on in one list or in both, and never back.
Onward(a, b, at, to) ==
    \E x \in at[1]..(a + 1), y \in at[2]..(b + 1) : to = <<x, y>> /\ at[1] + at[2] < x + y

LEMMA OnwardNears ==
    ASSUME NEW a \in Nat, NEW b \in Nat, NEW at \in Grid(a, b), NEW to, Onward(a, b, at, to)
    PROVE  to \in Grid(a, b) /\ Steps(a, b)[to] < Steps(a, b)[at]
  <1>1. PICK x \in at[1]..(a + 1), y \in at[2]..(b + 1) :
            to = <<x, y>> /\ at[1] + at[2] < x + y
    BY DEF Onward
  <1>2. at[1] \in 1..(a + 1) /\ at[2] \in 1..(b + 1)
    BY DEF Grid
  <1>3. x \in 1..(a + 1) /\ y \in 1..(b + 1) /\ to[1] = x /\ to[2] = y
    BY <1>1, <1>2
  <1>4. to \in Grid(a, b)
    BY <1>1, <1>3 DEF Grid
  <1>5. Steps(a, b)[to] = a + 1 - x + (b + 1 - y)
    BY <1>3, <1>4 DEF Steps
  <1>6. Steps(a, b)[at] = a + 1 - at[1] + (b + 1 - at[2])
    BY DEF Steps
  <1>7. a + 1 - x + (b + 1 - y) < a + 1 - at[1] + (b + 1 - at[2])
    BY <1>1, <1>2, <1>3
  <1> QED
    BY <1>4, <1>5, <1>6, <1>7

LEMMA MergeTurnNears ==
    ASSUME NEW S, NEW mine, NEW theirs, NEW tree,
           mine.items \in Seq(S), theirs.items \in Seq(S),
           NEW at \in Grid(Len(mine.items), Len(theirs.items)),
           at # <<Len(mine.items) + 1, Len(theirs.items) + 1>>
    PROVE  Onward(Len(mine.items), Len(theirs.items), at, MergeTurn(mine, theirs, tree, at).to)
  <1> DEFINE a == Len(mine.items)
             b == Len(theirs.items)
             i == at[1]
             j == at[2]
             to == MergeTurn(mine, theirs, tree, at).to
  <1>1. a \in Nat /\ b \in Nat
    OBVIOUS
  <1>2. i \in 1..(a + 1) /\ j \in 1..(b + 1) /\ at = <<i, j>>
    BY DEF Grid
  <1>3. i # a + 1 \/ j # b + 1
    BY <1>2
  <1>4. \/ to = <<i, j + 1>> /\ j <= b
        \/ to = <<i + 1, j>> /\ i <= a
        \/ to = <<i + 1, j + 1>> /\ i <= a /\ j <= b
    <2> DEFINE First == j <= b /\ (i > a \/ mine.items[i].name > theirs.items[j].name)
               Second == j > b \/ mine.items[i].name < theirs.items[j].name
    <2>1. CASE First
      BY <2>1, ZenonT(40) DEF MergeTurn, Turn
    <2>2. CASE ~First /\ Second
      <3>1. to = <<i + 1, j>>
        BY <2>2 DEF MergeTurn, Turn
      <3>2. i <= a
        <4>1. i > a => j > b
          BY <1>1, <1>2, <2>2
        <4> HIDE DEF a, b, i, j
        <4> QED
          BY <1>1, <1>2, <1>3, <4>1
      <3> QED
        BY <3>1, <3>2
    <2>3. CASE ~First /\ ~Second
      <3>1. to \in {<<i + 1, j + 1>>, <<i, j + 1>>}
        BY <2>3 DEF MergeTurn, Turn
      <3>2. i <= a /\ j <= b
        BY <1>1, <1>2, <2>3
      <3> QED
        BY <3>1, <3>2
    <2> QED
      BY <2>1, <2>2, <2>3
  <1> HIDE DEF to
  <1>5. Onward(a, b, at, to)
    <2> HIDE DEF a, b
    <2>1. CASE to = <<i, j + 1>> /\ j <= b
      BY <1>1, <1>2, <2>1 DEF Onward
    <2>2. CASE to = <<i + 1, j>> /\ i <= a
      BY <1>1, <1>2, <2>2 DEF Onward
    <2>3. CASE to = <<i + 1, j + 1>> /\ i <= a /\ j <= b
      BY <1>1, <1>2, <2>3 DEF Onward
    <2> QED
      BY <1>4, <2>1, <2>2, <2>3
  <1> QED
    BY <1>5 DEF to

LEMMA StepsTyped ==
    ASSUME NEW a \in Nat, NEW b \in Nat
    PROVE  Steps(a, b) \in [Grid(a, b) -> Nat]
  <1>1. ASSUME NEW at \in Grid(a, b)
        PROVE  a + 1 - at[1] + (b + 1 - at[2]) \in Nat
    <2>1. at[1] \in 1..(a + 1) /\ at[2] \in 1..(b + 1)
      BY DEF Grid
    <2> QED
      BY <2>1
  <1> QED
    BY <1>1 DEF Steps

MergeUnfolds(mine, theirs, tree) ==
    LET D == Grid(Len(mine.items), Len(theirs.items))
        end == <<Len(mine.items) + 1, Len(theirs.items) + 1>>
        W == MergeWalk(mine, theirs, tree)
    IN  \A at \in D :
           W[at] = IF at = end THEN << >>
                   ELSE MergeTurn(mine, theirs, tree, at).made
                        \o W[MergeTurn(mine, theirs, tree, at).to]

LEMMA MergeUnfold ==
    ASSUME NEW S, NEW mine, NEW theirs, NEW tree,
           mine.items \in Seq(S), theirs.items \in Seq(S)
    PROVE  MergeUnfolds(mine, theirs, tree)
  <1> DEFINE D == (1..(Len(mine.items) + 1)) \X (1..(Len(theirs.items) + 1))
             end == <<Len(mine.items) + 1, Len(theirs.items) + 1>>
             Body(f, at) == IF at = <<Len(mine.items) + 1, Len(theirs.items) + 1>> THEN << >>
                            ELSE MergeTurn(mine, theirs, tree, at).made
                                 \o f[MergeTurn(mine, theirs, tree, at).to]
             Walk[at \in D] ==
                 IF at = <<Len(mine.items) + 1, Len(theirs.items) + 1>> THEN << >>
                 ELSE MergeTurn(mine, theirs, tree, at).made
                      \o Walk[MergeTurn(mine, theirs, tree, at).to]
             rank == Steps(Len(mine.items), Len(theirs.items))
             emit == [at \in D |-> MergeTurn(mine, theirs, tree, at).made]
             next == [at \in D |-> MergeTurn(mine, theirs, tree, at).to]
             Stop == {end}
  <1>1. Nearing(D, rank, Stop, next)
    <2>1. rank \in [D -> Nat]
      <3>1. Len(mine.items) \in Nat /\ Len(theirs.items) \in Nat
        OBVIOUS
      <3>2. D = Grid(Len(mine.items), Len(theirs.items))
        BY DEF Grid
      <3> HIDE DEF D
      <3> QED
        BY <3>1, <3>2, StepsTyped
    <2>2. ASSUME NEW p \in D \ Stop
          PROVE  next[p] \in D /\ rank[next[p]] < rank[p]
      <3>1. Len(mine.items) \in Nat /\ Len(theirs.items) \in Nat
        OBVIOUS
      <3>2. D = Grid(Len(mine.items), Len(theirs.items))
        BY DEF Grid
      <3>3. p \in D /\ p # end /\ next[p] = MergeTurn(mine, theirs, tree, p).to
        OBVIOUS
      <3> HIDE DEF D, next, end, rank
      <3>4. Onward(Len(mine.items), Len(theirs.items), p, next[p])
        BY <3>2, <3>3, MergeTurnNears DEF end
      <3> QED
        BY <3>1, <3>2, <3>3, <3>4, OnwardNears DEF rank
    <2> HIDE DEF D, rank, next, Stop
    <2> QED
      BY <2>1, <2>2 DEF Nearing
  <1>2. PICK f : IsWalk(f, D, Stop, emit, next)
    <2> HIDE DEF D, rank, emit, next, Stop
    <2> QED
      BY <1>1, WalkExists
  <1>3. \A at \in D : Turned(f, at, Stop, emit, next) = Body(f, at)
    BY DEF Turned
  <1>4. f = [at \in D |-> Body(f, at)]
    <2> HIDE DEF Body, D, rank, emit, next, Stop
    <2> QED
      BY <1>2, <1>3 DEF IsWalk
  <1>5. Walk = [at \in D |-> Body(Walk, at)]
    <2> HIDE DEF D
    <2> QED
      BY <1>4, Zenon
  <1>6. MergeWalk(mine, theirs, tree) = Walk
    BY DEF MergeWalk
  <1> HIDE DEF Walk, D
  <1>7. \A at \in D : Walk[at] = Body(Walk, at)
    <2> HIDE DEF Body
    <2> QED
      BY <1>5
  <1> QED
    BY <1>6, <1>7 DEF D, Grid, MergeUnfolds

\* A list of named entries in the order of their names.
Ordered(c) ==
    /\ Len(c) \in Nat
    /\ \A x \in 1..Len(c) : c[x].name \in Nat
    /\ \A x, y \in 1..Len(c) : x < y => c[x].name < c[y].name

\* No entry of s has the name of entry x of c.
OnlyIn(c, x, s) == \A y \in 1..Len(s) : c[x].name # s[y].name

\* What the merge is past is before all that is to come.
Passed(c, s, i, j) ==
    /\ \A x \in 1..(i - 1), y \in j..Len(s) : c[x].name < s[y].name
    /\ \A x \in i..Len(c), y \in 1..(j - 1) : s[y].name < c[x].name

\* The entries to make from i and j on.
OfPair(c, s, same, tree, x, y, m) ==
    \/ /\ same /\ tree[c[x].name] # s[y].hash
       /\ m = Mark("client", x, Upload)
    \/ /\ ~same /\ c[x].ver # s[y].ver /\ tree[c[x].name] = c[x].hash
       /\ m = Mark("server", x, Modified)

Right(c, s, same, tree, i, j, m) ==
    \/ \E y \in j..Len(s) : OnlyIn(s, y, c) /\ m = Mark("server", y, Added)
    \/ \E x \in i..Len(c) :
          OnlyIn(c, x, s) /\ m = Mark("client", x, IF same THEN Upload ELSE Deleted)
    \/ \E x \in i..Len(c), y \in j..Len(s) :
          c[x].name = s[y].name /\ OfPair(c, s, same, tree, x, y, m)

\* A pair of which none is made has the server's content.
Settled(c, s, same, tree, i, j) ==
    \A x \in i..Len(c), y \in j..Len(s) :
        c[x].name = s[y].name
        => tree[c[x].name] = s[y].hash \/ \E m : OfPair(c, s, same, tree, x, y, m)

LEMMA OnlyServerTurn ==
    ASSUME NEW c, NEW s, NEW same, NEW tree, Ordered(c), Ordered(s),
           NEW i \in 1..(Len(c) + 1), NEW j \in 1..Len(s), Passed(c, s, i, j),
           i > Len(c) \/ c[i].name > s[j].name
    PROVE  /\ Passed(c, s, i, j + 1)
           /\ \A m : Right(c, s, same, tree, i, j, m)
                     <=> m = Mark("server", j, Added) \/ Right(c, s, same, tree, i, j + 1, m)
           /\ Settled(c, s, same, tree, i, j + 1) => Settled(c, s, same, tree, i, j)
  <1>1. \A x \in i..Len(c) : s[j].name < c[x].name
    BY DEF Ordered
  <1>2. OnlyIn(s, j, c)
    <2>1. \A x \in 1..(i - 1) : c[x].name < s[j].name
      BY DEF Passed, Ordered
    <2>2. \A x \in 1..Len(c) : x \in 1..(i - 1) \/ x \in i..Len(c)
      BY DEF Ordered
    <2> QED
      BY <1>1, <2>1, <2>2 DEF OnlyIn, Ordered
  <1>3. j..Len(s) = {j} \cup (j + 1)..Len(s)
    BY DEF Ordered
  <1>4. \A x \in i..Len(c) : c[x].name # s[j].name
    BY <1>1 DEF Ordered
  <1>5. Passed(c, s, i, j + 1)
    <2>1. \A x \in 1..(i - 1), y \in (j + 1)..Len(s) : y \in j..Len(s)
      OBVIOUS
    <2>2. \A y \in 1..((j + 1) - 1) : y = j \/ y \in 1..(j - 1)
      OBVIOUS
    <2> QED
      BY <1>1, <2>1, <2>2 DEF Passed
  <1>6. \A m : Right(c, s, same, tree, i, j, m)
               <=> m = Mark("server", j, Added) \/ Right(c, s, same, tree, i, j + 1, m)
    BY <1>2, <1>3, <1>4 DEF Right
  <1>7. Settled(c, s, same, tree, i, j + 1) => Settled(c, s, same, tree, i, j)
    BY <1>3, <1>4 DEF Settled
  <1> QED
    BY <1>5, <1>6, <1>7

LEMMA OnlyClientTurn ==
    ASSUME NEW c, NEW s, NEW same, NEW tree, Ordered(c), Ordered(s),
           NEW i \in 1..Len(c), NEW j \in 1..(Len(s) + 1), Passed(c, s, i, j),
           j > Len(s) \/ c[i].name < s[j].name
    PROVE  /\ Passed(c, s, i + 1, j)
           /\ \A m : Right(c, s, same, tree, i, j, m)
                     <=> \/ m = Mark("client", i, IF same THEN Upload ELSE Deleted)
                         \/ Right(c, s, same, tree, i + 1, j, m)
           /\ Settled(c, s, same, tree, i + 1, j) => Settled(c, s, same, tree, i, j)
  <1>1. \A y \in j..Len(s) : c[i].name < s[y].name
    BY DEF Ordered
  <1>2. OnlyIn(c, i, s)
    <2>1. \A y \in 1..(j - 1) : s[y].name < c[i].name
      BY DEF Passed
    <2>2. \A y \in 1..Len(s) : y \in 1..(j - 1) \/ y \in j..Len(s)
      BY DEF Ordered
    <2> QED
      BY <1>1, <2>1, <2>2 DEF OnlyIn, Ordered
  <1>3. i..Len(c) = {i} \cup (i + 1)..Len(c)
    BY DEF Ordered
  <1>4. \A y \in j..Len(s) : c[i].name # s[y].name
    BY <1>1 DEF Ordered
  <1>5. Passed(c, s, i + 1, j)
    <2>1. \A x \in (i + 1)..Len(c), y \in 1..(j - 1) : x \in i..Len(c)
      OBVIOUS
    <2>2. \A x \in 1..((i + 1) - 1) : x = i \/ x \in 1..(i - 1)
      OBVIOUS
    <2> QED
      BY <1>1, <2>1, <2>2 DEF Passed
  <1>6. \A m : Right(c, s, same, tree, i, j, m)
               <=> \/ m = Mark("client", i, IF same THEN Upload ELSE Deleted)
                   \/ Right(c, s, same, tree, i + 1, j, m)
    BY <1>2, <1>3, <1>4 DEF Right
  <1>7. Settled(c, s, same, tree, i + 1, j) => Settled(c, s, same, tree, i, j)
    BY <1>3, <1>4 DEF Settled
  <1> QED
    BY <1>5, <1>6, <1>7

LEMMA PairTurn ==
    ASSUME NEW c, NEW s, NEW same, NEW tree, Ordered(c), Ordered(s),
           NEW i \in 1..Len(c), NEW j \in 1..Len(s), Passed(c, s, i, j),
           c[i].name = s[j].name
    PROVE  /\ Passed(c, s, i + 1, j + 1)
           /\ \A m : Right(c, s, same, tree, i, j, m)
                     <=> \/ OfPair(c, s, same, tree, i, j, m)
                         \/ Right(c, s, same, tree, i + 1, j + 1, m)
           /\ Settled(c, s, same, tree, i + 1, j + 1)
              /\ (tree[c[i].name] = s[j].hash \/ \E m : OfPair(c, s, same, tree, i, j, m))
              => Settled(c, s, same, tree, i, j)
  <1>1. /\ i..Len(c) = {i} \cup (i + 1)..Len(c)
        /\ j..Len(s) = {j} \cup (j + 1)..Len(s)
    BY DEF Ordered
  <1>2. /\ \A y \in (j + 1)..Len(s) : c[i].name < s[y].name
        /\ \A x \in (i + 1)..Len(c) : s[j].name < c[x].name
    BY DEF Ordered
  <1>3. /\ \A y \in (j + 1)..Len(s) : c[i].name # s[y].name
        /\ \A x \in (i + 1)..Len(c) : s[j].name # c[x].name
    BY <1>2 DEF Ordered
  <1>4. ~OnlyIn(c, i, s) /\ ~OnlyIn(s, j, c)
    BY DEF OnlyIn
  <1>5. Passed(c, s, i + 1, j + 1)
    <2>1. /\ \A x \in (i + 1)..Len(c) : x \in i..Len(c)
          /\ \A y \in (j + 1)..Len(s) : y \in j..Len(s)
      OBVIOUS
    <2>2. /\ \A x \in 1..((i + 1) - 1) : x = i \/ x \in 1..(i - 1)
          /\ \A y \in 1..((j + 1) - 1) : y = j \/ y \in 1..(j - 1)
      OBVIOUS
    <2> QED
      BY <1>2, <2>1, <2>2 DEF Passed
  <1>6. \A m : Right(c, s, same, tree, i, j, m)
               <=> \/ OfPair(c, s, same, tree, i, j, m)
                   \/ Right(c, s, same, tree, i + 1, j + 1, m)
    BY <1>1, <1>3, <1>4 DEF Right
  <1>7. Settled(c, s, same, tree, i + 1, j + 1)
        /\ (tree[c[i].name] = s[j].hash \/ \E m : OfPair(c, s, same, tree, i, j, m))
        => Settled(c, s, same, tree, i, j)
    BY <1>1, <1>3 DEF Settled
  <1> QED
    BY <1>5, <1>6, <1>7

\* The turns, by what they make.
TurnOf(c, s, same, tree, i, j, turn) ==
    \/ /\ j <= Len(s) /\ (i > Len(c) \/ c[i].name > s[j].name)
       /\ turn = Turn(<<Mark("server", j, Added)>>, i, j + 1)
    \/ /\ i <= Len(c) /\ (j > Len(s) \/ c[i].name < s[j].name)
       /\ turn = Turn(<<Mark("client", i, IF same THEN Upload ELSE Deleted)>>, i + 1, j)
    \/ /\ i <= Len(c) /\ j <= Len(s) /\ c[i].name = s[j].name
       /\ \/ \E m : turn = Turn(<<m>>, i + 1, j + 1) /\ OfPair(c, s, same, tree, i, j, m)
          \/ /\ turn = Turn(<< >>, i + 1, j + 1)
             /\ tree[c[i].name] = s[j].hash
             /\ \A m : ~OfPair(c, s, same, tree, i, j, m)
          \/ turn = Turn(<<Mark("server", j, Conflict)>>, i, j + 1)

LEMMA MergeTurns ==
    ASSUME NEW mine, NEW theirs, NEW tree, NEW i, NEW j,
           Ordered(mine.items), Ordered(theirs.items),
           i \in 1..(Len(mine.items) + 1), j \in 1..(Len(theirs.items) + 1),
           <<i, j>> # <<Len(mine.items) + 1, Len(theirs.items) + 1>>
    PROVE  TurnOf(mine.items, theirs.items, mine.ver = theirs.ver, tree, i, j,
                  MergeTurn(mine, theirs, tree, <<i, j>>))
  <1> DEFINE c == mine.items
             s == theirs.items
             same == mine.ver = theirs.ver
             turn == MergeTurn(mine, theirs, tree, <<i, j>>)
             first == j <= Len(s) /\ (i > Len(c) \/ c[i].name > s[j].name)
             second == j > Len(s) \/ c[i].name < s[j].name
  <1>1. CASE first
    <2>1. turn = Turn(<<Mark("server", j, Added)>>, i, j + 1)
      BY <1>1 DEF MergeTurn, AddedCode
    <2> QED
      BY <1>1, <2>1 DEF TurnOf
  <1>2. CASE ~first /\ second
    <2>1. i <= Len(c)
      BY <1>2 DEF Ordered
    <2>2. turn = Turn(<<Mark("client", i, IF same THEN Upload ELSE Deleted)>>, i + 1, j)
      BY <1>2 DEF MergeTurn
    <2> QED
      BY <1>2, <2>1, <2>2 DEF TurnOf
  <1>3. CASE ~first /\ ~second
    <2>1. i <= Len(c) /\ j <= Len(s) /\ c[i].name = s[j].name
      BY <1>3 DEF Ordered
    <2> DEFINE new == tree[c[i].name]
               up == same /\ new # s[j].hash
               changed == ~same /\ c[i].ver # s[j].ver /\ new = c[i].hash
    <2>2. CASE up
      <3>1. turn = Turn(<<Mark("client", i, Upload)>>, i + 1, j + 1)
        BY <1>3, <2>2 DEF MergeTurn
      <3>2. OfPair(c, s, same, tree, i, j, Mark("client", i, Upload))
        BY <2>2 DEF OfPair
      <3> QED
        BY <2>1, <3>1, <3>2 DEF TurnOf
    <2>3. CASE ~up /\ changed
      <3>1. turn = Turn(<<Mark("server", i, Modified)>>, i + 1, j + 1)
        BY <1>3, <2>3 DEF MergeTurn
      <3>2. OfPair(c, s, same, tree, i, j, Mark("server", i, Modified))
        BY <2>3 DEF OfPair
      <3> QED
        BY <2>1, <3>1, <3>2 DEF TurnOf
    <2>4. CASE ~up /\ ~changed /\ new = s[j].hash
      <3>1. turn = Turn(<< >>, i + 1, j + 1)
        BY <1>3, <2>4 DEF MergeTurn
      <3>2. \A m : ~OfPair(c, s, same, tree, i, j, m)
        BY <2>4 DEF OfPair
      <3> QED
        BY <2>1, <2>4, <3>1, <3>2 DEF TurnOf
    <2>5. CASE ~up /\ ~changed /\ new # s[j].hash
      <3>1. turn = Turn(<<Mark("server", j, Conflict)>>, i, j + 1)
        BY <1>3, <2>5 DEF MergeTurn, ConflictCode
      <3> QED
        BY <2>1, <3>1 DEF TurnOf
    <2> QED
      BY <2>2, <2>3, <2>4, <2>5
  <1> QED
    BY <1>1, <1>2, <1>3

AnyMark == [side : {"server", "client"}, at : Nat, code : {Upload, Modified, Added, Deleted, Conflict}]

LEMMA PairMark ==
    ASSUME NEW c, NEW s, NEW same, NEW tree, NEW i \in Nat, NEW j, NEW m,
           OfPair(c, s, same, tree, i, j, m)
    PROVE  m \in AnyMark /\ m.code # Conflict
  BY DEF OfPair, Mark, AnyMark, Upload, Modified, Conflict

\* The file an entry is about.
Subject(c, s, m) ==
    IF m.side = "client" \/ m.code = Modified THEN c[m.at].name ELSE s[m.at].name

Ascending(c, s, w) ==
    \A k, l \in 1..Len(w) : k < l => Subject(c, s, w[k]) < Subject(c, s, w[l])

\* What the merge makes from i and j on.
Merged(c, s, same, tree, i, j, w) ==
    /\ \A m : m \in Range(w) <=> Right(c, s, same, tree, i, j, m)
    /\ Settled(c, s, same, tree, i, j)
    /\ Ascending(c, s, w)

LEMMA LaterSubject ==
    ASSUME NEW c, NEW s, NEW same, NEW tree, NEW i, NEW j, NEW m, NEW f,
           Right(c, s, same, tree, i, j, m),
           \A x \in i..Len(c) : f < c[x].name, \A y \in j..Len(s) : f < s[y].name
    PROVE  f < Subject(c, s, m)
  <1>1. CASE \E y \in j..Len(s) : m = Mark("server", y, Added)
    BY <1>1 DEF Mark, Subject, Added, Modified
  <1>2. CASE \E x \in i..Len(c) : m = Mark("client", x, IF same THEN Upload ELSE Deleted)
    BY <1>2 DEF Mark, Subject
  <1>3. CASE \E x \in i..Len(c), y \in j..Len(s) : OfPair(c, s, same, tree, x, y, m)
    BY <1>3 DEF OfPair, Mark, Subject, Modified
  <1> QED
    BY <1>1, <1>2, <1>3 DEF Right

LEMMA AscendingMore ==
    ASSUME NEW c, NEW s, NEW m \in AnyMark, NEW w \in Seq(AnyMark), Ascending(c, s, w),
           \A n \in Range(w) : Subject(c, s, m) < Subject(c, s, n)
    PROVE  Ascending(c, s, <<m>> \o w)
  <1> DEFINE q == <<m>> \o w
  <1>1. /\ q \in Seq(AnyMark) /\ Len(q) = Len(w) + 1 /\ q[1] = m
        /\ \A a \in 2..(Len(w) + 1) : q[a] = w[a - 1]
    BY Prepended
  <1> HIDE DEF q
  <1>2. /\ Len(w) \in Nat
        /\ \A a \in 1..Len(w) : w[a] \in Range(w) /\ a + 1 \in 1..Len(q) /\ q[a + 1] = w[a]
        /\ \A a \in 1..Len(q) : a = 1 \/ (a - 1 \in 1..Len(w) /\ q[a] = w[a - 1])
    BY <1>1 DEF Range
  <1>3. ASSUME NEW k \in 1..Len(q), NEW l \in 1..Len(q), k < l
        PROVE  Subject(c, s, q[k]) < Subject(c, s, q[l])
    <2>1. l - 1 \in 1..Len(w) /\ q[l] = w[l - 1]
      BY <1>1, <1>2, <1>3
    <2>2. CASE k = 1
      BY <1>1, <1>2, <2>1, <2>2
    <2>3. CASE k # 1
      <3>1. k - 1 \in 1..Len(w) /\ q[k] = w[k - 1] /\ k - 1 < l - 1
        BY <1>1, <1>2, <1>3, <2>3
      <3> QED
        BY <2>1, <3>1 DEF Ascending
    <2> QED
      BY <2>2, <2>3
  <1>4. Ascending(c, s, q)
    BY <1>3 DEF Ascending
  <1> QED
    BY <1>4 DEF q

LEMMA ConflictInRange ==
    ASSUME NEW w
    PROVE  HasConflict(w) <=> \E n \in Range(w) : n.code = Conflict
  BY DEF HasConflict, Range

LEMMA ConflictMore ==
    ASSUME NEW m \in AnyMark, NEW w \in Seq(AnyMark)
    PROVE  HasConflict(<<m>> \o w) <=> m.code = Conflict \/ HasConflict(w)
  <1> DEFINE q == <<m>> \o w
  <1>1. \A n : n \in Range(q) <=> n = m \/ n \in Range(w)
    BY PrependedRange
  <1> HIDE DEF q
  <1>2. HasConflict(q) <=> m.code = Conflict \/ HasConflict(w)
    BY <1>1, ConflictInRange
  <1> QED
    BY <1>2 DEF q

\* A turn that makes one entry.
LEMMA OneMade ==
    ASSUME NEW c, NEW s, NEW same, NEW tree, NEW i, NEW j, NEW x, NEW y,
           NEW m \in AnyMark, NEW w \in Seq(AnyMark), Merged(c, s, same, tree, x, y, w),
           \A n : Right(c, s, same, tree, i, j, n) <=> n = m \/ Right(c, s, same, tree, x, y, n),
           Settled(c, s, same, tree, i, j),
           \A k \in x..Len(c) : Subject(c, s, m) < c[k].name,
           \A k \in y..Len(s) : Subject(c, s, m) < s[k].name
    PROVE  Merged(c, s, same, tree, i, j, <<m>> \o w)
  <1>1. \A n \in Range(w) : Subject(c, s, m) < Subject(c, s, n)
    BY LaterSubject DEF Merged
  <1>2. Ascending(c, s, <<m>> \o w)
    BY <1>1, AscendingMore DEF Merged
  <1>3. \A n : n \in Range(<<m>> \o w) <=> n = m \/ n \in Range(w)
    BY PrependedRange
  <1> DEFINE q == <<m>> \o w
  <1> HIDE DEF q
  <1>4. Merged(c, s, same, tree, i, j, q)
    BY <1>2, <1>3 DEF Merged, q
  <1> QED
    BY <1>4 DEF q

LEMMA MergeStep ==
    ASSUME NEW c, NEW s, NEW same, NEW tree, NEW w \in Seq(AnyMark), NEW turn,
           Ordered(c), Ordered(s), NEW i \in 1..(Len(c) + 1), NEW j \in 1..(Len(s) + 1),
           TurnOf(c, s, same, tree, i, j, turn),
           ~HasConflict(w) /\ Passed(c, s, turn.to[1], turn.to[2])
           => Merged(c, s, same, tree, turn.to[1], turn.to[2], w)
    PROVE  /\ turn.made \o w \in Seq(AnyMark)
           /\ ~HasConflict(turn.made \o w) /\ Passed(c, s, i, j)
              => Merged(c, s, same, tree, i, j, turn.made \o w)
  <1> DEFINE M(x, y, v) == Merged(c, s, same, tree, x, y, v)
             R(x, y, n) == Right(c, s, same, tree, x, y, n)
             Good(made) == /\ made \o w \in Seq(AnyMark)
                           /\ ~HasConflict(made \o w) /\ Passed(c, s, i, j) => M(i, j, made \o w)
  <1>1. ASSUME NEW x, NEW y, NEW made, turn = Turn(made, x, y)
        PROVE  /\ turn.made = made
               /\ ~HasConflict(w) /\ Passed(c, s, x, y) => M(x, y, w)
    <2>1. turn.made = made /\ turn.to[1] = x /\ turn.to[2] = y
      BY <1>1 DEF Turn
    <2> QED
      BY <2>1
  <1>2. ASSUME NEW m \in AnyMark, m.code # Conflict, NEW x, NEW y, turn = Turn(<<m>>, x, y),
               Passed(c, s, i, j)
               => /\ Passed(c, s, x, y)
                  /\ \A n : R(i, j, n) <=> n = m \/ R(x, y, n)
                  /\ Settled(c, s, same, tree, x, y) => Settled(c, s, same, tree, i, j)
                  /\ \A k \in x..Len(c) : Subject(c, s, m) < c[k].name
                  /\ \A k \in y..Len(s) : Subject(c, s, m) < s[k].name
        PROVE  Good(turn.made)
    <2>1. turn.made = <<m>> /\ (~HasConflict(w) /\ Passed(c, s, x, y) => M(x, y, w))
      BY <1>1, <1>2
    <2>2. /\ <<m>> \o w \in Seq(AnyMark)
          /\ HasConflict(<<m>> \o w) <=> HasConflict(w)
      BY <1>2, Prepended, ConflictMore
    <2>3. ASSUME ~HasConflict(w), Passed(c, s, i, j)
          PROVE  M(i, j, <<m>> \o w)
      <3>1. M(x, y, w)
        BY <1>2, <2>1, <2>3
      <3>2. Settled(c, s, same, tree, i, j)
        BY <1>2, <2>3, <3>1 DEF Merged
      <3> QED
        BY <1>2, <2>3, <3>1, <3>2, OneMade
    <2> QED
      BY <2>1, <2>2, <2>3
  <1>3. ASSUME j <= Len(s) /\ (i > Len(c) \/ c[i].name > s[j].name)
               /\ turn = Turn(<<Mark("server", j, Added)>>, i, j + 1)
        PROVE  Good(turn.made)
    <2> DEFINE m == Mark("server", j, Added)
    <2>1. j \in 1..Len(s) /\ j \in Nat
      BY <1>3 DEF Ordered
    <2>2. m \in AnyMark /\ m.code # Conflict /\ Subject(c, s, m) = s[j].name
      BY <2>1 DEF Mark, AnyMark, Added, Conflict, Modified, Subject
    <2> HIDE DEF m
    <2>3. ASSUME Passed(c, s, i, j)
          PROVE  /\ Passed(c, s, i, j + 1)
                 /\ \A n : R(i, j, n) <=> n = m \/ R(i, j + 1, n)
                 /\ Settled(c, s, same, tree, i, j + 1) => Settled(c, s, same, tree, i, j)
      BY <1>3, <2>1, <2>3, OnlyServerTurn, ZenonT(40) DEF m
    <2>4. ASSUME Passed(c, s, i, j)
          PROVE  /\ \A k \in i..Len(c) : Subject(c, s, m) < c[k].name
                 /\ \A k \in (j + 1)..Len(s) : Subject(c, s, m) < s[k].name
      <3>1. Passed(c, s, i, j + 1)
        BY <2>3, <2>4
      <3>2. \A k \in i..Len(c) : s[j].name < c[k].name
        <4>1. j \in 1..((j + 1) - 1)
          BY <2>1
        <4> QED
          BY <3>1, <4>1 DEF Passed
      <3>3. \A k \in (j + 1)..Len(s) : s[j].name < s[k].name
        BY <2>1, SMTT(40) DEF Ordered
      <3> QED
        BY <2>2, <3>2, <3>3
    <2>5. turn = Turn(<<m>>, i, j + 1)
      BY <1>3 DEF m
    <2> HIDE DEF Good
    <2> QED
      BY <1>2, <2>2, <2>3, <2>4, <2>5
  <1>4. ASSUME i <= Len(c) /\ (j > Len(s) \/ c[i].name < s[j].name)
               /\ turn = Turn(<<Mark("client", i, IF same THEN Upload ELSE Deleted)>>, i + 1, j)
        PROVE  Good(turn.made)
    <2> DEFINE m == Mark("client", i, IF same THEN Upload ELSE Deleted)
    <2>1. i \in 1..Len(c) /\ i \in Nat
      BY <1>4 DEF Ordered
    <2>2. m \in AnyMark /\ m.code # Conflict /\ Subject(c, s, m) = c[i].name
      BY <2>1 DEF Mark, AnyMark, Upload, Deleted, Conflict, Subject
    <2> HIDE DEF m
    <2>3. ASSUME Passed(c, s, i, j)
          PROVE  /\ Passed(c, s, i + 1, j)
                 /\ \A n : R(i, j, n) <=> n = m \/ R(i + 1, j, n)
                 /\ Settled(c, s, same, tree, i + 1, j) => Settled(c, s, same, tree, i, j)
      BY <1>4, <2>1, <2>3, OnlyClientTurn, ZenonT(40) DEF m
    <2>4. ASSUME Passed(c, s, i, j)
          PROVE  /\ \A k \in (i + 1)..Len(c) : Subject(c, s, m) < c[k].name
                 /\ \A k \in j..Len(s) : Subject(c, s, m) < s[k].name
      <3>1. Passed(c, s, i + 1, j)
        BY <2>3, <2>4
      <3>2. \A k \in j..Len(s) : c[i].name < s[k].name
        <4>1. i \in 1..((i + 1) - 1)
          BY <2>1
        <4> QED
          BY <3>1, <4>1 DEF Passed
      <3>3. \A k \in (i + 1)..Len(c) : c[i].name < c[k].name
        BY <2>1, SMTT(40) DEF Ordered
      <3> QED
        BY <2>2, <3>2, <3>3
    <2>5. turn = Turn(<<m>>, i + 1, j)
      BY <1>4 DEF m
    <2> HIDE DEF Good
    <2> QED
      BY <1>2, <2>2, <2>3, <2>4, <2>5
  <1>5. ASSUME i <= Len(c) /\ j <= Len(s) /\ c[i].name = s[j].name,
               NEW m, turn = Turn(<<m>>, i + 1, j + 1), OfPair(c, s, same, tree, i, j, m)
        PROVE  Good(turn.made)
    <2>1. i \in 1..Len(c) /\ j \in 1..Len(s) /\ i \in Nat
      BY <1>5 DEF Ordered
    <2>2. m \in AnyMark /\ m.code # Conflict
      BY <1>5, <2>1, PairMark
    <2>3. Subject(c, s, m) = c[i].name
      BY <1>5 DEF OfPair, Mark, Subject, Upload, Modified
    <2>4. ASSUME Passed(c, s, i, j)
          PROVE  /\ Passed(c, s, i + 1, j + 1)
                 /\ \A n : R(i, j, n) <=> OfPair(c, s, same, tree, i, j, n) \/ R(i + 1, j + 1, n)
                 /\ Settled(c, s, same, tree, i + 1, j + 1) => Settled(c, s, same, tree, i, j)
      BY <1>5, <2>1, <2>4, PairTurn
    <2>5. \A n : OfPair(c, s, same, tree, i, j, n) <=> n = m
      BY <1>5 DEF OfPair
    <2>6. ASSUME Passed(c, s, i, j)
          PROVE  /\ \A k \in (i + 1)..Len(c) : Subject(c, s, m) < c[k].name
                 /\ \A k \in (j + 1)..Len(s) : Subject(c, s, m) < s[k].name
      BY <1>5, <2>1, <2>3 DEF Ordered
    <2> HIDE DEF Good
    <2>7. ASSUME Passed(c, s, i, j)
          PROVE  \A n : R(i, j, n) <=> n = m \/ R(i + 1, j + 1, n)
      BY <2>4, <2>5, <2>7
    <2> QED
      BY <1>2, <1>5, <2>2, <2>4, <2>6, <2>7
  <1>6. ASSUME i <= Len(c) /\ j <= Len(s) /\ c[i].name = s[j].name
               /\ turn = Turn(<< >>, i + 1, j + 1) /\ tree[c[i].name] = s[j].hash
               /\ \A m : ~OfPair(c, s, same, tree, i, j, m)
        PROVE  Good(turn.made)
    <2>1. i \in 1..Len(c) /\ j \in 1..Len(s)
      BY <1>6 DEF Ordered
    <2>2. turn.made = << >> /\ (~HasConflict(w) /\ Passed(c, s, i + 1, j + 1) => M(i + 1, j + 1, w))
      BY <1>1, <1>6
    <2>3. turn.made \o w = w
      BY <2>2, EmptyPrefix
    <2>4. ASSUME Passed(c, s, i, j)
          PROVE  /\ Passed(c, s, i + 1, j + 1)
                 /\ \A n : R(i, j, n) <=> OfPair(c, s, same, tree, i, j, n) \/ R(i + 1, j + 1, n)
                 /\ Settled(c, s, same, tree, i + 1, j + 1) => Settled(c, s, same, tree, i, j)
      BY <1>6, <2>1, <2>4, PairTurn
    <2>5. ASSUME ~HasConflict(w), Passed(c, s, i, j)
          PROVE  M(i, j, w)
      BY <1>6, <2>2, <2>4, <2>5 DEF Merged
    <2> QED
      BY <2>3, <2>5
  <1>7. ASSUME i <= Len(c) /\ j <= Len(s) /\ turn = Turn(<<Mark("server", j, Conflict)>>, i, j + 1)
        PROVE  Good(turn.made)
    <2> DEFINE m == Mark("server", j, Conflict)
    <2>1. m \in AnyMark /\ m.code = Conflict
      <3>1. j \in Nat
        BY DEF Ordered
      <3> QED
        BY <3>1 DEF Mark, AnyMark
    <2>2. turn.made = <<m>>
      BY <1>1, <1>7
    <2> HIDE DEF m
    <2>3. <<m>> \o w \in Seq(AnyMark) /\ HasConflict(<<m>> \o w)
      BY <2>1, Prepended, ConflictMore
    <2> QED
      BY <2>2, <2>3
  <1>8. Good(turn.made)
    <2> HIDE DEF Good
    <2> QED
      BY <1>3, <1>4, <1>5, <1>6, <1>7 DEF TurnOf
  <1> QED
    BY <1>8

\* A merge without conflict makes exactly the right entries, in the order of the
\* files they are about.
LEMMA MergeIsRight ==
    ASSUME NEW S, NEW mine, NEW theirs, NEW tree,
           mine.items \in Seq(S), theirs.items \in Seq(S),
           Ordered(mine.items), Ordered(theirs.items)
    PROVE  LET marks == Marks(mine, theirs, tree)
           IN  /\ marks \in Seq(AnyMark)
               /\ ~HasConflict(marks)
                  => Merged(mine.items, theirs.items, mine.ver = theirs.ver, tree, 1, 1, marks)
  <1> DEFINE c == mine.items
             s == theirs.items
             same == mine.ver = theirs.ver
             W == MergeWalk(mine, theirs, tree)
             D == Grid(Len(c), Len(s))
             end == <<Len(c) + 1, Len(s) + 1>>
             rank == Steps(Len(c), Len(s))
             Fine(i, j) == Passed(c, s, i, j) /\ ~HasConflict(W[<<i, j>>])
                           => Merged(c, s, same, tree, i, j, W[<<i, j>>])
             T == {at \in D : W[at] \in Seq(AnyMark) /\ Fine(at[1], at[2])}
  <1>1. Len(c) \in Nat /\ Len(s) \in Nat
    OBVIOUS
  <1>3. \A at \in D : W[at] = IF at = end THEN << >>
                             ELSE MergeTurn(mine, theirs, tree, at).made
                                  \o W[MergeTurn(mine, theirs, tree, at).to]
    <2> HIDE DEF T, rank
    <2>1. MergeUnfolds(mine, theirs, tree)
      BY MergeUnfold
    <2> QED
      BY <2>1 DEF MergeUnfolds
  <1>2. ASSUME NEW at \in D, \A q \in D : rank[q] < rank[at] => q \in T
        PROVE  at \in T
    <2> DEFINE i == at[1]
               j == at[2]
               turn == MergeTurn(mine, theirs, tree, at)
    <2>1. i \in 1..(Len(c) + 1) /\ j \in 1..(Len(s) + 1) /\ at = <<i, j>>
      BY DEF Grid
    <2>2. CASE at = end
      <3>1. W[at] = << >>
        <4> HIDE DEF T
        <4> QED
          BY <1>3, <2>2
      <3>2. i = Len(c) + 1 /\ j = Len(s) + 1
        BY <2>1, <2>2
      <3>3. i..Len(c) = {} /\ j..Len(s) = {}
        BY <1>1, <3>2
      <3>4. Merged(c, s, same, tree, i, j, << >>)
        <4> HIDE DEF i, j, c, s, same
        <4>1. Range(<< >>) = {} /\ Ascending(c, s, << >>)
          BY DEF Range, Ascending
        <4> QED
          BY <3>3, <4>1 DEF Merged, Right, Settled
      <3>5. << >> \in Seq(AnyMark)
        OBVIOUS
      <3> HIDE DEF W, i, j
      <3> QED
        BY <2>1, <3>1, <3>4, <3>5
    <2>3. CASE at # end
      <3> DEFINE to == turn.to
                 w == W[to]
      <3>1. W[at] = turn.made \o w
        <4> HIDE DEF T
        <4> QED
          BY <1>3, <2>3
      <3>2. to \in D /\ rank[to] < rank[at]
        BY <1>1, <2>3, MergeTurnNears, OnwardNears
      <3>3. w \in Seq(AnyMark) /\ Fine(to[1], to[2])
        BY <1>2, <3>2
      <3>4. i \in 1..(Len(c) + 1) /\ j \in 1..(Len(s) + 1) /\ <<i, j>> # end
        BY <2>1, <2>3
      <3>5. TurnOf(c, s, same, tree, i, j, turn)
        <4> HIDE DEF i, j
        <4> QED
          BY <2>1, <3>4, MergeTurns
      <3>6. to = <<to[1], to[2]>>
        BY <3>2 DEF Grid
      <3>7. ~HasConflict(w) /\ Passed(c, s, turn.to[1], turn.to[2])
            => Merged(c, s, same, tree, turn.to[1], turn.to[2], w)
        BY <3>3, <3>6, Zenon
      <3>8. /\ turn.made \o w \in Seq(AnyMark)
            /\ ~HasConflict(turn.made \o w) /\ Passed(c, s, i, j)
               => Merged(c, s, same, tree, i, j, turn.made \o w)
        <4> HIDE DEF W, turn, i, j, c, s, same
        <4>1. Ordered(c) /\ Ordered(s) /\ w \in Seq(AnyMark)
          BY <3>3 DEF c, s
        <4> HIDE DEF w
        <4> QED
          BY <3>4, <3>5, <3>7, <4>1, MergeStep
      <3>9. W[at] \in Seq(AnyMark) /\ Fine(i, j)
        <4> HIDE DEF W, turn, i, j, c, s, same, w, to
        <4> QED
          BY <2>1, <3>1, <3>8
      <3> HIDE DEF W, D, Fine
      <3> QED
        BY <3>9
    <2> QED
      BY <2>2, <2>3
  <1>4. D \subseteq T
    <2>1. rank \in [D -> Nat]
      BY <1>1, StepsTyped
    <2> HIDE DEF D, rank, T
    <2> QED
      BY <1>2, <2>1, WalkInduction
  <1>5. <<1, 1>> \in D /\ Passed(c, s, 1, 1)
    BY <1>1 DEF Grid, Passed
  <1>6. W[<<1, 1>>] \in Seq(AnyMark) /\ Fine(<<1, 1>>[1], <<1, 1>>[2])
    <2> HIDE DEF D, Fine, W
    <2> QED
      BY <1>4, <1>5
  <1>7. W[<<1, 1>>] \in Seq(AnyMark) /\ Fine(1, 1)
    <2> HIDE DEF Fine, W
    <2> QED
      BY <1>6
  <1> QED
    BY <1>5, <1>7 DEF Marks

----------------------------------------------------------------------------
(* The change list of a merge. *)

\* The code of an entry is that of some entry for the same item.
LEMMA CodeOfMark ==
    ASSUME NEW marks \in Seq(AnyMark), NEW k \in DOMAIN marks
    PROVE  \E l \in DOMAIN marks : /\ marks[l].side = marks[k].side /\ marks[l].at = marks[k].at
                                   /\ CodeOf(marks, k) = marks[l].code
  <1> DEFINE Same(l) == marks[l].side = marks[k].side /\ marks[l].at = marks[k].at
             Back == {Len(marks) - l : l \in {x \in DOMAIN marks : Same(x)}}
             Latest(l) == Same(l) /\ \A m \in DOMAIN marks : Same(m) => m <= l
  <1>1. DOMAIN marks = 1..Len(marks) /\ Len(marks) \in Nat
    OBVIOUS
  <1>2. Back \subseteq Nat /\ Back # {}
    BY <1>1
  <1>3. PICK r \in Back : \A n \in Back : r <= n
    <2> HIDE DEF Back
    <2> QED
      BY <1>2, LeastNumber
  <1>4. PICK l \in DOMAIN marks : Same(l) /\ r = Len(marks) - l
    BY <1>3
  <1>5. \A m \in DOMAIN marks : Same(m) => Len(marks) - l <= Len(marks) - m
    BY <1>3, <1>4
  <1>6. Latest(l)
    <2> HIDE DEF Same
    <2> QED
      BY <1>1, <1>4, <1>5
  <1> DEFINE chosen == CHOOSE x \in DOMAIN marks : Latest(x)
  <1>7. chosen \in DOMAIN marks /\ Latest(chosen)
    <2> HIDE DEF Latest
    <2> QED
      BY <1>4, <1>6
  <1>8. CodeOf(marks, k) = marks[chosen].code
    BY DEF CodeOf
  <1> HIDE DEF chosen
  <1> QED
    BY <1>7, <1>8

LEMMA ListDomain ==
    ASSUME NEW marks \in Seq(AnyMark), NEW mine, NEW theirs
    PROVE  LET list == ChangeList(marks, mine, theirs)
           IN  /\ list \in Seq(Range(list)) /\ Len(list) = Len(marks)
               /\ DOMAIN list = 1..Len(marks) /\ Len(marks) \in Nat /\ DOMAIN marks = 1..Len(marks)
  <1> DEFINE list == ChangeList(marks, mine, theirs)
  <1>1. DOMAIN marks = 1..Len(marks) /\ Len(marks) \in Nat
    OBVIOUS
  <1>2. DOMAIN list = 1..Len(marks) /\ list = [k \in 1..Len(marks) |-> list[k]]
    BY <1>1 DEF ChangeList
  <1> HIDE DEF list
  <1>3. \A k \in 1..Len(marks) : list[k] \in Range(list)
    BY <1>2 DEF Range
  <1>4. list \in Seq(Range(list)) /\ Len(list) = Len(marks)
    BY <1>1, <1>2, <1>3
  <1> QED
    BY <1>1, <1>2, <1>4 DEF list

\* Every changed file is at one place of both lists, or the versions are one.
Aligned(mine, theirs) ==
    mine.ver # theirs.ver
    => \A x \in 1..Len(mine.items), y \in 1..Len(theirs.items) :
          mine.items[x].name = theirs.items[y].name
          /\ mine.items[x].ver # theirs.items[y].ver => x = y

\* The change list says of each entry its code and its file.
Plain(mine, theirs, marks) ==
    \A k \in DOMAIN marks :
        ChangeList(marks, mine, theirs)[k]
          = [code |-> marks[k].code, name |-> Subject(mine.items, theirs.items, marks[k])]

LEMMA PlainList ==
    ASSUME NEW mine, NEW theirs, NEW tree, NEW marks \in Seq(AnyMark),
           Merged(mine.items, theirs.items, mine.ver = theirs.ver, tree, 1, 1, marks),
           Aligned(mine, theirs)
    PROVE  Plain(mine, theirs, marks)
  <1> DEFINE c == mine.items
             s == theirs.items
             same == mine.ver = theirs.ver
             list == ChangeList(marks, mine, theirs)
             A(m) == \E y \in 1..Len(s) : OnlyIn(s, y, c) /\ m = Mark("server", y, Added)
             B(m) == m.side = "client" /\ m.code = IF same THEN Upload ELSE Deleted
             C(m) == \E x \in 1..Len(c) :
                        /\ x \in 1..Len(s) /\ c[x].name = s[x].name
                        /\ m = Mark("server", x, Modified)
  <1>1. ASSUME NEW k \in DOMAIN marks
        PROVE  A(marks[k]) \/ B(marks[k]) \/ C(marks[k])
    <2>1. Right(c, s, same, tree, 1, 1, marks[k])
      <3>1. marks[k] \in Range(marks)
        BY DEF Range
      <3> QED
        BY <3>1 DEF Merged
    <2> DEFINE m == marks[k]
    <2> HIDE DEF m, c, s, same
    <2>2. CASE \E y \in 1..Len(s) : OnlyIn(s, y, c) /\ m = Mark("server", y, Added)
      BY <2>2 DEF m
    <2>3. CASE \E x \in 1..Len(c) : m = Mark("client", x, IF same THEN Upload ELSE Deleted)
      BY <2>3 DEF Mark, m
    <2>4. ASSUME NEW x \in 1..Len(c), NEW y \in 1..Len(s), c[x].name = s[y].name,
                 OfPair(c, s, same, tree, x, y, m)
          PROVE  B(m) \/ C(m)
      <3>1. CASE same /\ m = Mark("client", x, Upload)
        BY <3>1 DEF Mark
      <3>2. CASE ~same /\ c[x].ver # s[y].ver /\ m = Mark("server", x, Modified)
        <4>1. x = y
          BY <2>4, <3>2 DEF c, s, same, Aligned
        <4> QED
          BY <2>4, <3>2, <4>1
      <3> QED
        BY <2>4, <3>1, <3>2 DEF OfPair
    <2> QED
      BY <2>1, <2>2, <2>3, <2>4 DEF Right, m
  <1>2. ASSUME NEW k \in DOMAIN marks
        PROVE  list[k] = [code |-> marks[k].code, name |-> Subject(c, s, marks[k])]
    <2>1. PICK l \in DOMAIN marks : /\ marks[l].side = marks[k].side /\ marks[l].at = marks[k].at
                                    /\ CodeOf(marks, k) = marks[l].code
      BY CodeOfMark
    <2>2. list[k] = [code |-> CodeOf(marks, k),
                     name |-> IF marks[k].side = "server" THEN s[marks[k].at].name
                              ELSE c[marks[k].at].name]
      BY DEF ChangeList
    <2> DEFINE m == marks[k]
               n == marks[l]
    <2>3. (A(m) \/ B(m) \/ C(m)) /\ (A(n) \/ B(n) \/ C(n)) /\ n.side = m.side /\ n.at = m.at
      BY <1>1, <2>1
    <2> HIDE DEF m, n, c, s, list
    <2>4. n.code = m.code
      <3>1. CASE B(m)
        BY <2>3, <3>1 DEF Mark
      <3>2. ASSUME NEW y \in 1..Len(s), OnlyIn(s, y, c), m = Mark("server", y, Added)
            PROVE  n.code = Added
        <4>1. ~B(n)
          BY <2>3, <3>2 DEF Mark
        <4>2. ~C(n)
          BY <2>3, <3>2 DEF Mark, OnlyIn
        <4> QED
          BY <2>3, <4>1, <4>2 DEF Mark
      <3>3. ASSUME NEW x \in 1..Len(c), x \in 1..Len(s), c[x].name = s[x].name,
                   m = Mark("server", x, Modified)
            PROVE  n.code = Modified
        <4>1. ~B(n)
          BY <2>3, <3>3 DEF Mark
        <4>2. ~A(n)
          BY <2>3, <3>3 DEF Mark, OnlyIn
        <4> QED
          BY <2>3, <4>1, <4>2 DEF Mark
      <3> QED
        BY <2>3, <3>1, <3>2, <3>3 DEF Mark
    <2>5. Subject(c, s, m) = IF m.side = "server" THEN s[m.at].name ELSE c[m.at].name
      BY <2>3 DEF Mark, Subject, Added, Modified
    <2> QED
      BY <2>1, <2>2, <2>4, <2>5 DEF m, n
  <1> QED
    BY <1>2 DEF Plain

----------------------------------------------------------------------------
(* The merge of a push. *)

LEMMA PushTurnNears ==
    ASSUME NEW S, NEW T, NEW items \in Seq(S), NEW list \in Seq(T),
           NEW at \in Grid(Len(list), Len(items)), at # <<Len(list) + 1, Len(items) + 1>>
    PROVE  Onward(Len(list), Len(items), at, PushTurn(items, list, at).to)
  <1> DEFINE a == Len(list)
             b == Len(items)
             k == at[1]
             m == at[2]
             to == PushTurn(items, list, at).to
  <1>1. a \in Nat /\ b \in Nat
    OBVIOUS
  <1>2. k \in 1..(a + 1) /\ m \in 1..(b + 1) /\ at = <<k, m>>
    BY DEF Grid
  <1>3. k # a + 1 \/ m # b + 1
    BY <1>2
  <1>4. \/ to = <<k, m + 1>> /\ m <= b
        \/ to = <<k + 1, m>> /\ k <= a
        \/ to = <<a + 1, m>> /\ k <= a
        \/ to = <<k + 1, m + 1>> /\ k <= a /\ m <= b
    BY <1>1, <1>2, <1>3 DEF PushTurn, Turn
  <1> HIDE DEF to
  <1>5. Onward(a, b, at, to)
    <2> HIDE DEF a, b
    <2>1. CASE to = <<k, m + 1>> /\ m <= b
      BY <1>1, <1>2, <2>1 DEF Onward
    <2>2. CASE to = <<k + 1, m>> /\ k <= a
      BY <1>1, <1>2, <2>2 DEF Onward
    <2>3. CASE to = <<a + 1, m>> /\ k <= a
      BY <1>1, <1>2, <2>3 DEF Onward
    <2>4. CASE to = <<k + 1, m + 1>> /\ k <= a /\ m <= b
      BY <1>1, <1>2, <2>4, SMTT(30) DEF Onward
    <2> QED
      BY <1>4, <2>1, <2>2, <2>3, <2>4
  <1> QED
    BY <1>5 DEF to

PushUnfolds(items, list) ==
    LET D == Grid(Len(list), Len(items))
        end == <<Len(list) + 1, Len(items) + 1>>
        W == PushWalk(items, list)
    IN  \A at \in D :
           W[at] = IF at = end THEN << >>
                   ELSE PushTurn(items, list, at).made \o W[PushTurn(items, list, at).to]

LEMMA PushUnfold ==
    ASSUME NEW S, NEW T, NEW items \in Seq(S), NEW list \in Seq(T)
    PROVE  PushUnfolds(items, list)
  <1> DEFINE D == (1..(Len(list) + 1)) \X (1..(Len(items) + 1))
             end == <<Len(list) + 1, Len(items) + 1>>
             Body(f, at) == IF at = <<Len(list) + 1, Len(items) + 1>> THEN << >>
                            ELSE PushTurn(items, list, at).made \o f[PushTurn(items, list, at).to]
             Walk[at \in D] ==
                 IF at = <<Len(list) + 1, Len(items) + 1>> THEN << >>
                 ELSE PushTurn(items, list, at).made \o Walk[PushTurn(items, list, at).to]
             rank == Steps(Len(list), Len(items))
             emit == [at \in D |-> PushTurn(items, list, at).made]
             next == [at \in D |-> PushTurn(items, list, at).to]
             Stop == {end}
  <1>1. Nearing(D, rank, Stop, next)
    <2>1. Len(items) \in Nat /\ Len(list) \in Nat
      OBVIOUS
    <2>2. D = Grid(Len(list), Len(items))
      BY DEF Grid
    <2>3. rank \in [D -> Nat]
      <3> HIDE DEF D
      <3> QED
        BY <2>1, <2>2, StepsTyped
    <2>4. ASSUME NEW p \in D \ Stop
          PROVE  next[p] \in D /\ rank[next[p]] < rank[p]
      <3>1. p \in D /\ p # end /\ next[p] = PushTurn(items, list, p).to
        OBVIOUS
      <3> HIDE DEF D, next, end, rank
      <3>2. Onward(Len(list), Len(items), p, next[p])
        BY <2>2, <3>1, PushTurnNears DEF end
      <3> QED
        BY <2>1, <2>2, <3>1, <3>2, OnwardNears DEF rank
    <2> HIDE DEF D, rank, next, Stop
    <2> QED
      BY <2>3, <2>4 DEF Nearing
  <1>2. PICK f : IsWalk(f, D, Stop, emit, next)
    <2> HIDE DEF D, rank, emit, next, Stop
    <2> QED
      BY <1>1, WalkExists
  <1>3. \A at \in D : Turned(f, at, Stop, emit, next) = Body(f, at)
    BY DEF Turned
  <1>4. f = [at \in D |-> Body(f, at)]
    <2> HIDE DEF Body, D, rank, emit, next, Stop
    <2> QED
      BY <1>2, <1>3 DEF IsWalk
  <1>5. Walk = [at \in D |-> Body(Walk, at)]
    <2> HIDE DEF D
    <2> QED
      BY <1>4, Zenon
  <1>6. PushWalk(items, list) = Walk
    BY DEF PushWalk
  <1> HIDE DEF Walk, D
  <1>7. \A at \in D : Walk[at] = Body(Walk, at)
    <2> HIDE DEF Body
    <2> QED
      BY <1>5
  <1> QED
    BY <1>6, <1>7 DEF D, Grid, PushUnfolds

\* The change list of a copy of the newest version: files the copy does not have, and
\* files of its own that are to be uploaded.
Pushable(items, list) ==
    /\ Ordered(items) /\ Ordered(list)
    /\ \A l \in 1..Len(list) :
          \/ list[l].code = Added
          \/ list[l].code = Upload /\ \E x \in 1..Len(items) : items[x].name = list[l].name

Uploaded(items, list) ==
    {x \in 1..Len(items) :
        \E l \in 1..Len(list) : list[l].code = Upload /\ list[l].name = items[x].name}

\* The place of an item that stays, its version up if it is uploaded.
There(items, list, x) ==
    [at |-> x, bump |-> IF x \in Uploaded(items, list) THEN TRUE ELSE FALSE, fresh |-> TRUE]

AnyPlace == [at : Nat, bump : BOOLEAN, fresh : BOOLEAN]

\* The places from m on: each once, its hash taken anew, its version up where it is uploaded.
InPlace(items, list, m, w) ==
    /\ w \in Seq(AnyPlace) /\ Len(w) = Len(items) + 1 - m
    /\ \A x \in 1..Len(w) :
          w[x] = There(items, list, m + x - 1)

\* The uploads from k on are of items from m on, those before k of none of them.
Due(items, list, k, m) ==
    \A l \in 1..Len(list), x \in 1..Len(items) :
        list[l].code = Upload /\ list[l].name = items[x].name => (k <= l <=> m <= x)

LEMMA OnePlace ==
    ASSUME NEW items, NEW list, NEW m \in Nat, NEW w, NEW p, InPlace(items, list, m + 1, w),
           Len(items) \in Nat, m <= Len(items),
           p = There(items, list, m)
    PROVE  InPlace(items, list, m, <<p>> \o w)
  <1> DEFINE q == <<p>> \o w
  <1>1. p \in AnyPlace /\ w \in Seq(AnyPlace)
    BY DEF InPlace, AnyPlace, There
  <1>2. /\ q \in Seq(AnyPlace) /\ Len(q) = Len(w) + 1 /\ q[1] = p
        /\ \A a \in 2..(Len(w) + 1) : q[a] = w[a - 1]
    BY <1>1, Prepended
  <1> HIDE DEF q
  <1>3. Len(w) = Len(items) - m
    BY DEF InPlace
  <1>4. ASSUME NEW x \in 1..Len(q)
        PROVE  q[x] = There(items, list, m + x - 1)
    <2>1. CASE x = 1
      BY <1>2, <2>1
    <2>2. CASE x # 1
      <3>0. x \in Nat /\ Len(w) \in Nat
        BY <1>1
      <3>1. x - 1 \in 1..Len(w) /\ q[x] = w[x - 1]
        BY <1>2, <2>2, <3>0
      <3>3. (m + 1) + (x - 1) - 1 = m + x - 1
        BY <3>0
      <3>2. w[x - 1] = There(items, list, (m + 1) + (x - 1) - 1)
        BY <3>1 DEF InPlace
      <3> QED
        BY <3>1, <3>2, <3>3
    <2> QED
      BY <2>1, <2>2
  <1>5. Len(q) = Len(items) + 1 - m
    BY <1>2, <1>3
  <1>6. InPlace(items, list, m, q)
    BY <1>2, <1>4, <1>5 DEF InPlace
  <1> QED
    BY <1>6 DEF q

\* Each turn goes on with the next item or the next change, whichever is due.
LEMMA PushStep ==
    ASSUME NEW items, NEW list, Pushable(items, list),
           NEW k \in 1..(Len(list) + 1), NEW m \in 1..(Len(items) + 1),
           <<k, m>> # <<Len(list) + 1, Len(items) + 1>>, Due(items, list, k, m),
           NEW turn, turn = PushTurn(items, list, <<k, m>>)
    PROVE  \/ /\ turn = Turn(<< >>, k + 1, m) /\ Due(items, list, k + 1, m)
           \/ /\ m <= Len(items) /\ \E y \in {k, k + 1} :
                 turn = Turn(<<There(items, list, m)>>,
                             y, m + 1)
                 /\ Due(items, list, y, m + 1)
  <1> DEFINE Sits(x) == [at |-> x, bump |-> FALSE, fresh |-> TRUE]
             Goes(x) == [at |-> x, bump |-> TRUE, fresh |-> TRUE]
             here == There(items, list, m)
             e == list[k]
             n == Len(items)
  <1>1. Len(items) \in Nat /\ Len(list) \in Nat
    BY DEF Pushable, Ordered
  <1>5. /\ m \in Uploaded(items, list) => here = Goes(m)
        /\ m \notin Uploaded(items, list) => here = Sits(m)
    BY DEF There
  <1> HIDE DEF here
  <1> SUFFICES \/ turn = Turn(<< >>, k + 1, m) /\ Due(items, list, k + 1, m)
               \/ /\ m <= Len(items)
                  /\ \E y \in {k, k + 1} : turn = Turn(<<here>>, y, m + 1) /\ Due(items, list, y, m + 1)
    BY DEF here
  <1>2. CASE k > Len(list)
    <2>1. m <= n /\ turn = Turn(<<Sits(m)>>, k, m + 1)
      BY <1>1, <1>2 DEF PushTurn
    <2>2. m \notin Uploaded(items, list) /\ Due(items, list, k, m + 1)
      BY <1>1, <1>2, <2>1 DEF Due, Uploaded
    <2> QED
      BY <1>5, <2>1, <2>2
  <1>3. CASE k <= Len(list) /\ e.code = Added
    <2>1. turn = Turn(<< >>, k + 1, m)
      BY <1>1, <1>3 DEF PushTurn
    <2>2. Due(items, list, k + 1, m)
      BY <1>1, <1>3, SMTT(30) DEF Due, Added, Upload
    <2> QED
      BY <2>1, <2>2
  <1>4. CASE k <= Len(list) /\ e.code # Added
    <2>1. PICK x \in 1..n : e.code = Upload /\ items[x].name = e.name
      BY <1>1, <1>4 DEF Pushable
    <2>2. m <= x /\ m <= n
      BY <1>1, <1>4, <2>1 DEF Due
    <2>3. items[m].name \in Nat /\ items[x].name \in Nat /\ (m < x => items[m].name < items[x].name)
      BY <2>2, <2>1 DEF Pushable, Ordered
    <2>4. CASE m < x
      <3>1. items[m].name < e.name
        BY <2>1, <2>3, <2>4
      <3>2. turn = Turn(<<Sits(m)>>, k, m + 1)
        BY <1>1, <1>4, <2>2, <3>1 DEF PushTurn
      <3>3. ASSUME NEW l \in 1..Len(list), list[l].code = Upload, list[l].name = items[m].name
            PROVE  FALSE
        <4>1. k <= l
          BY <1>1, <2>2, <3>3 DEF Due
        <4>2. k = l \/ list[k].name < list[l].name
          BY <1>1, <4>1 DEF Pushable, Ordered
        <4>3. list[l].name \in Nat /\ list[k].name \in Nat
          BY <1>1, <1>4 DEF Pushable, Ordered
        <4> QED
          BY <3>1, <3>3, <4>2, <4>3
      <3>4. m \notin Uploaded(items, list)
        BY <3>3 DEF Uploaded
      <3>5. Due(items, list, k, m + 1)
        BY <1>1, <3>3 DEF Due
      <3> QED
        BY <1>5, <2>2, <3>2, <3>4, <3>5
    <2>5. CASE m = x
      <3>1. turn = Turn(<<Goes(m)>>, k + 1, m + 1)
        BY <1>1, <1>4, <2>1, <2>2, <2>3, <2>5 DEF PushTurn, Bumped
      <3>2. m \in Uploaded(items, list)
        BY <1>1, <1>4, <2>1, <2>5 DEF Uploaded
      <3>3. ASSUME NEW l \in 1..Len(list), NEW z \in 1..n,
                   list[l].code = Upload, list[l].name = items[z].name
            PROVE  k + 1 <= l <=> m + 1 <= z
        <4>1. k <= l <=> m <= z
          BY <3>3 DEF Due
        <4>2. l = k => z = m
          <5> SUFFICES ASSUME l = k PROVE z = m
            OBVIOUS
          <5>1. items[z].name = items[m].name
            BY <2>1, <2>5, <3>3
          <5>2. z \in 1..Len(items) /\ m \in 1..Len(items)
            BY <1>1, <2>2
          <5>3. ~(z < m) /\ ~(m < z)
            BY <5>1, <5>2 DEF Pushable, Ordered
          <5> QED
            BY <5>2, <5>3
        <4>3. z = m => l = k
          <5> SUFFICES ASSUME z = m PROVE l = k
            OBVIOUS
          <5>1. list[l].name = list[k].name
            BY <2>1, <2>5, <3>3
          <5>2. l \in 1..Len(list) /\ k \in 1..Len(list)
            BY <1>1, <1>4
          <5>3. ~(l < k) /\ ~(k < l)
            BY <5>1, <5>2 DEF Pushable, Ordered
          <5> QED
            BY <5>2, <5>3
        <4> QED
          BY <1>1, <4>1, <4>2, <4>3
      <3>4. Due(items, list, k + 1, m + 1)
        BY <3>3 DEF Due
      <3> QED
        BY <1>5, <2>2, <3>1, <3>2, <3>4
    <2> QED
      BY <2>1, <2>2, <2>4, <2>5
  <1> QED
    BY <1>1, <1>2, <1>3, <1>4

\* The push of a copy of the newest version keeps every item at its place.
LEMMA PushInPlace ==
    ASSUME NEW S, NEW T, NEW items \in Seq(S), NEW list \in Seq(T), Pushable(items, list)
    PROVE  InPlace(items, list, 1, Places(items, list))
  <1> DEFINE W == PushWalk(items, list)
             D == Grid(Len(list), Len(items))
             end == <<Len(list) + 1, Len(items) + 1>>
             rank == Steps(Len(list), Len(items))
             Fine(k, m) == Due(items, list, k, m) => InPlace(items, list, m, W[<<k, m>>])
             T0 == {at \in D : Fine(at[1], at[2])}
  <1>1. Len(items) \in Nat /\ Len(list) \in Nat
    OBVIOUS
  <1>2. \A at \in D : W[at] = IF at = end THEN << >>
                             ELSE PushTurn(items, list, at).made \o W[PushTurn(items, list, at).to]
    <2> HIDE DEF T0, rank
    <2>1. PushUnfolds(items, list)
      BY PushUnfold
    <2> QED
      BY <2>1 DEF PushUnfolds
  <1>3. ASSUME NEW at \in D, \A q \in D : rank[q] < rank[at] => q \in T0
        PROVE  at \in T0
    <2> DEFINE k == at[1]
               m == at[2]
               turn == PushTurn(items, list, at)
    <2>1. k \in 1..(Len(list) + 1) /\ m \in 1..(Len(items) + 1) /\ at = <<k, m>>
      BY DEF Grid
    <2>2. CASE at = end
      <3>1. W[at] = << >>
        <4> HIDE DEF T0
        <4> QED
          BY <1>2, <2>2
      <3>2. m = Len(items) + 1
        BY <2>1, <2>2
      <3>3. InPlace(items, list, m, << >>)
        <4> HIDE DEF m
        <4>1. << >> \in Seq(AnyPlace) /\ Len(<< >>) = 0
          OBVIOUS
        <4> QED
          BY <1>1, <3>2, <4>1 DEF InPlace
      <3> HIDE DEF W, k, m
      <3> QED
        BY <2>1, <3>1, <3>3
    <2>3. CASE at # end
      <3> SUFFICES ASSUME Due(items, list, k, m)
                   PROVE  InPlace(items, list, m, W[at])
        <4> HIDE DEF W, k, m
        <4> QED
          BY <2>1 DEF k, m
      <3> DEFINE to == turn.to
                 w == W[to]
      <3>1. W[at] = turn.made \o w
        <4> HIDE DEF T0
        <4> QED
          BY <1>2, <2>3
      <3>2. to \in D /\ rank[to] < rank[at]
        BY <1>1, <2>3, PushTurnNears, OnwardNears
      <3>3. Fine(to[1], to[2]) /\ to = <<to[1], to[2]>>
        BY <1>3, <3>2 DEF Grid
      <3>4. ASSUME NEW made, NEW x, NEW y, turn = Turn(made, x, y), Due(items, list, x, y)
            PROVE  turn.made = made /\ InPlace(items, list, y, w)
        <4>1. turn.made = made /\ to = <<x, y>>
          BY <3>4 DEF Turn
        <4>2. to[1] = x /\ to[2] = y
          BY <4>1
        <4> HIDE DEF W, turn, to
        <4> QED
          BY <3>3, <3>4, <4>1, <4>2
      <3>5. \/ /\ turn = Turn(<< >>, k + 1, m) /\ Due(items, list, k + 1, m)
            \/ /\ m <= Len(items) /\ \E y \in {k, k + 1} :
                  turn = Turn(<<There(items, list, m)>>,
                              y, m + 1)
                  /\ Due(items, list, y, m + 1)
        <4>1. <<k, m>> # end
          BY <2>1, <2>3
        <4>2. turn = PushTurn(items, list, <<k, m>>)
          BY <2>1
        <4> HIDE DEF W, D, turn, k, m
        <4> QED
          BY <2>1, <4>1, <4>2, PushStep
      <3> HIDE DEF W, D, turn, to, w, k, m
      <3>6. CASE turn = Turn(<< >>, k + 1, m) /\ Due(items, list, k + 1, m)
        <4>1. turn.made = << >> /\ InPlace(items, list, m, w)
          BY <3>4, <3>6
        <4>2. W[at] = w
          BY <3>1, <4>1, EmptyPrefix DEF InPlace
        <4> QED
          BY <4>1, <4>2
      <3>7. ASSUME m <= Len(items), NEW y \in {k, k + 1},
                   turn = Turn(<<There(items, list, m)>>,
                               y, m + 1),
                   Due(items, list, y, m + 1)
            PROVE  InPlace(items, list, m, W[at])
        <4> DEFINE p == There(items, list, m)
        <4>1. turn.made = <<p>> /\ InPlace(items, list, m + 1, w)
          BY <3>4, <3>7
        <4>2. m \in Nat
          BY <2>1
        <4>3. InPlace(items, list, m, <<p>> \o w)
          BY <1>1, <3>7, <4>1, <4>2, OnePlace
        <4> QED
          BY <3>1, <4>1, <4>3
      <3> QED
        BY <3>5, <3>6, <3>7
    <2> QED
      BY <2>2, <2>3
  <1>4. D \subseteq T0
    <2>1. rank \in [D -> Nat]
      BY <1>1, StepsTyped
    <2> HIDE DEF D, rank, T0
    <2> QED
      BY <1>3, <2>1, WalkInduction
  <1>5. <<1, 1>> \in D /\ Due(items, list, 1, 1)
    BY <1>1 DEF Grid, Due
  <1>6. Fine(<<1, 1>>[1], <<1, 1>>[2])
    <2> HIDE DEF D, Fine
    <2> QED
      BY <1>4, <1>5
  <1>7. Fine(1, 1)
    <2> HIDE DEF Fine
    <2> QED
      BY <1>6
  <1> QED
    BY <1>5, <1>7 DEF Places

\* What is pushed: every item with the hash of its file, the uploaded ones with the
\* next file version.
LEMMA PushedItems ==
    ASSUME NEW S, NEW T, NEW items \in Seq(S), NEW list \in Seq(T), Pushable(items, list), NEW tree
    PROVE  /\ ~PushFaults(items, list)
           /\ PushItems(items, list, tree)
                = [x \in 1..Len(items) |->
                      Item(items[x].name,
                           items[x].ver + IF x \in Uploaded(items, list) THEN 1 ELSE 0,
                           tree[items[x].name])]
  <1> DEFINE places == Places(items, list)
             n == Len(items)
             Bump(at) == \E k \in DOMAIN places : places[k].at = at /\ places[k].bump
             Fresh(at) == \E k \in DOMAIN places : places[k].at = at /\ places[k].fresh
             Made(x) == LET at == places[x].at
                        IN  Item(items[at].name,
                                 items[at].ver + IF Bump(at) THEN 1 ELSE 0,
                                 IF Fresh(at) THEN HashNow(items[at], tree) ELSE items[at].hash)
  <1>1. n \in Nat /\ InPlace(items, list, 1, places)
    BY PushInPlace
  <1>2. PushFaults(items, list) <=> \E k \in DOMAIN places : places[k].at = Outside
    BY DEF PushFaults
  <1>3. PushItems(items, list, tree) = [x \in DOMAIN places |-> Made(x)]
    BY DEF PushItems
  <1> HIDE DEF places
  <1>4. /\ DOMAIN places = 1..n
        /\ \A x \in 1..n : places[x] = There(items, list, x)
    <2>1. DOMAIN places = 1..n /\ Len(places) = n
      BY <1>1 DEF InPlace
    <2>2. \A x \in 1..n : 1 + x - 1 = x
      BY <1>1
    <2> QED
      BY <1>1, <2>1, <2>2 DEF InPlace
  <1>5. ASSUME NEW x \in 1..n
        PROVE  Made(x) = Item(items[x].name,
                              items[x].ver + IF x \in Uploaded(items, list) THEN 1 ELSE 0,
                              tree[items[x].name])
    <2>1. places[x].at = x /\ places[x].fresh /\ (places[x].bump <=> x \in Uploaded(items, list))
      BY <1>4 DEF There
    <2>2. \A y \in 1..n : places[y].at = y
      BY <1>4 DEF There
    <2>3. Fresh(x) /\ (Bump(x) <=> x \in Uploaded(items, list))
      BY <1>4, <2>1, <2>2
    <2> HIDE DEF Bump, Fresh
    <2> QED
      BY <2>1, <2>3 DEF HashNow
  <1> HIDE DEF Made
  <1>6. ~PushFaults(items, list)
    <2>1. \A x \in 1..n : places[x].at = x /\ x # Outside
      BY <1>1, <1>4 DEF Outside, There
    <2> QED
      BY <1>2, <1>4, <2>1
  <1>7. PushItems(items, list, tree) = [x \in 1..n |-> Made(x)]
    BY <1>3, <1>4
  <1> QED
    BY <1>5, <1>6, <1>7

----------------------------------------------------------------------------
(* What the merges return whatever the lists hold: nothing is said of the    *)
(* order of their names, nor that the changes are those of the items.        *)

\* A turn makes at most one entry, of either list, whatever the lists hold.
LEMMA MergeMade ==
    ASSUME NEW S, NEW mine, NEW theirs, NEW tree,
           mine.items \in Seq(S), theirs.items \in Seq(S),
           NEW at \in Grid(Len(mine.items), Len(theirs.items)),
           NEW made, made = MergeTurn(mine, theirs, tree, at).made
    PROVE  made = << >> \/ \E m \in AnyMark : made = <<m>>
  <1> DEFINE i == at[1]
             j == at[2]
             same == mine.ver = theirs.ver
  <1>1. i \in Nat /\ j \in Nat
    BY DEF Grid
  <1>2. \/ made = << >>
        \/ made = <<Mark("server", j, Added)>>
        \/ made = <<Mark("client", i, IF same THEN Upload ELSE Deleted)>>
        \/ made = <<Mark("client", i, Upload)>>
        \/ made = <<Mark("server", i, Modified)>>
        \/ made = <<Mark("server", j, Conflict)>>
    BY DEF MergeTurn, Turn, AddedCode, ConflictCode
  <1>3. \A n \in Nat, side \in {"server", "client"}, code \in {Upload, Modified, Added, Deleted, Conflict} :
            Mark(side, n, code) \in AnyMark
    BY DEF Mark, AnyMark
  <1>4. (IF same THEN Upload ELSE Deleted) \in {Upload, Modified, Added, Deleted, Conflict}
    OBVIOUS
  <1> HIDE DEF i, j, same
  <1> QED
    BY <1>1, <1>2, <1>3, <1>4

\* Whatever the two lists hold, the merge makes a list of entries.
LEMMA MarksListed ==
    ASSUME NEW S, NEW mine, NEW theirs, NEW tree,
           mine.items \in Seq(S), theirs.items \in Seq(S)
    PROVE  Marks(mine, theirs, tree) \in Seq(AnyMark)
  <1> DEFINE a == Len(mine.items)
             b == Len(theirs.items)
             W == MergeWalk(mine, theirs, tree)
             D == Grid(a, b)
             end == <<a + 1, b + 1>>
             rank == Steps(a, b)
             T == {at \in D : W[at] \in Seq(AnyMark)}
  <1>1. a \in Nat /\ b \in Nat
    OBVIOUS
  <1>2. \A at \in D : W[at] = IF at = end THEN << >>
                             ELSE MergeTurn(mine, theirs, tree, at).made
                                  \o W[MergeTurn(mine, theirs, tree, at).to]
    <2> HIDE DEF T, rank
    <2>1. MergeUnfolds(mine, theirs, tree)
      BY MergeUnfold
    <2> QED
      BY <2>1 DEF MergeUnfolds
  <1>3. ASSUME NEW at \in D, \A q \in D : rank[q] < rank[at] => q \in T
        PROVE  at \in T
    <2>1. CASE at = end
      <3>1. W[at] = << >>
        <4> HIDE DEF T
        <4> QED
          BY <1>2, <2>1
      <3>2. << >> \in Seq(AnyMark)
        OBVIOUS
      <3> HIDE DEF W, D
      <3> QED
        BY <3>1, <3>2
    <2>2. CASE at # end
      <3> DEFINE made == MergeTurn(mine, theirs, tree, at).made
                 to == MergeTurn(mine, theirs, tree, at).to
      <3>1. W[at] = made \o W[to]
        <4> HIDE DEF T
        <4> QED
          BY <1>2, <2>2
      <3>2. to \in D /\ rank[to] < rank[at]
        <4>1. Onward(a, b, at, to)
          BY <2>2, MergeTurnNears
        <4> HIDE DEF to, a, b
        <4> QED
          BY <1>1, <4>1, OnwardNears
      <3>3. W[to] \in Seq(AnyMark)
        BY <1>3, <3>2
      <3>4. made = << >> \/ \E m \in AnyMark : made = <<m>>
        BY MergeMade
      <3>5. W[at] \in Seq(AnyMark)
        <4> HIDE DEF W, made, to, D
        <4>1. CASE made = << >>
          BY <3>1, <3>3, <4>1, EmptyPrefix
        <4>2. ASSUME NEW m \in AnyMark, made = <<m>> PROVE W[at] \in Seq(AnyMark)
          BY <3>1, <3>3, <4>2, Prepended
        <4> QED
          BY <3>4, <4>1, <4>2
      <3> HIDE DEF W, D
      <3> QED
        BY <3>5
    <2> QED
      BY <2>1, <2>2
  <1>4. D \subseteq T
    <2>1. rank \in [D -> Nat]
      BY <1>1, StepsTyped
    <2> HIDE DEF D, rank, T
    <2> QED
      BY <1>3, <2>1, WalkInduction
  <1>5. <<1, 1>> \in D
    BY <1>1 DEF Grid
  <1> HIDE DEF D
  <1> QED
    BY <1>4, <1>5 DEF Marks

\* The places of a merge that has yet to go through the items m to n: each of them is made,
\* its hash anew, and no other item than those of the manifest.
FreshFrom(n, m, w) ==
    /\ w \in Seq(AnyPlace)
    /\ \A k \in 1..Len(w) : w[k].at \in 0..n
    /\ \A x \in m..n : \E k \in 1..Len(w) : w[k].at = x /\ w[k].fresh

\* A turn goes past an item only if it makes it, with its hash anew.
LEMMA PushMade ==
    ASSUME NEW S, NEW T, NEW items \in Seq(S), NEW list \in Seq(T),
           NEW at \in Grid(Len(list), Len(items)), at # <<Len(list) + 1, Len(items) + 1>>,
           NEW turn, turn = PushTurn(items, list, at)
    PROVE  \/ turn.made = << >> /\ turn.to[2] = at[2]
           \/ \E p \in AnyPlace :
                 /\ turn.made = <<p>> /\ p.at \in 0..Len(items)
                 /\ turn.to[2] = at[2] \/ (turn.to[2] = at[2] + 1 /\ p.at = at[2] /\ p.fresh)
  <1> DEFINE n == Len(items)
             k == at[1]
             m == at[2]
             Sits(x) == [at |-> x, bump |-> FALSE, fresh |-> TRUE]
             Goes(x) == [at |-> x, bump |-> TRUE, fresh |-> TRUE]
             Old(x) == [at |-> x, bump |-> FALSE, fresh |-> FALSE]
  <1>1. n \in Nat /\ Len(list) \in Nat /\ k \in 1..(Len(list) + 1) /\ m \in 1..(n + 1) /\ at = <<k, m>>
    BY DEF Grid
  <1>2. \/ turn.made = << >> /\ turn.to[2] = m
        \/ turn.made = <<Sits(m)>> /\ turn.to[2] = m + 1 /\ m <= n
        \/ turn.made = <<Goes(m)>> /\ turn.to[2] = m + 1 /\ m <= n
        \/ turn.made = <<Old(0)>> /\ turn.to[2] = m
        \/ turn.made = <<Old(k)>> /\ turn.to[2] = m /\ k <= n
    <2>1. \/ turn = Turn(<< >>, k + 1, m)
          \/ turn = Turn(<<Sits(m)>>, k, m + 1) /\ m <= n
          \/ turn = Turn(<<Goes(m)>>, k + 1, m + 1) /\ m <= n
          \/ turn = Turn(<<Old(0)>>, Len(list) + 1, m)
          \/ turn = Turn(<<Old(0)>>, k + 1, m)
          \/ turn = Turn(<<Old(k)>>, k + 1, m) /\ k <= n
      <3> DEFINE e == list[k]
      <3>1. CASE k > Len(list)
        <4>1. m <= n
          BY <1>1, <3>1
        <4>2. turn = Turn(<<Sits(m)>>, k, m + 1)
          BY <3>1 DEF PushTurn
        <4> QED
          BY <4>1, <4>2
      <3>2. CASE ~(k > Len(list)) /\ e.code = Added
        BY <3>2 DEF PushTurn
      <3>3. CASE ~(k > Len(list)) /\ e.code # Added /\ m > n
        BY <3>3 DEF PushTurn, Outside
      <3>4. CASE ~(k > Len(list)) /\ e.code # Added /\ ~(m > n)
        <4>1. m <= n
          BY <1>1, <3>4
        <4>2. CASE items[m].name < e.name
          BY <3>4, <4>1, <4>2 DEF PushTurn
        <4>3. CASE ~(items[m].name < e.name) /\ items[m].name = e.name
          BY <3>4, <4>1, <4>3 DEF PushTurn, Bumped
        <4>4. CASE ~(items[m].name < e.name) /\ items[m].name # e.name
          BY <3>4, <4>1, <4>4 DEF PushTurn, Outside
        <4> QED
          BY <4>2, <4>3, <4>4
      <3> QED
        BY <3>1, <3>2, <3>3, <3>4
    <2>2. \A made, x, y : Turn(made, x, y).made = made /\ Turn(made, x, y).to[2] = y
      BY DEF Turn
    <2> HIDE DEF n, k, m, Sits, Goes, Old
    <2> QED
      BY <2>1, <2>2
  <1>3. \A x \in Nat : Sits(x) \in AnyPlace /\ Goes(x) \in AnyPlace /\ Old(x) \in AnyPlace
    BY DEF AnyPlace
  <1>4. \A x : /\ Sits(x).at = x /\ Sits(x).fresh /\ Goes(x).at = x /\ Goes(x).fresh
               /\ Old(x).at = x
    OBVIOUS
  <1>5. 0 \in 0..n /\ (m <= n => m \in 0..n) /\ (k <= n => k \in 0..n) /\ k \in Nat /\ m \in Nat
    BY <1>1
  <1> HIDE DEF n, k, m, Sits, Goes, Old
  <1>6. CASE turn.made = << >> /\ turn.to[2] = m
    BY <1>6 DEF m
  <1>7. ASSUME NEW p, p = Sits(m) \/ p = Goes(m), turn.made = <<p>>, turn.to[2] = m + 1, m <= n
        PROVE  p \in AnyPlace /\ p.at \in 0..n /\ p.at = m /\ p.fresh
    BY <1>3, <1>4, <1>5, <1>7
  <1>8. ASSUME NEW p, p = Old(0) \/ (p = Old(k) /\ k <= n)
        PROVE  p \in AnyPlace /\ p.at \in 0..n
    BY <1>3, <1>4, <1>5, <1>8
  <1> QED
    BY <1>2, <1>6, <1>7, <1>8 DEF n, m

\* One place more at the front.
LEMMA FreshMore ==
    ASSUME NEW n \in Nat, NEW m \in Nat, NEW y \in {m, m + 1}, NEW w, FreshFrom(n, y, w),
           NEW p \in AnyPlace, p.at \in 0..n, y = m + 1 => p.at = m /\ p.fresh
    PROVE  FreshFrom(n, m, <<p>> \o w)
  <1> DEFINE q == <<p>> \o w
  <1>1. /\ q \in Seq(AnyPlace) /\ Len(q) = Len(w) + 1 /\ q[1] = p
        /\ \A a \in 2..(Len(w) + 1) : q[a] = w[a - 1]
    BY Prepended DEF FreshFrom
  <1>2. w \in Seq(AnyPlace) /\ Len(w) \in Nat
    BY DEF FreshFrom
  <1> HIDE DEF q
  <1>3. ASSUME NEW k \in 1..Len(q)
        PROVE  q[k].at \in 0..n
    <2>1. k = 1 \/ (k - 1 \in 1..Len(w) /\ q[k] = w[k - 1])
      BY <1>1, <1>2
    <2> QED
      BY <1>1, <2>1 DEF FreshFrom
  <1>4. ASSUME NEW x \in m..n
        PROVE  \E k \in 1..Len(q) : q[k].at = x /\ q[k].fresh
    <2>1. CASE x \in y..n
      <3>1. PICK k \in 1..Len(w) : w[k].at = x /\ w[k].fresh
        BY <2>1 DEF FreshFrom
      <3>2. k + 1 \in 1..Len(q) /\ q[k + 1] = w[k]
        BY <1>1, <1>2
      <3> QED
        BY <3>1, <3>2
    <2>2. CASE x \notin y..n
      <3>1. y = m + 1 /\ x = m
        BY <2>2
      <3>2. 1 \in 1..Len(q)
        BY <1>1, <1>2
      <3> QED
        BY <1>1, <3>1, <3>2
    <2> QED
      BY <2>1, <2>2
  <1>5. FreshFrom(n, m, q)
    BY <1>1, <1>3, <1>4 DEF FreshFrom
  <1> QED
    BY <1>5 DEF q

\* Whatever .Commit lists, the merge goes through all items of the manifest.
LEMMA PlacesFresh ==
    ASSUME NEW S, NEW T, NEW items \in Seq(S), NEW list \in Seq(T)
    PROVE  FreshFrom(Len(items), 1, Places(items, list))
  <1> DEFINE W == PushWalk(items, list)
             n == Len(items)
             D == Grid(Len(list), n)
             end == <<Len(list) + 1, n + 1>>
             rank == Steps(Len(list), n)
             T0 == {at \in D : FreshFrom(n, at[2], W[at])}
  <1>1. n \in Nat /\ Len(list) \in Nat
    OBVIOUS
  <1>2. \A at \in D : W[at] = IF at = end THEN << >>
                             ELSE PushTurn(items, list, at).made \o W[PushTurn(items, list, at).to]
    <2> HIDE DEF T0, rank
    <2>1. PushUnfolds(items, list)
      BY PushUnfold
    <2> QED
      BY <2>1 DEF PushUnfolds
  <1>3. ASSUME NEW at \in D, \A q \in D : rank[q] < rank[at] => q \in T0
        PROVE  at \in T0
    <2>1. at[2] \in 1..(n + 1)
      BY DEF Grid
    <2>2. CASE at = end
      <3>1. W[at] = << >>
        <4> HIDE DEF T0
        <4> QED
          BY <1>2, <2>2
      <3>2. at[2]..n = {}
        BY <1>1, <2>2
      <3>3. << >> \in Seq(AnyPlace) /\ Len(<< >>) = 0 /\ 1..0 = {}
        OBVIOUS
      <3>4. FreshFrom(n, at[2], << >>)
        BY <3>2, <3>3 DEF FreshFrom
      <3> QED
        BY <3>1, <3>4
    <2>3. CASE at # end
      <3> DEFINE turn == PushTurn(items, list, at)
                 w == W[turn.to]
      <3>1. W[at] = turn.made \o w
        <4> HIDE DEF T0
        <4> QED
          BY <1>2, <2>3
      <3>2. turn.to \in D /\ rank[turn.to] < rank[at]
        BY <1>1, <2>3, PushTurnNears, OnwardNears
      <3>3. FreshFrom(n, turn.to[2], w)
        BY <1>3, <3>2
      <3>4. \/ turn.made = << >> /\ turn.to[2] = at[2]
            \/ \E p \in AnyPlace :
                  /\ turn.made = <<p>> /\ p.at \in 0..n
                  /\ turn.to[2] = at[2] \/ (turn.to[2] = at[2] + 1 /\ p.at = at[2] /\ p.fresh)
        <4> HIDE DEF turn
        <4> QED
          BY <2>3, PushMade DEF turn
      <3> HIDE DEF W, turn, w, n
      <3>5. CASE turn.made = << >> /\ turn.to[2] = at[2]
        <4>1. W[at] = w
          BY <3>1, <3>3, <3>5, EmptyPrefix DEF FreshFrom
        <4> QED
          BY <3>3, <3>5, <4>1
      <3>6. ASSUME NEW p \in AnyPlace, turn.made = <<p>>, p.at \in 0..n,
                   turn.to[2] = at[2] \/ (turn.to[2] = at[2] + 1 /\ p.at = at[2] /\ p.fresh)
            PROVE  FreshFrom(n, at[2], W[at])
        <4>1. at[2] \in Nat /\ turn.to[2] \in {at[2], at[2] + 1}
          BY <1>1, <2>1, <3>6
        <4>2. turn.to[2] = at[2] + 1 => p.at = at[2] /\ p.fresh
          BY <3>6, <4>1
        <4>3. FreshFrom(n, at[2], <<p>> \o w)
          BY <1>1, <3>3, <3>6, <4>1, <4>2, FreshMore
        <4> QED
          BY <3>1, <3>6, <4>3
      <3> QED
        BY <3>4, <3>5, <3>6
    <2> QED
      BY <2>2, <2>3
  <1>4. D \subseteq T0
    <2>1. rank \in [D -> Nat]
      BY <1>1, StepsTyped
    <2> HIDE DEF D, rank, T0
    <2> QED
      BY <1>3, <2>1, WalkInduction
  <1>5. <<1, 1>> \in D /\ <<1, 1>>[2] = 1
    BY <1>1 DEF Grid
  <1> HIDE DEF D
  <1> QED
    BY <1>4, <1>5 DEF Places

\* Whatever .Commit lists, every item pushed has the hash its file has now.
LEMMA PushedHashes ==
    ASSUME NEW S, NEW T, NEW items \in Seq(S), NEW list \in Seq(T), NEW tree,
           ~PushFaults(items, list), NEW new, new = PushItems(items, list, tree)
    PROVE  /\ new \in Seq(Range(new))
           /\ \A x \in DOMAIN new : new[x].hash = tree[new[x].name]
  <1> DEFINE places == Places(items, list)
             n == Len(items)
             Bump(at) == \E k \in DOMAIN places : places[k].at = at /\ places[k].bump
             Anew(at) == \E k \in DOMAIN places : places[k].at = at /\ places[k].fresh
             Made(x) == LET at == places[x].at
                        IN  Item(items[at].name,
                                 items[at].ver + IF Bump(at) THEN 1 ELSE 0,
                                 IF Anew(at) THEN HashNow(items[at], tree) ELSE items[at].hash)
  <1>1. FreshFrom(n, 1, places)
    BY PlacesFresh
  <1>2. \A x \in DOMAIN places : places[x].at # Outside
    BY DEF PushFaults
  <1>3. new = [x \in DOMAIN places |-> Made(x)]
    BY DEF PushItems
  <1>4. n \in Nat
    OBVIOUS
  <1> HIDE DEF places, n
  <1>5. DOMAIN places = 1..Len(places) /\ Len(places) \in Nat
    BY <1>1 DEF FreshFrom
  <1>6. ASSUME NEW x \in DOMAIN places
        PROVE  Made(x).hash = tree[Made(x).name]
    <2>1. places[x].at \in 1..n
      BY <1>1, <1>2, <1>4, <1>5 DEF FreshFrom, Outside
    <2>2. Anew(places[x].at)
      BY <1>1, <1>5, <2>1 DEF FreshFrom
    <2> HIDE DEF Anew, Bump
    <2> QED
      BY <2>2 DEF Item, HashNow
  <1> HIDE DEF Made
  <1>7. DOMAIN new = 1..Len(places) /\ \A x \in 1..Len(places) : new[x] = Made(x) /\ new[x] \in Range(new)
    BY <1>3, <1>5 DEF Range
  <1>8. new = [x \in 1..Len(places) |-> new[x]]
    BY <1>3, <1>5
  <1>9. new \in Seq(Range(new))
    <2>1. PICK n0, R : n0 = Len(places) /\ R = Range(new) /\ n0 \in Nat
      BY <1>5
    <2>2. new \in [1..n0 -> R]
      BY <1>7, <1>8, <2>1
    <2> QED
      BY <2>1, <2>2
  <1> QED
    BY <1>5, <1>6, <1>7, <1>9

----------------------------------------------------------------------------
(* What the change lists of the commands say. *)

Listed(list, code, f) == \E l \in 1..Len(list) : list[l].code = code /\ list[l].name = f

\* Item x of c is new to s, or has another content than there.
Differs(c, s, tree, x) ==
    \/ OnlyIn(c, x, s)
    \/ \E y \in 1..Len(s) : c[x].name = s[y].name /\ tree[c[x].name] # s[y].hash

\* Item x of c stands in s in another version, and its file is as it was.
Outdated(c, s, tree, x) ==
    \E y \in 1..Len(s) :
        c[x].name = s[y].name /\ c[x].ver # s[y].ver /\ tree[c[x].name] = c[x].hash

\* The files list has, by code.
Entries(c, s, same, tree, list) ==
    /\ Ordered(list)
    /\ \A k \in 1..Len(list) : list[k].code \in {Upload, Modified, Added, Deleted}
    /\ \A f : Listed(list, Added, f) <=> \E y \in 1..Len(s) : OnlyIn(s, y, c) /\ f = s[y].name
    /\ \A f : Listed(list, Upload, f)
              <=> same /\ \E x \in 1..Len(c) : f = c[x].name /\ Differs(c, s, tree, x)
    /\ \A f : Listed(list, Deleted, f)
              <=> ~same /\ \E x \in 1..Len(c) : OnlyIn(c, x, s) /\ f = c[x].name
    /\ \A f : Listed(list, Modified, f)
              <=> ~same /\ \E x \in 1..Len(c) : f = c[x].name /\ Outdated(c, s, tree, x)

LEMMA ListedEntries ==
    ASSUME NEW S, NEW mine, NEW theirs, NEW tree, NEW marks,
           mine.items \in Seq(S), theirs.items \in Seq(S),
           Ordered(mine.items), Ordered(theirs.items), Aligned(mine, theirs),
           marks = Marks(mine, theirs, tree), ~HasConflict(marks)
    PROVE  Entries(mine.items, theirs.items, mine.ver = theirs.ver, tree,
                   ChangeList(marks, mine, theirs))
  <1> DEFINE c == mine.items
             s == theirs.items
             same == mine.ver = theirs.ver
             list == ChangeList(marks, mine, theirs)
             R(m) == Right(c, s, same, tree, 1, 1, m)
             Sub(m) == Subject(c, s, m)
  <1>1. marks \in Seq(AnyMark) /\ Merged(c, s, same, tree, 1, 1, marks)
    BY MergeIsRight
  <1>2. /\ DOMAIN list = 1..Len(marks) /\ Len(list) = Len(marks) /\ Len(marks) \in Nat
        /\ DOMAIN marks = 1..Len(marks)
    BY <1>1, ListDomain
  <1>3. \A k \in 1..Len(marks) : list[k] = [code |-> marks[k].code, name |-> Sub(marks[k])]
    <2>1. Plain(mine, theirs, marks)
      <3> HIDE DEF list
      <3> QED
        BY <1>1, PlainList
    <2> QED
      BY <1>2, <2>1 DEF Plain
  <1>4. \A m : R(m) <=> \E k \in 1..Len(marks) : m = marks[k]
    BY <1>1, <1>2 DEF Merged, Range
  <1>5. Ascending(c, s, marks)
    BY <1>1 DEF Merged
  <1> HIDE DEF list, same, R
  <1>6. ASSUME NEW m, R(m)
        PROVE  Sub(m) \in Nat /\ m.code \in {Upload, Modified, Added, Deleted}
    <2>1. CASE \E y \in 1..Len(s) : m = Mark("server", y, Added)
      BY <2>1 DEF Mark, Subject, Added, Modified, Ordered
    <2>2. CASE \E x \in 1..Len(c) : m = Mark("client", x, IF same THEN Upload ELSE Deleted)
      BY <2>2 DEF Mark, Subject, Ordered
    <2>3. CASE \E x \in 1..Len(c), y \in 1..Len(s) : OfPair(c, s, same, tree, x, y, m)
      BY <2>3 DEF OfPair, Mark, Subject, Modified, Ordered
    <2> QED
      BY <1>6, <2>1, <2>2, <2>3 DEF Right, R
  <1>7. \A k \in 1..Len(list) :
            /\ list[k].code = marks[k].code /\ list[k].name = Sub(marks[k]) /\ R(marks[k])
            /\ list[k].name \in Nat /\ list[k].code \in {Upload, Modified, Added, Deleted}
    BY <1>2, <1>3, <1>4, <1>6
  <1>8. Ordered(list)
    <2>1. \A k, l \in 1..Len(list) : k < l => list[k].name < list[l].name
      BY <1>2, <1>5, <1>7 DEF Ascending
    <2> QED
      BY <1>2, <1>7, <2>1 DEF Ordered
  <1>9. ASSUME NEW code, NEW f
        PROVE  Listed(list, code, f) <=> \E m : R(m) /\ m.code = code /\ Sub(m) = f
    <2>1. ASSUME Listed(list, code, f)
          PROVE  \E m : R(m) /\ m.code = code /\ Sub(m) = f
      BY <1>7, <2>1 DEF Listed
    <2>2. ASSUME NEW m, R(m), m.code = code, Sub(m) = f
          PROVE  Listed(list, code, f)
      <3>1. PICK k \in 1..Len(marks) : m = marks[k]
        BY <1>4, <2>2
      <3> HIDE DEF Sub
      <3> QED
        BY <1>2, <1>7, <2>2, <3>1 DEF Listed
    <2> QED
      BY <2>1, <2>2
  <1>10. ASSUME NEW f
         PROVE  Listed(list, Added, f) <=> \E y \in 1..Len(s) : OnlyIn(s, y, c) /\ f = s[y].name
    <2>1. \A y : Sub(Mark("server", y, Added)) = s[y].name /\ Mark("server", y, Added).code = Added
      BY DEF Mark, Subject, Added, Modified
    <2>2. ASSUME NEW m, R(m), m.code = Added
          PROVE  \E y \in 1..Len(s) : OnlyIn(s, y, c) /\ m = Mark("server", y, Added)
      BY <2>2 DEF R, Right, OfPair, Mark, Upload, Modified, Added, Deleted
    <2>3. \A y \in 1..Len(s) : OnlyIn(s, y, c) => R(Mark("server", y, Added))
      BY DEF R, Right
    <2> HIDE DEF Sub
    <2> QED
      BY <1>9, <2>1, <2>2, <2>3
  <1>11. ASSUME NEW f
         PROVE  Listed(list, Deleted, f)
                <=> ~same /\ \E x \in 1..Len(c) : OnlyIn(c, x, s) /\ f = c[x].name
    <2>1. \A x : Sub(Mark("client", x, Deleted)) = c[x].name /\ Mark("client", x, Deleted).code = Deleted
      BY DEF Mark, Subject
    <2>2. ASSUME NEW m, R(m), m.code = Deleted
          PROVE  ~same /\ \E x \in 1..Len(c) : OnlyIn(c, x, s) /\ m = Mark("client", x, Deleted)
      BY <2>2 DEF R, Right, OfPair, Mark, Upload, Modified, Added, Deleted
    <2>3. ~same => \A x \in 1..Len(c) : OnlyIn(c, x, s) => R(Mark("client", x, Deleted))
      BY DEF R, Right
    <2> HIDE DEF Sub
    <2> QED
      BY <1>9, <2>1, <2>2, <2>3
  <1>12. ASSUME NEW f
         PROVE  Listed(list, Upload, f)
                <=> same /\ \E x \in 1..Len(c) : f = c[x].name /\ Differs(c, s, tree, x)
    <2>1. \A x : Sub(Mark("client", x, Upload)) = c[x].name /\ Mark("client", x, Upload).code = Upload
      BY DEF Mark, Subject
    <2>2. ASSUME NEW m, R(m), m.code = Upload
          PROVE  same /\ \E x \in 1..Len(c) : Differs(c, s, tree, x) /\ m = Mark("client", x, Upload)
      BY <2>2 DEF R, Right, OfPair, Mark, Upload, Modified, Added, Deleted, Differs
    <2>3. same => \A x \in 1..Len(c) : Differs(c, s, tree, x) => R(Mark("client", x, Upload))
      BY DEF R, Right, OfPair, Differs
    <2> HIDE DEF Sub
    <2> QED
      BY <1>9, <2>1, <2>2, <2>3
  <1>13. ASSUME NEW f
         PROVE  Listed(list, Modified, f)
                <=> ~same /\ \E x \in 1..Len(c) : f = c[x].name /\ Outdated(c, s, tree, x)
    <2>1. \A x : Sub(Mark("server", x, Modified)) = c[x].name /\ Mark("server", x, Modified).code = Modified
      BY DEF Mark, Subject
    <2>2. ASSUME NEW m, R(m), m.code = Modified
          PROVE  ~same /\ \E x \in 1..Len(c) : Outdated(c, s, tree, x) /\ m = Mark("server", x, Modified)
      BY <2>2 DEF R, Right, OfPair, Mark, Upload, Modified, Added, Deleted, Outdated
    <2>3. ~same => \A x \in 1..Len(c) : Outdated(c, s, tree, x) => R(Mark("server", x, Modified))
      BY DEF R, Right, OfPair, Outdated
    <2> HIDE DEF Sub
    <2> QED
      BY <1>9, <2>1, <2>2, <2>3
  <1> QED
    BY <1>7, <1>8, <1>10, <1>11, <1>12, <1>13 DEF list, same, Entries

----------------------------------------------------------------------------
(* What the commands make of the items of a manifest. *)

LEMMA InRange ==
    ASSUME NEW S, NEW s \in Seq(S)
    PROVE  \A n : n \in Range(s) <=> \E x \in 1..Len(s) : n = s[x]
  <1>1. DOMAIN s = 1..Len(s)
    OBVIOUS
  <1>2. ASSUME NEW n \in Range(s)
        PROVE  \E x \in 1..Len(s) : n = s[x]
    BY <1>1, <1>2 DEF Range
  <1>3. ASSUME NEW x \in 1..Len(s)
        PROVE  s[x] \in Range(s)
    BY <1>1 DEF Range
  <1> QED
    BY <1>2, <1>3

LEMMA FilterFacts ==
    ASSUME NEW S, NEW s \in Seq(S), NEW keep, keep \subseteq DOMAIN s
    PROVE  /\ Filter(s, keep) \in Seq(S)
           /\ \A n : n \in Range(Filter(s, keep)) <=> \E x \in keep : n = s[x]
           /\ Ordered(s) => Ordered(Filter(s, keep))
  <1> DEFINE r == Filter(s, keep)
  <1>1. r \in Seq(S) /\ \E h : Selects(h, r, s, keep)
    <2>1. keep \subseteq 1..Len(s)
      OBVIOUS
    <2> QED
      BY <2>1, FilterSelects
  <1> HIDE DEF r
  <1>2. PICK h : Selects(h, r, s, keep)
    BY <1>1
  <1>3. DOMAIN r = 1..Len(r) /\ Len(r) \in Nat
    BY <1>1
  <1>4. ASSUME NEW n
        PROVE  n \in Range(r) <=> \E x \in keep : n = s[x]
    <2>1. n \in Range(r) <=> \E a \in 1..Len(r) : n = r[a]
      BY <1>1, InRange
    <2>2. (\E a \in 1..Len(r) : n = r[a]) => \E x \in keep : n = s[x]
      BY <1>2 DEF Selects
    <2>3. (\E x \in keep : n = s[x]) => \E a \in 1..Len(r) : n = r[a]
      BY <1>2 DEF Selects
    <2> QED
      BY <2>1, <2>2, <2>3
  <1>5. ASSUME Ordered(s)
        PROVE  Ordered(r)
    <2>1. \A a \in 1..Len(r) : h[a] \in 1..Len(s) /\ r[a] = s[h[a]]
      BY <1>2 DEF Selects
    <2>2. \A a, b \in 1..Len(r) : a < b => r[a].name < r[b].name
      <3>1. \A a, b \in 1..Len(r) : a < b => h[a] < h[b]
        BY <1>2 DEF Selects
      <3>2. \A x, y \in 1..Len(s) : x < y => s[x].name < s[y].name
        BY <1>5 DEF Ordered
      <3> QED
        BY <2>1, <3>1, <3>2
    <2>3. \A a \in 1..Len(r) : r[a].name \in Nat
      BY <1>5, <2>1 DEF Ordered
    <2> QED
      BY <1>3, <2>2, <2>3 DEF Ordered
  <1> QED
    BY <1>1, <1>4, <1>5 DEF r

\* No two items of a manifest have one name.
LEMMA OneName ==
    ASSUME NEW c, Ordered(c), NEW x \in 1..Len(c), NEW y \in 1..Len(c), c[x].name = c[y].name
    PROVE  x = y
  <1>1. /\ x \in Nat /\ y \in Nat /\ c[x].name \in Nat
        /\ (x < y => c[x].name < c[y].name) /\ (y < x => c[y].name < c[x].name)
    BY DEF Ordered
  <1> QED
    BY <1>1

\* r has the items whose files are there.
Present(r, items, tree) ==
    \A n : n \in Range(r) <=> n \in Range(items) /\ tree[n.name] # Missing

LEMMA KeptItems ==
    ASSUME NEW S, NEW items \in Seq(S), Ordered(items), NEW tree
    PROVE  /\ Kept(items, tree) \in Seq(S) /\ Ordered(Kept(items, tree))
           /\ Present(Kept(items, tree), items, tree)
           /\ Kept(items, tree) = items
              <=> \A x \in DOMAIN items : tree[items[x].name] # Missing
  <1> DEFINE keep == {i \in DOMAIN items : tree[items[i].name] # Missing}
             r == Kept(items, tree)
  <1>1. r = Filter(items, keep) /\ keep \subseteq DOMAIN items
    BY DEF Kept
  <1>2. /\ r \in Seq(S) /\ Ordered(r)
        /\ \A n : n \in Range(r) <=> \E x \in keep : n = items[x]
    <2> HIDE DEF r, keep
    <2> QED
      BY <1>1, FilterFacts
  <1>3. \A n : n \in Range(r) <=> n \in Range(items) /\ tree[n.name] # Missing
    <2> SUFFICES ASSUME NEW n
                 PROVE  n \in Range(r) <=> n \in Range(items) /\ tree[n.name] # Missing
      OBVIOUS
    <2>1. n \in Range(items) <=> \E x \in 1..Len(items) : n = items[x]
      BY InRange
    <2>2. n \in Range(r) <=> \E x \in keep : n = items[x]
      BY <1>2
    <2> HIDE DEF r
    <2> QED
      BY <2>1, <2>2
  <1>4. ASSUME \A x \in DOMAIN items : tree[items[x].name] # Missing
        PROVE  r = items
    <2>1. keep = DOMAIN items
      BY <1>4
    <2> HIDE DEF r, keep
    <2> QED
      BY <1>1, <2>1, FilterAll
  <1>5. ASSUME r = items, NEW x \in DOMAIN items
        PROVE  tree[items[x].name] # Missing
    <2>1. items[x] \in Range(items)
      BY DEF Range
    <2>2. items[x] \in Range(r)
      BY <1>5, <2>1
    <2> HIDE DEF r
    <2> QED
      BY <1>3, <2>2
  <1> HIDE DEF r
  <1>6. r = items <=> \A x \in DOMAIN items : tree[items[x].name] # Missing
    BY <1>4, <1>5
  <1> QED
    BY <1>2, <1>3, <1>6 DEF r, Present

\* To drop the files that are gone once more changes nothing.
LEMMA KeptAgain ==
    ASSUME NEW S, NEW items \in Seq(S), Ordered(items), NEW tree
    PROVE  Kept(Kept(items, tree), tree) = Kept(items, tree)
  <1> DEFINE r == Kept(items, tree)
  <1>1. r \in Seq(S) /\ Ordered(r) /\ Present(r, items, tree)
    BY KeptItems
  <1> HIDE DEF r
  <1>2. \A x \in DOMAIN r : tree[r[x].name] # Missing
    BY <1>1 DEF Range, Present
  <1>3. Kept(r, tree) = r
    BY <1>1, <1>2, KeptItems
  <1> QED
    BY <1>3 DEF r

LEMMA WithoutFacts ==
    ASSUME NEW S, NEW items \in Seq(S), Ordered(items), NEW f
    PROVE  /\ WithoutItem(items, f) \in Seq(S) /\ Ordered(WithoutItem(items, f))
           /\ \A n \in Range(WithoutItem(items, f)) : n \in Range(items)
  <1> DEFINE keep == {i \in DOMAIN items : items[i].name # f}
             r == WithoutItem(items, f)
  <1>1. r = Filter(items, keep) /\ keep \subseteq DOMAIN items
    BY DEF WithoutItem
  <1> HIDE DEF r, keep
  <1>2. /\ r \in Seq(S) /\ Ordered(r)
        /\ \A n : n \in Range(r) <=> \E x \in keep : n = items[x]
    BY <1>1, FilterFacts
  <1>3. \A n \in Range(r) : n \in Range(items)
    BY <1>1, <1>2 DEF Range
  <1> QED
    BY <1>2, <1>3 DEF r

LEMMA OrderedConcat ==
    ASSUME NEW S, NEW a \in Seq(S), NEW b \in Seq(S), Ordered(a), Ordered(b),
           \A x \in 1..Len(a), y \in 1..Len(b) : a[x].name < b[y].name
    PROVE  /\ a \o b \in Seq(S) /\ Ordered(a \o b)
           /\ \A n : n \in Range(a \o b) <=> n \in Range(a) \/ n \in Range(b)
  <1> DEFINE q == a \o b
  <1>1. /\ q \in Seq(S) /\ Len(q) = Len(a) + Len(b)
        /\ \A x \in 1..Len(a) : q[x] = a[x]
        /\ \A y \in 1..Len(b) : q[Len(a) + y] = b[y]
    OBVIOUS
  <1>2. Len(a) \in Nat /\ Len(b) \in Nat /\ DOMAIN a = 1..Len(a) /\ DOMAIN b = 1..Len(b)
    OBVIOUS
  <1> HIDE DEF q
  <1>3. \A x \in 1..Len(q) : \/ x \in 1..Len(a) /\ q[x] = a[x]
                             \/ /\ x > Len(a) /\ x - Len(a) \in 1..Len(b)
                                /\ q[x] = b[x - Len(a)]
    <2> SUFFICES ASSUME NEW x \in 1..Len(q), x \notin 1..Len(a)
                 PROVE  x > Len(a) /\ x - Len(a) \in 1..Len(b) /\ q[x] = b[x - Len(a)]
      BY <1>1
    <2>1. x > Len(a) /\ x - Len(a) \in 1..Len(b) /\ Len(a) + (x - Len(a)) = x
      BY <1>1, <1>2
    <2> QED
      BY <1>1, <2>1
  <1>4. ASSUME NEW x \in 1..Len(q), NEW y \in 1..Len(q), x < y
        PROVE  q[x].name < q[y].name
    <2>1. CASE y \in 1..Len(a)
      <3>1. x \in 1..Len(a)
        BY <1>2, <1>4, <2>1
      <3> QED
        BY <1>1, <1>4, <2>1, <3>1 DEF Ordered
    <2>2. CASE y \notin 1..Len(a)
      <3>1. y - Len(a) \in 1..Len(b) /\ q[y] = b[y - Len(a)]
        BY <1>3, <2>2
      <3>2. CASE x \in 1..Len(a)
        BY <1>1, <3>1, <3>2
      <3>3. CASE x \notin 1..Len(a)
        <4>1. x - Len(a) \in 1..Len(b) /\ q[x] = b[x - Len(a)]
          BY <1>3, <3>3
        <4>2. x - Len(a) < y - Len(a)
          BY <1>2, <1>4
        <4> QED
          BY <3>1, <4>1, <4>2 DEF Ordered
      <3> QED
        BY <3>2, <3>3
    <2> QED
      BY <2>1, <2>2
  <1>5. \A x \in 1..Len(q) : q[x].name \in Nat
    BY <1>3 DEF Ordered
  <1>6. Ordered(q)
    BY <1>1, <1>2, <1>4, <1>5 DEF Ordered
  <1>7. ASSUME NEW n
        PROVE  n \in Range(q) <=> n \in Range(a) \/ n \in Range(b)
    <2>1. /\ n \in Range(q) <=> \E x \in 1..Len(q) : n = q[x]
          /\ n \in Range(a) <=> \E x \in 1..Len(a) : n = a[x]
          /\ n \in Range(b) <=> \E x \in 1..Len(b) : n = b[x]
      BY <1>1, InRange
    <2>2. \A x \in 1..Len(a) : x \in 1..Len(q)
      BY <1>1, <1>2
    <2>3. \A y \in 1..Len(b) : Len(a) + y \in 1..Len(q)
      BY <1>1, <1>2
    <2> QED
      BY <1>1, <1>3, <2>1, <2>2, <2>3
  <1> QED
    BY <1>1, <1>6, <1>7 DEF q

LEMMA WithItemFacts ==
    ASSUME NEW S, NEW items \in Seq(S), Ordered(items), NEW new \in S, new.name \in Nat
    PROVE  /\ WithItem(items, new) \in Seq(S) /\ Ordered(WithItem(items, new))
           /\ \A n \in Range(WithItem(items, new)) : n \in Range(items) \/ n = new
  <1> DEFINE below == {i \in DOMAIN items : items[i].name < new.name}
             above == {i \in DOMAIN items : items[i].name > new.name}
             a == Filter(items, below)
             b == Filter(items, above)
             one == <<new>>
  <1>1. below \subseteq DOMAIN items /\ above \subseteq DOMAIN items
    OBVIOUS
  <1>2. /\ a \in Seq(S) /\ Ordered(a)
        /\ \A n : n \in Range(a) <=> \E x \in below : n = items[x]
    <2> HIDE DEF below
    <2> QED
      BY <1>1, FilterFacts
  <1>3. /\ b \in Seq(S) /\ Ordered(b)
        /\ \A n : n \in Range(b) <=> \E x \in above : n = items[x]
    <2> HIDE DEF above
    <2> QED
      BY <1>1, FilterFacts
  <1>4. one \in Seq(S) /\ Len(one) = 1 /\ one[1] = new /\ DOMAIN one = 1..1
    OBVIOUS
  <1>5. WithItem(items, new) = (a \o one) \o b
    BY DEF WithItem
  <1>6. \A n \in Range(a) : n \in Range(items) /\ n.name < new.name
    <2> HIDE DEF a
    <2> QED
      BY <1>2 DEF Range
  <1>7. \A n \in Range(b) : n \in Range(items) /\ new.name < n.name
    <2>1. \A x \in above : items[x].name \in Nat
      BY DEF Ordered
    <2> HIDE DEF b
    <2> QED
      BY <1>3, <2>1 DEF Range
  <1> HIDE DEF one, a, b, below, above
  <1>8. Ordered(one) /\ \A n : n \in Range(one) <=> n = new
    <2>1. Len(one) \in Nat /\ 1..Len(one) = 1..1
      BY <1>4
    <2>2. \A x \in 1..1 : x = 1
      OBVIOUS
    <2> QED
      BY <1>4, <2>1, <2>2 DEF Ordered, Range
  <1>9. /\ \A x \in 1..Len(a) : a[x] \in Range(a)
        /\ \A x \in 1..Len(b) : b[x] \in Range(b)
        /\ \A x \in 1..Len(one) : one[x] = new
    BY <1>2, <1>3, <1>4 DEF Range
  <1> DEFINE ao == a \o one
  <1>10. /\ ao \in Seq(S) /\ Ordered(ao)
         /\ \A n : n \in Range(ao) <=> n \in Range(a) \/ n \in Range(one)
    <2>1. \A x \in 1..Len(a), y \in 1..Len(one) : a[x].name < one[y].name
      BY <1>6, <1>9
    <2> QED
      BY <1>2, <1>4, <1>8, <2>1, OrderedConcat
  <1> HIDE DEF ao
  <1>11. \A x \in 1..Len(ao), y \in 1..Len(b) : ao[x].name < b[y].name
    <2> SUFFICES ASSUME NEW x \in 1..Len(ao), NEW y \in 1..Len(b)
                 PROVE  ao[x].name < b[y].name
      OBVIOUS
    <2>1. new.name < b[y].name /\ b[y].name \in Nat
      BY <1>3, <1>7, <1>9 DEF Ordered
    <2>2. ao[x] \in Range(ao) /\ ao[x].name \in Nat
      BY <1>10 DEF Range, Ordered
    <2>3. ao[x].name <= new.name
      BY <1>6, <1>8, <1>10, <2>2
    <2> QED
      BY <2>1, <2>2, <2>3
  <1>12. /\ ao \o b \in Seq(S) /\ Ordered(ao \o b)
         /\ \A n : n \in Range(ao \o b) <=> n \in Range(ao) \/ n \in Range(b)
    BY <1>3, <1>10, <1>11, OrderedConcat
  <1> DEFINE q == ao \o b
  <1>13. q = WithItem(items, new)
    BY <1>5 DEF ao
  <1> HIDE DEF q
  <1> QED
    BY <1>6, <1>7, <1>8, <1>10, <1>12, <1>13 DEF q

----------------------------------------------------------------------------
(* The change lists of update and of commit. *)

LEMMA WrittenAll ==
    ASSUME NEW S, NEW list \in Seq(S), NEW codes, \A k \in 1..Len(list) : list[k].code \in codes
    PROVE  Written(list, codes) = list
  <1>1. {k \in DOMAIN list : list[k].code \in codes} = DOMAIN list
    <2>1. DOMAIN list = 1..Len(list)
      OBVIOUS
    <2> QED
      BY <2>1
  <1>2. Written(list, codes) = Filter(list, DOMAIN list)
    BY <1>1 DEF Written
  <1> QED
    BY <1>2, FilterAll

LEMMA ListCodes ==
    ASSUME NEW marks \in Seq(AnyMark), ~HasConflict(marks), NEW mine, NEW theirs,
           NEW k \in DOMAIN marks
    PROVE  /\ ChangeList(marks, mine, theirs)[k].code \in {Upload, Modified, Added, Deleted}
           /\ \E l \in DOMAIN marks : /\ marks[l].side = marks[k].side
                                      /\ ChangeList(marks, mine, theirs)[k].code = marks[l].code
  <1>1. PICK l \in DOMAIN marks : /\ marks[l].side = marks[k].side /\ marks[l].at = marks[k].at
                                  /\ CodeOf(marks, k) = marks[l].code
    BY CodeOfMark
  <1>2. ChangeList(marks, mine, theirs)[k].code = CodeOf(marks, k)
    BY DEF ChangeList
  <1>3. marks[l] \in AnyMark
    OBVIOUS
  <1>4. marks[l].code # Conflict
    BY DEF HasConflict
  <1>5. marks[l].code \in {Upload, Modified, Added, Deleted}
    BY <1>3, <1>4 DEF AnyMark
  <1> QED
    BY <1>1, <1>2, <1>5

\* A list without an upload: the copy has the server's content of every file both have, or
\* the file as it was in an older version.
Agreed(c, s, same, tree) ==
    /\ \A x \in 1..Len(c), y \in 1..Len(s) :
          c[x].name = s[y].name
          => \/ tree[c[x].name] = s[y].hash
             \/ ~same /\ c[x].ver # s[y].ver /\ tree[c[x].name] = c[x].hash
    /\ same => \A x \in 1..Len(c) : ~OnlyIn(c, x, s)

\* The copy is what the server has.
Current(c, s, tree) ==
    /\ \A y \in 1..Len(s) : ~OnlyIn(s, y, c)
    /\ \A x \in 1..Len(c) : ~OnlyIn(c, x, s)
    /\ \A x \in 1..Len(c), y \in 1..Len(s) :
          c[x].name = s[y].name => tree[c[x].name] = s[y].hash

NoUpload(list) == \A k \in DOMAIN list : list[k].code # Upload

\* What an update's list says, and that it is written whole.
UpdateReady(mine, theirs, tree, list) ==
    /\ Written(list, UpdateCodes) = list /\ list \in Seq(Range(list))
    /\ Agreed(mine.items, theirs.items, mine.ver = theirs.ver, tree)
    /\ list = << >> => Current(mine.items, theirs.items, tree)

LEMMA UpdateList ==
    ASSUME NEW S, NEW mine, NEW theirs, NEW tree, NEW marks, NEW list,
           mine.items \in Seq(S), theirs.items \in Seq(S),
           Ordered(mine.items), Ordered(theirs.items),
           marks = Marks(mine, theirs, tree), ~HasConflict(marks),
           list = ChangeList(marks, mine, theirs),
           NoUpload(list)
    PROVE  UpdateReady(mine, theirs, tree, list)
  <1> DEFINE c == mine.items
             s == theirs.items
             same == mine.ver = theirs.ver
  <1>1. marks \in Seq(AnyMark) /\ Merged(c, s, same, tree, 1, 1, marks)
    BY MergeIsRight
  <1>2. /\ list \in Seq(Range(list)) /\ Len(list) = Len(marks)
        /\ DOMAIN list = 1..Len(marks) /\ Len(marks) \in Nat /\ DOMAIN marks = 1..Len(marks)
    BY <1>1, ListDomain
  <1>3. Written(list, UpdateCodes) = list
    <2>1. ASSUME NEW k \in 1..Len(list)
          PROVE  list[k].code \in UpdateCodes
      <3>1. k \in DOMAIN marks /\ k \in DOMAIN list
        BY <1>2
      <3>2. ChangeList(marks, mine, theirs)[k].code \in {Upload, Modified, Added, Deleted}
        BY <1>1, <3>1, ListCodes
      <3> QED
        BY <3>1, <3>2 DEF UpdateCodes, NoUpload
    <2> QED
      BY <1>2, <2>1, WrittenAll
  <1>4. \A m : m \in Range(marks) <=> Right(c, s, same, tree, 1, 1, m)
    BY <1>1 DEF Merged
  <1> HIDE DEF c, s, same
  <1>5. ASSUME same, NEW m, Right(c, s, same, tree, 1, 1, m), m.side = "client"
        PROVE  m.code = Upload
    BY <1>5 DEF Right, OfPair, Mark
  <1>6. ASSUME same, NEW x, Right(c, s, same, tree, 1, 1, Mark("client", x, Upload))
        PROVE  FALSE
    <2>1. PICK k \in DOMAIN marks : marks[k] = Mark("client", x, Upload)
      BY <1>4, <1>6 DEF Range
    <2>2. PICK l \in DOMAIN marks : /\ marks[l].side = marks[k].side
                                    /\ list[k].code = marks[l].code
      BY <1>1, ListCodes
    <2>3. marks[l] \in Range(marks) /\ marks[l].side = "client"
      BY <2>1, <2>2 DEF Range, Mark
    <2>4. list[k].code = Upload
      BY <1>4, <1>5, <1>6, <2>2, <2>3
    <2> QED
      BY <1>2, <2>4 DEF NoUpload
  <1>7. ASSUME NEW x \in 1..Len(c), NEW y \in 1..Len(s), c[x].name = s[y].name
        PROVE  \/ tree[c[x].name] = s[y].hash
               \/ /\ ~same /\ c[x].ver # s[y].ver /\ tree[c[x].name] = c[x].hash
                  /\ Right(c, s, same, tree, 1, 1, Mark("server", x, Modified))
    <2>1. tree[c[x].name] = s[y].hash \/ \E m : OfPair(c, s, same, tree, x, y, m)
      BY <1>1, <1>7 DEF Merged, Settled, c, s, same
    <2>2. ASSUME NEW m, OfPair(c, s, same, tree, x, y, m)
          PROVE  Right(c, s, same, tree, 1, 1, m)
      BY <1>7, <2>2 DEF Right
    <2>3. ASSUME NEW m, OfPair(c, s, same, tree, x, y, m), same
          PROVE  FALSE
      BY <1>6, <2>2, <2>3 DEF OfPair
    <2> QED
      BY <2>1, <2>2, <2>3 DEF OfPair
  <1>8. ASSUME NEW x \in 1..Len(c), OnlyIn(c, x, s)
        PROVE  Right(c, s, same, tree, 1, 1, Mark("client", x, IF same THEN Upload ELSE Deleted))
    BY <1>8 DEF Right
  <1>9. Agreed(c, s, same, tree)
    <2>1. ASSUME same, NEW x \in 1..Len(c), OnlyIn(c, x, s)
          PROVE  FALSE
      BY <1>6, <1>8, <2>1
    <2> QED
      BY <1>7, <2>1 DEF Agreed
  <1>10. ASSUME list = << >>
         PROVE  Current(c, s, tree)
    <2>1. \A m : ~Right(c, s, same, tree, 1, 1, m)
      <3>1. Len(marks) = 0
        BY <1>2, <1>10
      <3>2. Range(marks) = {}
        BY <1>2, <3>1 DEF Range
      <3> QED
        BY <1>4, <3>2
    <2>2. ASSUME NEW y \in 1..Len(s), OnlyIn(s, y, c)
          PROVE  FALSE
      <3>1. Right(c, s, same, tree, 1, 1, Mark("server", y, Added))
        BY <2>2 DEF Right
      <3> QED
        BY <2>1, <3>1
    <2>3. ASSUME NEW x \in 1..Len(c), OnlyIn(c, x, s)
          PROVE  FALSE
      BY <1>8, <2>1, <2>3
    <2>4. \A x \in 1..Len(c), y \in 1..Len(s) :
              c[x].name = s[y].name => tree[c[x].name] = s[y].hash
      BY <1>7, <2>1
    <2> QED
      BY <2>2, <2>3, <2>4 DEF Current
  <1> QED
    BY <1>2, <1>3, <1>9, <1>10 DEF c, s, same, UpdateReady

\* Push can be done with list, and uploads what differs.
PushReady(c, s, tree, list) ==
    /\ Written(list, CommitCodes) = list
    /\ list \in Seq(Range(list)) /\ Pushable(c, list)
    /\ Uploaded(c, list) = {x \in 1..Len(c) : Differs(c, s, tree, x)}
    /\ Entries(c, s, TRUE, tree, list)

\* The list of a commit at the server's version.
LEMMA CommitList ==
    ASSUME NEW S, NEW mine, NEW theirs, NEW tree, NEW marks, NEW list,
           mine.items \in Seq(S), theirs.items \in Seq(S),
           Ordered(mine.items), Ordered(theirs.items), mine.ver = theirs.ver,
           marks = Marks(mine, theirs, tree), ~HasConflict(marks),
           list = ChangeList(marks, mine, theirs)
    PROVE  PushReady(mine.items, theirs.items, tree, list)
  <1> DEFINE c == mine.items
             s == theirs.items
  <1>1. marks \in Seq(AnyMark)
    BY MergeIsRight
  <1>2. list \in Seq(Range(list))
    BY <1>1, ListDomain
  <1>3. Entries(c, s, mine.ver = theirs.ver, tree, list)
    <2>1. Aligned(mine, theirs)
      BY DEF Aligned
    <2>2. Entries(mine.items, theirs.items, mine.ver = theirs.ver, tree,
                  ChangeList(marks, mine, theirs))
      BY <2>1, ListedEntries, Zenon
    <2> QED
      BY <2>2
  <1> HIDE DEF c, s
  <1>4. Entries(c, s, TRUE, tree, list)
    BY <1>3 DEF Entries
  <1>5. \A k \in 1..Len(list) : list[k].code \in {Upload, Modified, Added, Deleted}
    BY <1>4 DEF Entries
  <1>6. \A k \in 1..Len(list) : Listed(list, list[k].code, list[k].name)
    BY DEF Listed
  <1>7. \A k \in 1..Len(list) :
            /\ list[k].code \in {Upload, Added}
            /\ list[k].code = Upload
               => \E x \in 1..Len(c) : list[k].name = c[x].name /\ Differs(c, s, tree, x)
    BY <1>4, <1>5, <1>6 DEF Entries
  <1>8. Written(list, CommitCodes) = list
    <2>1. \A k \in 1..Len(list) : list[k].code \in CommitCodes
      BY <1>7 DEF CommitCodes
    <2> QED
      BY <1>2, <2>1, WrittenAll
  <1>9. Pushable(c, list)
    <2>1. Ordered(c) /\ Ordered(list)
      BY <1>4 DEF c, Entries
    <2> QED
      BY <1>7, <2>1 DEF Pushable
  <1>10. ASSUME NEW x \in 1..Len(c)
         PROVE  x \in Uploaded(c, list) <=> Differs(c, s, tree, x)
    <2>1. x \in Uploaded(c, list) <=> Listed(list, Upload, c[x].name)
      BY DEF Uploaded, Listed
    <2>2. Listed(list, Upload, c[x].name)
          <=> \E z \in 1..Len(c) : c[x].name = c[z].name /\ Differs(c, s, tree, z)
      BY <1>4 DEF Entries
    <2>3. \A z \in 1..Len(c) : c[x].name = c[z].name => x = z
      BY <1>9, OneName DEF Pushable
    <2> QED
      BY <2>1, <2>2, <2>3
  <1>11. Uploaded(c, list) = {x \in 1..Len(c) : Differs(c, s, tree, x)}
    BY <1>10 DEF Uploaded
  <1> QED
    BY <1>2, <1>4, <1>8, <1>9, <1>11 DEF c, s, PushReady
=============================================================================
