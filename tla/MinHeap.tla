------------------------------- MODULE MinHeap --------------------------------
(***************************************************************************)
(* The binary min-heap of Asst2/ds.c.  A heap is a sequence of nodes; node *)
(* i has its children at 2i and 2i+1 (the code counts from 0), and nodes   *)
(* are ordered by their field count.                                       *)
(***************************************************************************)
EXTENDS Integers, Sequences, Functions

Swapped(h, i, j) ==
    [k \in DOMAIN h |-> IF k = i THEN h[j] ELSE IF k = j THEN h[i] ELSE h[k]]

\* Where the nodes of h may stand.
Arrangements(h) == [DOMAIN h -> Range(h)]

\* variant: never looks at the right child.
HeapifyLeft(h, i) ==
    LET Sunk[at \in Arrangements(h) \X DOMAIN h] ==
            LET g == at[1]
                l == 2 * at[2]
            IN IF l <= Len(h) /\ g[l].count < g[at[2]].count
               THEN Sunk[<<Swapped(g, at[2], l), l>>] ELSE g
    IN Sunk[<<h, i>>]

\* heapify: to the left if the left child is less, and then to the right if the
\* right child is less than what is at j by now.
Heapify(h, i) ==
    LET Sunk[at \in Arrangements(h) \X DOMAIN h] ==
            LET g == at[1]
                j == at[2]
                l == 2 * j
                r == 2 * j + 1
                m == IF l <= Len(h) /\ g[l].count < g[j].count THEN Sunk[<<Swapped(g, j, l), l>>] ELSE g
            IN IF r <= Len(h) /\ m[r].count < m[j].count THEN Sunk[<<Swapped(m, j, r), r>>] ELSE m
    IN Sunk[<<h, i>>]

\* The last node at the place of the first.
LastFirst(h) == [k \in 1..(Len(h) - 1) |-> IF k = 1 THEN h[Len(h)] ELSE h[k]]

\* variant: the node put at the top does not sink.
WithoutSinking(h) == LastFirst(h)

\* getMinNodeHeap: the last node takes the place of the first and sinks.
MinNode(h) == h[1]
WithoutMin(h) == IF Len(h) = 1 THEN << >> ELSE Heapify(LastFirst(h), 1)

\* insertNode: from the end up, parents that count more move down.
Inserted(h, node) ==
    LET n == Len(h) + 1
        Sifted[at \in [1..n -> Range(h) \union {node}] \X (1..n)] ==
            LET g == at[1]
                i == at[2]
            IN IF i > 1 /\ node.count < g[i \div 2].count
               THEN Sifted[<<[g EXCEPT ![i] = g[i \div 2]], i \div 2>>]
               ELSE [g EXCEPT ![i] = node]
    IN Sifted[<<Append(h, node), n>>]

\* No node counts less than its parent.
Ordered(h) == \A i \in 2..Len(h) : h[i \div 2].count <= h[i].count
===============================================================================
