------------------------------ MODULE MCHuffman -------------------------------
(***************************************************************************)
(* Texts over the delimiters 1..6 and one word character, 7.  All short    *)
(* texts, in which the delimiters 1, 2 and 3 first occur in this order     *)
(* (which of them does makes no difference); pairs of shorter ones; and    *)
(* texts of one block per delimiter, for trees that are deep and uneven.   *)
(***************************************************************************)
EXTENDS Huffman

CONSTANTS MaxLength, MaxPair, MaxBlocks, MaxBlock

InOrder(s) ==
    \A i \in DOMAIN s : s[i] \in 2..3 => \E j \in 1..(i - 1) : s[j] = s[i] - 1

Texts(n) == {s \in BoundedSeq({1, 2, 3, 7}, n) : InOrder(s)}

Blocks(n) == {w \in [1..n -> 1..MaxBlock] : \A i \in 1..(n - 1) : w[i] <= w[i + 1]}
BlockText(w) == FlattenSeq([i \in DOMAIN w |-> [j \in 1..w[i] |-> i]])

MCCorpora ==
    {<<s>> : s \in Texts(MaxLength)}
        \union {<<s, t>> : s \in Texts(MaxPair), t \in Texts(MaxPair)}
        \union {<<BlockText(w)>> : w \in Blocks(MaxBlocks)}
NoStrangers == {}
MCStrangers == Texts(2)
===============================================================================
