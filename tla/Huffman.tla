------------------------------- MODULE Huffman --------------------------------
(***************************************************************************)
(* The compressor of Asst2 (huffman.c, ds.c): count the tokens of some     *)
(* files, build the Huffman tree, write the code book, compress a file     *)
(* with it; then, in another run of the program, load the book, build a    *)
(* tree from the codes and decompress.                                     *)
(*                                                                         *)
(* A text is a sequence of characters and a code a sequence of bits.  A    *)
(* tree is a function from paths, sequences of bits, to the tokens at the  *)
(* leaves and to Inner elsewhere; a node of the heap is [count, tree].     *)
(***************************************************************************)
EXTENDS Integers, Sequences, FiniteSets, Functions, SequencesExt, MinHeap

CONSTANTS
    Chars,      \* the characters
    Delims,     \* those that are a token each (isDelim)
    Corpora,    \* sequences of files whose tokens may be counted together
    Strangers   \* files compressed with a book made from other files (-c, codebook given)

ASSUME HuffmanAssumption ==
    Delims \subseteq Chars /\ Corpora \subseteq Seq(Seq(Chars)) /\ Strangers \subseteq Seq(Chars)

VARIABLES
    phase,      \* what the program is doing
    corpus,     \* the files that are counted
    text,       \* the file that is compressed
    unread,     \* what is left to read: of the files, the text, the compressed file
    tally,      \* how often each token has been counted (the search tree of nodes)
    heap,       \* the heap of buildHuffmanTreeFromNodesArray
    taken,      \* the least nodes taken from it and not merged yet
    book,       \* book[t]: the code of token t
    coded,      \* the compressed file
    trie,       \* the tree built from the codes: paths to tokens, or to Inner
    star,       \* the decoder's place in it
    output      \* the decompressed file

vars == <<phase, corpus, text, unread, tally, heap, taken, book, coded, trie, star, output>>

Inner == <<>>
Empty == [t \in {} |-> <<>>]
-------------------------------------------------------------------------------
\* nextToken: one delimiter, or everything up to the next delimiter.
TokenLength(s) ==
    IF s[1] \in Delims THEN 1
    ELSE CHOOSE n \in 1..Len(s) : /\ \A i \in 1..n : s[i] \notin Delims
                                  /\ n = Len(s) \/ s[n + 1] \in Delims
NextToken(s) == SubSeq(s, 1, TokenLength(s))
AfterToken(s) == SubSeq(s, TokenLength(s) + 1, Len(s))

\* incrementTokenFrequency
Incremented(f, t) == [u \in DOMAIN f \union {t} |-> (IF u \in DOMAIN f THEN f[u] ELSE 0) + (IF u = t THEN 1 ELSE 0)]

\* A tree of one node.
Alone(t) == [p \in {<<>>} |-> t]
Leaf(t) == [count |-> tally[t], tree |-> Alone(t)]

\* qsort by count: equal counts in any order.
Sortings ==
    {[i \in DOMAIN s |-> Leaf(s[i])] :
        s \in {p \in SetToSeqs(DOMAIN tally) :
                  \A i \in 1..(Len(p) - 1) : tally[p[i]] <= tally[p[i + 1]]}}

\* The two trees as the left and the right branch of a new node.
Joined(f, g) ==
    [p \in {<<>>} \union {<<0>> \o q : q \in DOMAIN f} \union {<<1>> \o q : q \in DOMAIN g} |->
        IF p = <<>> THEN Inner ELSE IF p[1] = 0 THEN f[Tail(p)] ELSE g[Tail(p)]]

Merged(pair) ==
    [count |-> pair[1].count + pair[2].count, tree |-> Joined(pair[1].tree, pair[2].tree)]

TokensIn(f) == Range(f) \ {Inner}

\* variant: the bit of the left branch is not taken back before the right one.
CodeUnpopped(f, t) ==
    LET p == CHOOSE q \in DOMAIN f : f[q] = t
    IN FlattenSeq([i \in DOMAIN p |-> IF p[i] = 1 THEN <<0, 1>> ELSE <<0>>])

\* TraverseTreePrefix: the code of a token is the path to its leaf, 0 to the left and
\* 1 to the right.
CodeIn(f, t) == CHOOSE p \in DOMAIN f : f[p] = t

BookOf(f) == [t \in TokensIn(f) |-> CodeIn(f, t)]

\* The body of the loop of buildHuffmanTreeFromCodes: nodes are made along the
\* code and the last of them is replaced by the token's.
Grown(f, code, t) ==
    [p \in DOMAIN f \union {SubSeq(code, 1, i) : i \in 0..Len(code)} |->
        IF p = code THEN t ELSE IF p \in DOMAIN f THEN f[p] ELSE Inner]

IsLeaf(f, p) == Append(p, 0) \notin DOMAIN f /\ Append(p, 1) \notin DOMAIN f
-------------------------------------------------------------------------------
\* The steps of the program

\* counting: one token of the files, one after the other.
CountToken ==
    /\ phase = "count" /\ unread # <<>>
    /\ IF Head(unread) = <<>>
       THEN unread' = Tail(unread) /\ UNCHANGED tally
       ELSE /\ tally' = Incremented(tally, NextToken(Head(unread)))
            /\ unread' = <<AfterToken(Head(unread))>> \o Tail(unread)
    /\ UNCHANGED <<phase, corpus, text, heap, taken, book, coded, trie, star, output>>

\* buildHuffmanTreeFromBSTree: sorts the nodes.  Without a token it looks at a
\* node that is not there.
Sort ==
    /\ phase = "count" /\ unread = <<>>
    /\ IF tally = Empty
       THEN phase' = "fault" /\ UNCHANGED heap
       ELSE phase' = "merge" /\ heap' \in Sortings
    /\ UNCHANGED <<corpus, text, unread, tally, taken, book, coded, trie, star, output>>

\* The loop of buildHuffmanTreeFromNodesArray: twice the least node, then their
\* parent goes into the heap.
TakeLeast ==
    /\ phase = "merge" /\ Len(taken) < 2
    /\ taken = <<>> => Len(heap) # 1
    /\ taken' = Append(taken, MinNode(heap))
    /\ heap' = WithoutMin(heap)
    /\ UNCHANGED <<phase, corpus, text, unread, tally, book, coded, trie, star, output>>

Merge ==
    /\ phase = "merge" /\ Len(taken) = 2
    /\ heap' = Inserted(heap, Merged(taken))
    /\ taken' = <<>>
    /\ UNCHANGED <<phase, corpus, text, unread, tally, book, coded, trie, star, output>>

\* exportCodeFromHuffmanTree, and the book is written.
Export ==
    /\ phase = "merge" /\ taken = <<>> /\ Len(heap) = 1
    /\ book' = BookOf(heap[1].tree)
    /\ phase' = "compress"
    /\ unread' = <<text>>
    /\ UNCHANGED <<corpus, text, tally, heap, taken, coded, trie, star, output>>

\* compress: a token that the book does not have is looked for in a null node.
CompressToken ==
    /\ phase = "compress" /\ unread # <<<<>>>>
    /\ LET t == NextToken(unread[1])
       IN IF t \in DOMAIN book
          THEN /\ coded' = coded \o book[t]
               /\ unread' = <<AfterToken(unread[1])>>
               /\ UNCHANGED phase
          ELSE phase' = "fault" /\ UNCHANGED <<coded, unread>>
    /\ UNCHANGED <<corpus, text, tally, heap, taken, book, trie, star, output>>

\* loadBSTFromCodeBookFile: sscanf("%d\n") skips all white space after the number
\* of codes, so that an empty first code loses the tab that ends it and its
\* reader runs out of the file.
LoadBook ==
    /\ phase = "compress" /\ unread = <<<<>>>>
    /\ phase' = IF \E t \in DOMAIN book : book[t] = <<>> THEN "fault" ELSE "build"
    /\ trie' = Alone(Inner)
    /\ UNCHANGED <<corpus, text, unread, tally, heap, taken, book, coded, star, output>>

\* buildHuffmanTreeFromCodes: all counts are 0 and qsort leaves any order.
AddCode ==
    /\ phase = "build"
    /\ \E t \in DOMAIN book \ Range(trie) : trie' = Grown(trie, book[t], t)
    /\ UNCHANGED <<phase, corpus, text, unread, tally, heap, taken, book, coded, star, output>>

StartDecompress ==
    /\ phase = "build" /\ DOMAIN book \subseteq Range(trie)
    /\ phase' = "decompress"
    /\ unread' = <<coded>>
    /\ UNCHANGED <<corpus, text, tally, heap, taken, book, coded, trie, star, output>>

\* variant: the decoder stays where it is after a token.
BackAtRoot(p) == IF IsLeaf(trie, p) THEN SubSeq(p, 1, Len(p) - 1) ELSE p

\* variant: the decoder stays at the leaf.
AtLeaf(p) == p

\* Where the decoder goes on: at the root after a token.
Onward(p) == IF IsLeaf(trie, p) THEN <<>> ELSE p

\* decompress: one bit.
DecompressBit ==
    /\ phase = "decompress" /\ unread # <<<<>>>>
    /\ LET p == Append(star, Head(unread[1]))
       IN IF p \in DOMAIN trie
          THEN /\ output' = IF IsLeaf(trie, p) THEN output \o trie[p] ELSE output
               /\ star' = Onward(p)
               /\ unread' = <<Tail(unread[1])>>
               /\ UNCHANGED phase
          ELSE phase' = "fault" /\ UNCHANGED <<output, star, unread>>
    /\ UNCHANGED <<corpus, text, tally, heap, taken, book, coded, trie>>

Finish ==
    /\ phase = "decompress" /\ unread = <<<<>>>>
    /\ phase' = "done"
    /\ UNCHANGED <<corpus, text, unread, tally, heap, taken, book, coded, trie, star, output>>

HuffmanInit ==
    /\ phase = "count"
    /\ corpus \in Corpora
    /\ text \in Range(corpus) \union Strangers
    /\ unread = corpus
    /\ tally = Empty
    /\ heap = <<>> /\ taken = <<>>
    /\ book = Empty
    /\ coded = <<>>
    /\ trie = Empty /\ star = <<>>
    /\ output = <<>>

HuffmanNext ==
    \/ CountToken \/ Sort \/ TakeLeast \/ Merge \/ Export \/ CompressToken
    \/ LoadBook \/ AddCode \/ StartDecompress \/ DecompressBit \/ Finish

HuffmanSpec == HuffmanInit /\ [][HuffmanNext]_vars
-------------------------------------------------------------------------------
Phases == {"count", "merge", "compress", "build", "decompress", "done", "fault"}
Coded == phase \in {"compress", "build", "decompress", "done"}

\* The sum of the counts c of the tokens S.
Weight(c, S) == FoldSet(LAMBDA t, s : c[t] + s, 0, S)

\* The heap is ordered between any two of its operations, each token counted is in
\* the tree of one node of it or of those taken from it, and a node's count is that
\* of its tokens (ds.c:84-127, huffman.c:47-67).
HeapOrdered ==
    phase = "merge" =>
        LET nodes == heap \o taken
            tokens(k) == TokensIn(nodes[k].tree)
        IN /\ Ordered(heap)
           /\ UNION {tokens(k) : k \in DOMAIN nodes} = DOMAIN tally
           /\ \A k, l \in DOMAIN nodes : k # l => tokens(k) \intersect tokens(l) = {}
           /\ \A k \in DOMAIN nodes : nodes[k].count = Weight(tally, tokens(k))

\* No code begins with the code of another token.
PrefixFree ==
    Coded => \A t, u \in DOMAIN book : t # u => ~IsPrefix(book[t], book[u])

\* The least cost of any binary tree over the tokens D: the cheapest way to split
\* them in two, everywhere.
Least(c, D) ==
    LET cost[S \in SUBSET D] ==
            IF Cardinality(S) <= 1 THEN 0
            ELSE Weight(c, S) + Min({cost[T] + cost[S \ T] : T \in (SUBSET S) \ {{}, S}})
    IN cost[D]

\* The bits that all counted tokens take, one after the other.
BookCost == Weight([t \in DOMAIN book |-> tally[t] * Len(book[t])], DOMAIN book)

\* The codes cost as little as any that can be told apart: heap, merging and
\* traversal together give an optimal tree, however qsort orders equal counts.
\* (Looked at once, when the book has been made: it does not change.)
Optimal == (phase = "compress" /\ unread = <<text>>) => BookCost = Least(tally, DOMAIN tally)

\* Decompressing gives back what was compressed (testplan.txt).
RoundTrip == phase = "done" => output = text

\* The program only fails where there are fewer than two tokens: none to build a
\* tree of, or one, whose code is empty.
FaultsOnlyWithoutChoice == phase = "fault" => Cardinality(DOMAIN tally) < 2
===============================================================================
