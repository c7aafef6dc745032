SPECIFICATION HuffmanSpec
CONSTANTS
    Chars = {1, 2, 3, 4, 5, 6, 7}
    Delims = {1, 2, 3, 4, 5, 6}
    MaxLength = 6
    MaxPair = 2
    MaxBlocks = 5
    MaxBlock = 4
    Corpora <- MCCorpora
    Strangers <- NoStrangers
INVARIANTS
    HeapOrdered
    PrefixFree
    Optimal
    RoundTrip
    FaultsOnlyWithoutChoice
CHECK_DEADLOCK FALSE
