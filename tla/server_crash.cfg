SPECIFICATION ServerSpec
CONSTANTS
    Threads = {t1}
    Projects = {p}
    Tails = {s1}
    NoTail = NoTail
    Warm = {}
    TableSize = 2
    MaxLocks = 3
    MaxRestarts = 2
    Ops = {"history", "currentversion", "checkout", "upgrade", "push"}
    Ids = {a, b}
    NoId = NoId
    Args = {0, 1, 2, 3}
    MaxVersion = 3
    NoFile = NoFile
    Truncated = Truncated
    TornWrites = FALSE
    Digits = {}
    Failing <- NoFailures
    NoCall = NoCall
INVARIANT NeverExits
PROPERTY ImplementsRepository
SYMMETRY Symmetry
\* a process that died may find no restart left
CHECK_DEADLOCK FALSE
