SPECIFICATION ServerSpec
CONSTANTS
    Threads = {t1}
    Projects = {p}
    Tails = {s1}
    NoTail = NoTail
    Warm = {p}
    TableSize = 2
    MaxLocks = 3
    MaxRestarts = 2
    Ops = {"create", "push", "rollback", "history", "update", "destroy"}
    Ids = {a, b}
    NoId = NoId
    Args = {1, 2}
    MaxVersion = 3
    NoFile = NoFile
    Truncated = Truncated
    TornWrites = FALSE
    Digits = {}
    Failing <- CreateFailures
    NoCall = NoCall
INVARIANTS VersionsWhole SuccessIsStored
SYMMETRY Symmetry
\* a process that died may find no restart left
CHECK_DEADLOCK FALSE
