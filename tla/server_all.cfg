SPECIFICATION ServerSpec
CONSTANTS
    Threads = {t1, t2}
    Projects = {p}
    Tails = {s1}
    NoTail = NoTail
    Warm = {p}
    TableSize = 2
    MaxLocks = 3
    MaxRestarts = 0
    Ops = {"create", "history", "currentversion", "destroy", "rollback", "checkout", "update", "upgrade", "commit", "push"}
    Ids = {a, b}
    NoId = NoId
    Args = {0, 1, 2, 3}
    MaxVersion = 2
    NoFile = NoFile
    Truncated = Truncated
    TornWrites = TRUE
    Digits = {}
    Failing <- NoFailures
    NoCall = NoCall
INVARIANTS ServerTypeOK NeverExits RollbackRestores
PROPERTY ImplementsRepository
SYMMETRY Symmetry
