SPECIFICATION FairServerSpec
CONSTANTS
    Threads = {t1, t2}
    Projects = {p}
    Tails = {s1}
    NoTail = NoTail
    Warm = {p}
    TableSize = 2
    MaxLocks = 3
    MaxRestarts = 0
    Ops = {"create", "push", "rollback", "history", "destroy"}
    Ids = {a}
    NoId = NoId
    Args = {1, 2, 3}
    MaxVersion = 3
    NoFile = NoFile
    Truncated = Truncated
    TornWrites = TRUE
    Digits = {}
    Failing <- DestroyFailures
    NoCall = NoCall
PROPERTIES HandlersFinish WriterNotStarved
