SPECIFICATION Spec
CONSTANTS
    Threads = {t1, t2}
    Projects = {p}
    Tails = {s1}
    NoTail = NoTail
    Warm = {}
    TableSize = 2
    MaxLocks = 3
    MaxRestarts = 0
INVARIANT ProjectExclusion
CHECK_DEADLOCK FALSE
