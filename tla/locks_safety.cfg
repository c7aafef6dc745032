SPECIFICATION Spec
CONSTANTS
    Threads = {t1, t2, t3}
    Projects = {p, q}
    Tails = {s1}
    NoTail = NoTail
    Warm = {p}
    TableSize = 2
    MaxLocks = 4
    MaxRestarts = 1
SYMMETRY Symmetry
INVARIANTS TypeOK SettledExclusion LocksNotShared
\* the bound on locks stops the pushes for a project that never gets an entry
CHECK_DEADLOCK FALSE
