SPECIFICATION Spec
CONSTANTS
    t1 = t1
    t2 = t2
    p1 = p1
    p2 = p2
    c1 = c1
    c2 = c2
    Idle = Idle
    Cpus = {c1, c2}
    Threads = {t1, t2}
    Procs = {p1, p2}
    Group <- MCGroup
    MaxEntries = 1
    MaxSleepers = 2
    HAS_PREV_STATE = TRUE
    MaxClock = 3
SYMMETRY MCSymmetry
INVARIANT OnlyBlockersBilled
