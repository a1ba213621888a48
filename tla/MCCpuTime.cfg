SPECIFICATION Spec
CONSTANTS
    t1 = t1
    t2 = t2
    t3 = t3
    p1 = p1
    p2 = p2
    c1 = c1
    c2 = c2
    Idle = Idle
    Cpus = {c1, c2}
    Threads = {t1, t2, t3}
    Procs = {p1, p2}
    Group <- MCGroup
    MaxEntries = 1
    MaxClock = 4
INVARIANTS
    TypeOK
    StampIsScheduleIn
    ReadIsExact
PROPERTY
    ImplementsMeter
