SPECIFICATION Spec
CONSTANTS
    p1 = p1
    p2 = p2
    c1 = c1
    c2 = c2
    Idle = Idle
    Cpus = {c1, c2}
    Procs = {p1, p2}
    MaxClock = 3
    MaxSwitches = 2
SYMMETRY MCSymmetry
INVARIANTS
    TypeOK
    IncomingNeverStale
PROPERTIES
    OverbillIsBoundedByTheRead
    QuietReadIsExact
