SPECIFICATION FairSpec
CONSTANTS
    Procs = {p1, p2}
    MAX_ROWS = 1
    MaxTime = 4
    Topologies <- MCTopologies
    wide_be = TRUE
    CEILING = 65536
    FLOOR = 16384
    BUDGET_PER_MAP = 33554432
    Invocations <- MCInvocations
    Defaults <- MCDefaults
INVARIANTS
    TypeOK
    LookupIsRight
    EndsClean
    TopIsListed
    WaitsAreShownOnce
PROPERTIES
    HooksFitTheKernel
    ProgramEnds
CHECK_DEADLOCK FALSE
