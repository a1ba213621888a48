SPECIFICATION FairSpec
CONSTANTS
    Procs = {p1, p2}
    MAX_ROWS = 1
    MaxTime = 4
    Topologies <- MCTopologies
    wide_be = TRUE
    CEILING = 65536
    FLOOR = 16384
    BUDGET_PER_MAP = 33554432
    Invocations <- MCInvocations
    Defaults <- MCDefaults
INVARIANTS
    SettingsRestored
CHECK_DEADLOCK FALSE
