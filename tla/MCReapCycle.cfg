SPECIFICATION FairSpec
CONSTANTS
    p1 = p1
    Pids = {p1}
    RingCapacity = 2
    Budget = 1
    MaxThreads = 2
    MaxLives = 3
    MaxUse = 3
INVARIANTS
    TypeOK
    NoInventedTime
PROPERTIES
    BaselineDeltaIsExact
    SettledTotalsAreRead
    OnlyPredecessorsStrip
    EveryRecordIsDrained
