SPECIFICATION Spec
CONSTANTS
    p1 = p1
    Pids = {p1}
    RingCapacity = 1
    Budget = 1
    MaxThreads = 1
    MaxLives = 1
    MaxUse = 1
PROPERTY ReadBeforeReap
