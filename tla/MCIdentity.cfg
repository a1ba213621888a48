SPECIFICATION Spec
CONSTANTS
    p1 = p1
    p2 = p2
    root = root
    user = user
    Pids = {p1, p2}
    Uids = {root, user}
    MaxEntries = 1
    RingCapacity = 1
    MaxNames = 2
SYMMETRY MCSymmetry
INVARIANTS
    TypeOK
    ShownIsOwn
    KnownFromTheFirstTick
