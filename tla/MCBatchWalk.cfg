SPECIFICATION FairSpec
CONSTANTS
    k1 = k1
    k2 = k2
    k3 = k3
    none = none
    Keys = {k1, k2, k3}
    NoKey = none
    NBuckets = 2
    Bucket <- MCBucket
    NrCpus = 2
    BATCH = 2
    MaxSlot = 1
INVARIANTS
    TypeOK
    StableKeysAreRead
    NothingStaleIsRead
PROPERTIES
    WalksEnd
