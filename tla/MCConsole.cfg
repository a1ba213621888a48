SPECIFICATION FairSpec
CONSTANTS
    a1 = a1
    a2 = a2
    a3 = a3
    fio = fio
    cc1plus = cc1plus
    Addresses = {a1, a2, a3}
    Contents <- MCContents
    memory_total = 1000
    Requested = {"auto", "light"}
    Answered = {"none"}
    Matching <- MCMatching
    HISTORY = 2
    Pages = {1}
    MaxFilter = 1
    MaxTicks = 2
INVARIANTS
    TypeOK
    ScreenIsCurrent
    SelectionIsARow
    ExitNamesItsCause
    FrameIsTrue
PROPERTIES
    NoUpdateMissed
    EndsWhenItShould
    FreshIsShown
CHECK_DEADLOCK FALSE
