SPECIFICATION LSpec
CONSTANTS
    Cores = {0, 1, 2}
    Cells <- MCCells
INVARIANTS
    ReservationIsExact
    MutualExclusion
    NobodySleepsOnAFreeLock
PROPERTIES
    LockIsTaken
