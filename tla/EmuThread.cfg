SPECIFICATION ThreadSpec
CHECK_DEADLOCK FALSE
INVARIANTS
    EmulatorIsNotShared
    OneFrameInFlight
    HomeInterruptsAlternate
PROPERTIES
    WaitEnds
