SPECIFICATION ESpec
CONSTANTS
    MAX_CYCLES = 8
    FAR = 1000
    WORD = 65536
    QUANTUM = 60
    RATE9 = 10
    RATE_XTENSA = 3
    RATE11 = 20
    RATES11 <- MCRates11
    Kinds <- MCKinds
    FrameStart <- MCFrameStart
    FrameEnd <- MCFrameEnd
    IdleRequests <- MCIdle
    SliceRequests <- MCSlice
    CallbackRequests <- MCCallback
    MaxEvents = 6
    MaxTime = 40
PROPERTIES
    TimeNeverRunsBackwards
