SPECIFICATION ProcessorsSpec
CONSTANTS
    Bits = 8
    PageBytes = 32
    SectionPages = 4
    MaxInterrupts = 1
    Few <- MCFew
    More <- MCMore
    Registers <- MCRegisters
    Values = {0, 1}
    NumSections = 4
    PagesPerSection = 2
    LargePages = 2
    SuperSections = 2
    L1Tables = {"A", "B"}
    L1Entries <- MCL1
    L2Entries <- MCL2
    L1AtStart <- MCAtStart
    MaxWrites = 1
    NumRegions = 3
    NumPages = 8
    Places <- MCPlaces
    Permissions = {0, 1}
    NumWindows = 8
    FirstNmi = 7
    MaxIrqs = 2
    SomeWords <- MCSome
    WordBits = 8
    MmioBase = 56
    Commands = 3
INVARIANTS
    ArmProgramsAreRight
    XtensaProgramsAreRight
    DspProgramsAreRight
    TranslationsAreCurrent
    HighestRegionCounts
PROPERTIES
    BanksArePrivate
    ProgramsEnd
CHECK_DEADLOCK FALSE
