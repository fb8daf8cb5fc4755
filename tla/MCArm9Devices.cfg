SPECIFICATION Spec
CONSTANTS
    LastChan = 1
    CountLimit = 65536
    LastXChan = 1
    Code <- Programs
    Cells = 2
    BlockLimit = 65536
    Early = 2
    BufferWords = 4
    SectorWords = 4
    Header = 5
    SaveWords = 4
    MaxJobs = 2
    Jobs <- AllJobs
INVARIANTS
    DeliveredIsExpected
    DigestIsOfMessage
    KeysAreWhole
PROPERTIES
    JobsEnd
