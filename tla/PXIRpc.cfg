SPECIFICATION RSpec
CONSTANTS
    Depth = 2
    Cnts = {}
    Accepts = {}
    MaxWords = 4
INVARIANTS
    FifosAreBounded
    InOrder
    NobodyWaitsInVain
PROPERTIES
    EveryRequestIsAnswered
