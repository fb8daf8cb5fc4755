SPECIFICATION Spec
CONSTANTS
    Cores = {0, 1}
    Ids = {1, 40}
    Priorities = {0}
    PriorityMasks = {}
    PreemptionMasks = {}
    TargetLists = {{0, 1}}
    UsesWfe = FALSE
    MaxSends = 2
INVARIANTS
    SignalledIsHighest
    AcknowledgeHasCause
    HaltedHasNoInterrupt
PROPERTIES
    EveryInterruptIsServed
