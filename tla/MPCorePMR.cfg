SPECIFICATION Spec
CONSTANTS
    Cores = {0}
    Ids = {29, 40}
    Priorities = {0, 5}
    PriorityMasks = {3, 15}
    PreemptionMasks = {1, 6, 7}
    TargetLists = {{}, {0}}
    UsesWfe = TRUE
    MaxSends = 2
INVARIANTS
    SignalledIsHighest
    NoNesting
