SPECIFICATION OneSideSpec
CONSTANTS
    W9 = 3
    W11 = 6
    Timers9 = {0, 1, 2}
    Timers11 = {0}
    Prescalars9 = {2}
    Prescalars11 = {2, 4}
    Counts9 = {2}
    Counts11 = {0, 1, 5}
    Slices = {1, 7}
    MaxClocks = 12
INVARIANTS
    SlicesAreInvisible
    ChainIsOneCounter
    FiresWhenDue
    ReadingsGoDown
