SPECIFICATION WideSpec
CONSTANTS
    Bits = 8
    PageBytes = 32
    SectionPages = 4
    MaxInterrupts = 0
    Few = {0, 1, 128, 255}
    More = {0, 1}
INVARIANTS
    LessThanOfTwoWords
CHECK_DEADLOCK FALSE
