SPECIFICATION ThreadSpec
CHECK_DEADLOCK FALSE
PROPERTIES
    BootStartsEmulation
