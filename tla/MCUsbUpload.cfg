SPECIFICATION MCUpSpec
CONSTANTS
    PAGE = 7
    BLOCK = 14
    LAST_BLOCK = 3
    SHORT_PACKET = 3
    LONG_PACKET = 7
    PAGE_USED = 6
    ERASED_BYTES = 2
    Slots = 2
    MAX_PACKETS = 16
    MAX_BAD = 1
    Faults = {{"bad block"}, {"power"}}
    GROUP = 2
    RETRIES = 1
    SmallStick = 4
    MAX_PLUGS = 2
INVARIANTS
    LedsTellTheTruth
    FileInOrder
    NothingLeftOut
PROPERTIES
    StickIsServed
