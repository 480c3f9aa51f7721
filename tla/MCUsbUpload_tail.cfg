SPECIFICATION MCUpSpec
CONSTANTS
    PAGE = 10
    BLOCK = 20
    LAST_BLOCK = 3
    SHORT_PACKET = 3
    LONG_PACKET = 5
    PAGE_USED = 9
    ERASED_BYTES = 2
    Slots = 2
    MAX_PACKETS = 22
    MAX_BAD = 1
    Faults = {{}}
    GROUP = 3
    RETRIES = 1
    SmallStick = 4
    MAX_PLUGS = 1
INVARIANT RemainingDataIsWritten
