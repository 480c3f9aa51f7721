SPECIFICATION MCSpec
CONSTANTS
    PAGE = 10
    BLOCK = 20
    LAST_BLOCK = 4
    SHORT_PACKET = 3
    LONG_PACKET = 5
    PAGE_USED = 9
    ERASED_BYTES = 2
    Slots = 3
    MAX_PACKETS = 32
    MAX_BAD = 1
    Faults = {{"erase with last block"}}
INVARIANTS
    ErasedPacketsStayAway
