SPECIFICATION MCSpec
CONSTANTS
    MAX_NUM_DIG_IN = 3
    UsbInputs = {0}
    ResetInputs = {1}
    BOUNCE_COUNTS = 1
    HELD_ASSERT_COUNTS = 1
    TICK_MODULUS = 4
    MAX_LAG = 1
INVARIANTS
    TypeOK
    FlagMatchesState
    HeldCountMatchesState
    NullReaderIsNeverCalled
PROPERTIES
    NoFlagOnTransient
    NoClearOnOneReading
    StuckFaultIsReported
    ClearedFaultIsForgotten
