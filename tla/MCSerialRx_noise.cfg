SPECIFICATION MCFairSpec
CONSTANTS
    Frames <- MCFrames
    Checksum <- MCChecksum
    BUFFER = 9
    TIMEOUT_100MSEC = 2
    TIMEOUT_500MSEC = 3
    TICK_MODULUS = 8
    MAX_LAG = 2
    MAX_FRAMES = 2
    Faults = {"lose", "noise", "gap"}
    NoiseBytes = {16}
    MAX_FAULTS = 1
INVARIANTS
    TypeOK
    BufferMatchesState
    OverrunOnlyAfterFault
    ResynchronizesAfterFault
PROPERTIES
    AnswersWhatItOwes
    ComesBackToIdle
