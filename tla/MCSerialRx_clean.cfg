SPECIFICATION MCFairSpec
CONSTANTS
    Frames <- MCFrames
    Checksum <- MCChecksum
    BUFFER = 9
    TIMEOUT_100MSEC = 2
    TIMEOUT_500MSEC = 3
    TICK_MODULUS = 9
    MAX_LAG = 3
    MAX_FRAMES = 2
    Faults = {}
    NoiseBytes = {}
    MAX_FAULTS = 0
PROPERTIES
    DeliversInOrder
