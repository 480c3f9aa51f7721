SPECIFICATION CmdSpec
CONSTANTS
    Slots = 3
    RETRIES = 1
    MAX_COMMANDS = 1
    MAX_PACKETS = 3
    MAX_PLUGS = 3
    MAX_ASKED = 1
INVARIANTS
    PacketsInOrder
PROPERTIES
    ClockOrRetries
    OwnVolume
    QueueIsWritten
