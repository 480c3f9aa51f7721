SPECIFICATION Spec
CONSTANTS
    Packets = {p1, p2}
    NoPacket = NoPacket
    Slots = 4
INVARIANTS
    TypeOK
PROPERTY
    ImplementsEventQueue
