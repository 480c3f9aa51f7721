SPECIFICATION NetSpec
CONSTANTS
    TICK_MODULUS = 4
    DHCP_FINE_TIMER_MSECS = 1
    MAX_DHCP_TRIES = 1
    Conns = {c1, c2}
    Dialled = c1
    WAIT_TICKS = 2
    Segments <- MCSegments
    MAX_MSGS = 4
    MAX_RESETS = 1
    HttpConns = {h1, h2}
    PAGE = 4
    SNDBUF = 2
    HEAP = 2
    POOL = 2
    MAX_FAILS = 2
INVARIANTS
    AddressSettled
    EchoIsWholeOrNone
    HeapMatchesConnections
    PageButLastByte
PROPERTIES
    ResetOnlyAfterClose
    PtcMessagesInOrder
    BoardGetsAddress
    PageIsServed
