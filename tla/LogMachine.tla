----------------------------- MODULE LogMachine ------------------------------
(***************************************************************************)
(* The log of packets in NAND flash (LogMachine and its helpers in         *)
(* ApplicationLogMachine.c): a ring of blocks that are erased one ahead of *)
(* the address, whose end is searched for in the flash itself after every  *)
(* restart.                                                                *)
(*                                                                         *)
(* One action per call of LogMachine.  Power fails between two calls, or   *)
(* inside one: after an erase or in the middle of a write.  The queue is   *)
(* the one of EventQueue, which LogQueue implements; a packet is a number  *)
(* that grows, and a cell of the flash holds the packet a byte of it       *)
(* belongs to.                                                             *)
(***************************************************************************)
EXTENDS Integers, Sequences, FiniteSetsExt, SequencesExt

CONSTANTS
    PAGE,           \* bytes in a page (2112)
    BLOCK,          \* NAND_BYTES_PER_BLOCK (64 pages)
    LAST_BLOCK,     \* number of the last block of the device
    SHORT_PACKET,   \* 104
    LONG_PACKET,    \* 132
    PAGE_USED,      \* 2080, the part of a page SHORT_PACKETs fill
    ERASED_BYTES,   \* 64, the 0xff bytes that tell erased flash
    Slots,          \* packets the queue has slots for
    MAX_PACKETS,    \* bound: packets the recorder sends
    MAX_BAD,        \* bound: blocks that turn bad
    Faults          \* bound: the sets of faults that may come together, each once
                    \* (but for bad blocks)

ASSUME LogMachineAssumption ==
    /\ PAGE \in Nat \ {0} /\ BLOCK \in Nat \ {0}
    /\ BLOCK % PAGE = 0 /\ PAGE < BLOCK
    /\ LAST_BLOCK \in Nat \ {0}
    /\ SHORT_PACKET \in 1 .. PAGE /\ LONG_PACKET \in 1 .. PAGE
    /\ PAGE_USED = (PAGE \div SHORT_PACKET) * SHORT_PACKET
    /\ PAGE % LONG_PACKET = 0
    /\ ERASED_BYTES \in 1 .. SHORT_PACKET
    /\ Slots \in Nat \ {0, 1}
    /\ MAX_PACKETS \in Nat /\ MAX_BAD \in Nat

RDU_LOG_PACKET_SIZE == SHORT_PACKET
DEVICE == (LAST_BLOCK + 1) * BLOCK
RDU_LOG_ADDR_START == BLOCK
RDU_LOG_ADDR_END == DEVICE - PAGE

LogBlocks == 1 .. LAST_BLOCK
Cells == RDU_LOG_ADDR_START .. DEVICE - 1
Packets == 1 .. MAX_PACKETS

\* What a cell or a buffer holds that is no packet.
ERASED == 0
GARBAGE == -1

VARIABLES
    flash,                  \* flash[c]: what the cell at address c holds
    bad,                    \* the bad block table of the driver
    recorder,               \* the size of the packets the recorder sends
    sent,                   \* packets sent so far
    faults,                 \* what went wrong so far
    queue,                  \* LogData.in, out, full and the packets between
    address, wrapAddr,      \* LogData.info
    logReady, logErase, packetSize, machState,
    TempDataBuf             \* the packet dequeued last

infoVars == <<address, wrapAddr, logReady, logErase, packetSize, machState>>
vars == <<flash, bad, recorder, sent, faults, queue, address, wrapAddr,
          logReady, logErase, packetSize, machState, TempDataBuf>>

-----------------------------------------------------------------------------
(* The flash, as the driver shows it.                                      *)

BlockOf(a) == a \div BLOCK

\* HandleBadBlock: an address in a bad block moves to the next good one.
HandleBadBlock(a, table) ==
    IF BlockOf(a) \notin table THEN a
    ELSE BLOCK * Min({b \in BlockOf(a) .. LAST_BLOCK + 1 : b \notin table})

\* The packetSize bytes at a, as ReadFlashAddress brings them: the packet
\* they belong to when they are all of it.
Content(a, size) ==
    LET whole == {p \in Packets : \A c \in a .. a + size - 1 :
                                     c \in Cells /\ flash[c] = p}
    IN  IF whole # {} /\ size = recorder
        THEN CHOOSE p \in whole : TRUE ELSE GARBAGE

\* memcmp with ERASED_BYTES bytes of 0xff.
IsErased(a) ==
    \A c \in a .. a + ERASED_BYTES - 1 : c \in Cells => flash[c] = ERASED

\* WriteFlashAddress refuses what is not erased.
CanWrite(cells, a) ==
    \A c \in a .. a + packetSize - 1 : c \in Cells /\ cells[c] = ERASED

Written(cells, a, size, p) ==
    [c \in Cells |-> IF c \in a .. a + size - 1 THEN p ELSE cells[c]]

Wiped(cells, blocks) ==
    [c \in Cells |-> IF BlockOf(c) \in blocks THEN ERASED ELSE cells[c]]

-----------------------------------------------------------------------------
(* The helpers of LogMachine.                                              *)

\* LogIncrementAddress
LogIncrementAddress(a) ==
    LET next  == a + packetSize
        leave == IF packetSize = SHORT_PACKET
                 THEN next % PAGE = PAGE_USED
                 ELSE next % packetSize # 0
    IN  IF leave THEN (next \div PAGE + 1) * PAGE ELSE next

\* Mutant: the wrap address stays when the log starts over.
LogManageAddressesKeepsWrap(failing) ==
    LET atEnd  == address >= RDU_LOG_ADDR_END
        atWrap == address = wrapAddr
        a      == IF atEnd THEN RDU_LOG_ADDR_START ELSE address
        w      == IF atWrap THEN wrapAddr + BLOCK ELSE wrapAddr
        table  == bad \cup failing
        to     == Min({b \in BlockOf(a) .. LAST_BLOCK + 1 : b \notin table})
        skip   == (to - BlockOf(a)) * BLOCK
    IN  IF atEnd \/ atWrap
        THEN [address |-> a + skip, wrapAddr |-> w + skip, erases |-> {to},
              tried |-> BlockOf(a) .. to]
        ELSE [address |-> a, wrapAddr |-> w, erases |-> {}, tried |-> {}]

\* LogManageAddresses: where the log goes on, what is erased for it, and the
\* blocks skipped because they are bad or "failing" now.
LogManageAddresses(failing) ==
    LET atEnd  == address >= RDU_LOG_ADDR_END
        atWrap == address = wrapAddr
        a      == IF atEnd THEN RDU_LOG_ADDR_START ELSE address
        w      == IF atEnd THEN RDU_LOG_ADDR_START + BLOCK
                  ELSE IF atWrap THEN wrapAddr + BLOCK ELSE wrapAddr
        table  == bad \cup failing
        to     == Min({b \in BlockOf(a) .. LAST_BLOCK + 1 : b \notin table})
        skip   == (to - BlockOf(a)) * BLOCK
    IN  IF atEnd \/ atWrap
        THEN [address |-> a + skip, wrapAddr |-> w + skip, erases |-> {to},
              tried |-> BlockOf(a) .. to]
        ELSE [address |-> a, wrapAddr |-> w, erases |-> {}, tried |-> {}]

\* LogFindEndOfMemory looks for the first block that is not full, and for the
\* end of the packets in it, from the end of the block backwards.
OpenBlocks ==
    {b \in LogBlocks \ bad : \/ IsErased(b * BLOCK)
                             \/ IsErased((b + 1) * BLOCK - packetSize)}

\* The first erased place behind the packets of block b.  The steps count from
\* the end of the block, so the place may lie off the grid of the page, and
\* packets straddle pages from there to the end of the block.
EndOfPackets(b) ==
    LET back(k) == (b + 1) * BLOCK - k * packetSize
        used    == {k \in 1 .. BLOCK : back(k) \in Cells /\ ~IsErased(back(k))}
    IN  back(Min(used) - 1)

\* Mutant: every log is taken for one that has not wrapped.
LogFindEndOfMemoryNoWrap ==
    LET b   == Min(OpenBlocks)
        end == EndOfPackets(b)
    IN  IF IsErased(b * BLOCK)
        THEN [address |-> b * BLOCK, wrapAddr |-> wrapAddr, at |-> b * BLOCK]
        ELSE [address |-> end, at |-> end, wrapAddr |-> RDU_LOG_ADDR_START]

\* Mutant: the address stays at the last packet found.
LogFindEndOfMemoryShort ==
    LET b         == Min(OpenBlocks)
        end       == EndOfPackets(b)
        nextBlock == (BlockOf(end) + 1) * BLOCK
    IN  IF IsErased(b * BLOCK)
        THEN [address |-> b * BLOCK, wrapAddr |-> wrapAddr, at |-> b * BLOCK]
        ELSE [address |-> end - packetSize, at |-> nextBlock,
              wrapAddr |-> IF IsErased(nextBlock) THEN RDU_LOG_ADDR_START
                           ELSE nextBlock]

\* "at" is what was read last, into the buffer of the queue.
LogFindEndOfMemory ==
    LET b         == Min(OpenBlocks)
        end       == EndOfPackets(b)
        nextBlock == (BlockOf(end) + 1) * BLOCK
    IN  IF IsErased(b * BLOCK)
        THEN [address |-> b * BLOCK, wrapAddr |-> wrapAddr, at |-> b * BLOCK]
        ELSE [address |-> end, at |-> nextBlock,
              wrapAddr |-> IF IsErased(nextBlock) THEN RDU_LOG_ADDR_START
                           ELSE nextBlock]

-----------------------------------------------------------------------------
(* What may go wrong.  A fault "at a boundary" is one that comes when the  *)
(* block the log is in is empty, or full with the next not yet erased.     *)

Happen(kinds) ==
    /\ kinds \cap faults = {}
    /\ faults' = faults \cup kinds
    /\ kinds # {} => \E together \in Faults : faults' \subseteq together

\* Where the next packet will go.
Position == IF machState = "CONFIRM" THEN LogIncrementAddress(address) ELSE address

\* A restart searches in steps of SHORT_PACKET and may leave no room in the
\* block for a LONG_PACKET where one slot was free.
PowerFault(a) ==
    IF \/ a % BLOCK = 0
       \/ recorder = LONG_PACKET /\ (a + LONG_PACKET) % BLOCK = 0
    THEN "power at boundary" ELSE "power"

\* A write refused for no reason: at the start of a block, at the end of a page
\* or elsewhere.
WriteFault(a) ==
    IF a % BLOCK = 0 \/ LogIncrementAddress(a) % PAGE = 0
    THEN "write at boundary" ELSE "write"

\* The blocks erases find bad in this call.  The last block never fails: what
\* the driver does behind the device is not known.
FailingErases ==
    {blocks \in SUBSET (LogBlocks \ (bad \cup {LAST_BLOCK})) :
        blocks = {} \/ /\ "bad block" \in UNION Faults
                       /\ Cardinality(bad \cup blocks) <= MAX_BAD}

\* No packet is being written or waits for it.
AtRest == machState = "RUN" /\ ~logReady

\* An erase leaves the last block as it is.
EraseFault ==
    IF AtRest /\ \A c \in Cells : BlockOf(c) = LAST_BLOCK => flash[c] = ERASED
    THEN "erase" ELSE "erase with last block"

-----------------------------------------------------------------------------
(* InitLog and the five states of LogMachine.                              *)

Init ==
    /\ flash = [c \in Cells |-> ERASED]
    /\ bad = {}
    /\ recorder \in {SHORT_PACKET, LONG_PACKET}
    /\ sent = 0 /\ faults = {}
    /\ queue = <<>>
    /\ address = RDU_LOG_ADDR_START /\ wrapAddr = 0
    /\ logReady = FALSE /\ logErase = 3
    /\ packetSize = RDU_LOG_PACKET_SIZE
    /\ machState = "IDLE"
    /\ TempDataBuf = GARBAGE

InitLog ==
    /\ queue' = <<>>
    /\ address' = RDU_LOG_ADDR_START /\ wrapAddr' = 0
    /\ logReady' = FALSE /\ logErase' = 3
    /\ packetSize' = RDU_LOG_PACKET_SIZE
    /\ machState' = "IDLE"

\* LOG_IDLE_STATE.  The search reads into the first slot of the queue.
Idle ==
    /\ machState = "IDLE"
    /\ OpenBlocks # {}
    /\ LET found == LogFindEndOfMemory
           lost  == Content(found.at, packetSize)
       IN  /\ address' = found.address
           /\ wrapAddr' = found.wrapAddr
           /\ queue' = IF queue = <<>> THEN queue ELSE <<lost>> \o Tail(queue)
    /\ machState' = "RUN"
    /\ TempDataBuf' = GARBAGE
    /\ UNCHANGED <<flash, bad, logReady, logErase, packetSize, faults>>

\* LOG_RUN_STATE with logReady: room is made for the next packet, and the
\* packet is dequeued, checked and written.
Store(cells, a) ==
    LET p == Head(queue) IN
    /\ queue' = Tail(queue)
    /\ TempDataBuf' = p
    /\ \/ /\ p = GARBAGE
          /\ flash' = cells /\ address' = a
          /\ logReady' = FALSE
          /\ UNCHANGED machState
       \/ /\ p # GARBAGE /\ CanWrite(cells, a)
          /\ flash' = Written(cells, a, packetSize, p) /\ address' = a
          /\ machState' = "CONFIRM"
          /\ UNCHANGED logReady
       \/ /\ p # GARBAGE
          /\ flash' = cells /\ address' = a + packetSize
          /\ machState' = "WRITE_FAIL"
          /\ UNCHANGED logReady

Run ==
    /\ machState = "RUN" /\ logReady
    /\ \E failing \in FailingErases :
         LET m     == LogManageAddresses(failing)
             cells == Wiped(flash, m.erases)
             a     == HandleBadBlock(m.address, bad \cup failing)
             fails == queue # <<>> /\ machState' = "WRITE_FAIL" /\ CanWrite(cells, a)
         IN  /\ failing \subseteq m.tried
             /\ bad' = bad \cup failing
             /\ wrapAddr' = m.wrapAddr
             /\ IF queue # <<>> THEN Store(cells, a)
                ELSE /\ flash' = cells /\ address' = a
                     /\ logReady' = FALSE
                     /\ UNCHANGED <<queue, TempDataBuf, machState>>
             /\ Happen(({"bad block" : b \in failing} \ faults)
                       \cup IF fails THEN {WriteFault(a)} ELSE {})
    /\ UNCHANGED <<logErase, packetSize>>

RunErase ==
    /\ machState = "RUN" /\ ~logReady /\ logErase = 1
    /\ machState' = "ERASE"
    /\ UNCHANGED <<flash, bad, queue, address, wrapAddr, logReady, logErase,
                   packetSize, TempDataBuf, faults>>

\* A call that finds nothing to do.
RunNothing ==
    /\ machState = "RUN" /\ ~logReady /\ logErase # 1
    /\ UNCHANGED <<flash, bad, queue, infoVars, TempDataBuf, faults>>

\* LOG_CONFIRM_STATE, once the flash is ready: the packet is read back, and
\* whatever its checksum says the log goes on behind it.
Confirm ==
    /\ machState = "CONFIRM"
    /\ TempDataBuf' = Content(address, packetSize)
    /\ address' = LogIncrementAddress(address)
    /\ machState' = "RUN"
    /\ UNCHANGED <<flash, bad, queue, wrapAddr, logReady, logErase, packetSize,
                   faults>>

\* Mutant: a write that succeeds at last does not leave the state.
WriteFailStays ==
    /\ machState = "WRITE_FAIL"
    /\ \/ /\ CanWrite(flash, address)
          /\ flash' = Written(flash, address, packetSize, TempDataBuf)
          /\ logReady' = FALSE
          /\ UNCHANGED address
       \/ /\ ~CanWrite(flash, address) \/ WriteFault(address) \in faults
          /\ address < DEVICE
          /\ address' = LogIncrementAddress(address)
          /\ UNCHANGED <<flash, logReady>>
    /\ UNCHANGED <<bad, queue, wrapAddr, logErase, packetSize, machState,
                   TempDataBuf, faults>>

\* Mutant: a packet is given up when a second place refuses it.
WriteFailGivesUp ==
    /\ machState = "WRITE_FAIL"
    /\ \/ /\ CanWrite(flash, address)
          /\ flash' = Written(flash, address, packetSize, TempDataBuf)
          /\ machState' = "CONFIRM"
          /\ logReady' = FALSE
          /\ UNCHANGED address
       \/ /\ ~CanWrite(flash, address) \/ WriteFault(address) \in faults
          /\ address < DEVICE
          /\ address' = LogIncrementAddress(address)
          /\ machState' = "RUN" /\ logReady' = FALSE
          /\ UNCHANGED flash
    /\ UNCHANGED <<bad, queue, wrapAddr, logErase, packetSize, TempDataBuf,
                   faults>>

\* LOG_WRITE_FAIL_STATE: the same packet, one place further at every call.
\* A fault that made a write fail may last.
WriteFail ==
    /\ machState = "WRITE_FAIL"
    /\ \/ /\ CanWrite(flash, address)
          /\ flash' = Written(flash, address, packetSize, TempDataBuf)
          /\ machState' = "CONFIRM"
          /\ logReady' = FALSE
          /\ UNCHANGED address
       \/ /\ ~CanWrite(flash, address) \/ WriteFault(address) \in faults
          /\ address < DEVICE
          /\ address' = LogIncrementAddress(address)
          /\ UNCHANGED <<flash, machState, logReady>>
    /\ UNCHANGED <<bad, queue, wrapAddr, logErase, packetSize, TempDataBuf,
                   faults>>

\* LOG_ERASE_STATE: all blocks but the last, and the log starts over.
Erase ==
    /\ machState = "ERASE"
    /\ LET end == BlockOf(RDU_LOG_ADDR_END) - 1
       IN  flash' = Wiped(flash, {BlockOf(HandleBadBlock(b * BLOCK, bad)) :
                                      b \in BlockOf(RDU_LOG_ADDR_START) .. end})
    /\ InitLog
    /\ UNCHANGED <<bad, TempDataBuf, faults>>

LogMachine ==
    /\ Idle \/ Run \/ RunErase \/ RunNothing \/ Confirm \/ WriteFail \/ Erase
    /\ UNCHANGED <<recorder, sent>>

-----------------------------------------------------------------------------
(* The command handler, and the power.                                     *)

\* Mutant: the packet that fills the last slot is kept like any other.
ReceiveFills(p, kinds) ==
    /\ Happen(kinds \cup (IF machState = "IDLE" THEN {"early packet"} ELSE {})
                    \cup (IF logErase = 1 THEN {"packet before erase"} ELSE {})
                    \cup (IF Len(queue) = Slots - 1 THEN {"overflow"} ELSE {}))
    /\ queue' = Append(queue, p)
    /\ packetSize' = recorder
    /\ logReady' = TRUE
    /\ UNCHANGED <<flash, bad, recorder, address, wrapAddr, logErase, machState,
                   TempDataBuf>>

\* CMD_EVR_PACKET: a packet is queued, as EventQueue says: the one that would
\* fill the last slot empties the queue.  (The recorder's packets come in one of
\* two lengths, 140 and 112; one of another length would leave packetSize as it
\* was.)
Receive(p, kinds) ==
    /\ Happen(kinds \cup (IF machState = "IDLE" THEN {"early packet"} ELSE {})
                    \cup (IF logErase = 1 THEN {"packet before erase"} ELSE {})
                    \cup (IF Len(queue) = Slots - 1 THEN {"overflow"} ELSE {}))
    /\ queue' = IF Len(queue) < Slots - 1 THEN Append(queue, p) ELSE <<>>
    /\ packetSize' = recorder
    /\ logReady' = TRUE
    /\ UNCHANGED <<flash, bad, recorder, address, wrapAddr, logErase, machState,
                   TempDataBuf>>

ReceivePacket ==
    /\ sent < MAX_PACKETS
    /\ sent' = sent + 1
    /\ Receive(sent', {})

\* A packet whose own checksum is wrong.
ReceiveGarbage ==
    /\ Receive(GARBAGE, {"bad packet"})
    /\ UNCHANGED sent

\* Packet_EraseFlash
EraseFlash ==
    /\ logErase # 1
    /\ Happen({EraseFault})
    /\ logErase' = 1
    /\ UNCHANGED <<flash, bad, recorder, sent, queue, address, wrapAddr,
                   logReady, packetSize, machState, TempDataBuf>>

\* The board starts again: main() and InitLog.
Restart ==
    /\ InitLog
    /\ TempDataBuf' = GARBAGE
    /\ UNCHANGED <<bad, recorder, sent>>

PowerFails ==
    /\ machState # "IDLE"
    /\ Happen({PowerFault(Position)})
    /\ Restart
    /\ UNCHANGED flash

\* Power fails in LOG_RUN_STATE, after n bytes of the packet at most, or in
\* LOG_ERASE_STATE before all blocks are erased.
FailInRun ==
    /\ machState = "RUN" /\ logReady
    /\ LET m     == LogManageAddresses({})
           cells == Wiped(flash, m.erases)
           a     == HandleBadBlock(m.address, bad)
       IN  \/ /\ m.erases # {}
              /\ Happen({"power at boundary"})
              /\ flash' = cells
           \/ /\ queue # <<>> /\ CanWrite(cells, a)
              /\ a % BLOCK # 0 /\ LogIncrementAddress(a) % BLOCK # 0
              /\ Happen({"power"})
              /\ \E n \in 1 .. packetSize - 1 :
                    flash' = Written(cells, a, n, GARBAGE)

FailInErase ==
    /\ machState = "ERASE"
    /\ Happen({"power in erase"})
    /\ \E k \in LogBlocks \ {LAST_BLOCK} : flash' = Wiped(flash, (1 .. k) \ bad)

PowerFailsInside == (FailInRun \/ FailInErase) /\ Restart

Next ==
    \/ LogMachine
    \/ ReceivePacket
    \/ ReceiveGarbage
    \/ EraseFlash
    \/ PowerFails
    \/ PowerFailsInside

\* The main loop calls the machine for ever, and a write ends.
Fairness == WF_vars(LogMachine)

Spec == Init /\ [][Next]_vars /\ Fairness

-----------------------------------------------------------------------------
(* Properties.                                                             *)

TypeOK ==
    /\ flash \in [Cells -> Packets \cup {ERASED, GARBAGE}]
    /\ bad \subseteq LogBlocks
    /\ recorder \in {SHORT_PACKET, LONG_PACKET}
    /\ sent \in 0 .. MAX_PACKETS /\ faults \subseteq UNION Faults
    /\ queue \in Seq(Packets \cup {GARBAGE}) /\ Len(queue) < Slots
    /\ address \in RDU_LOG_ADDR_START .. DEVICE
    /\ wrapAddr \in {0} \cup {b * BLOCK : b \in 1 .. LAST_BLOCK + 1}
    /\ logReady \in BOOLEAN /\ logErase \in {1, 3}
    /\ packetSize \in {RDU_LOG_PACKET_SIZE, recorder}
    /\ machState \in {"IDLE", "RUN", "CONFIRM", "WRITE_FAIL", "ERASE"}
    /\ TempDataBuf \in Packets \cup {GARBAGE}

\* The order the upload reads the cells in, from the addresses of the log.
ReadingOrder(info) ==
    LET cells(a, z) == [k \in 1 .. z - a |-> a + k - 1]
        start       == RDU_LOG_ADDR_START
    IN  IF info.wrapAddr < info.address
        THEN cells(start, info.address)
        ELSE cells(info.wrapAddr, RDU_LOG_ADDR_END) \o cells(start, info.address)

\* A packet is there from its first cell on, and bad blocks are skipped.
Begins(order, n) ==
    /\ flash[order[n]] \in Packets /\ BlockOf(order[n]) \notin bad
    /\ n > 1 => \/ flash[order[n]] # flash[order[n - 1]]
                \/ BlockOf(order[n - 1]) \in bad

\* The packets read in that order, after n cells of it and after all.
Met(order) ==
    LET met[n \in 0 .. Len(order)] ==
            IF n = 0 THEN <<>>
            ELSE IF Begins(order, n) THEN Append(met[n - 1], flash[order[n]])
                 ELSE met[n - 1]
    IN  met

PacketsRead(order) == Met(order)[Len(order)]

\* The addresses of the log; after a restart, those that will be found.
LogInfo ==
    IF machState = "IDLE" THEN LogFindEndOfMemory
    ELSE [address |-> address, wrapAddr |-> wrapAddr]

\* The block the next packet goes to has been erased by then: no write is
\* refused that would not have failed anyway.
WritesFindErasedFlash ==
    [][machState = "RUN" /\ machState' = "WRITE_FAIL" => faults' # faults]_vars

\* The cells a reader finds packets in: the upload skips bad blocks.
Readable == {c \in Cells : BlockOf(c) \notin bad /\ flash[c] \in Packets}

\* What the wrap has left standing is read first.
LeftByWrap(c) == address <= wrapAddr /\ c >= wrapAddr

ReadBefore(c, d) ==
    \/ LeftByWrap(c) /\ ~LeftByWrap(d)
    \/ (LeftByWrap(c) <=> LeftByWrap(d)) /\ c < d

\* The first cell of each packet, whatever lies before it.
FirstIn(cells) == {c \in cells : c - 1 \in cells => flash[c - 1] # flash[c]}

LogInOrder ==
    LET first == FirstIn(Readable)
    IN  machState # "IDLE" =>
        \A c, d \in first : ReadBefore(c, d) => flash[c] <= flash[d]

PacketsWhole ==
    LET cells == Readable
    IN  \A a \in FirstIn(cells) :
        {c \in cells : flash[c] = flash[a]} = a .. a + recorder - 1

\* Round the ring, over bad blocks and the unused ends of pages, a reader who
\* follows the two addresses of the log never goes back to an older packet, and
\* meets each once, in one piece and with the size it was sent with.
LogIsSound == LogInOrder /\ PacketsWhole

\* A packet of an earlier turn of the ring, or from before an erase on command.
GivenUp(p) ==
    /\ wrapAddr # 0 \/ "erase" \in faults
    /\ \A c \in Readable : flash[c] > p

PacketsKept ==
    faults \subseteq {"bad block", "bad packet", "erase", "write"} =>
        \A p \in 1 .. sent :
            \/ \E k \in 1 .. Len(queue) : queue[k] = p
            \/ machState = "WRITE_FAIL" /\ TempDataBuf = p
            \/ \E c \in Readable : flash[c] = p
            \/ GivenUp(p)

NoneLeftWaiting ==
    faults \subseteq {"bad block", "erase"} /\ ~logReady => queue = <<>>

\* No packet gets lost between the queue and the flash, room for the next one
\* is made at the cost of the oldest only, and while no packet is bad and no
\* write refused, none is left in the queue for another one to come.
NothingMissing == PacketsKept /\ NoneLeftWaiting

\* Once no packet comes any more the machine comes to rest, and does not look
\* for erased flash for ever.
ComesToRest == <>[]AtRest
=============================================================================
