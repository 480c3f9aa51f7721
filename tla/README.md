# Verification of the Tagr remote download port

This directory holds TLA+ models of the firmware in `src/`: an STM32F4 board
that takes log packets from an event recorder over a serial line, keeps them
in NAND flash and copies them to a USB stick. The modules are checked with TLC
on small instances, and some of their properties are proved with TLAPS for
every value of the constants.

## 1. The system

One thread, the `while(1)` of `main()`, calls state machines in turn; interrupts
(USART receive, the millisecond tick, USB) fill queues and counters between any
two of their statements. A watchdog resets the board when a pass of the loop
takes more than about four seconds.

| Component | State it keeps | Operations | Interacts with | What is hard | What makes it correct |
|---|---|---|---|---|---|
| Serial packet receiver (`ApplicationSciRxMachine.c`) | `SERIAL_DATA` of two ports: `machState`, `RxMachSubState`, `rxBuffer`, `byteCnt`, `nbrBytes`, `command`, `timeoutTimer`, `errorCnt` | `InitSerialReceiver`, `InitSerialData`, `SerialCheckTimeout`, `SerialRxMachine` | drained from the queue the USART interrupt fills; calls `ProcessCommandCom1/2` | spins for a header inside one call, falls from one state into the next, timeouts race bytes, stale fields | packets once and in order, back to idle after any fault, the command is the packet's |
| Digital inputs (`ApplicationDigIn.c`) | `DigitalInData[6]`, four fault flags | `InitDigitalIn`, `DigitalInMachine`, pin readers, callbacks | called once per input and pass; reads `TimerTicks` | bounces, wrap of the tick, two tests of one count | no fault on a transient, a stuck fault is reported, flag and machine agree |
| Log packet queue (`LogQueEventData`, `LogDequeEventData`) | `buffer`, `in`, `full`, `out` | put, get, clear | command handler puts, log machine gets; shares `buffer` with the search of the log's end | the full ring | first in first out, nothing accepted is lost |
| Flash log (`LogMachine`) | `INFO`: `address`, `wrapAddr`, `machState`, `logReady`, `logErase`; the flash itself | `InitLog`, the five states, `LogManageAddresses`, `LogIncrementAddress`, `LogFindEndOfMemory` | queue, NAND driver, upload | power failure anywhere, wrap, bad blocks, failed writes, page boundaries | oldest packets go first, the end of the log is found again after a restart |
| USB upload (`usbh_usr.c`) | `USBH_USR_ApplicationState`, `ReadLocation`, `ReadEnd`, `GetFrontEnd`, `MsgFailCnt` | states INIT, IAP, 2, 3 of `USBH_USR_MSC_Application`, `DeInit`, `TerminateUI` | reads the flash log and its addresses; called by the USB host library | stick removed between passes, tail of the log, bad block in a group, a log erased meanwhile | the file has the whole log, oldest first; a stick left alone is served |
| Command processing (`ApplicationProcessCommands.c`) | `ReceivedCommand`, `MsgReceived`, `SynchRequest`, `PayloadStr`, `FileRtc` | `ProcessCommandCom1/2`, `Packet_*`, `BuildPacket`, `SendPacket`, `RouteCommand` | called by the receiver; sends on both ports | flags and the clock shared by ports and uploads, resent packets, two volumes called drive 0 | packets to the second stick in order, with the recorder's clock, on the right volume |
| LEDs and transfer monitor (`main.cpp`) | `FileTransferMachState`, `HeartbeatMachState`, blink counters, OS timers | `FileTransferMachine`, `Blink*` callbacks, `InitWatchDog` | polls `gState` of the USB host; timers | a state polled that changes twice between two polls | the LEDs tell what the upload does, and are dark without a stick |
| Sockets (`ApplicationSocket.c`, `tcpserverclient.c`, `udpserverclient.c`) | socket machine states, pcb's, receive buffers | TCP and UDP machines, connect, receive, close | LwIP callbacks | one flag for all connections, lengths in a `char`, connections that end without a callback | segments echoed whole or not at all, a reset only after a close |
| HTTP server (`httpserver.c`) | `struct http_state` per connection | accept, receive, send, sent, poll | LwIP callbacks | partial sends, retries, a close that fails, allocation failure | every byte of the page once, no memory lost or freed twice |
| Network configuration (`netconf.c`) | `DHCP_state`, `IPaddress`, timers | `LwIP_Periodic_Handle`, DHCP process | LwIP, tick | retries against a late answer | an address in the end, which then stays |
| PTC messaging (`AppPtcMessaging.c`, `AppProcessPtcCommands.c`) | message buffer and its index | `AppendToBuffer`, `BuildPtcPacket`, `BuildPtcMessage`, `ProcessPtcCommand` | sockets | sent from a timer interrupt, byte order | messages a receiver can read, in order |
| USB board support (`usb_bsp.c`) | delay counters | `BSP_Delay`, timer interrupt | timer 2 | busy wait on an interrupt | the delay ends |
| Input capture (`stm32f4xx_it.c`) | `tmpCC4[]`, `CaptureNumber` | TIM5 interrupt | oscillator calibration | index past two captures | two captures are used |
| Pure I/O (`ApplicationGpio.c`, `ApplicationEthernet.c`, `AppExternalSensors.c`, board headers) | registers | pin set-up | all | none | none |

Not under `src/` and modelled only from how `src/` uses them: the serial queue
(`Common_Sci_Hi`), timers (`CommonOsTimer`), `crc()`, the NAND driver
(`COMMON_FlashFd`), FatFs, the USB host library and LwIP.

At this commit `main()` calls neither `LogMachine` nor the socket machines; the
switches of both command handlers (`ApplicationProcessCommands.c:96-227` and
`254-371`) stand between `#if 0` and `#endif`; and the USB host library is only
called with `USB_FS_ENABLE`, which nothing defines (`main.cpp:78`). The modules
say what these routines do when they are called the way that code calls them.

What makes this firmware hard to test follows from that shape. The loop's
routines read what interrupts write, at any point of a pass; every timeout is a
difference of two readings of a counter that wraps; the flash outlives every
restart while the addresses of the log do not; and several routines share a
buffer or a field (`logReady`, `LogData.buffer`, `nbrBytes`) for two purposes.
`PROJECT.json` lists these hazards at their lines, with the properties that
watch them.

## 2. The modules

| Module | Models | Stands on |
|---|---|---|
| `DigitalIn` | six inputs, their debouncing machines and fault flags | |
| `MCDigitalIn` | history of one watched input, for TLC | `DigitalIn` |
| `DigitalInProofs` | theorems | `MCDigitalIn` |
| `CommandChannel` | abstract: commands arrive once and in order | |
| `SerialRx` | one serial port: line, receive queue, packet receiver | `CommandChannel` (refined) |
| `MCSerialRx` | a peer with two packets, history of what is owed | `SerialRx` |
| `SerialRxProofs` | theorems | `MCSerialRx` |
| `EventQueue` | abstract: the queue of log packets | |
| `LogQueue` | the ring buffer | `EventQueue` (refined) |
| `LogQueueProofs` | theorems | `LogQueue` |
| `PacketLog` | abstract: an ordered log that forgets its oldest packets | |
| `LogMachine` | the flash, the log machine, the queue, the power | the queue as in `EventQueue` |
| `MCLogMachine` | what a reader finds in the flash, for TLC | `LogMachine`, `PacketLog` (refined) |
| `LogMachineProofs` | theorems on the addresses, the erased flash and the packets in it | `LogMachine` |
| `PacketLogProofs` | theorems: the flash implements `PacketLog`, and a restart finds the log | `MCLogMachine`, `LogMachineProofs` |
| `UsbUpload` | upload, transfer monitor and LEDs over a log that goes on | `LogMachine` |
| `MCUsbUpload` | what an upload owes to its file, for TLC | `UsbUpload` |
| `UsbUploadProofs` | theorems on the LEDs, and on the order and completeness of the file | `MCUsbUpload`, `LogMachineProofs` |
| `Commands` | both command handlers and both USB ports, by what they share | the queue as in `EventQueue` |
| `CommandsProofs` | theorems | `Commands` |
| `Dhcp` | the periodic handler and the DHCP machine | |
| `PtcMessage` | the bytes of a PTC message | |
| `PacketPool` | external: the pool of lwIP's packet buffers | |
| `Sockets` | `SocketMachine`, its TCP and UDP services, PTC messages | `Dhcp`, `PtcMessage`, `PacketPool` |
| `HttpServer` | the page server and the memory of its connections | `PacketPool` |
| `Network` | the board with any one of the five services | `Sockets`, `HttpServer` |
| `MCNetwork` | the segments that come in, for TLC | `Network` |
| `NetworkProofs` | theorems | `Network` |

The order is also that of the build: each part of the data path, receiver, queue,
log, upload, then what shares state with it, then the network, which shares
nothing with the rest but the tick and one LED.

### DigitalIn

State: `TimerTicks` (modulo `TICK_MODULUS`), `turn` (`inputNbr` of the `for`
loop in `main()`), and for each input the pin, `machineState`, `start`,
`assertCounts` and the fault flag that its callbacks set. Each case of the
`switch` in `DigitalInMachine` is an action of its own; `DigitalInMachine(i)`
is their disjunction for the input whose turn it is. `SysTick` and `PinMoves`
may come between any two calls. A call reads the pin once, and a tick in the
middle of a call has the effect of a tick before it, so a call is one step.
Subtraction of ticks is the unsigned one of the code.
Inputs without a pin reader are kept, since the code calls through the null
pointer in every state but the first two: that it never gets there is a
property.

### SerialRx

`SerialRxMachine` waits inside one call for a header, so its steps are single
reads of the queue (`SciGetByte`) and single tests of the timeouts; the place in
the routine is `pc`. Bytes (`SciQue`, from the USART interrupt) and ticks come
between any two of them. A packet is a sequence of small numbers; the checksum
is a constant operator. The line may lose a byte, insert one, or leave a gap,
each bounded by `MAX_FAULTS`. A byte lost from the length field shifts the
header, so lengths that are too short or far too long are among what the receiver
has to end by its timeout.

`rxBuffer` has `BUFFER` bytes (4200 in the code), and the packets of the peer fit it
(`PeerAssumption`). The code does not compare `byteCnt` with that size
(`ApplicationSciRxMachine.c:209`), and the length in a header goes up to 65535: when a
damaged header announces more than the buffer holds and enough bytes follow without a
gap, they are stored behind it, over the fields of `SERIAL_DATA` that come next
(`ApplicationSciRxMachine.h:57-64`), the machine's timer, its state and the callback
among them. `PayloadOverrun` is the byte that does it. What the port does from there on is not
defined by the source, so `AfterOverrun` is all that is left of it, and no property or
theorem claims anything of a port past that point, but for one: it only gets there after
a fault (`OverrunOnlyAfterFault`).

The two ports run the same code on disjoint data;
one is modelled.

### LogQueue

`in`, `out`, `full` and the slots of `LOG_DATA.buffer`, with the two routines and
the reset of `InitLog`. The indices count slots, the code's count bytes
in steps of 132 in a buffer of 2112.

### LogMachine

`flash[c]` says which packet the byte at address `c` belongs to, or that it is
erased, or garbage (part of a torn write). `address`, `wrapAddr`, `logReady`,
`logErase`, `packetSize` and `machState` are the fields of `INFO`. Each call of
`LogMachine` is an action named after its state; `Run` contains everything
LOG_RUN_STATE does in one call: making room (`LogManageAddresses`, with the
erase), stepping over bad blocks, taking a packet from the queue, checking and
writing it. `LogFindEndOfMemory` is given by what its two loops search for: the
first block that is not full, and in it the first erased place behind the last
that is not. Its steps of one packet start at the end of the block and those of
the log at the start of each page, so a restart may set the address off the
grid of the page; packets then straddle pages to the end of the block, which the
model takes the driver to allow. The calls in LOG_CONFIRM_STATE that find the flash busy change
nothing that is seen and are left out.

The packets come from the command handler as its compiled-out case queues them
(`ApplicationProcessCommands.c:120-153`): `packetSize` and `logReady` are set and the
packet is queued. The recorder sends packets of 140 and 112 bytes; one of another length
would be queued with the size and the number of the one before it
(`ApplicationProcessCommands.c:123-132`), and is left out, as is the answer to a request
for synchronisation (205-211), which queues nothing. The queue is the abstract one,
overflow included. An erase is commanded by `Packet_EraseFlash`; the file it deletes as
well is left out. `ReadingOrder` is the order in which the upload reads the cells, and
`PacketsRead` what it meets in them: a packet where the number changes, nothing in bad
blocks.

The driver is external: erased cells read 0xff, a write is refused when a cell is not
erased, an erase may fail and marks its block bad, bad blocks are stepped over. At most
`MAX_BAD` blocks turn bad in a behaviour; the code has no such limit
(`ApplicationLogMachine.c:148`), and most theorems hold for any. Two limits stay in all of
them: no block is bad when the flash is new, and the last block of the device never turns
bad, since what the driver does behind it is not in the source. A write may also be
refused for no reason, and that may last.

`Faults` lists the sets of faults that may come together in one behaviour, each at most
once but for bad blocks. The kinds are named where they are used; the ones "at boundary"
are those at the first or last place of a block or page, which the code does not survive
(section 3).

### UsbUpload

A pass of the loop calls `LogMachine`, then the USB host library, which calls
`USBH_USR_MSC_Application` when a stick is enumerated. Each state of the
application is an action: `FsInit`, `Iap`, `AskAgain`, `OpenFile` or
`OpenFails`, then one of `CopyGroup`, `CopyFrontEnd`, `CloseFile` a call.
`ReadPacket` is the body of the loop that fills `RAM_Buf`: it skips the rest of a
page and bad blocks, and places the packet by the difference of two addresses.
The library is external and given by its `gState`; `FileTransferMachine` polls
it in the same pass. `ReadLocation`, `ReadEnd` and `GetFrontEnd` survive the
stick, as static variables do. The blink callbacks are actions of the timers
that run. Sticks are empty, small (their space ends), protected (the file cannot
be created) or hold firmware, which resets the board. The results of `f_write`
are ignored by the code, so a small stick gets a truncated file and the "done"
LED; `Fail_Handler` does nothing.

Packets arrive between two calls, when it is the log machine's turn, and may find
the queue full; torn writes are left to `MCLogMachine`. A hand is slower than a
pass of the loop. `MCUsbUpload` adds what an upload owes: `newest` is the last
packet that was in the log when the file was opened, and what was sent up to it
and is still in the flash has to be in the file. `overtaken` notes that the log has
started over before the upload turned to its front end.

### Commands

A pass handles a packet of the recorder (COM1), one of the PC (COM2), and calls
each USB port once (`turn`). A packet is the code of its command and, for log
packets, a number; commands that act alike are one code (`PcCommands`). The commands that
the first port answers on the spot or lights an LED for change nothing that is
shared, as unknown ones do (`OtherCommand`); packets of other lengths, whose number
would be the one before, are left out. What is
kept is all that the handlers share: `MsgReceived` and the clock, the flags for
the configuration and for synchronisation, `PayloadStr`, the queue of the second
port, and whose volume is drive 0. `FsPort` is the first port reduced to what it
does to that state: it asks for the clock, mounts, and at its end
(`USBH_USR_TerminateUI`) initialises the second. The second port is modelled
whole: it waits for the clock, creates its file and appends the queue to it at
each call. The recorder may send packets again or start over with number 0; its
answers may be lost; requests beyond `MAX_ASKED` are lost. `CMD_RESET` may come
at any time.

Read as written, the handlers have oddities which the model keeps: the state of a
passed-through port is never left, since its machine does nothing there;
`CMD_SYNCH_RDU` and the bad block command send what `PayloadStr` holds from
before; `SynchRequest` is never cleared; a reset forgets `PrevPacketNbr`.

### Dhcp, PtcMessage, Sockets

`LwIP_Periodic_Handle` runs the DHCP machine each `DHCP_FINE_TIMER_MSECS`
(ticks are counted in those); lwIP's own client counts the tries and may hear
the server at any frame. When `dhcp_start` fails for lack of memory nobody hears
of it, and `netif.dhcp->tries` is then read through a null pointer: any value.
`IPaddress` stays 0 behind the static address.

A call of `SocketMachine` is `FrameReceived` (or `NoFrame`), then `Periodic`; ticks, the
PTC timer's `UpdSocketSend` and connections that end without a close come in between. The
service is a constant of `InitSocketMachine`; `type` is any of the five. Received segments
are `[cmd, tot, room]`. `AnswerLength` follows the length through the `char`, signed or
not, the test against the send buffer and `ProcessPtcCommand`, whose '#' answers four
bytes whatever the segment's length. What `tcp_write` returns is not looked at
(`tcpserverclient.c:108`): a segment it has no memory for is not answered at all. The
buffer of a segment is never freed (81), so `kept` of the `POOL` buffers are gone and in
the end no frame is received. `SystemReset` is the reset the machine commands when the
flag says that its connection is gone. `PtcMessage` builds the 43 bytes of a message;
`MsgNbrOf`, `TagOf` and `ValueOf` read the fields of it that a receiver goes by.

### HttpServer, Network

Each callback of a connection is an action; lwIP's calls may fail where the code looks at
the result or should (`tcp_write`, `tcp_close`, `mem_malloc`), at most `MAX_FAILS` times.
A part of the page is a byte: `PAGE` is `strlen(BASIC_PAGE)`, and `PageLeft`, what
`http_recv` sets out to send, is one less (`httpserver.c:209`). The send buffer holds
`SNDBUF` parts. The buffer of a request that is served is never freed (`pbufs`), so that
the pool runs dry. `Network` runs the page server or one of the other services; for the
page server `InitSocket` sets no machine, so nothing of this program feeds it.

## 3. The runs

| Run | Question | Bounds |
|---|---|---|
| `digitalin` | do flags and machines agree, does a flag move only on a debounced press and never on one reading, is a stuck fault reported for good and a cleared one forgotten for good? | three inputs (over-current, reset, unwired), debounce 1, held count 1, tick modulo 4 |
| `serial_clean` | does the port implement `CommandChannel` on a clean line? | two packets, one with a DLE as payload; timeouts 2 and 3, tick modulo 9 |
| `serial_noise` | does the receiver recover from a fault at any byte, answer each later packet once and in order, and run over its buffer only after a fault? | two packets, a buffer no longer than the longer one, one fault of three kinds, tick modulo 8 |
| `logqueue_refines` | is the ring a queue? | four slots, two packets |
| `logqueue_overflow` | do accepted packets wait? No | as above |
| `logmachine` | is the flash an ordered log through wraps and faults, whole and with nothing missing? | four blocks, 32 packets, see below |
| `log_restart` | does a restart find the end of a wrapped log? Not at a boundary | as `logmachine` |
| `log_erase` | do erased packets stay away? Not those of the last block | as `logmachine` |
| `upload` | is the file of an upload in order and whole, do the LEDs tell the truth, is a stick served? | three blocks of two pages, packets of 3 and 7 in a page of 7, 16 packets, groups of 2, one retry, two sticks, a bad block or a power failure |
| `upload_tail` | is remaining data written? Not with long packets | three blocks of two pages, packets of 3 and 5 in a page of 10, 22 packets, groups of 3, one retry, one stick |
| `commands` | do flags, clock, queue and drive survive being shared? | three packets, one command, three sticks moved, one retry, queue of three slots |
| `network` | does the board get and keep an address, echo, reset and serve pages as it should? | two connections, tick modulo 4, one try, four messages, one reset, page of 4 parts with a send buffer of 2, two refused calls, two packet buffers |

*Why the bounds are enough.* A debounce of one tick and a held count of one visit every
state and both sides of every comparison; a modulus of four makes the subtraction wrap in
every state. Three inputs are one of each kind, and the machines share nothing but the
loop. The timeouts of the serial receiver are the smallest that are different and longer
than one tick; a packet with a DLE in it exercises what looks like a header, and two
packets let one meet the leftovers of the other. In `serial_noise` the buffer is as long
as the longer packet, so that a header shifted by the fault announces more than it holds.
The ring wraps after four slots. The flash of `logmachine` has four blocks of two pages
with three short or two long packets to a page and an unused rest behind the short ones,
as in the real one (20 of 104 bytes with 32 left, or 16 of 132); 32 packets go once round
the ring and on into the second block or further. In `digitalin` and `serial_*` `MAX_LAG`
bounds the ticks between two calls, as the watchdog does; it is smaller than the modulus
so that a wait is not hidden by a full turn.

The 16 packets of `upload` fill three blocks of two pages and wrap, so that an upload sees
a log with and without a front end, and packets erased behind `ReadEnd`; with long
packets, one to a page, the log comes round more than twice. A group of two is the two
short packets of a page, as four groups of five are the 20 short packets of a real page
(`GroupsFillPages`), and a long packet fills a page alone. In `upload_tail` a group of
three is the three short packets of a page, and is no divisor of the four long ones of a
block, as five divides neither the 16 long packets of a real page nor the 1024 of a block.
Two sticks are an interrupted upload and the next. One retry is the last retry and the
first. In `commands` three packets overflow a queue of three slots, are sent again, or
start over; three moves of sticks are a stick of one port that comes under one of the
other and leaves; one command of each kind is all that a flag needs to be set. In
`network` two connections share the flag, the three bytes sent of a page do not fit the
send buffer at once, the pool runs dry behind the second segment or request, and two
refused calls are a refused write and a refused close, or the same one twice.

*What the serial runs say.* On a clean line a port hands over every packet once and in
order (`ImplementsChannel`). After a fault it is idle with nothing to read before long
(`ComesBackToIdle`), at the start of a packet with its fields as they belong
(`ResynchronizesAfterFault`, `BufferMatchesState`), and answers the later packets
(`AnswersWhatItOwes`), unless the fault has made it run over its buffer. That is no
matter of bounds but of traffic: it takes a damaged length and more bytes than the
buffer holds without a gap of 500 ms.

*What the log run says.* What the cells of the flash hold says on its own, without
any history, is that a reader who follows the ring meets the packets in order and
each of them whole, once (`LogIsSound`), and that none is missing
(`NothingMissing`): a packet sent is in the queue, in the flash, in the buffer
of a write that is tried again, or older than all there is after a wrap or an
erase; and none is left in the queue with `logReady` down, unless a bad packet or
a refused write took it down. To its readers the flash is a log of `PacketLog`
with any of the listed sets of faults: packets in order, each once, the oldest given up
first, and `KEEP` of them always there. A restart finds exactly the log there was, with
the packet written last (`RestartFindsEnd`). No write meets flash that was not
erased (`WritesFindErasedFlash`), and the machine comes to rest
(`ComesToRest`). The run lets one block turn bad, and `KEEP` allows for one; with
`MAX_BAD` = 2 and a block less in `KEEP` the same configuration finds no error either.

*What it does not say.* The following faults break these properties. They are
named, and left out of `Faults` of the passing run:
- "power at boundary": the board restarts while the block the log goes on in is
  still empty (`log_restart` shows it), or full with the next one not yet
  erased, when the search runs off the device; and, with long packets, with one
  place left in the block;
- "erase with last block": the erase is commanded while the last block has
  packets (`log_erase`), or packets come between the command and the erase
  ("packet before erase"), or power fails between the erases ("power in erase");
- "write at boundary": a write refused at the first place of a block or the
  last of a page, which leaves a hole the search mistakes for the end, or an
  address off the grid of the page;
- two restarts with long packets, or a restart together with a refused write or
  with a packet queued before the search.

*What the upload run says.* The packets a file owes are in it in the recorder's
order, each once (`FileInOrder`). A packet newer than the upload may stand between
them: an upload of a wrapped log begins at the wrap address, and when the log
has moved into that block meanwhile, what it writes there is read first. When
the file is reported as done on a stick with room, it has all it owes
(`NothingLeftOut`), with one exception that `overtaken` names: when the log starts
over at the beginning of the flash before the upload has turned to the front end,
the code takes the end of the front end from the address of then
(`usbh_usr.c:783-784`), which is near the start again, and the packets of that last
lap are left out. The extreme of it is an upload that begins while the log rests at
the end of its last block: it finds nothing from the wrap address to the end, and
if the log starts over in that very pass the file is closed nearly empty, with the
"done" LED. Neither property is claimed after a power failure, which
may leave the log in an order the upload does not know. `RemainingDataIsWritten` is
the same for long packets and fails: the last group of a wrapped log is dropped.
`LedsTellTheTruth` holds through all of it. Not combined in the run: a
stick removed while the front end is copied, an erase on command, and the next
stick before the log wraps again; `GetFrontEnd` is then stale and the front end
is copied twice.

*What the commands run says.* The file of the second port is never opened with
the default clock before all retries, although four parties write the flag
(`ClockOrRetries`); it is written on its own volume, unless a stick of the first
port was pulled out in the middle of an upload, when nothing mounts again
(`OwnVolume`); its packets do not go back, unless packet 0 of a recorder that
started over was lost in an overflow (`PacketsInOrder`); and no packet waits in
the queue for another one (`QueueIsWritten`). With one command
`RoutedAnswer` never meets `SynchRequest`: that takes two, and 21 million states,
and changes nothing but what is handed to the flash log.

*What the network run says.* The board has an address in the end and keeps it
(`BoardGetsAddress`, `AddressSettled`). Shorter segments than 128 bytes are echoed whole
or, without memory, not at all, and never in part (`EchoIsWholeOrNone`); longer ones get
what the build's `char` makes of their length. The board resets itself only after a close
(`ResetOnlyAfterClose`): a connection that ends in another way is not noticed, and a
client never dials again. PTC messages come in order (`PtcMessagesInOrder`). A page that
http_recv did not cut is sent but for its last byte, each byte once (`PageButLastByte`); a
second segment while one is served cuts it. The memory of connections is neither lost nor
freed twice (`HeapMatchesConnections`), and a request that was taken is served in the end
while packet buffers last (`PageIsServed`).

*Violations.* The four violation runs show where the code departs from what a
comment or the release notes say of it; each is a finding in `PROJECT.json` with
both quoted. Four departures are kept in the models without a run: a release is
not debounced, since `start` is set to 0 (`ApplicationDigIn.c:203`); a header
cut short by its timeout may hand over a packet with the command of the one
before (`ApplicationSciRxMachine.c:202`); `httpserver.c:209` says "DON't Transimt /0!!" of a
`-1` that leaves out the last byte of the page, since `strlen` does not count the
terminating 0; and an upload that the log overtakes, see
above, is reported as done without its last lap.

*Deadlock* is checked in every run.

## 4. Fairness

`DigitalIn`: weak fairness of the calls of the machine and of the tick. `main()`
loops for ever and the watchdog resets it otherwise; SysTick is a hardware
timer. `SerialRx`: weak fairness of the machine's steps, of the tick, and of the
line finishing a packet it began (a packet not finished is the lost-byte or the
gap fault, which is not fair to anything). `LogMachine`: weak fairness of its
calls. `UsbUpload`: of the calls of the log machine and of the library, by the
loop; what the library does with a stick is a sequence of such calls. `Commands`: of the loop.
`Network`: of the loop and the tick, and strong fairness of the
periodic call that counts a try, since a request nobody answers times out in
lwIP; for the page server, of lwIP's poll and of acknowledgements, which a peer
that stays owes. No fairness is assumed of faults, pins, commands, sticks, the
recorder or the power. In `CommandChannel` delivery is weakly fair: that is the
promise.

## 5. The proofs

`DigitalInProofs` proves, for every number of inputs, every debounce and held
count, every width of the tick and every watchdog bound (`DigitalInAssumption`),
that types hold (`TypeCorrect`), that the flag of an input agrees with the state
of its machine (`FlagCorrect`), that the held count does (`HeldCountCorrect`) and
that a null pin reader is never called (`ReaderCorrect`). The inductive
invariant `IInv` is the conjunction of the four; none is inductive alone: the
flag after a bounce back into the last held state follows from the held count,
and an input without a reader keeps its flag down because it never leaves the
first two states. The steps are `InitIInv`, one lemma per conjunct over the
cases of the `switch` (`StepType`, `StepFlags`, `StepCounts`, `StepUnwired`),
`NextIInv` and `AlwaysIInv`.

Over the history of one input that `MCDigitalIn` keeps it proves the two action
properties: no flag rises on a transient (`NoFlagOnTransientHolds`) and none
falls on one reading (`NoClearOnOneReadingHolds`). `HistIInv` ties the history to
the machine (`HistMatchesState`): in a debouncing state what the machine takes
for the time since `start` is at most the real time the pin has been asserted,
however often the tick wrapped meanwhile (`ModDifference`, `ElapsedAges`), and
past the debounce that time was long enough.

`LogQueueProofs` proves, for every number of slots from two on (`LogQueueAssumption`),
types, with the packets between the two indices in their slots (`WaitingArePackets`), and
that the ring implements `EventQueue` (`Refinement`): initial states map to initial states
(`InitRefines`) and every call to one of the queue's (`NextRefines`, from `PutRefines` and
`GetRefines`). The invariant needed is `TypeOK`, for its `WaitingArePackets`; the
arithmetic of indices modulo `Slots` is in the lemmas `SlotRange`, `PutSlot`, `PutCount`
and `GetCount`.

`SerialRxProofs` proves types and `BufferMatchesState`, for any packets, any checksum, any
timeouts, any size of the buffer and whatever the line does, up to the byte that runs over
the buffer. Past it nothing is claimed: the theorems hold of those states because `pc` is
then "overrun", which the properties exempt, not because anything is known of the fields.
`SpinMatchesState` is what induction needs: in the spin for a header the number of bytes
is the sub-state plus one until the header is complete, the machine's state can only have
been lost by a call that failed, and the high bytes of length and command are those of
this header, so that the low ones keep both within sixteen bits. The line and the tick
leave the machine alone (`MachineIsLeft`, `LineStep`); `HeaderByteStep`, `PayloadByteStep`
and the others do a step of the machine each.

Its second part is what the port answers. `Stream` is every byte on its way: read into the
buffer, in the queue, or still to be sent; `InFlight` says that these bytes are the
packets owed, cut where one ends and the next begins, the first of them begun. Bytes move
from one end to the other (`FlowAppend`, `FlowFirst`, `FlowLess`), `PacketInWork` says how
far into the first packet the machine is, and `InTime` that its timeouts cannot have run
out yet. With `Flow` as the core of `McIInv` follow that the buffer is run over only after
a fault (`OverrunOnlyAfterFaultHolds`: while there has been none, the length counted up to
is that of a packet owed, which fits, `FlowFits` and `FitsStep`), and, for any number of
faults that have not led to that, that the machine is at the start of a packet again when
it has nothing to read (`ResynchronizesHolds`) and that, from a fault to the next, it
hands over the command owed first (`AnswersWhatItOwesHolds`). On a line without faults
(`Faults = {}`) `ChanIInv` gives the steps of the refinement of `CommandChannel`
(`ChannelSafety`; its fairness stays with TLC). That no packet is answered twice across a
fault cannot be claimed for all packets, because it is false for some: bytes inside one,
or between two, can make up a third. `PeerAssumption` is needed for all this: packets have
the length their header says, as the peer builds them, and the timeouts are at least two
ticks (they are 100 and 500 ms).

`LogMachineProofs` proves, for every number and size of blocks and pages, both packet
sizes, any queue and any number of packets (`LogMachineAssumption`: a block is a whole
number of pages, more than one; there are 64), and any number of blocks that turn bad
before the last, `MAX_BAD`, that types hold and that no write is refused but by the
driver. The hypothesis is on the faults: `Harmless` are the bad blocks, bad packets,
overflows, an early packet and an erase at rest, those the machine copes with by its own
arithmetic. A restart and a refused write move the address off the grid of the pages, and
an erase in the traffic leaves the last block, which section 3 shows the code not to
survive in general. `TypeCorrectWhileHarmless` and `RunFindsErasedFlash` need no
hypothesis: they speak of every behaviour up to the first such fault. The invariant
`LogIInv` says where the address can be (`OnGrid`: whole packets behind the start of a
page, `InBlock`) and what is erased ahead of it: before the first wrap all of the flash
(`ErasedFrom`), after it the rest of the block that ends at the wrap address
(`ErasedToWrap`). The two halves of LOG_RUN_STATE are `LogManageAddresses`, with a loop
over bad blocks that the operator states by its result, and the write.

Its second part adds what the cells hold, with the same hypothesis on the faults: the log
is in order and its packets whole, each at one place (`LogStaysSound`), and none is
missing but older ones (`NothingGetsLost`; of overflows, which lose packets, the property
says nothing). `SoundWhileHarmless` says the first of every behaviour up to the first
other fault. In `OrderIInv` the queue continues the flash: all packets stored are older
than those queued and the queue rises (`QueueIsSound`), and every number sent is in one or
the other, or below the oldest (`AllKept`). That none is left waiting is an invariant of
its own (`QueueMovesOn`). The order is carried through the two halves of LOG_RUN_STATE by
lemmas on any cells, `RoomIsMade` for the erase and the move of both addresses and
`PacketIsWritten` for the packet: behind a wrap the block given up held the oldest
packets, and the block the log enters is the one that was empty.

`PacketLogProofs` proves that the flash implements `PacketLog` (`FlashIsPacketLog`), for
every geometry, packet size, queue and number of packets, with the same hypothesis on the
faults and at most one bad block (`MAX_BAD <= 1`); `PacketLogWhileHarmless` says of every
behaviour up to the first other fault that each step is one of the abstract log's, or
none. Besides `LogMachineAssumption` it takes that a short packet is no longer than a long
one (`KeepAssumption`; they are 104 and 132 bytes), since `KEEP` is counted in long ones.
The argument has four parts:

- *What a reader finds.* `IsRead(L, S)` says that a sequence has the packets of
  a set in rising order, each once; there is only one such sequence
  (`NoDifference`, `SameRead`), which grows at its end (`ReadOn`) and loses a
  prefix when the set loses its smallest (`ReadLess`). `PacketsRead` is a recursive
  function over the cells; `ScanIs` goes through it cell by cell and `Joined` puts the two
  stretches round the wrap together, so that `ReadsAll` gives `IsRead` of what the
  flash shows (`ReaderFinds`). In LOG_CONFIRM_STATE the packet just written
  is not yet among those found (`LogSet`), and it is the newest
  (`WrittenLast`).
- *What a step does to it.* `Run` takes away the oldest packets and no others
  (`RunShows`, `RunForgets`), a confirmation adds the newest (`PackConfirm`),
  an erase leaves nothing (`PackErase`), the rest leaves it alone (`PackQuiet`).
- *How many remain.* A place has a rank, the number of places before it in the device,
  from the quotient and the remainder of its address by the page (`RankIs`, `RankNext`).
  `LongEnough` says that nearly all places behind the address and ahead of the wrap
  address have their packet; a bad block costs its own, once (`BadOnce`, `FirstBad`), and
  `KEEP` allows for one. When packets are given up they all lie in the blocks given up,
  and so cannot be more than these have places (`PacketsFit`, `DroppedFit`); `KeepIs`
  compares what is left with `KEEP`.
- *What was cleared* is older than all the queue and the flash hold (`Above`).

The reading needs no such limit and is an invariant of its own (`ReadIInv`,
`ReadInvHolds`). `PackIInv` is the conjunction, inductive over the invariants of
`LogMachineProofs`. How full the log is cannot be had from those, which bound
what the cells hold from above only.

Its last part is the first restart, wherever the power fails but at a boundary
(`PowerFault`: between blocks, or where a search in steps of 104 bytes finds no room for
132). `FirstRestartFindsLog` says of every behaviour, from a state that only `Calm` faults
(bad blocks, bad packets, overflows, an early packet) have come before, that the reader
finds the log that was there, with the packet written but not yet confirmed, round a wrap,
over bad blocks and behind a packet that was cut off; unlike `RestartFindsEnd` it also
covers the step that tears a packet. Where an instance has these faults only,
`RestartFindsEnd` follows (`RestartFindsLog`). Both hold for any number of bad blocks.
`LogIInv` and `OrderIInv` bound what the cells may hold; a search needs to know what they
must hold. So `SearchIInv` adds that each block that was passed, good or bad, and each one
a wrap has left begins with a packet (`AllBegun`), that good ones behind the next place
end with one where the search looks (`AllEnded`), and that no block goes bad before there
has been a wrap address. An erase on command would break the first: it is not among the
calm faults. Then the only block that is not full is the one the power failed in
(`FindsBlock`), the steps back from its end stop behind its last packet, on the grid or
off it (`BackOf`, `FindsEnd`), and the next block's first place tells a wrapped log from
another (`FindsLog`). A torn packet changes no cell a reader looks at (`PowerTears`,
`SameMet`), so he reads all the flash shows (`ReadsCutOff`), and there is only one way to
read that (`SameRead`).

`UsbUploadProofs` proves `LedsTellTheTruth` for any flash, packets, sticks and
faults (`LedsCorrect`). It is not inductive: a LED is dark because its timer is
stopped, and that because of the state the upload is in. `LedIInv` adds how the
monitor follows the host (`MonitorFollowsHost`), that everything is dark when it
is idle (`DarkWhenIdle`), what each state of the upload leaves lit (`LitByState`)
and that "done" is only reached by closing (`DoneIsClosed`). The log's steps
leave all of this alone, so nothing about the flash is needed.

Its second part proves `FileInOrder` (`FileCorrect`), for any geometry, packet size,
group, stick and number of packets, over the invariants of the log (`LogIsFine`). Its
hypothesis is that the faults of an instance are the harmless ones and power failures, as
in the run; behind a power failure `FileInOrder` says nothing. What one call reads is
`Reading`, a recursive function over the turns of its loop; `CountUp` counts them, and
`ReadStep` is one of them: a packet is appended to the buffer and the place goes on past
it. What a call of the log machine leaves of the old packets is `LogUnderUpload`: it takes
some away (`OldStay`), and the wrap address stays, starts over or moves on past an erased
block. The invariant is `Reads`, one of three modes: the upload reads from the wrap
address to the end (`ReadsLeft`), a log that had not wrapped or that has started over
since (`ReadsOn`), or the front end (`ReadsFront`). In each the old packets still ahead
are newer than those in the file and in order (`Sound`), and the modes follow the log
under them (`ReadsUnderLog`), the file when it is opened (`OpenFileStep`) and the three
ways to copy (`CopyStep`).

Its third part proves `NothingLeftOut` under the same hypothesis
(`WholeFileCorrect`); the property is about packets of 104 bytes. `WholeIInv` says
that the upload goes on where a group begins (`OnGroups`), that nothing is in the
last page of the device, where the reading of a wrapped log stops (`NoneAtEnd`),
and that what is old is in the file or ahead of the reading (`Covers`), unless the
log has overtaken it. `GroupsFillPages` makes a group lie in one page (`GroupPage`),
so the loop places its packets one behind the other (`GroupIs`) and every
packet between two places of the reading is among them (`GroupHas`). A call that
reads less than a group has come to `ReadEnd`, and at the end of a wrapped log there
is then nothing more (`ShortGroupAtEnd`): this is where long packets fail.
`AheadIsNewer` gives what is owed when the file is opened: a cell that the two
addresses do not tell of would hold a packet newer than all of them
(`OpenWhole`). `LogCallWhole` is the log machine's step, `CopyWhole` that of the
copy.

`CommandsProofs` proves, for any queue, retries and numbers of packets, commands
and sticks (`CommandsAssumption`), `PacketsInOrder`, `ClockOrRetries` and
`OwnVolume`. The file alone says nothing about the packet that comes next: the
invariant `QueueFollowsFile` orders the file and the queue behind it as one
sequence that rises to `PrevPacketNbr` (`Rises`, `RisesTo`), with the start the
last reset left; `ClockIsTheAnswers` says that `MsgReceived` is 3 only with the
recorder's clock; `MountedOrWaiting` that a second port past its first state has
its volume mounted, or the first is at work. There is a lemma per action for the
order (`EvrStep`, `Com1Order`, `HsOrder` and so on), over the sequence lemmas
`RisesAppend`, `RisesPrefix` and `RisesSuffix`; `ClockStep` and `MountStep` do
the others.

`NetworkProofs` proves, for any number of connections, tries, ticks, parts and
buffers, `TypeOK`, `AddressSettled`, `ResetOnlyAfterClose`,
`HeapMatchesConnections`, `PageButLastByte`, `EchoIsWholeOrNone` (a length below 128
survives its conversion to `char`, signed or not: `ShortAnswer`) and
`PtcMessagesInOrder`. The last is about bytes: `FourBytes`, `TwoBytes` and `OneByte`
undo the divisions by 256, `HeaderRead` and `TagRead` find the fields behind the
parts a packet is joined of, and `PacketRead` gives what a receiver reads of a
packet; `WireFollowsCount` says that the last number on the wire is not beyond the
count, which is even between two sendings. Added for
induction: before the machine settles the address is not the static one
(`DhcpIInv`), and a machine that believes in a connection it does not have lost it
to a close (`FlagIsLostToClose`); for the page server, which callbacks a
connection has and how `written`, `left` and the page add up in each of its states
(`HttpIInv`).
`Network` runs one service at a time, so each half's step is a stutter of the
other's, and the two invariants are proved apart.

The types of `Network` are proved and not listed in its run.

Only model-checked:
- that the flash implements `PacketLog` with more than one bad block;
- the flash log after a refused write or an erase in the traffic, and what it does once
  a restart has found it: there `ImplementsPacketLog` and the others hold
  only away from the boundaries of section 3;
- the upload after a power failure (of the properties only `LedsTellTheTruth` and
  `StickIsServed` speak of it);
- all liveness, `QueueIsWritten` included, since fairness and ENABLED are outside
  the proof system's reach.

The library's induction theorems take an operator and are out of reach; where a
proof counts the turns of a loop, `CountUp` argues from the least number that is
not in a set. There are no RECURSIVE operators here.

## 6. Not modelled

- What the drivers do inside: NAND, FatFs, USB host stack, LwIP, queues and
  timers of the common library.
- The contents of packets beyond identity, size and checksum; of the commands
  that are answered on the spot, what the answer says.
- `InitLog` for `logType` 1 and the rebuild of the bad block table, which
  nothing calls for; what the flash driver does behind the last block, and so a last block that
  turns bad; a flash that has bad blocks when it is new.
- What a serial port does once it has written behind `rxBuffer`.
- Log packets of other lengths than the recorder's two.
- `BlinkStatus*` and `BlinkAllLed`, which nothing calls, and the display of the
  DHCP address.
- UDP beyond its machine: the echo keeps no state.
- `usb_bsp.c`: registers, and a busy wait on a hardware timer that is over when
  the timer is; the capture interrupt of `stm32f4xx_it.c` feeds a calibration
  nothing here reads.
- Registers, clocks and pin set-up; headers without behaviour.

## 7. Plan

Done: the modules of section 2. What is left, by importance:

1. **Proofs**: the log that goes on behind a restart, off the grid of the pages in the
   block it was found in, up to the end of that block.
2. **`MainLoop`**: inputs, two serial ports and the uploads in one loop with one
   watchdog bound, for what a port that spins costs the others.
