------------------------------ MODULE SerialRx -------------------------------
(***************************************************************************)
(* The packet receiver of one serial port (ApplicationSciRxMachine.c), the *)
(* receive queue its USART interrupt fills, and the line behind it.        *)
(*                                                                         *)
(*   <DLE><STX><NbrBytesMSB><NbrBytesLSB><CommandMSB><CommandLSB>          *)
(*   <PAYLOAD><crcMSB><crcLSB>                                             *)
(*                                                                         *)
(* SerialRxMachine spins while it waits for a header, so its steps are     *)
(* the reads of the queue and the tests of its timeouts: bytes and ticks   *)
(* arrive between any two of them.                                         *)
(***************************************************************************)
EXTENDS Integers, Sequences

CONSTANTS
    Frames,             \* the byte sequences the peer sends as packets
    Checksum(_),        \* crc() of a byte sequence
    BUFFER,             \* sizeof SERIAL_DATA.rxBuffer (4200)
    TIMEOUT_100MSEC,    \* SERIAL_TIMEOUT_100MSEC
    TIMEOUT_500MSEC,    \* SERIAL_TIMEOUT_500MSEC
    TICK_MODULUS,       \* TimerTicks is an Int32U (2^32)
    MAX_LAG,            \* bound: ticks between two calls of the machine
    MAX_FRAMES,         \* bound: packets the peer sends
    Faults,             \* what the line may do: "lose", "noise", "gap"
    NoiseBytes,         \* the bytes a noisy line may insert
    MAX_FAULTS          \* bound: times it does

DLE == 16
STX == 2
SIZEOF_HEAD == 6

ASSUME SerialRxAssumption ==
    /\ \A f \in Frames : f \in Seq(0 .. 255) /\ Len(f) > SIZEOF_HEAD + 1
    /\ BUFFER \in Nat /\ BUFFER >= SIZEOF_HEAD
    /\ TIMEOUT_100MSEC \in Nat
    /\ TIMEOUT_500MSEC \in Nat
    /\ TICK_MODULUS \in Nat \ {0}
    /\ MAX_LAG \in Nat \ {0}
    /\ MAX_FRAMES \in Nat
    /\ MAX_FAULTS \in Nat
    /\ Faults \subseteq {"lose", "noise", "gap"}
    /\ NoiseBytes \subseteq 0 .. 255

\* The layout of a packet as the peer builds it.
WellFormed(f) ==
    /\ f[1] = DLE /\ f[2] = STX
    /\ f[3] * 256 + f[4] = Len(f)
    /\ f[Len(f) - 1] * 256 + f[Len(f)] = Checksum(SubSeq(f, 1, Len(f) - 2))

\* The peer keeps to the layout and to packets that the buffer holds, and the
\* two timeouts leave room for the one tick a packet takes and the one a step
\* of the machine does.
ASSUME PeerAssumption ==
    /\ \A f \in Frames : WellFormed(f) /\ Len(f) <= BUFFER
    /\ TIMEOUT_100MSEC >= 2
    /\ TIMEOUT_500MSEC >= 2

VARIABLES
    TimerTicks, lag,             \* the tick, and ticks since the last step
    sending, frameAge, faults,   \* rest of the packet on the line, the ticks
                                 \*   it has taken, faults so far
    offered,                     \* commands of the packets sent
    fifo,                        \* the queue SciQue fills, SciGetByte drains
    pc,                          \* where SerialRxMachine is
    failed,                      \* its local "status" is -1
    machState, timeoutTimer,     \* SERIAL_DATA.common
    subState,                    \* RxMachSubState of the port
    rxBuffer,                    \* the first byteCnt bytes of rxBuffer
    nbrBytes, command, errorCnt, \* SERIAL_DATA
    delivered                    \* commands given to callBackPtr

lineVars == <<sending, frameAge, faults, offered>>
localVars == <<pc, failed>>
dataVars == <<machState, timeoutTimer, subState, rxBuffer, nbrBytes, command,
              errorCnt, delivered>>
vars == <<TimerTicks, lag, sending, frameAge, faults, offered, fifo, pc,
          failed, machState, timeoutTimer, subState, rxBuffer, nbrBytes,
          command, errorCnt, delivered>>

IDLE == 0
HEADER == 1
PAYLOAD == 2
PASS_THRU == 3

CommandOf(f) == f[5] * 256 + f[6]

Init ==
    /\ TimerTicks = 0 /\ lag = 0
    /\ sending = <<>> /\ frameAge = 0 /\ faults = 0 /\ offered = <<>>
    /\ fifo = <<>>
    /\ pc = "loop" /\ failed = FALSE
    /\ machState = IDLE /\ timeoutTimer = 0 /\ subState = 0
    /\ rxBuffer = <<>> /\ nbrBytes = 0 /\ command = 0 /\ errorCnt = 0
    /\ delivered = <<>>

-----------------------------------------------------------------------------
(* The line, the receive interrupt and the tick.                           *)

Fault(kind) ==
    /\ kind \in Faults
    /\ faults < MAX_FAULTS
    /\ faults' = faults + 1

StartFrame(f) ==
    /\ sending = <<>>
    /\ Len(offered) < MAX_FRAMES
    /\ sending' = f
    /\ frameAge' = 0
    /\ offered' = Append(offered, CommandOf(f))
    /\ UNCHANGED <<TimerTicks, lag, faults, fifo, localVars, dataVars>>

\* USARTn_IRQHandler: the byte received goes to the queue.
SciQue ==
    /\ sending # <<>>
    /\ fifo' = Append(fifo, Head(sending))
    /\ sending' = Tail(sending)
    /\ UNCHANGED <<TimerTicks, lag, frameAge, faults, offered, localVars,
                   dataVars>>

LoseByte ==
    /\ sending # <<>>
    /\ Fault("lose")
    /\ sending' = Tail(sending)
    /\ UNCHANGED <<TimerTicks, lag, frameAge, offered, fifo, localVars,
                   dataVars>>

NoiseByte(b) ==
    /\ Fault("noise")
    /\ fifo' = Append(fifo, b)
    /\ UNCHANGED <<TimerTicks, lag, sending, frameAge, offered, localVars,
                   dataVars>>

\* The peer stops in the middle of a packet: the tick no longer counts.
Gap ==
    /\ sending # <<>> /\ frameAge = 1
    /\ Fault("gap")
    /\ frameAge' = -1
    /\ UNCHANGED <<TimerTicks, lag, sending, offered, fifo, localVars, dataVars>>

\* Mutant: the count does not wrap.
SysTickNoWrap ==
    /\ lag < IF pc = "loop" THEN MAX_LAG ELSE 1
    /\ sending # <<>> => frameAge # 1
    /\ TimerTicks' = TimerTicks + 1
    /\ lag' = lag + 1
    /\ frameAge' = IF sending # <<>> /\ frameAge = 0 THEN 1 ELSE frameAge
    /\ UNCHANGED <<sending, faults, offered, fifo, localVars, dataVars>>

\* At 115200 baud a packet without gaps sees one tick at most.  A step inside
\* the machine takes a tick at most, the rest of the main loop MAX_LAG.
SysTick ==
    /\ lag < IF pc = "loop" THEN MAX_LAG ELSE 1
    /\ sending # <<>> => frameAge # 1
    /\ TimerTicks' = (TimerTicks + 1) % TICK_MODULUS
    /\ lag' = lag + 1
    /\ frameAge' = IF sending # <<>> /\ frameAge = 0 THEN 1 ELSE frameAge
    /\ UNCHANGED <<sending, faults, offered, fifo, localVars, dataVars>>

-----------------------------------------------------------------------------
(* SerialRxMachine.                                                        *)

InitSerialData ==
    /\ machState' = IDLE
    /\ timeoutTimer' = 0
    /\ errorCnt' = 0
    /\ rxBuffer' = <<>>

SerialCheckTimeout(timeout) ==
    (TimerTicks - timeoutTimer) % TICK_MODULUS > timeout

\* Mutant: the sub-state of the packet before is kept.
IdleKeepsSubState ==
    /\ pc = "loop" /\ machState = IDLE
    /\ IF fifo # <<>> /\ Head(fifo) = DLE
       THEN /\ rxBuffer' = <<DLE>>
            /\ machState' = HEADER
            /\ timeoutTimer' = TimerTicks
       ELSE UNCHANGED <<rxBuffer, machState, timeoutTimer>>
    /\ fifo' = IF fifo # <<>> THEN Tail(fifo) ELSE fifo
    /\ UNCHANGED <<localVars, subState, nbrBytes, command, errorCnt, delivered>>

\* Mutant: the timeout of the header runs from the last reset.
IdleNoTimer ==
    /\ pc = "loop" /\ machState = IDLE
    /\ IF fifo # <<>> /\ Head(fifo) = DLE
       THEN rxBuffer' = <<DLE>> /\ subState' = 0 /\ machState' = HEADER
       ELSE UNCHANGED <<rxBuffer, subState, machState>>
    /\ fifo' = IF fifo # <<>> THEN Tail(fifo) ELSE fifo
    /\ UNCHANGED <<localVars, timeoutTimer, nbrBytes, command, errorCnt,
                   delivered>>

\* SERIAL_RX_IDLE_STATE: one byte a call; all but a DLE are dropped.
Idle ==
    /\ pc = "loop" /\ machState = IDLE
    /\ IF fifo # <<>> /\ Head(fifo) = DLE
       THEN /\ rxBuffer' = <<DLE>>
            /\ subState' = 0
            /\ machState' = HEADER
            /\ timeoutTimer' = TimerTicks
       ELSE UNCHANGED <<rxBuffer, subState, machState, timeoutTimer>>
    /\ fifo' = IF fifo # <<>> THEN Tail(fifo) ELSE fifo
    /\ UNCHANGED <<localVars, nbrBytes, command, errorCnt, delivered>>

\* A call that finds the machine past its idle state.
Enter ==
    /\ pc = "loop" /\ machState \in {HEADER, PAYLOAD}
    /\ pc' = IF machState = HEADER THEN "header" ELSE "payload"
    /\ failed' = FALSE
    /\ UNCHANGED <<fifo, dataVars>>

\* Mutant: the first command byte is added to the command before.
HeaderByteKeepsCommand ==
    /\ pc = "header" /\ fifo # <<>>
    /\ LET b == Head(fifo) IN
         /\ rxBuffer' = Append(rxBuffer, b)
         /\ failed' = (failed \/ (subState = 0 /\ b # STX))
         /\ nbrBytes' = CASE subState = 1 -> b * 256
                          [] subState = 2 -> nbrBytes + b
                          [] OTHER        -> nbrBytes
         /\ command' = CASE subState = 3 -> command + b * 256
                         [] subState = 4 -> command + b
                         [] OTHER        -> command
         /\ machState' = CASE subState = 0 /\ b # STX -> IDLE
                           [] subState = 4            -> machState + 1
                           [] OTHER                   -> machState
    /\ timeoutTimer' = IF subState = 4 THEN TimerTicks ELSE timeoutTimer
    /\ IF Len(rxBuffer') >= SIZEOF_HEAD
       THEN pc' = "headerTimeout" /\ UNCHANGED subState
       ELSE subState' = subState + 1 /\ UNCHANGED pc
    /\ fifo' = Tail(fifo)
    /\ UNCHANGED <<errorCnt, delivered>>

\* A second byte that is no STX marks the call as failed and goes on.
HeaderByte ==
    /\ pc = "header" /\ fifo # <<>>
    /\ LET b == Head(fifo) IN
         /\ rxBuffer' = Append(rxBuffer, b)
         /\ failed' = (failed \/ (subState = 0 /\ b # STX))
         /\ nbrBytes' = CASE subState = 1 -> b * 256
                          [] subState = 2 -> nbrBytes + b
                          [] OTHER        -> nbrBytes
         /\ command' = CASE subState = 3 -> b * 256
                         [] subState = 4 -> command + b
                         [] OTHER        -> command
         /\ machState' = CASE subState = 0 /\ b # STX -> IDLE
                           [] subState = 4            -> machState + 1
                           [] OTHER                   -> machState
    /\ timeoutTimer' = IF subState = 4 THEN TimerTicks ELSE timeoutTimer
    /\ IF Len(rxBuffer') >= SIZEOF_HEAD
       THEN pc' = "headerTimeout" /\ UNCHANGED subState
       ELSE subState' = subState + 1 /\ UNCHANGED pc
    /\ fifo' = Tail(fifo)
    /\ UNCHANGED <<errorCnt, delivered>>

HeaderEmpty ==
    /\ pc = "header" /\ fifo = <<>>
    /\ pc' = "headerTimeout"
    /\ UNCHANGED <<failed, fifo, dataVars>>

\* Mutant: an incomplete header is not waited for.
HeaderTimeoutNoLoop ==
    /\ pc = "headerTimeout"
    /\ failed' = (failed \/ SerialCheckTimeout(TIMEOUT_100MSEC))
    /\ pc' = "payload"
    /\ UNCHANGED <<fifo, dataVars>>

\* Both the end of the header and its timeout fall into the payload state.
HeaderTimeout ==
    /\ pc = "headerTimeout"
    /\ LET expired == SerialCheckTimeout(TIMEOUT_100MSEC) IN
         /\ failed' = (failed \/ expired)
         /\ pc' = IF ~expired /\ Len(rxBuffer) < SIZEOF_HEAD
                  THEN "header" ELSE "payload"
    /\ UNCHANGED <<fifo, dataVars>>

\* The last byte of the packet: the checksum decides, and the machine starts
\* over whatever it decided.
PayloadByte ==
    /\ pc = "payload" /\ fifo # <<>>
    /\ Len(rxBuffer) < BUFFER
    /\ fifo' = Tail(fifo)
    /\ LET packet == Append(rxBuffer, Head(fifo))
           n      == Len(packet)
           rxCrc  == packet[n - 1] * 256 + packet[n]
           valid  == rxCrc = Checksum(SubSeq(packet, 1, n - 2))
       IN  IF n = nbrBytes
           THEN /\ delivered' = IF valid THEN Append(delivered, command)
                                         ELSE delivered
                /\ IF machState # PASS_THRU
                   THEN InitSerialData
                   ELSE /\ errorCnt' = IF valid THEN errorCnt ELSE errorCnt + 1
                        /\ rxBuffer' = packet
                        /\ UNCHANGED <<machState, timeoutTimer>>
                /\ pc' = "loop"
           ELSE /\ rxBuffer' = packet
                /\ timeoutTimer' = TimerTicks
                /\ UNCHANGED <<delivered, machState, errorCnt, pc>>
    /\ UNCHANGED <<failed, subState, nbrBytes, command>>

\* Nothing compares byteCnt with the size of the buffer, and a damaged header
\* may announce 65535 bytes: the byte is stored behind rxBuffer, where the
\* queue indices, errorCnt, common and callBackPtr lie.
PayloadOverrun ==
    /\ pc = "payload" /\ fifo # <<>>
    /\ Len(rxBuffer) >= BUFFER
    /\ fifo' = Tail(fifo)
    /\ pc' = "overrun"
    /\ UNCHANGED <<failed, dataVars>>

\* What the port does then follows from no line of the source: the model says
\* nothing more of it than that time goes on.
AfterOverrun ==
    /\ pc = "overrun"
    /\ UNCHANGED <<fifo, localVars, dataVars>>

PayloadEmpty ==
    /\ pc = "payload" /\ fifo = <<>>
    /\ pc' = "payloadTimeout"
    /\ UNCHANGED <<failed, fifo, dataVars>>

\* Mutant: a payload has no timeout.
PayloadTimeoutNever ==
    /\ pc = "payloadTimeout"
    /\ IF failed
       THEN InitSerialData
       ELSE UNCHANGED <<machState, timeoutTimer, errorCnt, rxBuffer>>
    /\ pc' = "loop"
    /\ UNCHANGED <<failed, fifo, subState, nbrBytes, command, delivered>>

PayloadTimeout ==
    /\ pc = "payloadTimeout"
    /\ IF failed \/ SerialCheckTimeout(TIMEOUT_500MSEC)
       THEN InitSerialData
       ELSE UNCHANGED <<machState, timeoutTimer, errorCnt, rxBuffer>>
    /\ pc' = "loop"
    /\ UNCHANGED <<failed, fifo, subState, nbrBytes, command, delivered>>

SerialRxMachine ==
    /\ \/ Idle \/ Enter \/ HeaderByte \/ HeaderEmpty \/ HeaderTimeout
       \/ PayloadByte \/ PayloadOverrun \/ AfterOverrun
       \/ PayloadEmpty \/ PayloadTimeout
    /\ lag' = 0
    /\ UNCHANGED <<TimerTicks, lineVars>>

Next ==
    \/ SerialRxMachine
    \/ SysTick
    \/ \E f \in Frames : StartFrame(f)
    \/ SciQue
    \/ LoseByte
    \/ \E b \in NoiseBytes : NoiseByte(b)
    \/ Gap

\* The main loop calls the machine again and again, the tick goes on, and the
\* peer finishes the packets it starts.
Fairness ==
    /\ WF_vars(SerialRxMachine)
    /\ WF_vars(SysTick)
    /\ WF_vars(SciQue \/ LoseByte)

Spec == Init /\ [][Next]_vars /\ Fairness

-----------------------------------------------------------------------------
(* Properties.  A port that has run over its buffer (pc = "overrun") is    *)
(* where each of them ends: what is said is said up to there.              *)

\* The fields of SERIAL_DATA keep their ranges up to an overrun.
TypeOK ==
    /\ TimerTicks \in 0 .. TICK_MODULUS - 1
    /\ lag \in 0 .. MAX_LAG
    /\ sending \in Seq(0 .. 255)
    /\ frameAge \in -1 .. 1
    /\ faults \in 0 .. MAX_FAULTS
    /\ offered \in Seq(Nat) /\ Len(offered) <= MAX_FRAMES
    /\ fifo \in Seq(0 .. 255)
    /\ pc \in {"loop", "header", "headerTimeout", "payload", "payloadTimeout",
               "overrun"}
    /\ failed \in BOOLEAN
    /\ machState \in {IDLE, HEADER, PAYLOAD}
    /\ timeoutTimer \in 0 .. TICK_MODULUS - 1
    /\ subState \in 0 .. 4
    /\ rxBuffer \in Seq(0 .. 255)
    /\ nbrBytes \in 0 .. 65535
    /\ command \in 0 .. 65535
    /\ errorCnt \in Nat
    /\ delivered \in Seq(0 .. 65535)

\* Between two calls, with nothing received and no packet begun.
Ready == pc = "loop" /\ machState = IDLE /\ fifo = <<>>

\* Where the machine stands in its packet follows from the bytes it has: the
\* spin begins with the DLE alone and reads the byte of its sub-state, and a
\* payload is entered with a full header unless the call has failed already.
\* After an overrun of rxBuffer none of this is claimed.
BufferMatchesState ==
    /\ pc = "loop" /\ machState = HEADER => Len(rxBuffer) = 1 /\ subState = 0
    /\ pc = "loop" /\ machState = PAYLOAD => Len(rxBuffer) >= SIZEOF_HEAD
    /\ pc = "header" => Len(rxBuffer) = subState + 1
    /\ pc = "headerTimeout" /\ Len(rxBuffer) >= SIZEOF_HEAD => subState = 4
    /\ pc \in {"payload", "payloadTimeout"} /\ ~failed
          => machState = PAYLOAD /\ Len(rxBuffer) >= SIZEOF_HEAD

\* Once the peer stops, the timeouts bring the machine back to idle, from
\* every partial packet a faulty line can leave in a buffer it has not run
\* over.
ComesBackToIdle == <>[](Ready \/ pc = "overrun")

\* On a line without faults the port is the channel of CommandChannel: the
\* spin, the fall through and the timeouts lose, repeat and reorder nothing.
Channel == INSTANCE CommandChannel
              WITH Commands <- {CommandOf(f) : f \in Frames}

DeliversInOrder == Channel!ChanSpec

=============================================================================
