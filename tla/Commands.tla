------------------------------ MODULE Commands -------------------------------
(***************************************************************************)
(* The command handlers of both ports (ApplicationProcessCommands.c), and  *)
(* what they share flags with: the application of the second USB port      *)
(* (USBH_USR_HS_MSC_Application), which appends the packets the recorder   *)
(* sends to a file as they come.                                           *)
(*                                                                         *)
(* The recorder is on COM1, a PC on COM2.  A pass of the main loop handles *)
(* a packet of each port, then calls the USB host once for each USB port.  *)
(* The switches of the two handlers are compiled out at this commit; they  *)
(* are modelled as they are written.                                       *)
(***************************************************************************)
EXTENDS Integers, Sequences, FiniteSets

CONSTANTS
    Slots,          \* packets the queue of the second USB port has slots for
    RETRIES,        \* 100, the calls that wait for the recorder's clock
    MAX_COMMANDS,   \* bound: commands the PC sends
    MAX_PACKETS,    \* bound: log packets the recorder sends
    MAX_PLUGS,      \* bound: sticks that come or go
    MAX_ASKED       \* bound: requests on their way to the recorder

ASSUME CommandsAssumption ==
    /\ Slots \in Nat \ {0, 1} /\ RETRIES \in Nat
    /\ MAX_COMMANDS \in Nat /\ MAX_PACKETS \in Nat /\ MAX_PLUGS \in Nat
    /\ MAX_ASKED \in Nat

\* What the PC sends.  "VERSION" stands for the commands answered on the spot:
\* version, LEDs, a page of flash, NAND status, log information; "ROUTED" for
\* those sent on to the recorder; "SYNCH" for those that build no answer.
PcCommands == {"VERSION", "ERASE", "SYNCH", "GET_CONFIG", "ROUTED", "PASS_THRU",
               "RESET", "UNKNOWN"}

\* What the board asks the recorder for.
Requests == {"RTC", "ERASE", "ROUTED", "ROUTE_CONFIG", "PASS_THRU"}

\* What the recorder sends: a command code, and the number of a log packet.
Packet(code) == [code |-> code, nbr |-> 0]
EvrPackets == [code : {"EVR"}, nbr : 0 .. MAX_PACKETS]

NONE == "NONE"

VARIABLES
    turn,                           \* "com1", "com2", "fs", "hs"
    com1, com2,                     \* received and not yet handled, code NONE if none
    asked,                          \* requests the recorder has not seen yet
    pcSent, packetNbr, packets, plugs,   \* bounded counts of what came
    PayloadStr,                     \* the packet built last, for either port
    MsgReceived, FileRtc,
    GetConfigReceived, SynchRequest, PrevPacketNbr, EvrFault,
    passThru,                       \* machState of both ports is 3
    toPc, toLog, logErase,          \* what this call hands to the PC and LogData
    queue, logReady,                \* ChmmLogData
    fs,                             \* the stick of the first USB port
    hsStick, hsState, MsgFailCnt,   \* the second one, and its application
    volume,                         \* whose file system is mounted as drive 0
    interrupted,                    \* history: the first port left its stick half done
    restartLost,                    \* history: a packet 0 was lost in the queue
    fileAtReset,                    \* history: packets in the file at the last reset
    exists, file                    \* the file on the second stick

sentVars == <<pcSent, packetNbr, packets, plugs>>
flagVars == <<GetConfigReceived, SynchRequest, PrevPacketNbr, EvrFault, restartLost>>
rtcVars == <<MsgReceived, FileRtc>>
outVars == <<toPc, toLog, logErase>>
queVars == <<queue, logReady>>
usbVars == <<fs, hsStick, volume, interrupted, exists, file, fileAtReset>>
hsVars == <<hsState, MsgFailCnt>>
cmdVars == <<turn, com1, com2, asked, sentVars, flagVars, rtcVars, PayloadStr,
             outVars, passThru, queVars, usbVars, hsVars>>

CmdInit ==
    /\ turn = "com1"
    /\ com1 = Packet(NONE) /\ com2 = NONE /\ asked = <<>>
    /\ pcSent = 0 /\ packetNbr = 0 /\ packets = 0 /\ plugs = 0
    /\ PayloadStr = NONE /\ toPc = NONE
    /\ MsgReceived = 0 /\ FileRtc = "default"
    /\ GetConfigReceived = FALSE /\ SynchRequest = FALSE
    /\ PrevPacketNbr = 0 /\ EvrFault = FALSE /\ restartLost = FALSE
    /\ passThru = FALSE
    /\ toLog = <<>> /\ logErase = FALSE
    /\ queue = <<>> /\ logReady = FALSE
    /\ fs = "none" /\ hsStick = FALSE /\ hsState = "INIT" /\ MsgFailCnt = 0
    /\ volume = NONE /\ interrupted = FALSE
    /\ exists = FALSE /\ file = <<>> /\ fileAtReset = 0

-----------------------------------------------------------------------------
(* Packets out.  ReceivedCommand, the code a packet is built with, is set  *)
(* before each use in the same call, so it is no variable here.            *)

\* BuildCharPacket into PayloadStr and SendPacket to the PC.
Answer(code) == PayloadStr' = code /\ toPc' = code

\* SendPacket of a packet built on the stack to the recorder.  What the line
\* cannot hold any more is lost.
Ask(code) == asked' = IF Len(asked) < MAX_ASKED THEN Append(asked, code) ELSE asked

\* RouteCommand: nothing is sent before the recorder's configuration came.
\* (GetHeartBeatState, its other condition, is 0 for good.)
RouteCommand(code) ==
    IF GetConfigReceived THEN Ask(code) /\ MsgReceived' = 0
    ELSE UNCHANGED <<asked, MsgReceived>>

\* LogQueEventData on ChmmLogData: EventQueue has the ring it is kept in.  The
\* packet that fills it makes it empty.
LogQueEventData(nbr) ==
    IF Len(queue) < Slots - 1
    THEN queue' = Append(queue, nbr) /\ UNCHANGED restartLost
    ELSE /\ queue' = <<>>
         /\ restartLost' = (restartLost \/ nbr = 0
                                \/ \E k \in 1 .. Len(queue) : queue[k] = 0)

\* A call that hands nothing on.
Quiet == toPc' = NONE /\ toLog' = <<>> /\ logErase' = FALSE

-----------------------------------------------------------------------------
(* ProcessCommandCom1: what the recorder sends.                            *)

\* Mutant: a packet older than the last one is queued as well.
EvrPacketUnordered ==
    /\ com1.code = "EVR"
    /\ PrevPacketNbr' = com1.nbr
    /\ toLog' = <<com1>>
    /\ LogQueEventData(com1.nbr) /\ logReady' = TRUE
    /\ PayloadStr' = "EVR" /\ toPc' = NONE
    /\ UNCHANGED <<rtcVars, GetConfigReceived, EvrFault>>

\* CMD_EVR_PACKET: queued when it is not older than the last one, and
\* acknowledged in any case.  Number 0 starts over.
EvrPacket ==
    /\ com1.code = "EVR"
    /\ IF ~SynchRequest /\ (com1.nbr = 0 \/ com1.nbr >= PrevPacketNbr)
       THEN /\ PrevPacketNbr' = com1.nbr
            /\ toLog' = <<com1>>
            /\ LogQueEventData(com1.nbr) /\ logReady' = TRUE
       ELSE toLog' = <<>> /\ UNCHANGED <<PrevPacketNbr, restartLost, queVars>>
    /\ PayloadStr' = "EVR" /\ toPc' = NONE
    /\ UNCHANGED <<rtcVars, GetConfigReceived, EvrFault>>

\* What is no log packet leaves the queue alone.
OtherPacket == UNCHANGED <<PrevPacketNbr, restartLost, queVars>>

ConfigInfo ==
    /\ com1.code = "CONFIG"
    /\ GetConfigReceived' = TRUE
    /\ toPc' = NONE /\ toLog' = <<>>
    /\ OtherPacket /\ UNCHANGED <<rtcVars, EvrFault, PayloadStr>>

\* Mutant: the message is noted, the clock is not taken from it.
RtcNotPopulated ==
    /\ com1.code = "RTC"
    /\ MsgReceived' = 3
    /\ toPc' = NONE /\ toLog' = <<>>
    /\ OtherPacket /\ UNCHANGED <<FileRtc, GetConfigReceived, EvrFault, PayloadStr>>

Rtc ==
    /\ com1.code = "RTC"
    /\ MsgReceived' = 3 /\ FileRtc' = "recorder"
    /\ toPc' = NONE /\ toLog' = <<>>
    /\ OtherPacket /\ UNCHANGED <<GetConfigReceived, EvrFault, PayloadStr>>

Heartbeat ==
    /\ com1.code \in {"HEARTBEAT_OK", "HEARTBEAT_FAULT"}
    /\ EvrFault' = (com1.code = "HEARTBEAT_FAULT")
    /\ PayloadStr' = "HEARTBEAT"
    /\ toPc' = NONE /\ toLog' = <<>>
    /\ OtherPacket /\ UNCHANGED <<rtcVars, GetConfigReceived>>

\* The answer to a routed command goes to the PC, or in eight parts to the log.
RoutedAnswer ==
    /\ com1.code \in {"ROUTED", "ROUTE_CONFIG"}
    /\ MsgReceived' = 1
    /\ IF SynchRequest THEN toLog' = [k \in 1 .. 8 |-> com1] /\ toPc' = NONE
       ELSE toPc' = com1.code /\ toLog' = <<>>
    /\ OtherPacket /\ UNCHANGED <<FileRtc, GetConfigReceived, EvrFault, PayloadStr>>

\* Answered to the recorder on the spot: version and LEDs, or an unknown code.
OtherCommand ==
    /\ com1.code \in {"VERSION", "UNKNOWN"}
    /\ PayloadStr' = (IF com1.code = "VERSION" THEN "VERSION" ELSE "FAILURE")
    /\ toPc' = NONE /\ toLog' = <<>>
    /\ OtherPacket /\ UNCHANGED <<rtcVars, GetConfigReceived, EvrFault>>

ProcessCommandCom1 ==
    /\ com1.code # NONE /\ ~passThru
    /\ com1' = Packet(NONE)
    /\ \/ EvrPacket \/ ConfigInfo \/ Rtc \/ Heartbeat \/ RoutedAnswer
       \/ OtherCommand
    /\ logErase' = FALSE
    /\ UNCHANGED <<com2, asked, sentVars, SynchRequest, passThru, usbVars, hsVars>>

-----------------------------------------------------------------------------
(* ProcessCommandCom2: what the PC sends.                                  *)

\* Answered on the spot.
AnswerVersion ==
    /\ com2 = "VERSION"
    /\ Answer("VERSION") /\ logErase' = FALSE
    /\ UNCHANGED <<asked, MsgReceived, SynchRequest, passThru, exists, file, fileAtReset>>

\* SendEraseEventLog, then Packet_EraseFlash: the log and the file go as well.
EraseLogs ==
    /\ com2 = "ERASE"
    /\ Ask("ERASE") /\ Answer("ERASE") /\ logErase' = TRUE
    /\ IF hsStick /\ volume = "hs" /\ fs \in {"none", "connected"}
       THEN exists' = FALSE /\ file' = <<>> /\ fileAtReset' = 0
       ELSE UNCHANGED <<exists, file, fileAtReset>>
    /\ UNCHANGED <<MsgReceived, SynchRequest, passThru>>

\* CMD_SYNCH_RDU and CMD_UDPATE_BB_TABLE build no packet: what PayloadStr holds
\* goes out, in a length nobody set.
Synch ==
    /\ com2 = "SYNCH"
    /\ SynchRequest' \in {SynchRequest, TRUE}
    /\ toPc' = PayloadStr /\ logErase' = FALSE
    /\ UNCHANGED <<PayloadStr, asked, MsgReceived, passThru, exists, file, fileAtReset>>

Route ==
    /\ com2 \in {"ROUTED", "GET_CONFIG"}
    /\ RouteCommand(IF com2 = "GET_CONFIG" THEN "ROUTE_CONFIG" ELSE com2)
    /\ toPc' = NONE /\ logErase' = FALSE
    /\ UNCHANGED <<PayloadStr, SynchRequest, passThru, exists, file, fileAtReset>>

\* Both ports go over to state 3, in which SerialRxMachine does nothing: the
\* command that would lead back is never handled.
PassThru ==
    /\ com2 = "PASS_THRU"
    /\ passThru' = ~passThru
    /\ RouteCommand("PASS_THRU")
    /\ toPc' = NONE /\ logErase' = FALSE
    /\ UNCHANGED <<PayloadStr, SynchRequest, exists, file, fileAtReset>>

UnknownCommand ==
    /\ com2 = "UNKNOWN"
    /\ Answer("FAILURE") /\ logErase' = FALSE
    /\ UNCHANGED <<asked, MsgReceived, SynchRequest, passThru, exists, file, fileAtReset>>

ProcessCommandCom2 ==
    /\ com2 # NONE /\ ~passThru
    /\ com2' = NONE
    /\ \/ AnswerVersion \/ EraseLogs \/ Synch \/ Route \/ PassThru
       \/ UnknownCommand
    /\ toLog' = <<>>
    /\ UNCHANGED <<com1, sentVars, GetConfigReceived, PrevPacketNbr, EvrFault,
                   restartLost, FileRtc, queVars, fs, hsStick, volume, interrupted, hsVars>>

\* CMD_RESET: the board starts again.
Reset ==
    /\ com2 = "RESET" /\ ~passThru
    /\ com1' = Packet(NONE) /\ com2' = NONE
    /\ PayloadStr' = NONE /\ Quiet
    /\ MsgReceived' = 0 /\ FileRtc' = "default"
    /\ GetConfigReceived' = FALSE /\ SynchRequest' = FALSE
    /\ PrevPacketNbr' = 0 /\ EvrFault' = FALSE /\ restartLost' = FALSE
    /\ passThru' = FALSE
    /\ queue' = <<>> /\ logReady' = FALSE
    /\ fs' = (IF fs = "none" THEN fs ELSE "connected")
    /\ hsState' = "INIT" /\ MsgFailCnt' = 0
    /\ volume' = NONE /\ interrupted' = FALSE
    /\ fileAtReset' = Len(file)
    /\ UNCHANGED <<asked, sentVars, hsStick, exists, file>>

-----------------------------------------------------------------------------
(* The two USB ports.                                                      *)

\* SendGetRtc
SendGetRtc == MsgReceived' = 0 /\ Ask("RTC")

\* The call leaves the question and the clock alone.
NoRequest == UNCHANGED <<asked, rtcVars>>

\* The first port notices its stick: it mounts drive 0 and asks for the clock.
FsBegins ==
    /\ fs = "connected" /\ fs' = "busy"
    /\ volume' = "fs" /\ interrupted' = FALSE
    /\ SendGetRtc
    /\ UNCHANGED <<FileRtc, hsVars>>

\* It waits for the clock as the second port does.
FsAsksAgain ==
    /\ fs = "busy" /\ MsgReceived # 3
    /\ FileRtc' = "default"
    /\ SendGetRtc
    /\ UNCHANGED <<fs, volume, interrupted, hsVars>>

\* Mutant: the second port is not initialised again.
FsEndsAlone ==
    /\ fs = "busy" /\ fs' = "done"
    /\ NoRequest /\ UNCHANGED <<volume, interrupted, hsVars>>

\* The upload ends: USBH_USR_TerminateUI.
FsEnds ==
    /\ fs = "busy" /\ fs' = "done"
    /\ hsState' = "INIT"
    /\ NoRequest /\ UNCHANGED <<volume, interrupted, MsgFailCnt>>

FsGoesOn == NoRequest /\ UNCHANGED <<fs, volume, interrupted, hsVars>>

FsPort ==
    /\ FsBegins \/ FsAsksAgain \/ FsEnds \/ FsGoesOn
    /\ Quiet
    /\ UNCHANGED <<com1, com2, sentVars, flagVars, PayloadStr, passThru, queVars,
                   hsStick, exists, file, fileAtReset>>

\* The stick of the first port came after its turn.
HsGivesWay ==
    /\ fs = "connected"
    /\ hsState' = "INIT"
    /\ NoRequest
    /\ UNCHANGED <<MsgFailCnt, volume, interrupted, queVars, exists, file>>

HsInit ==
    /\ fs = "none" /\ hsState = "INIT"
    /\ volume' = "hs" /\ interrupted' = FALSE
    /\ hsState' = "IAP"
    /\ NoRequest /\ UNCHANGED <<MsgFailCnt, queVars, exists, file>>

HsIap ==
    /\ fs = "none" /\ hsState = "IAP"
    /\ MsgFailCnt' = 0
    /\ SendGetRtc
    /\ hsState' = "WRITE"
    /\ UNCHANGED <<FileRtc, volume, interrupted, queVars, exists, file>>

HsWaits == MsgReceived # 3 /\ MsgFailCnt < RETRIES

HsAsksAgain ==
    /\ fs = "none" /\ hsState = "WRITE" /\ HsWaits
    /\ FileRtc' = "default"
    /\ MsgFailCnt' = MsgFailCnt + 1
    /\ SendGetRtc
    /\ UNCHANGED <<hsState, volume, interrupted, queVars, exists, file>>

HsCreatesFile ==
    /\ fs = "none" /\ hsState = "WRITE" /\ ~HsWaits
    /\ ~exists
    /\ exists' = TRUE
    /\ NoRequest /\ UNCHANGED <<hsVars, volume, interrupted, queVars, file>>

\* Mutant: one packet is written, and the flag goes before the queue is empty.
HsAppendsOne ==
    /\ fs = "none" /\ hsState = "WRITE" /\ ~HsWaits
    /\ exists
    /\ IF logReady /\ queue # <<>>
       THEN file' = Append(file, Head(queue)) /\ queue' = Tail(queue)
       ELSE UNCHANGED <<file, queue>>
    /\ logReady' = FALSE
    /\ NoRequest /\ UNCHANGED <<hsVars, volume, interrupted, exists>>

\* All packets of the queue, behind the end of the file.
HsAppends ==
    /\ fs = "none" /\ hsState = "WRITE" /\ ~HsWaits
    /\ exists
    /\ IF logReady THEN file' = file \o queue /\ queue' = <<>>
       ELSE UNCHANGED <<file, queue>>
    /\ logReady' = FALSE
    /\ NoRequest /\ UNCHANGED <<hsVars, volume, interrupted, exists>>

\* The library has no device, or the first port is at work.
HsNotCalled ==
    /\ ~hsStick \/ fs \in {"busy", "done"}
    /\ NoRequest
    /\ UNCHANGED <<hsVars, volume, interrupted, queVars, exists, file>>

HsPort ==
    /\ \/ HsNotCalled
       \/ /\ hsStick
          /\ \/ HsGivesWay \/ HsInit \/ HsIap \/ HsAsksAgain \/ HsCreatesFile
             \/ HsAppends
    /\ Quiet
    /\ UNCHANGED <<com1, com2, sentVars, flagVars, PayloadStr, passThru, fs,
                   hsStick, fileAtReset>>

-----------------------------------------------------------------------------
(* The main loop.                                                          *)

After(t) == CASE t = "com1" -> "com2" [] t = "com2" -> "fs"
              [] t = "fs" -> "hs" [] t = "hs" -> "com1"

\* SerialRxMachine of a port without a packet, or passed through.
NoPacket ==
    /\ passThru \/ (turn = "com1" /\ com1.code = NONE)
                \/ (turn = "com2" /\ com2 = NONE)
    /\ Quiet /\ NoRequest
    /\ UNCHANGED <<com1, com2, sentVars, flagVars, PayloadStr, passThru, queVars,
                   usbVars, hsVars>>

MainLoop ==
    /\ turn' = After(turn)
    /\ \/ turn = "com1" /\ (ProcessCommandCom1 \/ NoPacket)
       \/ turn = "com2" /\ (ProcessCommandCom2 \/ Reset \/ NoPacket)
       \/ turn = "fs" /\ FsPort
       \/ turn = "hs" /\ HsPort

-----------------------------------------------------------------------------
(* The PC, the recorder and the sticks, between two calls.                 *)

\* What only the board changes.
Board == <<turn, flagVars, rtcVars, PayloadStr, outVars, passThru, queVars, volume,
           exists, file, fileAtReset, hsVars>>

PcSends ==
    /\ turn = "com2" /\ com2 = NONE /\ pcSent < MAX_COMMANDS
    /\ com2' \in PcCommands
    /\ pcSent' = pcSent + 1
    /\ UNCHANGED <<Board, com1, asked, packetNbr, packets, plugs, fs, hsStick,
                   interrupted>>

\* A log packet: the next one, one it sent before again, or the first of a
\* recorder that was restarted.  (A packet of neither 140 nor 112 bytes is
\* judged by the number of the packet before it, as if that one came again.)
\* Or something else it sends by itself.
RecorderSends ==
    /\ turn = "com1" /\ com1.code = NONE /\ packets < MAX_PACKETS
    /\ packets' = packets + 1
    /\ \/ \E nbr \in 0 .. packetNbr + 1 :
             com1' = [code |-> "EVR", nbr |-> nbr] /\ packetNbr' = nbr
       \/ \E code \in {"CONFIG", "HEARTBEAT_OK", "HEARTBEAT_FAULT", "VERSION",
                     "UNKNOWN"} :
             com1' = Packet(code) /\ UNCHANGED packetNbr
    /\ UNCHANGED <<Board, com2, asked, pcSent, plugs, fs, hsStick, interrupted>>

\* The recorder answers what it was asked first, or the answer is lost.
RecorderAnswers ==
    /\ turn = "com1" /\ com1.code = NONE /\ asked # <<>>
    /\ asked' = Tail(asked)
    /\ \E code \in {NONE} \cup ({Head(asked)} \ {"ERASE", "PASS_THRU"}) :
          com1' = Packet(code)
    /\ UNCHANGED <<Board, com2, sentVars, fs, hsStick, interrupted>>

FsStickMoves ==
    /\ turn \in {"fs", "hs"}
    /\ plugs < MAX_PLUGS /\ plugs' = plugs + 1
    /\ fs' = IF fs = "none" THEN "connected" ELSE "none"
    /\ interrupted' = (interrupted \/ fs = "busy")
    /\ UNCHANGED <<Board, com1, com2, asked, pcSent, packetNbr, packets, hsStick>>

HsStickMoves ==
    /\ turn = "hs"
    /\ plugs < MAX_PLUGS /\ plugs' = plugs + 1
    /\ hsStick' = ~hsStick
    /\ UNCHANGED <<Board, com1, com2, asked, pcSent, packetNbr, packets, fs,
                   interrupted>>

CmdNext ==
    \/ MainLoop
    \/ PcSends \/ RecorderSends \/ RecorderAnswers
    \/ FsStickMoves \/ HsStickMoves

\* The main loop goes on.
CmdFairness == WF_turn(turn' = After(turn))

CmdSpec == CmdInit /\ [][CmdNext]_cmdVars /\ CmdFairness

-----------------------------------------------------------------------------
(* Properties.                                                             *)

\* Whoever else shares MsgReceived and FileRtc, the application of the second
\* port opens its file with the recorder's clock, or has asked RETRIES times.
ClockOrRetries ==
    [][turn = "hs" /\ <<exists, file>>' # <<exists, file>>
       => FileRtc = "recorder" \/ MsgFailCnt = RETRIES]_cmdVars

\* Both ports call their volume drive 0.  The second one writes with its own
\* mounted, unless an upload of the first was cut short since.
OwnVolume ==
    [][turn = "hs" /\ <<exists, file>>' # <<exists, file>>
       => volume = "hs" \/ interrupted]_cmdVars

\* Through resent packets, overflows of the queue and sticks that come and go,
\* no packet of the file is older than the one before it, unless the recorder
\* started over, which shows by its packet 0 if that was not lost in an overflow.
\* (A reset forgets PrevPacketNbr: what was resent across one may be in the file
\* twice.)
PacketsInOrder ==
    ~restartLost =>
        \A k \in fileAtReset + 1 .. Len(file) - 1 :
            file[k] <= file[k + 1] \/ file[k + 1] = 0

\* A packet never waits in the queue of the second port for another one to come:
\* once only the second stick stays plugged in, the queue is written out.
QueueIsWritten == <>[](hsStick /\ fs = "none") => <>[](queue = <<>>)

=============================================================================
