------------------------------ MODULE UsbUpload ------------------------------
(***************************************************************************)
(* The copy of the flash log to a USB stick: USBH_USR_MSC_Application      *)
(* (usbh_usr.c), called by the USB host library, and FileTransferMachine   *)
(* (main.cpp) that watches the library, while the log machine goes on.     *)
(*                                                                         *)
(* A pass of the main loop calls LogMachine and the library once each.     *)
(* The stick comes and goes, packets arrive and the power fails between    *)
(* any two calls.                                                          *)
(***************************************************************************)
EXTENDS LogMachine

CONSTANTS
    GROUP,          \* 5, the packets one call writes to the file
    RETRIES,        \* 100, the calls that wait for the recorder's clock
    SmallStick,     \* the records a "small" stick has room for
    MAX_PLUGS       \* bound: sticks plugged in, a power failure counts as one

ASSUME UsbUploadAssumption ==
    /\ GROUP \in Nat \ {0} /\ RETRIES \in Nat
    /\ SmallStick \in Nat /\ MAX_PLUGS \in Nat

\* A stick: an empty one, one whose space ends, one the file cannot be created
\* on, and one with new firmware.
Sticks == {"empty", "small", "protected", "firmware"}

VARIABLES
    turn,                       \* who is called next
    stick, plugs,               \* what is plugged in, sticks so far
    gState,                     \* of the host library
    FileTransferMachState,
    appState,                   \* USBH_USR_ApplicationState
    MsgReceived, MsgFailCnt,    \* has the clock come, how often was it asked
    ReadLocation, ReadEnd, GetFrontEnd,
    file, fileState,            \* records of the file on the stick
    uploadLed, doneLed,
    progressTimer, failTimer    \* OsTimer[...].running

fileVars == <<file, fileState>>
readVars == <<ReadLocation, ReadEnd, GetFrontEnd>>
rtcVars == <<MsgReceived, MsgFailCnt>>
ledVars == <<uploadLed, doneLed, progressTimer, failTimer>>
hostVars == <<gState, FileTransferMachState>>
appVars == <<appState, rtcVars, readVars, fileVars>>
plugVars == <<stick, plugs>>
upVars == <<vars, turn, plugVars, hostVars, appVars, ledVars>>

UpInit ==
    /\ Init
    /\ turn = "log"
    /\ gState = "IDLE" /\ FileTransferMachState = 0
    /\ appState = "INIT"
    /\ MsgReceived = FALSE /\ MsgFailCnt = 0
    /\ ReadLocation = 0 /\ ReadEnd = 0 /\ GetFrontEnd = FALSE
    /\ uploadLed = FALSE /\ doneLed = FALSE
    /\ progressTimer = FALSE /\ failTimer = FALSE
    /\ stick = "none" /\ plugs = 0
    /\ file = <<>> /\ fileState = "none"

\* main() starts again.
BoardStarts ==
    /\ turn' = "log"
    /\ gState' = "IDLE" /\ FileTransferMachState' = 0
    /\ appState' = "INIT"
    /\ MsgReceived' = FALSE /\ MsgFailCnt' = 0
    /\ ReadLocation' = 0 /\ ReadEnd' = 0 /\ GetFrontEnd' = FALSE
    /\ uploadLed' = FALSE /\ doneLed' = FALSE
    /\ progressTimer' = FALSE /\ failTimer' = FALSE

-----------------------------------------------------------------------------
(* USBH_USR_MSC_Application.                                               *)

Connected == stick # "none"

\* The file system is mounted.
FsInit ==
    /\ appState = "INIT"
    /\ appState' = "IAP"
    /\ UNCHANGED <<vars, rtcVars, readVars, fileVars, ledVars>>

\* The recorder is asked for its clock.
Iap ==
    /\ appState = "IAP"
    /\ appState' = "OPEN"
    /\ MsgReceived' = FALSE /\ MsgFailCnt' = 0
    /\ UNCHANGED <<vars, readVars, fileVars, ledVars>>

\* Mutant: the calls that ask are not counted.
AskAgainForever ==
    /\ appState = "OPEN" /\ ~MsgReceived /\ MsgFailCnt < RETRIES
    /\ MsgReceived' = FALSE
    /\ UNCHANGED <<vars, appState, MsgFailCnt, readVars, fileVars, ledVars>>

\* State 2: no clock yet, ask again.
AskAgain ==
    /\ appState = "OPEN" /\ ~MsgReceived /\ MsgFailCnt < RETRIES
    /\ MsgFailCnt' = MsgFailCnt + 1
    /\ MsgReceived' = FALSE
    /\ UNCHANGED <<vars, appState, readVars, fileVars, ledVars>>

MayOpen == appState = "OPEN" /\ (MsgReceived \/ MsgFailCnt >= RETRIES)

\* State 2: the file is created and the places to read are taken.
OpenFile ==
    /\ MayOpen /\ stick \in {"empty", "small"}
    /\ file' = <<>> /\ fileState' = "open"
    /\ uploadLed' = TRUE /\ progressTimer' = TRUE
    /\ IF wrapAddr < address
       THEN /\ ReadLocation' = RDU_LOG_ADDR_START /\ ReadEnd' = address
            /\ UNCHANGED GetFrontEnd
       ELSE /\ ReadLocation' = wrapAddr /\ ReadEnd' = RDU_LOG_ADDR_END
            /\ GetFrontEnd' = TRUE
    /\ appState' = "COPY"
    /\ UNCHANGED <<vars, rtcVars, doneLed, failTimer>>

TerminateUI ==
    progressTimer' = FALSE /\ uploadLed' = FALSE /\ doneLed' = TRUE

OpenFails ==
    /\ MayOpen /\ stick = "protected"
    /\ TerminateUI
    /\ failTimer' = TRUE
    /\ appState' = "DONE"
    /\ UNCHANGED <<vars, rtcVars, readVars, fileVars>>

\* Mutant: the place of the page's rest in the buffer is not taken back.
ReadPacketNoOffset(s) ==
    LET skip == packetSize = SHORT_PACKET /\ s.addr % PAGE = PAGE_USED
        page == IF skip THEN (s.addr \div PAGE + 1) * PAGE ELSE s.addr
        at   == HandleBadBlock(page, bad)
        loc  == s.loc + (at - page)
    IN  [addr |-> at + packetSize, loc |-> loc, offset |-> 0,
         buf |-> Append(s.buf, IF at - loc = Len(s.buf) * packetSize
                               THEN Content(at, packetSize) ELSE GARBAGE)]

\* One packet into RAM_Buf: the rest of a page and bad blocks are skipped.  A
\* packet that lands elsewhere than behind those before it is lost.
ReadPacket(s) ==
    LET skip   == packetSize = SHORT_PACKET /\ s.addr % PAGE = PAGE_USED
        page   == IF skip THEN (s.addr \div PAGE + 1) * PAGE ELSE s.addr
        offset == IF skip THEN PAGE - PAGE_USED ELSE s.offset
        at     == HandleBadBlock(page, bad)
        loc    == s.loc + (at - page)
    IN  [addr |-> at + packetSize, loc |-> loc, offset |-> offset,
         buf |-> Append(s.buf,
                        IF at - offset - loc = Len(s.buf) * packetSize
                        THEN Content(at, packetSize) ELSE GARBAGE)]

\* One turn of the loop of a call, which ends at ReadEnd.
ReadNext(s) == IF s.addr < ReadEnd THEN ReadPacket(s) ELSE s

\* What was read after n turns of it.
Reading[n \in 0 .. GROUP] ==
    IF n = 0
    THEN [addr |-> ReadLocation, loc |-> ReadLocation, offset |-> 0, buf |-> <<>>]
    ELSE ReadNext(Reading[n - 1])

\* The packets of one call: up to GROUP, before ReadEnd.
Group == Reading[GROUP]

\* f_write: nobody looks at its result.
f_write(records) ==
    LET all == file \o records
    IN  file' = IF stick = "small" /\ Len(all) > SmallStick
                THEN SubSeq(all, 1, SmallStick) ELSE all

\* Mutant: the next group begins at its own last packet.
CopyGroupAgain ==
    /\ appState = "COPY" /\ Connected
    /\ LET g == Group
       IN  /\ Len(g.buf) = GROUP
           /\ f_write(g.buf)
           /\ ReadLocation' = g.addr - packetSize
    /\ UNCHANGED <<vars, appState, rtcVars, ReadEnd, GetFrontEnd, fileState,
                   ledVars>>

\* State 3: a full group is written, and the main loop may run.
CopyGroup ==
    /\ appState = "COPY" /\ Connected
    /\ LET g == Group
       IN  /\ Len(g.buf) = GROUP
           /\ f_write(g.buf)
           /\ ReadLocation' = g.addr
    /\ UNCHANGED <<vars, appState, rtcVars, ReadEnd, GetFrontEnd, fileState,
                   ledVars>>

\* State 3: behind the end of a wrapped log comes its front end.
CopyFrontEnd ==
    /\ appState = "COPY" /\ Connected
    /\ Len(Group.buf) < GROUP /\ GetFrontEnd
    /\ GetFrontEnd' = FALSE
    /\ ReadLocation' = RDU_LOG_ADDR_START /\ ReadEnd' = address
    /\ UNCHANGED <<vars, appState, rtcVars, fileVars, ledVars>>

\* State 3: the remaining packets, and the file is closed.
CloseFile ==
    /\ appState = "COPY" /\ Connected
    /\ LET g == Group
       IN  /\ Len(g.buf) < GROUP /\ ~GetFrontEnd
           /\ f_write(g.buf)
           /\ ReadLocation' = g.addr + packetSize
    /\ fileState' = "closed"
    /\ TerminateUI
    /\ appState' = "DONE"
    /\ UNCHANGED <<vars, rtcVars, ReadEnd, GetFrontEnd, failTimer>>

Finished ==
    /\ appState = "DONE"
    /\ UNCHANGED <<vars, appVars, ledVars>>

\* State 2 with a stick that has new firmware: the board is reset.  Like every
\* restart it may be one the log does not survive, see PowerFault.
FirmwareReset ==
    /\ turn = "usb" /\ gState = "CLASS" /\ MayOpen /\ stick = "firmware"
    /\ Happen({PowerFault(Position)})
    /\ Restart
    /\ BoardStarts
    /\ UNCHANGED <<flash, plugVars, fileVars>>

MSC_Application ==
    \/ FsInit \/ Iap \/ AskAgain \/ OpenFile \/ OpenFails
    \/ CopyGroup \/ CopyFrontEnd \/ CloseFile \/ Finished

\* Mutant: the blinking of a failed upload goes on without its stick.
DeInitKeepsBlinking ==
    appState' = "INIT" /\ doneLed' = FALSE /\ UNCHANGED failTimer

USBH_USR_DeInit ==
    appState' = "INIT" /\ failTimer' = FALSE /\ doneLed' = FALSE

-----------------------------------------------------------------------------
(* The host library, and the machine that watches it.                      *)

\* FileTransferMachine, called behind the library: it acts on the two states
\* in which the application is not called.
FileTransferMachine ==
    LET attached == FileTransferMachState = 0 /\ gState' = "DEV_ATTACHED"
        removed  == FileTransferMachState = 1 /\ gState' = "IDLE"
    IN  /\ FileTransferMachState' = IF attached THEN 1 ELSE
                                    IF removed THEN 0 ELSE FileTransferMachState
        /\ gState' = "DEV_ATTACHED" =>
              /\ uploadLed' = (attached \/ uploadLed)
              /\ doneLed' = (~attached /\ doneLed)
              /\ UNCHANGED progressTimer
        /\ gState' = "IDLE" =>
              /\ uploadLed' = (~removed /\ uploadLed)
              /\ progressTimer' = (~removed /\ progressTimer)

HostIdle ==
    /\ gState = "IDLE" /\ ~Connected
    /\ UNCHANGED <<vars, gState, appVars, doneLed, failTimer>>

HostAttaches ==
    /\ gState = "IDLE" /\ Connected
    /\ gState' = "DEV_ATTACHED"
    /\ UNCHANGED <<vars, appVars, failTimer>>

\* The library enumerates the stick, which takes a while inside one call.
HostEnumerates ==
    /\ gState = "DEV_ATTACHED" /\ Connected
    /\ gState' = "CLASS"
    /\ UNCHANGED <<vars, appVars, ledVars>>

HostRunsClass ==
    /\ gState = "CLASS" /\ Connected
    /\ UNCHANGED gState
    /\ MSC_Application

HostDisconnects ==
    /\ gState # "IDLE" /\ ~Connected
    /\ gState' = "IDLE"
    /\ USBH_USR_DeInit
    /\ UNCHANGED <<vars, rtcVars, readVars, fileVars>>

USBH_Process ==
    /\ turn = "usb" /\ turn' = "log"
    /\ \/ HostIdle \/ HostAttaches \/ HostEnumerates \/ HostRunsClass
       \/ HostDisconnects
    /\ FileTransferMachine
    /\ UNCHANGED plugVars

CallLogMachine ==
    /\ turn = "log" /\ turn' = "usb"
    /\ LogMachine
    /\ UNCHANGED <<plugVars, hostVars, appVars, ledVars>>

-----------------------------------------------------------------------------
(* What comes from outside, between two calls.                             *)

\* The library has noticed that the last stick went: a hand is slower than a
\* pass of the loop.
Plug ==
    /\ stick = "none" /\ gState = "IDLE"
    /\ plugs + Cardinality(faults \cap {"power"}) < MAX_PLUGS
    /\ stick' \in Sticks
    /\ plugs' = plugs + 1
    /\ file' = <<>> /\ fileState' = "none"
    /\ UNCHANGED <<vars, turn, hostVars, appState, rtcVars, readVars, ledVars>>

Unplug ==
    /\ Connected
    /\ stick' = "none"
    /\ UNCHANGED <<vars, turn, plugs, hostVars, appVars, ledVars>>

\* The answer to SendGetRtc, which ProcessCommandCom1 takes.
RtcArrives ==
    /\ appState = "OPEN" /\ ~MsgReceived
    /\ MsgReceived' = TRUE
    /\ UNCHANGED <<vars, turn, plugVars, hostVars, appState, MsgFailCnt,
                   readVars, fileVars, ledVars>>

BlinkUploadProgressLed ==
    /\ progressTimer
    /\ uploadLed' = ~uploadLed
    /\ UNCHANGED <<vars, turn, plugVars, hostVars, appVars, doneLed,
                   progressTimer, failTimer>>

BlinkUploadCompleteLed ==
    /\ failTimer
    /\ doneLed' = ~doneLed
    /\ UNCHANGED <<vars, turn, plugVars, hostVars, appVars, uploadLed,
                   progressTimer, failTimer>>

PacketsArrive ==
    /\ turn = "log"
    /\ ReceivePacket
    /\ UNCHANGED <<turn, plugVars, hostVars, appVars, ledVars>>

\* Torn writes are left to LogMachine.
BoardLosesPower ==
    /\ PowerFails
    /\ BoardStarts
    /\ UNCHANGED <<plugVars, fileVars>>

UpNext ==
    \/ CallLogMachine \/ USBH_Process \/ FirmwareReset
    \/ Plug \/ Unplug \/ RtcArrives
    \/ BlinkUploadProgressLed \/ BlinkUploadCompleteLed
    \/ PacketsArrive \/ BoardLosesPower

\* The main loop calls both in turn, for ever.
Call == turn' = IF turn = "log" THEN "usb" ELSE "log"

UpFairness == WF_turn(Call)

UpSpec == UpInit /\ [][UpNext]_upVars /\ UpFairness

-----------------------------------------------------------------------------
(* Properties.                                                             *)

\* The LEDs tell what goes on.  Without a stick, once that was noticed, they
\* are dark and stay so: no timer will light them.  A steady "done" means a
\* file that was closed.
LedsTellTheTruth ==
    /\ gState = "IDLE" => ~uploadLed /\ ~doneLed /\ ~progressTimer /\ ~failTimer
    /\ doneLed /\ ~failTimer => fileState = "closed" /\ ~progressTimer

\* A stick that is left alone is served: its upload comes to an end, whatever
\* the recorder's clock does and however the log grows meanwhile.
StickIsServed ==
    <>[](stick \in Sticks \ {"firmware"}) => <>[](appState = "DONE")

=============================================================================
