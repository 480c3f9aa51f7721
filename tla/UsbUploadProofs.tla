--------------------------- MODULE UsbUploadProofs ---------------------------
(***************************************************************************)
(* The upload, for a flash, packets and sticks of any size and any number  *)
(* of packets in a call: the LEDs tell the truth whatever happens, and     *)
(* until power fails the file is in order and, with packets of 104 bytes,  *)
(* nothing is left out of it.                                              *)
(***************************************************************************)
EXTENDS MCUsbUpload, LogMachineProofs

-----------------------------------------------------------------------------
(* The invariant.                                                          *)

\* FileTransferMachine has seen what the library is at.
MonitorFollowsHost ==
    /\ gState = "IDLE" => FileTransferMachState = 0
    /\ gState # "IDLE" => FileTransferMachState = 1

\* Without a stick nothing is lit, and the application is where it begins.
DarkWhenIdle ==
    gState = "IDLE" =>
        /\ ~uploadLed /\ ~doneLed /\ ~progressTimer /\ ~failTimer
        /\ appState = "INIT"

\* A timer runs in one state of the application, and "done" is lit in one.
LitByState ==
    /\ progressTimer => appState = "COPY"
    /\ failTimer => appState = "DONE"
    /\ doneLed => appState = "DONE"

DoneIsClosed == appState = "DONE" /\ ~failTimer => fileState = "closed"

LedIInv == MonitorFollowsHost /\ DarkWhenIdle /\ LitByState /\ DoneIsClosed

shownVars == <<gState, FileTransferMachState, appState, fileState, ledVars>>

-----------------------------------------------------------------------------
(* The steps.                                                              *)

LEMMA ShownKept ==
  ASSUME LedIInv, UNCHANGED shownVars PROVE LedIInv'
  BY DEF LedIInv, MonitorFollowsHost, DarkWhenIdle, LitByState, DoneIsClosed,
         shownVars, ledVars

\* main() starts again with everything off.
LEMMA StartIsDark ==
  ASSUME BoardStarts PROVE LedIInv'
  BY DEF BoardStarts, LedIInv, MonitorFollowsHost, DarkWhenIdle, LitByState,
         DoneIsClosed

\* What the application leaves of the invariant's parts about itself.
LEMMA AppStep ==
  ASSUME LedIInv, gState = "CLASS", gState' = "CLASS", MSC_Application
  PROVE  LitByState' /\ DoneIsClosed'
  <1> USE DEF LedIInv, LitByState, DoneIsClosed, ledVars, fileVars
  <1>1. CASE FsInit
    BY <1>1 DEF FsInit
  <1>2. CASE Iap
    BY <1>2 DEF Iap
  <1>3. CASE AskAgain
    BY <1>3 DEF AskAgain
  <1>4. CASE OpenFile
    BY <1>4 DEF OpenFile, MayOpen
  <1>5. CASE OpenFails
    BY <1>5 DEF OpenFails, MayOpen, TerminateUI
  <1>6. CASE CopyGroup
    BY <1>6 DEF CopyGroup
  <1>7. CASE CopyFrontEnd
    BY <1>7 DEF CopyFrontEnd
  <1>8. CASE CloseFile
    BY <1>8 DEF CloseFile, TerminateUI
  <1>9. CASE Finished
    BY <1>9 DEF Finished, appVars
  <1> QED BY <1>1, <1>2, <1>3, <1>4, <1>5, <1>6, <1>7, <1>8, <1>9 DEF MSC_Application

\* A call of the library, with FileTransferMachine behind it.
LEMMA HostStep ==
  ASSUME LedIInv, USBH_Process
  PROVE  LedIInv'
  <1>1. FileTransferMachine
    BY DEF USBH_Process
  <1>2. CASE HostIdle
    <2>1. /\ gState = "IDLE" /\ gState' = "IDLE" /\ FileTransferMachState = 0
          /\ UNCHANGED <<appState, fileState, doneLed, failTimer>>
      BY <1>2 DEF HostIdle, LedIInv, MonitorFollowsHost, appVars, fileVars
    <2>2. /\ FileTransferMachState' = 0
          /\ ~uploadLed' /\ ~progressTimer'
      BY <1>1, <2>1 DEF FileTransferMachine, LedIInv, DarkWhenIdle
    <2> QED BY <2>1, <2>2 DEF LedIInv, MonitorFollowsHost, DarkWhenIdle, LitByState,
                              DoneIsClosed
  <1>3. CASE HostAttaches
    <2>1. /\ gState = "IDLE" /\ gState' = "DEV_ATTACHED"
          /\ FileTransferMachState' = 1 /\ doneLed' = FALSE
          /\ UNCHANGED <<appState, fileState, failTimer, progressTimer>>
      BY <1>1, <1>3 DEF HostAttaches, FileTransferMachine, LedIInv,
                        MonitorFollowsHost, appVars, fileVars
    <2> QED BY <2>1 DEF LedIInv, MonitorFollowsHost, DarkWhenIdle, LitByState,
                        DoneIsClosed
  <1>4. CASE HostEnumerates
    <2>1. /\ gState = "DEV_ATTACHED" /\ gState' = "CLASS"
          /\ UNCHANGED FileTransferMachState
          /\ UNCHANGED <<appState, fileState, ledVars>>
      BY <1>1, <1>4 DEF HostEnumerates, FileTransferMachine, appVars, fileVars
    <2> QED BY <2>1 DEF LedIInv, MonitorFollowsHost, DarkWhenIdle, LitByState,
                        DoneIsClosed, ledVars
  <1>5. CASE HostRunsClass
    <2>1. gState = "CLASS" /\ gState' = "CLASS" /\ UNCHANGED FileTransferMachState
      BY <1>1, <1>5 DEF HostRunsClass, FileTransferMachine
    <2>2. LitByState' /\ DoneIsClosed'
      BY <1>5, <2>1, AppStep DEF HostRunsClass
    <2> QED BY <2>1, <2>2 DEF LedIInv, MonitorFollowsHost, DarkWhenIdle
  <1>6. CASE HostDisconnects
    <2>1. /\ gState # "IDLE" /\ gState' = "IDLE"
          /\ appState' = "INIT" /\ failTimer' = FALSE /\ doneLed' = FALSE
      BY <1>6 DEF HostDisconnects, USBH_USR_DeInit
    <2>2. FileTransferMachState = 1
      BY <2>1 DEF LedIInv, MonitorFollowsHost
    <2>3. FileTransferMachState' = 0 /\ uploadLed' = FALSE /\ progressTimer' = FALSE
      BY <1>1, <2>1, <2>2 DEF FileTransferMachine
    <2> QED BY <2>1, <2>3 DEF LedIInv, MonitorFollowsHost, DarkWhenIdle, LitByState,
                              DoneIsClosed
  <1> QED BY <1>2, <1>3, <1>4, <1>5, <1>6 DEF USBH_Process

\* The timers blink only what their state has lit.
LEMMA BlinkStep ==
  ASSUME LedIInv, BlinkUploadProgressLed \/ BlinkUploadCompleteLed
  PROVE  LedIInv'
  BY DEF BlinkUploadProgressLed, BlinkUploadCompleteLed, hostVars, appVars, fileVars,
         LedIInv, MonitorFollowsHost, DarkWhenIdle, LitByState, DoneIsClosed

LEMMA PlugStep ==
  ASSUME LedIInv, Plug PROVE LedIInv'
  BY DEF Plug, hostVars, ledVars, LedIInv, MonitorFollowsHost, DarkWhenIdle,
         LitByState, DoneIsClosed

LEMMA UpInitIInv == UpInit => LedIInv
  BY DEF UpInit, LedIInv, MonitorFollowsHost, DarkWhenIdle, LitByState, DoneIsClosed

LEMMA UpNextIInv == LedIInv /\ [UpNext]_upVars => LedIInv'
  <1> SUFFICES ASSUME LedIInv, [UpNext]_upVars PROVE LedIInv'
    OBVIOUS
  <1>1. CASE USBH_Process
    BY <1>1, HostStep
  <1>2. CASE FirmwareReset \/ BoardLosesPower
    BY <1>2, StartIsDark DEF FirmwareReset, BoardLosesPower
  <1>3. CASE BlinkUploadProgressLed \/ BlinkUploadCompleteLed
    BY <1>3, BlinkStep
  <1>4. CASE Plug
    BY <1>4, PlugStep
  <1>5. CASE UNCHANGED shownVars
    BY <1>5, ShownKept
  <1> QED BY <1>1, <1>2, <1>3, <1>4, <1>5
          DEF UpNext, CallLogMachine, Unplug, RtcArrives, PacketsArrive, upVars,
              hostVars, appVars, fileVars, shownVars

-----------------------------------------------------------------------------
(* The theorem.                                                            *)

\* Whatever the log machine, the recorder, the sticks and the power do between
\* two calls, FileTransferMachine, USBH_USR_DeInit and USBH_USR_TerminateUI
\* leave no LED lit without a stick, and no steady "done" on a file left open.
THEOREM LedsCorrect == UpSpec => []LedsTellTheTruth
  <1>1. LedIInv => LedsTellTheTruth
    BY DEF LedIInv, DarkWhenIdle, LitByState, DoneIsClosed, LedsTellTheTruth
  <1> QED BY <1>1, UpInitIInv, UpNextIInv, PTL DEF UpSpec

-----------------------------------------------------------------------------
(* The log under the upload.                                               *)

\* The cells that hold a packet that was there when the file was opened.
OldCells == {c \in Cells : Shows(flash, bad, c) /\ Old(flash[c])}

\* What waits for a place is newer than the file.
NewerWait == \A k \in 1 .. Len(queue) : queue[k] \in Packets => queue[k] > newest

\* At the wrap address the log does not rest: the next call goes on.
RoomIsComing == machState = "RUN" /\ wrapAddr # 0 /\ address = wrapAddr => logReady

LogIsFine ==
    /\ LogIInv /\ OrderIInv
    /\ logErase = 3
    /\ newest \in 0 .. sent
    /\ PlaceIsTaken /\ NewerWait /\ RoomIsComing

\* What a call of LogMachine leaves of the old packets, and how the wrap
\* address goes on: it stays, the log starts over, or the next good block is
\* erased.
OldStay == OldCells' \subseteq OldCells /\ \A c \in OldCells' : flash'[c] = flash[c]

WrapStays == wrapAddr' = wrapAddr

LogStartsOver ==
    /\ wrapAddr' # 0
    /\ \A c \in Cells : ~Behind(wrapAddr, c)
    /\ \A c \in OldCells' : wrapAddr' <= c

WrapMovesOn ==
    /\ wrapAddr # 0 /\ wrapAddr < wrapAddr'
    /\ \A c \in OldCells' : c < wrapAddr' => c < wrapAddr

\* The log lies before its wrap address, and reaches it only at rest.
LEMMA WrapIsAhead ==
  ASSUME LogIInv, PlaceIsTaken, logErase = 3, wrapAddr # 0
  PROVE  /\ machState \in {"RUN", "CONFIRM"}
         /\ address <= wrapAddr
         /\ address = wrapAddr => machState = "RUN"
         /\ \E b \in LogBlocks \ bad : wrapAddr = (b + 1) * BLOCK
  <1>1. machState \in {"RUN", "CONFIRM"}
    BY IInvParts DEF LogTypes, MachStates, FlagsAgree
  <1>2. PICK b \in LogBlocks \ bad : wrapAddr = (b + 1) * BLOCK /\ Position <= wrapAddr
    BY IInvParts, Zenon DEF PlaceIsGood, ErasedToWrap
  <1>3. CASE machState = "RUN"
    <2>1. Position = address
      BY <1>3, Zenon DEF Position
    <2>. QED  BY <1>1, <1>2, <1>3, <2>1
  <1>4. CASE machState = "CONFIRM"
    <2>1. PICK g \in LogBlocks :
            InBlock(address, g, recorder) /\ (wrapAddr # 0 => wrapAddr = (g + 1) * BLOCK)
      BY <1>4, Zenon DEF PlaceIsTaken
    <2>2. recorder \in 1 .. PAGE /\ PAGE \in Nat
      BY IInvParts, Geometry DEF FlashTypes, Numbers
    <2>3. g \in Nat
      BY BlockSums
    <2>4. address + recorder <= (g + 1) * BLOCK /\ address \in Nat
      BY <2>1, <2>2, <2>3, PlaceBounds
    <2>5. PICK w \in Nat : w = (g + 1) * BLOCK
      BY WrapNumbers
    <2>6. address < w
      BY <2>2, <2>4, <2>5
    <2>7. wrapAddr = w
      BY <2>1, <2>5
    <2>8. address < wrapAddr
      BY <2>6, <2>7
    <2>. QED  BY <1>1, <1>2, <2>8, WrapNumbers
  <1>. QED  BY <1>1, <1>3, <1>4

\* LOG_RUN_STATE erases the next block and writes a packet newer than all.
LEMMA RunUnderUpload ==
  ASSUME LogIsFine, Run, UNCHANGED <<recorder, sent, newest>>, faults' \subseteq Harmless
  PROVE  /\ PlaceIsTaken' /\ NewerWait' /\ RoomIsComing'
         /\ OldStay
         /\ WrapStays \/ LogStartsOver \/ WrapMovesOn
         /\ (wrapAddr # 0 /\ address = wrapAddr => LogStartsOver \/ WrapMovesOn)
  <1>1. /\ LogIInv /\ FlashTypes /\ LogTypes /\ FlagsAgree
        /\ newest \in Nat
    BY IInvParts DEF LogIsFine, FlashTypes
  <1>2. machState = "RUN" /\ packetSize = recorder
    BY <1>1, RunParts, Zenon DEF FlagsAgree
  <1>3. PICK failing \in FailingErases, b \in LogBlocks :
          LET m     == LogManageAddresses(failing)
              table == bad \cup failing
              cells == Wiped(flash, m.erases)
              a     == HandleBadBlock(m.address, table)
          IN  /\ failing \subseteq m.tried
              /\ LAST_BLOCK \notin table /\ table \subseteq LogBlocks /\ b \notin table
              /\ cells \in [Cells -> CellValues]
              /\ InBlock(a, b, packetSize) /\ CanWrite(cells, a)
              /\ \/ /\ m.wrapAddr = 0
                    /\ \A c \in Cells : c >= a /\ BlockOf(c) \notin table
                                        => cells[c] = ERASED
                 \/ /\ m.wrapAddr = (b + 1) * BLOCK
                    /\ \A c \in Cells : c >= a /\ c < m.wrapAddr
                                        => cells[c] = ERASED
              /\ bad' = table /\ wrapAddr' = m.wrapAddr
              /\ Stored(cells, a)
    BY <1>1, RunOutcome, Zenon
  <1>4. PICK m : m = LogManageAddresses(failing)
    OBVIOUS
  <1>5. PICK table : table = bad \cup failing
    OBVIOUS
  <1>6. PICK cells : cells = Wiped(flash, m.erases)
    OBVIOUS
  <1>7. PICK a : a = HandleBadBlock(m.address, table)
    OBVIOUS
  <1>8. /\ b \notin table /\ InBlock(a, b, recorder)
        /\ failing \subseteq LogManageAddresses(failing).tried
        /\ m.wrapAddr = 0 \/ m.wrapAddr = (b + 1) * BLOCK
        /\ bad' = table /\ wrapAddr' = m.wrapAddr /\ Stored(cells, a)
    BY <1>2, <1>3, <1>4, <1>5, <1>6, <1>7, Zenon
  <1>9. a \in Nat /\ a < (b + 1) * BLOCK /\ (b + 1) * BLOCK \in Nat
    <2>1. recorder \in 1 .. PAGE /\ PAGE \in Nat /\ b \in Nat
      BY <1>1, Geometry, BlockSums DEF FlashTypes, Numbers
    <2>2. a \in Nat /\ a + recorder <= (b + 1) * BLOCK
      BY <1>8, <2>1, PlaceBounds
    <2>3. PICK w \in Nat : w = (b + 1) * BLOCK
      BY <1>1, WrapNumbers
    <2>. QED  BY <2>1, <2>2, <2>3
  \* The packet that is written waited, and is newer than the file.
  <1>10. queue # <<>> /\ Head(queue) # GARBAGE => Head(queue) \in Packets /\ Head(queue) > newest
    <2>1. SUFFICES ASSUME queue # <<>>, Head(queue) # GARBAGE
                   PROVE  Head(queue) \in Packets /\ Head(queue) > newest
      OBVIOUS
    <2>2. queue \in Seq(QueueValues)
      BY <1>1, Zenon DEF LogTypes
    <2>3. Head(queue) = queue[1] /\ Len(queue) \in Nat \ {0} /\ queue[1] \in QueueValues
      BY <2>1, <2>2
    <2>4. 1 \in 1 .. Len(queue)
      BY <2>3
    <2>5. Head(queue) \in Packets
      BY <2>1, <2>3, Zenon DEF QueueValues
    <2>. QED  BY <2>3, <2>4, <2>5 DEF LogIsFine, NewerWait
  <1>11. /\ machState' = "CONFIRM" => address' = a
         /\ machState' = "RUN" => address' = a
    BY <1>8, Zenon DEF Stored
  <1>12. PlaceIsTaken'
    BY <1>8, <1>11, Zenon DEF PlaceIsTaken
  <1>13. RoomIsComing'
    BY <1>8, <1>9, <1>11 DEF RoomIsComing
  <1>14. NewerWait'
    <2>1. queue' = queue \/ (queue # <<>> /\ queue' = Tail(queue))
      BY <1>8, Zenon DEF Stored
    <2>2. CASE queue' = queue
      BY <2>2, Zenon DEF LogIsFine, NewerWait
    <2>3. CASE queue # <<>> /\ queue' = Tail(queue)
      <3>1. \A k \in 1 .. Len(Tail(queue)) :
              k + 1 \in 1 .. Len(queue) /\ Tail(queue)[k] = queue[k + 1]
        BY <1>1, <2>3, TailPackets, Zenon DEF LogTypes
      <3>. QED  BY <2>3, <3>1, Zenon DEF LogIsFine, NewerWait
    <2>. QED  BY <2>1, <2>2, <2>3
  \* What is old now was there before the block was erased.
  <1>15. ASSUME NEW c \in OldCells'
         PROVE  /\ c \in Cells /\ Shows(cells, table, c) /\ flash'[c] = cells[c]
                /\ Old(cells[c])
    <2>1. c \in Cells /\ Shows(flash', bad', c) /\ Old(flash'[c])
      BY DEF OldCells, Old
    <2>2. CASE flash' = cells
      BY <1>8, <2>1, <2>2, Zenon
    <2>3. CASE /\ flash' = Written(cells, a, packetSize, Head(queue))
               /\ queue # <<>> /\ Head(queue) # GARBAGE
      <3>1. flash'[c] = IF c \in a .. a + packetSize - 1 THEN Head(queue) ELSE cells[c]
        BY <2>1, <2>3, Zenon DEF Written
      <3>2. flash'[c] # Head(queue)
        <4>1. flash'[c] \in 1 .. newest /\ newest \in Nat
          BY <1>1, <2>1 DEF Old
        <4>2. Head(queue) \in Packets /\ Head(queue) > newest
          BY <1>10, <2>3
        <4>. QED  BY <4>1, <4>2, PacketNumbers
      <3>3. flash'[c] = cells[c]
        BY <3>1, <3>2, Zenon
      <3>. QED  BY <1>8, <2>1, <3>3, Zenon DEF Shows
    <2>. QED  BY <1>8, <2>2, <2>3, Zenon DEF Stored
  <1>16. OldStay
    <2>1. \A c \in Cells : Shows(cells, table, c) => Shows(flash, bad, c) /\ cells[c] = flash[c]
      BY <1>1, <1>2, <1>4, <1>5, <1>6, <1>8, RunCells, Zenon
    <2>2. ASSUME NEW c \in OldCells' PROVE c \in OldCells /\ flash'[c] = flash[c]
      <3>1. /\ c \in Cells /\ Shows(cells, table, c) /\ flash'[c] = cells[c] /\ Old(cells[c])
        BY <1>15
      <3>2. Shows(flash, bad, c) /\ cells[c] = flash[c]
        BY <2>1, <3>1, Zenon
      <3>. QED  BY <3>1, <3>2, Zenon DEF OldCells
    <2>. QED  BY <2>2, Zenon DEF OldStay
  <1>17. \/ \E from, to \in LogBlocks :
              /\ from <= to /\ to \notin table
              /\ \A g \in from .. to - 1 : g \in table
              /\ failing \subseteq from .. to
              /\ m.erases = {to} /\ m.wrapAddr = (to + 1) * BLOCK
              /\ \/ from = 1 /\ \A c \in Cells : ~Behind(wrapAddr, c)
                 \/ wrapAddr # 0 /\ wrapAddr = from * BLOCK
         \/ m.erases = {} /\ failing = {} /\ m.wrapAddr = wrapAddr
    BY <1>1, <1>2, <1>4, <1>5, <1>8, RunBlocks, Zenon
  <1>18. ASSUME NEW from \in LogBlocks, NEW to \in LogBlocks, from <= to,
                \A g \in from .. to - 1 : g \in table,
                m.erases = {to}, m.wrapAddr = (to + 1) * BLOCK,
                \/ from = 1 /\ \A c \in Cells : ~Behind(wrapAddr, c)
                \/ wrapAddr # 0 /\ wrapAddr = from * BLOCK
         PROVE  LogStartsOver \/ WrapMovesOn
    <2>1. /\ from \in Nat /\ to \in Nat /\ to + 1 \in Nat
          /\ from * BLOCK \in Nat /\ to * BLOCK \in Nat
          /\ (to + 1) * BLOCK = to * BLOCK + BLOCK /\ BLOCK \in Nat \ {0}
      BY <1>1, BlockSums, WrapNumbers
    <2>2. wrapAddr' = (to + 1) * BLOCK
      BY <1>8, <1>18
    <2>3. ASSUME NEW c \in OldCells'
          PROVE  /\ c \in Nat /\ c \in Cells
                 /\ c < from * BLOCK \/ (to + 1) * BLOCK <= c
                 /\ from = 1 => (to + 1) * BLOCK <= c
      <3>1. c \in Cells /\ Shows(cells, table, c)
        BY <1>15
      <3>2. BlockOf(c) \notin table /\ cells[c] \in Packets
        BY <3>1, Zenon DEF Shows
      <3>3. BlockOf(c) # to
        <4>1. BlockOf(c) = to => cells[c] = ERASED
          BY <1>6, <1>18, <3>1 DEF Wiped
        <4>. QED  BY <3>2, <4>1, PacketNumbers, Zenon
      <3>4. PICK g \in Nat : g = BlockOf(c) /\ g >= 1 /\ c \in Nat
        BY <3>1, CellFacts, BlockSums DEF LogBlocks
      <3>5. g < from \/ to + 1 <= g
        <4>1. ~(g \in from .. to - 1)
          BY <1>18, <3>2, <3>4, Zenon
        <4>. QED  BY <2>1, <3>3, <3>4, <4>1
      <3>6. g < from => c < from * BLOCK
        BY <2>1, <3>1, <3>4, BlockOrder
      <3>7. to + 1 <= g => (to + 1) * BLOCK <= c
        BY <2>1, <3>1, <3>4, BlockOrder
      <3>8. from = 1 => ~(g < from)
        BY <3>4
      <3>. QED  BY <3>1, <3>4, <3>5, <3>6, <3>7, <3>8
    <2>4. PICK x \in Nat, y \in Nat : x = from * BLOCK /\ y = (to + 1) * BLOCK /\ x < y
      <3>1. from * BLOCK <= to * BLOCK
        BY <1>18, <2>1, Times
      <3>2. PICK z \in Nat : z = to * BLOCK
        BY <2>1
      <3>. QED  BY <2>1, <3>1, <3>2
    <2>5. CASE from = 1 /\ \A c \in Cells : ~Behind(wrapAddr, c)
      <3>1. wrapAddr' # 0
        BY <2>2, <2>4
      <3>. QED  BY <2>2, <2>3, <2>5, <3>1, Zenon DEF LogStartsOver
    <2>6. CASE wrapAddr # 0 /\ wrapAddr = from * BLOCK
      <3>1. wrapAddr = x /\ wrapAddr' = y
        BY <2>2, <2>4, <2>6
      <3>2. ASSUME NEW c \in OldCells', c < wrapAddr' PROVE c < wrapAddr
        BY <2>3, <2>4, <3>1, <3>2
      <3>3. wrapAddr < wrapAddr'
        BY <2>4, <3>1
      <3>. QED  BY <2>6, <3>2, <3>3, Zenon DEF WrapMovesOn
    <2>. QED  BY <1>18, <2>5, <2>6
  <1>19. WrapStays \/ LogStartsOver \/ WrapMovesOn
    BY <1>8, <1>17, <1>18, Zenon DEF WrapStays
  <1>20. ASSUME wrapAddr # 0, address = wrapAddr PROVE LogStartsOver \/ WrapMovesOn
    <2>1. m.erases # {}
      BY <1>4, <1>20 DEF LogManageAddresses
    <2>. QED  BY <1>17, <1>18, <2>1, Zenon
  <1>. QED  BY <1>12, <1>13, <1>14, <1>16, <1>19, <1>20, Zenon

\* The other calls of the log machine, and a packet that comes.
LEMMA LogUnderUpload ==
  ASSUME LogIsFine, LogMachine \/ ReceivePacket, newest' = newest,
         faults' \subseteq Harmless
  PROVE  /\ LogIsFine' /\ OldStay
         /\ WrapStays \/ LogStartsOver \/ WrapMovesOn
  <1>1. /\ LogIInv /\ OrderIInv /\ FlashTypes /\ LogTypes /\ FlagsAgree
        /\ logErase = 3 /\ newest \in 0 .. sent /\ sent \in Nat
        /\ PlaceIsTaken /\ NewerWait /\ RoomIsComing
    BY IInvParts DEF LogIsFine, FlashTypes
  <1>2. Next
    BY Zenon DEF Next
  <1>3. LogIInv' /\ OrderIInv'
    BY <1>1, <1>2, LogStep, OrderStep, Zenon
  <1>. DEFINE Rest == /\ PlaceIsTaken' /\ NewerWait' /\ RoomIsComing'
                      /\ logErase' = 3 /\ newest' \in 0 .. sent'
                      /\ OldStay
                      /\ WrapStays \/ LogStartsOver \/ WrapMovesOn
  \* When the flash stays, all else does.
  <1>4. ASSUME UNCHANGED <<flash, bad, wrapAddr>> PROVE OldStay /\ WrapStays
    BY <1>1, <1>4 DEF OldStay, WrapStays, OldCells, Old
  <1>5. CASE LogMachine
    <2>1. UNCHANGED <<recorder, sent>>
      BY <1>5, Zenon DEF LogMachine
    <2>2. ASSUME Run PROVE Rest
      <3>1. logErase' = 3
        BY <1>1, <2>2, RunParts, Zenon
      <3>. QED  BY <1>1, <2>1, <2>2, <3>1, RunUnderUpload, Zenon
    <2>3. ASSUME Idle PROVE Rest
      <3>1. /\ Len(queue') = Len(queue) /\ UNCHANGED <<flash, bad, wrapAddr, logErase>>
            /\ \A k \in 1 .. Len(queue') : queue'[k] \in Packets => queue'[k] = queue[k]
        BY <1>1, <2>3, IdleQueue, Zenon
      <3>2. machState' = "RUN" /\ wrapAddr = 0
        BY <1>1, <2>3, Zenon DEF Idle, FlagsAgree
      <3>3. NewerWait'
        BY <1>1, <3>1, Zenon DEF NewerWait
      <3>4. PlaceIsTaken' /\ RoomIsComing'
        BY <3>1, <3>2 DEF PlaceIsTaken, RoomIsComing
      <3>. QED  BY <1>1, <1>4, <2>1, <3>1, <3>3, <3>4, Zenon
    <2>4. ASSUME RunErase PROVE Rest
      BY <1>1, <2>4 DEF RunErase
    <2>5. ASSUME RunNothing PROVE Rest
      <3>1. UNCHANGED <<flash, bad, queue, infoVars>>
        BY <2>5 DEF RunNothing
      <3>2. UNCHANGED <<flash, bad, wrapAddr, queue, recorder, sent, logErase, machState,
                        address, logReady>>
        BY <2>1, <3>1 DEF infoVars
      <3>. QED  BY <1>1, <1>4, <3>2, Zenon DEF PlaceIsTaken, NewerWait, RoomIsComing
    <2>6. ASSUME Confirm PROVE Rest
      <3>1. /\ machState = "CONFIRM" /\ machState' = "RUN"
            /\ UNCHANGED <<flash, bad, wrapAddr, queue, logErase, logReady>>
        BY <2>6 DEF Confirm
      <3>2. PlaceIsTaken' /\ RoomIsComing'
        BY <1>1, <3>1 DEF PlaceIsTaken, RoomIsComing, FlagsAgree
      <3>. QED  BY <1>1, <1>4, <2>1, <3>1, <3>2, Zenon DEF NewerWait
    <2>7. ASSUME WriteFail PROVE Rest
      BY <1>1, <2>7, Zenon DEF WriteFail, FlagsAgree
    <2>8. ASSUME Erase PROVE Rest
      BY <1>1, <2>8 DEF Erase, FlagsAgree
    <2>9. Rest
      BY <1>5, <2>2, <2>3, <2>4, <2>5, <2>6, <2>7, <2>8, Zenon DEF LogMachine
    <2>. QED  BY <1>3, <2>9, Zenon DEF LogIsFine
  <1>6. CASE ReceivePacket
    <2>1. /\ sent' = sent + 1 /\ Receive(sent', {})
      BY <1>6 DEF ReceivePacket
    <2>2. PICK p : p = sent'
      OBVIOUS
    <2>3. /\ UNCHANGED <<flash, bad, recorder, address, wrapAddr, logErase, machState>>
          /\ logReady' = TRUE
          /\ queue' = IF Len(queue) < Slots - 1 THEN Append(queue, p) ELSE <<>>
      BY <2>1, <2>2, Zenon DEF Receive
    <2>4. p \in Nat /\ p > newest /\ newest' \in 0 .. sent'
      BY <1>1, <2>1, <2>2
    <2>5. NewerWait'
      <3>1. queue \in Seq(QueueValues)
        BY <1>1, Zenon DEF LogTypes
      <3>2. CASE queue' = Append(queue, p)
        <4>1. ASSUME NEW k \in 1 .. Len(queue'), queue'[k] \in Packets
              PROVE  queue'[k] > newest
          <5>1. CASE k = Len(queue) + 1
            BY <2>4, <3>1, <3>2, <5>1
          <5>2. CASE k # Len(queue) + 1
            <6>1. k \in 1 .. Len(queue) /\ queue'[k] = queue[k]
              BY <3>1, <3>2, <5>2
            <6>. QED  BY <1>1, <4>1, <6>1 DEF NewerWait
          <5>. QED  BY <5>1, <5>2
        <4>. QED  BY <4>1 DEF NewerWait
      <3>3. CASE queue' = <<>>
        BY <3>3 DEF NewerWait
      <3>. QED  BY <2>3, <3>2, <3>3
    <2>6. PlaceIsTaken' /\ RoomIsComing'
      BY <1>1, <2>3, Zenon DEF PlaceIsTaken, RoomIsComing
    <2>7. OldStay /\ WrapStays
      BY <1>4, <2>3, Zenon
    <2>. QED  BY <1>1, <1>3, <2>3, <2>4, <2>5, <2>6, <2>7, Zenon DEF LogIsFine
  <1>. QED  BY <1>5, <1>6

-----------------------------------------------------------------------------
(* The loop of a call.                                                     *)

StartOfGroup ==
    [addr |-> ReadLocation, loc |-> ReadLocation, offset |-> 0, buf |-> <<>>]

IsReading(f, n) ==
    f = [k \in 0 .. n |-> IF k = 0 THEN StartOfGroup ELSE ReadNext(f[k - 1])]

LEMMA OneMore ==
  ASSUME NEW n \in Nat, NEW f, IsReading(f, n)
  PROVE  \E g : IsReading(g, n + 1)
  <1>. DEFINE g == [k \in 0 .. n + 1 |-> IF k = n + 1 THEN ReadNext(f[n]) ELSE f[k]]
  <1>1. ASSUME NEW k \in 0 .. n + 1
        PROVE  g[k] = IF k = 0 THEN StartOfGroup ELSE ReadNext(g[k - 1])
    <2>1. CASE k = n + 1
      <3>1. g[k] = ReadNext(f[n]) /\ k # 0 /\ k - 1 = n /\ n \in 0 .. n + 1 /\ n # n + 1
        BY <2>1
      <3>2. g[n] = f[n]
        BY <3>1
      <3>. QED  BY <3>1, <3>2
    <2>2. CASE k # n + 1
      <3>1. k \in 0 .. n /\ g[k] = f[k]
        BY <2>2
      <3>2. f[k] = IF k = 0 THEN StartOfGroup ELSE ReadNext(f[k - 1])
        BY <3>1, Zenon DEF IsReading
      <3>3. k # 0 => k - 1 \in 0 .. n + 1 /\ k - 1 # n + 1
        BY <2>2
      <3>4. k # 0 => g[k - 1] = f[k - 1]
        BY <3>3
      <3>. QED  BY <3>1, <3>2, <3>4
    <2>. QED  BY <2>1, <2>2
  <1>2. g = [k \in 0 .. n + 1 |-> g[k]]
    OBVIOUS
  <1>. HIDE DEF g
  <1>3. IsReading(g, n + 1)
    BY <1>1, <1>2, Zenon DEF IsReading
  <1>. QED  BY <1>3

\* The recursive function is what its definition says.
LEMMA ReadingSteps ==
  /\ GROUP \in Nat \ {0}
  /\ Reading[0] = StartOfGroup
  /\ \A n \in 0 .. GROUP : n < GROUP => Reading[n + 1] = ReadNext(Reading[n])
  <1>1. GROUP \in Nat \ {0}
    BY UsbUploadAssumption
  <1>. DEFINE S == {n \in 0 .. GROUP : \E f : IsReading(f, n)}
  <1>2. 0 \in S
    <2>. DEFINE f == [k \in 0 .. 0 |-> StartOfGroup]
    <2>1. \A k \in 0 .. 0 : StartOfGroup = IF k = 0 THEN StartOfGroup ELSE ReadNext(f[k - 1])
      OBVIOUS
    <2>2. f = [k \in 0 .. 0 |-> IF k = 0 THEN StartOfGroup ELSE ReadNext(f[k - 1])]
      BY <2>1, Zenon
    <2>. HIDE DEF f
    <2>3. IsReading(f, 0)
      BY <2>2, Zenon DEF IsReading
    <2>. QED  BY <1>1, <2>3
  <1>3. ASSUME NEW n \in S, n < GROUP PROVE n + 1 \in S
    <2>1. n \in Nat /\ n + 1 \in 0 .. GROUP /\ \E f : IsReading(f, n)
      BY <1>1, <1>3
    <2>2. \E f : IsReading(f, n + 1)
      BY <2>1, OneMore, Zenon
    <2>. QED  BY <2>1, <2>2
  <1>4. GROUP \in S
    <2>. HIDE DEF S
    <2>1. \A n \in 0 .. GROUP : n \in S
      BY <1>1, <1>2, <1>3, CountUp, Zenon
    <2>2. GROUP \in 0 .. GROUP
      BY <1>1
    <2>. QED  BY <2>1, <2>2
  <1>5. IsReading(Reading, GROUP)
    <2>1. \E f : IsReading(f, GROUP)
      BY <1>4
    <2>. QED  BY <2>1, Zenon DEF IsReading, Reading, StartOfGroup
  <1>6. \A k \in 0 .. GROUP :
           Reading[k] = IF k = 0 THEN StartOfGroup ELSE ReadNext(Reading[k - 1])
    BY <1>5, Zenon DEF IsReading
  <1>7. Reading[0] = StartOfGroup
    <2>1. 0 \in 0 .. GROUP
      BY <1>1
    <2>. QED  BY <1>6, <2>1, Zenon
  <1>8. ASSUME NEW n \in 0 .. GROUP, n < GROUP PROVE Reading[n + 1] = ReadNext(Reading[n])
    <2>1. PICK k \in 0 .. GROUP : k = n + 1 /\ k # 0 /\ k - 1 = n
      BY <1>1, <1>8
    <2>2. Reading[k] = ReadNext(Reading[k - 1])
      BY <1>6, <2>1, Zenon
    <2>. QED  BY <2>1, <2>2
  <1>. QED  BY <1>1, <1>7, <1>8

-----------------------------------------------------------------------------
(* Reading one packet.                                                     *)

PageFor(a) ==
    IF packetSize = SHORT_PACKET /\ a % PAGE = PAGE_USED
    THEN (a \div PAGE + 1) * PAGE ELSE a

PlaceFor(a) == HandleBadBlock(PageFor(a), bad)

LEMMA PacketIsRead ==
  ASSUME NEW s
  PROVE  LET r == ReadPacket(s)
         IN  /\ r.addr = PlaceFor(s.addr) + packetSize
             /\ \E x : /\ r.buf = Append(s.buf, x)
                       /\ x = Content(PlaceFor(s.addr), packetSize) \/ x = GARBAGE
  BY DEF ReadPacket, PlaceFor, PageFor

\* What is read is one packet of the recorder's size, or garbage.
LEMMA ContentIs ==
  ASSUME LogIInv, NEW a \in Nat, NEW x, x = Content(a, packetSize)
  PROVE  /\ x \in QueueValues
         /\ x \in Packets =>
               packetSize = recorder /\ a \in Cells /\ flash[a] = x
  <1>. DEFINE whole == {p \in Packets : \A c \in a .. a + packetSize - 1 :
                                           c \in Cells /\ flash[c] = p}
  <1>1. x = IF whole # {} /\ packetSize = recorder
            THEN CHOOSE p \in whole : TRUE ELSE GARBAGE
    BY DEF Content
  <1>2. a \in a .. a + packetSize - 1
    <2>1. packetSize \in Nat \ {0}
      BY IInvParts, Geometry DEF LogTypes, FlashTypes, Numbers
    <2>. QED  BY <2>1
  <1>3. \A p \in whole : p \in Packets /\ a \in Cells /\ flash[a] = p
    BY <1>2, Zenon
  <1>4. GARBAGE \notin Packets
    BY PacketNumbers
  <1>. HIDE DEF whole
  <1>5. whole # {} => (CHOOSE p \in whole : TRUE) \in whole
    BY Zenon
  <1>. QED  BY <1>1, <1>3, <1>4, <1>5, Zenon DEF QueueValues

LEMMA PageIsAhead ==
  ASSUME NEW a \in Nat
  PROVE  PageFor(a) \in Nat /\ a <= PageFor(a)
  <1>1. PAGE \in Nat \ {0}
    BY Geometry DEF Numbers
  <1>2. PICK q \in Nat : q = a \div PAGE
    BY <1>1, Division
  <1>3. PICK r \in 0 .. PAGE - 1 : r = a % PAGE
    BY <1>1, Division
  <1>4. PICK y \in Nat : y = q * PAGE
    BY <1>1
  <1>5. a = (a \div PAGE) * PAGE + (a % PAGE)
    BY <1>1, Division
  <1>6. a = y + r
    BY <1>2, <1>3, <1>4, <1>5
  <1>7. (q + 1) * PAGE = y + PAGE
    BY <1>1, <1>4
  <1>8. PageFor(a) = a \/ PageFor(a) = (q + 1) * PAGE
    BY <1>2, Zenon DEF PageFor
  <1>. QED  BY <1>1, <1>3, <1>4, <1>6, <1>7, <1>8

-----------------------------------------------------------------------------
(* The order of the file.                                                  *)

InFileOrder(q) ==
    \A j, k \in 1 .. Len(q) : j < k /\ Old(q[j]) /\ Old(q[k]) => q[j] < q[k]

\* What is old in q was sent before what is in some cells.
Precedes(q, cells) ==
    \A j \in 1 .. Len(q) : Old(q[j]) => \A c \in cells : q[j] < flash[c]

Sound(q, cells) == InFileOrder(q) /\ Precedes(q, cells)

\* The upload of a wrapped log, before it turns to the front end: what is
\* still to be read lies ahead or before the wrap address, where the log has
\* not come past the upload.
ReadsLeft(q, r) ==
    /\ GetFrontEnd /\ wrapAddr # 0
    /\ Sound(q, {c \in OldCells : r <= c \/ c < wrapAddr})
    /\ \A c \in OldCells : c < wrapAddr => c < r

\* The upload of a log that had not wrapped, or that has started over since:
\* all that is old lies behind the wrap address.
ReadsOn(q, r) ==
    /\ ~GetFrontEnd
    /\ Sound(q, {c \in OldCells : r <= c})
    /\ \A c \in OldCells : wrapAddr <= c

\* The front end of a wrapped log: it ends before the wrap address.  When it
\* ends there, the log erases the block behind it before a packet is read.
ReadsFront(q, r) ==
    /\ ~GetFrontEnd /\ wrapAddr # 0
    /\ Sound(q, {c \in OldCells : r <= c /\ c < wrapAddr})
    /\ recorder = SHORT_PACKET => ReadEnd % PAGE <= PAGE_USED
    /\ ReadEnd <= wrapAddr
    /\ ReadEnd = wrapAddr => /\ turn = "log" /\ machState = "RUN" /\ logReady
                             /\ address = wrapAddr

Reads(q, r) == ReadsLeft(q, r) \/ ReadsOn(q, r) \/ ReadsFront(q, r)

LEMMA OldFacts ==
  ASSUME LogIsFine
  PROVE  /\ newest \in Nat
         /\ \A p : Old(p) => p \in Packets /\ p \in Nat
         /\ \A c \in OldCells : /\ c \in Cells /\ c \in Nat
                                /\ Shows(flash, bad, c) /\ Old(flash[c])
                                /\ flash[c] \in Nat
  <1>1. newest \in 0 .. sent /\ sent \in 0 .. MAX_PACKETS /\ MAX_PACKETS \in Nat
    BY IInvParts, PacketNumbers DEF LogIsFine, FlashTypes
  <1>2. \A p : Old(p) => p \in Packets /\ p \in Nat
    BY <1>1 DEF Old, Packets
  <1>. QED  BY <1>1, <1>2, CellFacts DEF OldCells

\* Of two old packets the one that is read behind the other is the newer.
LEMMA LaterIsNewer ==
  ASSUME LogIsFine, NEW c \in OldCells, NEW d \in OldCells,
         \/ c + recorder <= d /\ (wrapAddr <= c \/ d < wrapAddr)
         \/ d < wrapAddr /\ wrapAddr <= c
  PROVE  flash[c] < flash[d]
  <1>1. /\ c \in Cells /\ d \in Cells /\ c \in Nat /\ d \in Nat
        /\ Shows(flash, bad, c) /\ Shows(flash, bad, d)
        /\ flash[c] \in Nat /\ flash[d] \in Nat
    BY OldFacts
  <1>2. /\ LogIInv /\ InOrder(flash, bad, wrapAddr) /\ Whole(flash, bad, recorder)
    BY DEF LogIsFine, OrderIInv, FlashIsSound
  <1>3. wrapAddr \in Nat /\ recorder \in 1 .. PAGE /\ PAGE \in Nat
    BY <1>2, WrapNumbers, IInvParts, Geometry DEF FlashTypes, Numbers
  <1>4. Earlier(wrapAddr, c, d)
    BY <1>1, <1>3 DEF Earlier, Behind
  <1>5. flash[c] <= flash[d]
    BY <1>1, <1>2, <1>4, Zenon DEF InOrder
  <1>6. ASSUME flash[d] = flash[c] PROVE FALSE
    <2>1. PICK b \in LogBlocks, a \in Nat :
            InBlock(a, b, recorder) /\ IsAt(flash, bad, flash[c], a, recorder)
      BY <1>1, <1>2, Zenon DEF Whole
    <2>2. c \in a .. a + recorder - 1 /\ d \in a .. a + recorder - 1
      BY <1>1, <1>6, <2>1, Zenon DEF IsAt
    <2>3. ~(c + recorder <= d)
      BY <1>1, <1>3, <2>2
    <2>4. d < wrapAddr /\ wrapAddr <= c
      BY <2>3
    <2>5. PICK g \in LogBlocks : wrapAddr = (g + 1) * BLOCK
      <3>1. wrapAddr # 0
        BY <1>1, <2>4
      <3>. QED  BY <1>2, <3>1, IInvParts, Zenon DEF PlaceIsGood, ErasedToWrap
    <2>6. BlockOf(c) = b /\ BlockOf(d) = b
      BY <1>3, <2>1, <2>2, PlaceCells
    <2>7. b \in Nat /\ g + 1 \in Nat
      BY BlockSums
    <2>8. CASE b < g + 1
      <3>1. c < (g + 1) * BLOCK
        BY <1>1, <2>6, <2>7, <2>8, BlockOrder
      <3>. QED  BY <1>1, <1>3, <2>4, <2>5, <3>1
    <2>9. CASE g + 1 <= b
      <3>1. (g + 1) * BLOCK <= d
        BY <1>1, <2>6, <2>7, <2>9, BlockOrder
      <3>. QED  BY <1>1, <1>3, <2>4, <2>5, <3>1
    <2>. QED  BY <2>7, <2>8, <2>9
  <1>. QED  BY <1>1, <1>5, <1>6

\* A record behind the others keeps their order when it is no old packet, or
\* comes from a cell they precede and precedes those that are left.
LEMMA AppendInOrder ==
  ASSUME LogIsFine, NEW q \in Seq(QueueValues), NEW x \in QueueValues,
         NEW from, NEW to, to \subseteq from, Sound(q, from),
         Old(x) => (\E c \in from : flash[c] = x) /\ (\A d \in to : x < flash[d])
  PROVE  Sound(Append(q, x), to)
  <1>1. /\ Len(q) \in Nat /\ Len(Append(q, x)) = Len(q) + 1
        /\ Append(q, x)[Len(q) + 1] = x
        /\ \A k \in 1 .. Len(q) : Append(q, x)[k] = q[k]
    BY AppendProperties
  <1>2. PICK y : y = Append(q, x)
    OBVIOUS
  <1>3. \A k \in 1 .. Len(y) :
           \/ k \in 1 .. Len(q) /\ y[k] = q[k]
           \/ k = Len(q) + 1 /\ y[k] = x
    BY <1>1, <1>2
  <1>4. ASSUME NEW j \in 1 .. Len(y), NEW k \in 1 .. Len(y), j < k, Old(y[j]), Old(y[k])
        PROVE  y[j] < y[k]
    <2>1. j \in 1 .. Len(q) /\ y[j] = q[j]
      BY <1>1, <1>2, <1>3, <1>4
    <2>2. CASE k \in 1 .. Len(q) /\ y[k] = q[k]
      BY <1>4, <2>1, <2>2, Zenon DEF Sound, InFileOrder
    <2>3. CASE k = Len(q) + 1 /\ y[k] = x
      <3>1. PICK c \in from : flash[c] = x
        BY <1>4, <2>3
      <3>2. q[j] < flash[c]
        BY <1>4, <2>1, <3>1, Zenon DEF Sound, Precedes
      <3>. QED  BY <2>1, <2>3, <3>1, <3>2
    <2>. QED  BY <1>3, <2>2, <2>3
  <1>5. ASSUME NEW j \in 1 .. Len(y), Old(y[j]), NEW c \in to PROVE y[j] < flash[c]
    <2>1. CASE j \in 1 .. Len(q) /\ y[j] = q[j]
      <3>1. c \in from
        BY Zenon
      <3>. QED  BY <1>5, <2>1, <3>1, Zenon DEF Sound, Precedes
    <2>2. CASE j = Len(q) + 1 /\ y[j] = x
      BY <1>5, <2>2, Zenon
    <2>. QED  BY <1>3, <2>1, <2>2
  <1>6. Sound(y, to)
    BY <1>4, <1>5, Zenon DEF Sound, InFileOrder, Precedes
  <1>. QED  BY <1>2, <1>6

\* A prefix of a file in order is in order.
LEMMA PrefixInOrder ==
  ASSUME NEW q \in Seq(QueueValues), NEW n \in Nat, n <= Len(q), NEW cells, Sound(q, cells)
  PROVE  SubSeq(q, 1, n) \in Seq(QueueValues) /\ Sound(SubSeq(q, 1, n), cells)
  <1>1. PICK y : y = SubSeq(q, 1, n)
    OBVIOUS
  <1>2. Len(y) = n /\ y \in Seq(QueueValues) /\ \A k \in 1 .. n : y[k] = q[k]
    BY <1>1
  <1>3. \A k \in 1 .. Len(y) : k \in 1 .. Len(q) /\ y[k] = q[k]
    BY <1>2
  <1>4. Sound(y, cells)
    BY <1>3, Zenon DEF Sound, InFileOrder, Precedes
  <1>. QED  BY <1>1, <1>2, <1>4

\* In the front end no packet is read behind the wrap address.
LEMMA FrontPlace ==
  ASSUME LogIsFine, NEW a \in Nat, ReadEnd \in Nat, a < ReadEnd, ReadEnd < wrapAddr,
         packetSize = recorder, recorder = SHORT_PACKET => ReadEnd % PAGE <= PAGE_USED
  PROVE  PlaceFor(a) < wrapAddr
  <1>1. LogIInv /\ wrapAddr \in Nat /\ wrapAddr # 0 /\ PAGE \in Nat \ {0}
    BY WrapNumbers, Geometry DEF LogIsFine, Numbers
  <1>2. PageFor(a) <= ReadEnd
    <2>1. CASE packetSize = SHORT_PACKET /\ a % PAGE = PAGE_USED
      <3>1. PICK q \in Nat : q = a \div PAGE
        BY <1>1, Division
      <3>2. PICK u \in 0 .. PAGE - 1 : u = PAGE_USED
        BY <1>1, <2>1, Division
      <3>3. PICK y \in Nat : y = q * PAGE
        BY <1>1
      <3>4. a = (a \div PAGE) * PAGE + (a % PAGE)
        BY <1>1, Division
      <3>5. a = y + u
        BY <2>1, <3>1, <3>2, <3>3, <3>4
      <3>6. (q + 1) * PAGE = y + PAGE
        BY <1>1, <3>3
      <3>7. ASSUME ReadEnd < y + PAGE PROVE FALSE
        <4>1. PICK r \in 0 .. PAGE - 1 : ReadEnd = y + r
          <5>1. ReadEnd - y \in 0 .. PAGE - 1 /\ ReadEnd = y + (ReadEnd - y)
            BY <1>1, <3>5, <3>7
          <5>. QED  BY <5>1
        <4>2. (q * PAGE + r) % PAGE = r
          BY <1>1, Quotient
        <4>3. ReadEnd % PAGE = r
          BY <3>3, <4>1, <4>2
        <4>4. r <= u
          BY <2>1, <3>2, <4>3
        <4>. QED  BY <3>5, <4>1, <4>4
      <3>8. PageFor(a) = (q + 1) * PAGE
        BY <2>1, <3>1 DEF PageFor
      <3>. QED  BY <1>1, <3>6, <3>7, <3>8
    <2>2. CASE ~(packetSize = SHORT_PACKET /\ a % PAGE = PAGE_USED)
      BY <2>2 DEF PageFor
    <2>. QED  BY <2>1, <2>2
  <1>3. PageFor(a) \in Nat /\ PageFor(a) < wrapAddr
    BY <1>1, <1>2, PageIsAhead
  <1>4. PICK b \in LogBlocks \ bad : wrapAddr = (b + 1) * BLOCK
    BY <1>1, IInvParts, Zenon DEF PlaceIsGood, ErasedToWrap
  <1>5. wrapAddr - 1 \in Cells /\ BlockOf(wrapAddr - 1) = b
    <2>1. /\ b \in Nat /\ BLOCK <= b * BLOCK /\ b * BLOCK \in Nat
          /\ (b + 1) * BLOCK = b * BLOCK + BLOCK
          /\ (b + 1) * BLOCK <= DEVICE /\ DEVICE \in Nat /\ BLOCK \in Nat \ {0}
      BY <1>1, BlockSums, WrapNumbers
    <2>2. PICK x \in Nat : x = b * BLOCK
      BY <2>1
    <2>3. PICK c \in Nat : c = wrapAddr - 1
      BY <1>1
    <2>4. x <= c /\ c < x + BLOCK /\ c < DEVICE /\ BLOCK <= c
      BY <1>4, <2>1, <2>2, <2>3
    <2>5. BlockOf(c) = b
      BY <2>1, <2>2, <2>4, CellOfBlock
    <2>6. c \in Cells
      BY <2>1, <2>4 DEF Cells, RDU_LOG_ADDR_START
    <2>. QED  BY <2>3, <2>5, <2>6
  <1>6. PlaceFor(a) \in Nat /\ PlaceFor(a) <= wrapAddr - 1
    <2>1. PICK c \in Cells : c = wrapAddr - 1 /\ BlockOf(c) \notin bad
      BY <1>4, <1>5
    <2>2. PageFor(a) <= c
      BY <1>1, <1>3, <2>1
    <2>3. PlaceFor(a) \in Nat /\ PlaceFor(a) <= c
      BY <1>1, <1>3, <2>1, <2>2, GoodPlace DEF PlaceFor
    <2>. QED  BY <2>1, <2>3
  <1>. QED  BY <1>1, <1>6

\* One turn of the loop leaves the order as it was, with the packet.
LEMMA ReadStep ==
  ASSUME LogIsFine, turn = "usb", ReadEnd \in Nat,
         NEW q \in Seq(QueueValues), NEW a \in Nat, a < ReadEnd, Reads(q, a),
         NEW x, x = Content(PlaceFor(a), packetSize) \/ x = GARBAGE
  PROVE  /\ x \in QueueValues
         /\ PlaceFor(a) + packetSize \in Nat
         /\ Reads(Append(q, x), PlaceFor(a) + packetSize)
  <1>1. LogIInv /\ packetSize \in Nat \ {0} /\ wrapAddr \in Nat
    BY IInvParts, WrapNumbers, Geometry DEF LogIsFine, LogTypes, FlashTypes, Numbers
  <1>2. PICK at \in Nat : at = PlaceFor(a) /\ a <= at /\ BlockOf(at) \notin bad
    <2>1. PageFor(a) \in Nat /\ a <= PageFor(a)
      BY PageIsAhead
    <2>2. /\ PlaceFor(a) \in Nat /\ PageFor(a) <= PlaceFor(a)
          /\ BlockOf(PlaceFor(a)) \notin bad
      BY <1>1, <2>1, GoodPlace DEF PlaceFor
    <2>. QED  BY <2>1, <2>2
  <1>3. PICK r \in Nat : r = at + packetSize
    BY <1>1
  <1>4. x \in QueueValues
    BY <1>1, <1>2, ContentIs, Zenon DEF QueueValues
  <1>5. Old(x) => packetSize = recorder /\ at \in OldCells /\ flash[at] = x
    <2>1. SUFFICES ASSUME Old(x)
                   PROVE  packetSize = recorder /\ at \in OldCells /\ flash[at] = x
      OBVIOUS
    <2>2. x \in Packets
      BY <2>1, OldFacts
    <2>3. x = Content(at, packetSize)
      BY <1>2, <2>2, PacketNumbers
    <2>4. packetSize = recorder /\ at \in Cells /\ flash[at] = x
      BY <1>1, <2>2, <2>3, ContentIs, Zenon
    <2>. QED  BY <1>2, <2>1, <2>2, <2>4 DEF OldCells, Shows
  <1>6. \A c \in OldCells : c \in Nat
    BY OldFacts
  <1>7. CASE ReadsLeft(q, a)
    <2>. DEFINE from == {c \in OldCells : a <= c \/ c < wrapAddr}
                to   == {c \in OldCells : r <= c \/ c < wrapAddr}
    <2>1. Sound(q, from) /\ GetFrontEnd /\ wrapAddr # 0
          /\ \A c \in OldCells : c < wrapAddr => c < a
      BY <1>7, Zenon DEF ReadsLeft
    <2>2. to \subseteq from
      BY <1>1, <1>2, <1>3, <1>6
    <2>3. ASSUME Old(x) PROVE (\E c \in from : flash[c] = x) /\ (\A d \in to : x < flash[d])
      <3>1. at \in OldCells /\ flash[at] = x /\ packetSize = recorder
        BY <1>5, <2>3
      <3>2. at \in from /\ wrapAddr <= at
        BY <1>1, <1>2, <2>1, <3>1
      <3>3. ASSUME NEW d \in to PROVE x < flash[d]
        <4>1. d \in OldCells /\ d \in Nat /\ (at + recorder <= d \/ d < wrapAddr)
          BY <1>3, <1>6, <3>1
        <4>. QED  BY <3>1, <3>2, <4>1, LaterIsNewer
      <3>. QED  BY <3>1, <3>2, <3>3
    <2>4. Sound(Append(q, x), to)
      <3>. HIDE DEF from, to
      <3>. QED  BY <1>4, <2>1, <2>2, <2>3, AppendInOrder, Zenon
    <2>5. \A c \in OldCells : c < wrapAddr => c < r
      BY <1>1, <1>2, <1>3, <1>6, <2>1
    <2>6. ReadsLeft(Append(q, x), r)
      BY <2>1, <2>4, <2>5, Zenon DEF ReadsLeft
    <2>. QED  BY <1>2, <1>3, <1>4, <2>6, Zenon DEF Reads
  <1>8. CASE ReadsOn(q, a)
    <2>. DEFINE from == {c \in OldCells : a <= c}
                to   == {c \in OldCells : r <= c}
    <2>1. Sound(q, from) /\ ~GetFrontEnd /\ \A c \in OldCells : wrapAddr <= c
      BY <1>8, Zenon DEF ReadsOn
    <2>2. to \subseteq from
      BY <1>1, <1>2, <1>3, <1>6
    <2>3. ASSUME Old(x) PROVE (\E c \in from : flash[c] = x) /\ (\A d \in to : x < flash[d])
      <3>1. at \in OldCells /\ flash[at] = x /\ packetSize = recorder
        BY <1>5, <2>3
      <3>2. at \in from /\ wrapAddr <= at
        BY <1>2, <2>1, <3>1
      <3>3. ASSUME NEW d \in to PROVE x < flash[d]
        <4>1. d \in OldCells /\ at + recorder <= d
          BY <1>3, <3>1
        <4>. QED  BY <3>1, <3>2, <4>1, LaterIsNewer
      <3>. QED  BY <3>1, <3>2, <3>3
    <2>4. Sound(Append(q, x), to)
      <3>. HIDE DEF from, to
      <3>. QED  BY <1>4, <2>1, <2>2, <2>3, AppendInOrder, Zenon
    <2>5. ReadsOn(Append(q, x), r)
      BY <2>1, <2>4, Zenon DEF ReadsOn
    <2>. QED  BY <1>2, <1>3, <1>4, <2>5, Zenon DEF Reads
  <1>9. CASE ReadsFront(q, a)
    <2>. DEFINE from == {c \in OldCells : a <= c /\ c < wrapAddr}
                to   == {c \in OldCells : r <= c /\ c < wrapAddr}
                Ends == /\ recorder = SHORT_PACKET => ReadEnd % PAGE <= PAGE_USED
                        /\ ReadEnd <= wrapAddr
                        /\ ReadEnd = wrapAddr => /\ turn = "log" /\ machState = "RUN"
                                                 /\ logReady /\ address = wrapAddr
    <2>1. Sound(q, from) /\ ~GetFrontEnd /\ wrapAddr # 0 /\ Ends
      BY <1>9, Zenon DEF ReadsFront
    <2>2. to \subseteq from
      BY <1>1, <1>2, <1>3, <1>6
    <2>3. ASSUME Old(x) PROVE (\E c \in from : flash[c] = x) /\ (\A d \in to : x < flash[d])
      <3>1. at \in OldCells /\ flash[at] = x /\ packetSize = recorder
        BY <1>5, <2>3
      <3>2. ReadEnd < wrapAddr
        BY <1>1, <2>1
      <3>3. at < wrapAddr
        BY <1>2, <2>1, <3>1, <3>2, FrontPlace
      <3>4. ASSUME NEW d \in to PROVE x < flash[d]
        <4>1. d \in OldCells /\ at + recorder <= d /\ d < wrapAddr
          BY <1>3, <3>1
        <4>. QED  BY <3>1, <4>1, LaterIsNewer
      <3>. QED  BY <1>2, <3>1, <3>3, <3>4
    <2>4. Sound(Append(q, x), to)
      <3>. HIDE DEF from, to
      <3>. QED  BY <1>4, <2>1, <2>2, <2>3, AppendInOrder, Zenon
    <2>5. ReadsFront(Append(q, x), r)
      BY <2>1, <2>4, Zenon DEF ReadsFront
    <2>. QED  BY <1>2, <1>3, <1>4, <2>5, Zenon DEF Reads
  <1>. QED  BY <1>7, <1>8, <1>9 DEF Reads

LEMMA AppendToBoth ==
  ASSUME NEW q \in Seq(QueueValues), NEW t \in Seq(QueueValues), NEW x \in QueueValues
  PROVE  Append(t, x) \in Seq(QueueValues) /\ Append(q \o t, x) = q \o Append(t, x)
  <1>1. /\ <<x>> \in Seq(QueueValues) /\ Append(t, x) \in Seq(QueueValues)
        /\ q \o t \in Seq(QueueValues)
    BY AppendProperties, ConcatProperties
  <1>2. Append(t, x) = t \o <<x>> /\ Append(q \o t, x) = (q \o t) \o <<x>>
    BY <1>1, AppendIsConcat
  <1>3. (q \o t) \o <<x>> = q \o (t \o <<x>>)
    BY <1>1, ConcatAssociative
  <1>. QED  BY <1>1, <1>2, <1>3, Zenon

\* What a call has read so far, behind what the file has already.
Carries(s) ==
    /\ s.addr \in Nat /\ s.buf \in Seq(QueueValues)
    /\ Reads(file \o s.buf, s.addr)

LEMMA GroupIsRead ==
  ASSUME LogIsFine, turn = "usb", ReadEnd \in Nat, ReadLocation \in Nat,
         file \in Seq(QueueValues), Reads(file, ReadLocation)
  PROVE  Carries(Group)
  <1>. DEFINE S == {n \in 0 .. GROUP : Carries(Reading[n])}
  <1>1. GROUP \in Nat /\ 0 \in 0 .. GROUP /\ GROUP \in 0 .. GROUP
    BY ReadingSteps
  <1>2. 0 \in S
    <2>1. PICK s : s = Reading[0]
      OBVIOUS
    <2>2. s.addr = ReadLocation /\ s.buf = <<>>
      BY <2>1, ReadingSteps DEF StartOfGroup
    <2>3. file \o <<>> = file /\ <<>> \in Seq(QueueValues)
      BY ConcatEmptySeq
    <2>4. Carries(s)
      BY <2>2, <2>3, Zenon DEF Carries
    <2>. QED  BY <1>1, <2>1, <2>4
  <1>3. ASSUME NEW n \in S, n < GROUP PROVE n + 1 \in S
    <2>1. PICK s : s = Reading[n]
      OBVIOUS
    <2>2. n \in 0 .. GROUP /\ n + 1 \in 0 .. GROUP /\ Carries(s)
      BY <1>1, <1>3, <2>1
    <2>3. Reading[n + 1] = ReadNext(s)
      BY <1>3, <2>1, <2>2, ReadingSteps, Zenon
    <2>4. CASE s.addr < ReadEnd
      <3>1. PICK x : /\ ReadPacket(s).addr = PlaceFor(s.addr) + packetSize
                     /\ ReadPacket(s).buf = Append(s.buf, x)
                     /\ x = Content(PlaceFor(s.addr), packetSize) \/ x = GARBAGE
        BY PacketIsRead
      <3>2. /\ s.addr \in Nat /\ s.buf \in Seq(QueueValues)
            /\ file \o s.buf \in Seq(QueueValues)
            /\ Reads(file \o s.buf, s.addr)
        BY <2>2, ConcatProperties DEF Carries
      <3>3. /\ x \in QueueValues /\ PlaceFor(s.addr) + packetSize \in Nat
            /\ Reads(Append(file \o s.buf, x), PlaceFor(s.addr) + packetSize)
        BY <2>4, <3>1, <3>2, ReadStep, Zenon
      <3>4. /\ Append(s.buf, x) \in Seq(QueueValues)
            /\ Append(file \o s.buf, x) = file \o Append(s.buf, x)
        <4>1. PICK t \in Seq(QueueValues) : t = s.buf
          BY <3>2
        <4>. QED  BY <3>3, <4>1, AppendToBoth
      <3>5. Carries(ReadPacket(s))
        BY <3>1, <3>3, <3>4, Zenon DEF Carries
      <3>. QED  BY <2>2, <2>3, <2>4, <3>5, Zenon DEF ReadNext
    <2>5. CASE ~(s.addr < ReadEnd)
      BY <2>2, <2>3, <2>5, Zenon DEF ReadNext
    <2>. QED  BY <2>4, <2>5
  <1>4. GROUP \in S
    <2>1. \A n \in 0 .. GROUP : n \in S
      <3>. HIDE DEF S
      <3>. QED  BY <1>1, <1>2, <1>3, CountUp, Zenon
    <2>. QED  BY <1>1, <2>1, Zenon
  <1>. QED  BY <1>4, Zenon DEF Group

-----------------------------------------------------------------------------
(* The log goes on between two calls of the upload.                        *)

\* The end of the front end and the log: at the wrap address the next call of
\* the log machine goes on.
EndsInLog ==
    /\ recorder = SHORT_PACKET => ReadEnd % PAGE <= PAGE_USED
    /\ ReadEnd <= wrapAddr
    /\ ReadEnd = wrapAddr => /\ turn = "log" /\ machState = "RUN" /\ logReady
                             /\ address = wrapAddr

\* A file that was in order before old packets is so before what is left of
\* them.
LEMMA SoundStays ==
  ASSUME OldStay, newest' = newest, file' = file, NEW from, NEW to,
         to \subseteq from, to \subseteq OldCells', Sound(file, from)
  PROVE  Sound(file, to)'
  <1>1. InFileOrder(file) /\ Precedes(file, from)
    BY DEF Sound
  <1>2. InFileOrder(file)'
    BY <1>1 DEF InFileOrder, Old
  <1>3. ASSUME NEW j \in 1 .. Len(file), Old(file[j]), NEW c \in to
        PROVE  file[j] < flash'[c]
    <2>1. c \in OldCells' /\ c \in from
      BY Zenon
    <2>2. flash'[c] = flash[c]
      BY <2>1, Zenon DEF OldStay
    <2>3. file[j] < flash[c]
      BY <1>1, <1>3, <2>1, Zenon DEF Precedes
    <2>. QED  BY <2>2, <2>3
  <1>4. Precedes(file, to)'
    BY <1>3, Zenon DEF Old, Precedes
  <1>. QED  BY <1>2, <1>4, Zenon DEF Sound

LEMMA ReadsUnderLog ==
  ASSUME LogIsFine, LogIsFine', OldStay, newest' = newest, recorder' = recorder,
         UNCHANGED <<file, ReadLocation, ReadEnd, GetFrontEnd>>,
         ReadLocation \in Nat, ReadEnd \in Nat, Reads(file, ReadLocation),
         WrapStays \/ LogStartsOver \/ WrapMovesOn,
         ReadEnd = wrapAddr /\ EndsInLog => EndsInLog' \/ LogStartsOver \/ WrapMovesOn
  PROVE  Reads(file, ReadLocation)'
  <1>1. wrapAddr \in Nat /\ wrapAddr' \in Nat
    <2>1. (LogIInv => wrapAddr \in Nat) /\ (LogIInv => wrapAddr \in Nat)'
      BY WrapNumbers, PTL
    <2>. QED  BY <2>1 DEF LogIsFine
  <1>2. OldCells' \subseteq OldCells /\ \A c \in OldCells : c \in Nat /\ c \in Cells
    BY OldFacts DEF OldStay
  <1>3. PICK w : w = wrapAddr'
    OBVIOUS
  <1>4. PICK r \in Nat : r = ReadLocation /\ r = ReadLocation'
    OBVIOUS
  <1>5. CASE ReadsLeft(file, ReadLocation)
    <2>1. PICK from : from = {c \in OldCells : r <= c \/ c < wrapAddr}
      OBVIOUS
    <2>2. PICK to : to = {c \in OldCells' : r <= c \/ c < w}
      OBVIOUS
    <2>3. GetFrontEnd /\ wrapAddr # 0 /\ Sound(file, from)
          /\ \A c \in OldCells : c < wrapAddr => c < r
      BY <1>4, <1>5, <2>1, Zenon DEF ReadsLeft
    <2>4. w # 0 /\ \A c \in OldCells' : c < w => c < wrapAddr
      <3>1. CASE WrapStays
        BY <1>3, <2>3, <3>1 DEF WrapStays
      <3>2. CASE LogStartsOver
        BY <1>1, <1>2, <1>3, <3>2 DEF LogStartsOver
      <3>3. CASE WrapMovesOn
        BY <1>1, <1>3, <3>3 DEF WrapMovesOn
      <3>. QED  BY <3>1, <3>2, <3>3
    <2>5. to \subseteq from /\ to \subseteq OldCells'
      BY <1>2, <2>1, <2>2, <2>4
    <2>6. Sound(file, to)'
      BY <2>3, <2>5, SoundStays, Zenon
    <2>7. \A c \in OldCells' : c < w => c < r
      BY <1>2, <2>3, <2>4
    <2>8. ReadsLeft(file, ReadLocation)'
      BY <1>3, <1>4, <2>2, <2>3, <2>4, <2>6, <2>7, Zenon DEF ReadsLeft
    <2>. QED  BY <2>8, Zenon DEF Reads
  <1>6. CASE ReadsOn(file, ReadLocation)
    <2>1. PICK from : from = {c \in OldCells : r <= c}
      OBVIOUS
    <2>2. PICK to : to = {c \in OldCells' : r <= c}
      OBVIOUS
    <2>3. ~GetFrontEnd /\ Sound(file, from) /\ \A c \in OldCells : wrapAddr <= c
      BY <1>4, <1>6, <2>1, Zenon DEF ReadsOn
    <2>4. \A c \in OldCells' : w <= c
      <3>1. CASE WrapStays
        BY <1>2, <1>3, <2>3, <3>1 DEF WrapStays
      <3>2. CASE LogStartsOver
        BY <1>3, <3>2 DEF LogStartsOver
      <3>3. CASE WrapMovesOn
        BY <1>1, <1>2, <1>3, <2>3, <3>3 DEF WrapMovesOn
      <3>. QED  BY <3>1, <3>2, <3>3
    <2>5. to \subseteq from /\ to \subseteq OldCells'
      BY <1>2, <2>1, <2>2
    <2>6. Sound(file, to)'
      BY <2>3, <2>5, SoundStays, Zenon
    <2>7. ReadsOn(file, ReadLocation)'
      BY <1>3, <1>4, <2>2, <2>3, <2>4, <2>6, Zenon DEF ReadsOn
    <2>. QED  BY <2>7, Zenon DEF Reads
  <1>7. CASE ReadsFront(file, ReadLocation)
    <2>1. PICK from : from = {c \in OldCells : r <= c /\ c < wrapAddr}
      OBVIOUS
    <2>2. ~GetFrontEnd /\ wrapAddr # 0 /\ Sound(file, from) /\ EndsInLog
      BY <1>4, <1>7, <2>1, Zenon DEF ReadsFront, EndsInLog
    <2>3. CASE LogStartsOver
      <3>1. PICK to : to = {c \in OldCells' : r <= c}
        OBVIOUS
      <3>2. \A c \in OldCells : c < wrapAddr
        BY <1>1, <1>2, <2>2, <2>3 DEF LogStartsOver, Behind
      <3>3. to \subseteq from /\ to \subseteq OldCells'
        BY <1>2, <2>1, <3>1, <3>2
      <3>4. Sound(file, to)'
        BY <2>2, <3>3, SoundStays, Zenon
      <3>5. \A c \in OldCells' : w <= c
        BY <1>3, <2>3 DEF LogStartsOver
      <3>6. ReadsOn(file, ReadLocation)'
        BY <1>3, <1>4, <2>2, <3>1, <3>4, <3>5, Zenon DEF ReadsOn
      <3>. QED  BY <3>6, Zenon DEF Reads
    <2>4. CASE ~LogStartsOver
      <3>1. PICK to : to = {c \in OldCells' : r <= c /\ c < w}
        OBVIOUS
      <3>2. w # 0 /\ \A c \in OldCells' : c < w => c < wrapAddr
        <4>1. CASE WrapStays
          BY <1>3, <2>2, <4>1 DEF WrapStays
        <4>2. CASE WrapMovesOn
          BY <1>1, <1>3, <4>2 DEF WrapMovesOn
        <4>. QED  BY <2>4, <4>1, <4>2
      <3>3. to \subseteq from /\ to \subseteq OldCells'
        BY <1>2, <2>1, <3>1, <3>2
      <3>4. Sound(file, to)'
        BY <2>2, <3>3, SoundStays, Zenon
      <3>5. EndsInLog'
        <4>1. CASE ~WrapMovesOn /\ ReadEnd = wrapAddr
          BY <2>2, <2>4, <4>1
        <4>2. CASE WrapStays /\ ReadEnd # wrapAddr
          BY <2>2, <4>2 DEF EndsInLog, WrapStays
        <4>3. CASE WrapMovesOn
          BY <1>1, <2>2, <4>3 DEF EndsInLog, WrapMovesOn
        <4>. QED  BY <2>4, <4>1, <4>2, <4>3
      <3>6. ReadsFront(file, ReadLocation)'
        BY <1>3, <1>4, <2>2, <3>1, <3>2, <3>4, <3>5, Zenon
           DEF ReadsFront, EndsInLog
      <3>. QED  BY <3>6, Zenon DEF Reads
    <2>. QED  BY <2>3, <2>4
  <1>. QED  BY <1>5, <1>6, <1>7, Zenon DEF Reads

-----------------------------------------------------------------------------
(* The calls of the upload.                                                *)

\* A short packet has its place before the unused rest of a page.
LEMMA PlaceInPage ==
  ASSUME NEW b \in LogBlocks, NEW a, InBlock(a, b, SHORT_PACKET)
  PROVE  a % PAGE <= PAGE_USED
  <1>1. /\ PAGE \in Nat \ {0} /\ SHORT_PACKET \in Nat \ {0} /\ b \in Nat
        /\ PAGE_USED = (PAGE \div SHORT_PACKET) * SHORT_PACKET
    <2>1. PAGE \in Nat \ {0} /\ SHORT_PACKET \in 1 .. PAGE
      BY Geometry DEF Numbers
    <2>2. b \in Nat
      BY BlockSums
    <2>3. PAGE_USED = (PAGE \div SHORT_PACKET) * SHORT_PACKET
      BY Geometry
    <2>. QED  BY <2>1, <2>2, <2>3
  <1>2. PICK n \in Nat \ {0} : BLOCK = n * PAGE
    BY Geometry
  <1>3. PICK j \in Nat, k \in Nat : /\ (k + 1) * SHORT_PACKET <= PAGE
                                   /\ a = b * BLOCK + j * PAGE + k * SHORT_PACKET
    BY DEF InBlock
  <1>4. PICK r \in Nat : r = k * SHORT_PACKET
    BY <1>1
  <1>5. (k + 1) * SHORT_PACKET = r + SHORT_PACKET
    BY <1>1, <1>4
  <1>6. a % PAGE = r
    <2>1. PICK q \in Nat : q = b * n + j
      <3>1. b * n \in Nat
        BY <1>1
      <3>. QED  BY <3>1
    <2>2. q * PAGE = b * BLOCK + j * PAGE
      <3>1. q * PAGE = (b * n) * PAGE + j * PAGE
        BY <1>1, <2>1
      <3>2. (b * n) * PAGE = b * (n * PAGE)
        BY <1>1
      <3>. QED  BY <1>2, <3>1, <3>2
    <2>3. r \in 0 .. PAGE - 1
      BY <1>1, <1>3, <1>5
    <2>4. (q * PAGE + r) % PAGE = r
      BY <1>1, <2>1, <2>3, Quotient
    <2>. QED  BY <1>3, <1>4, <2>2, <2>4
  <1>7. PICK q \in Nat : q = PAGE \div SHORT_PACKET
    BY <1>1, Division
  <1>8. PICK z \in 0 .. SHORT_PACKET - 1 : PAGE = q * SHORT_PACKET + z
    <2>1. /\ PAGE % SHORT_PACKET \in 0 .. SHORT_PACKET - 1
          /\ PAGE = (PAGE \div SHORT_PACKET) * SHORT_PACKET + (PAGE % SHORT_PACKET)
      BY <1>1, Division
    <2>. QED  BY <1>7, <2>1
  <1>9. k <= q
    <2>1. SUFFICES ASSUME q + 1 <= k PROVE FALSE
      BY <1>7
    <2>2. (q + 1) * SHORT_PACKET <= k * SHORT_PACKET
      BY <1>1, <2>1, Times
    <2>3. PICK y \in Nat : y = q * SHORT_PACKET
      BY <1>1
    <2>4. (q + 1) * SHORT_PACKET = y + SHORT_PACKET
      BY <1>1, <2>3
    <2>. QED  BY <1>1, <1>3, <1>4, <1>5, <1>8, <2>2, <2>3, <2>4
  <1>10. k * SHORT_PACKET <= q * SHORT_PACKET
    BY <1>1, <1>9, Times
  <1>. QED  BY <1>1, <1>4, <1>6, <1>7, <1>10

\* The log has its next place before the unused rest of a page, too.
LEMMA AddressInPage ==
  ASSUME LogIsFine, machState \in {"RUN", "CONFIRM"}, recorder = SHORT_PACKET
  PROVE  address % PAGE <= PAGE_USED
  <1>1. CASE address = DEVICE
    <2>1. /\ PAGE \in Nat \ {0} /\ LAST_BLOCK \in Nat /\ SHORT_PACKET \in Nat \ {0}
          /\ PAGE_USED = (PAGE \div SHORT_PACKET) * SHORT_PACKET
          /\ DEVICE = (LAST_BLOCK + 1) * BLOCK
      <3>1. PAGE \in Nat \ {0} /\ LAST_BLOCK \in Nat \ {0} /\ SHORT_PACKET \in 1 .. PAGE
        BY Geometry DEF Numbers
      <3>. QED  BY <3>1, Geometry, BlockSums
    <2>2. PICK n \in Nat \ {0} : BLOCK = n * PAGE
      BY Geometry
    <2>3. PICK q \in Nat : q = (LAST_BLOCK + 1) * n
      BY <2>1
    <2>4. DEVICE = q * PAGE
      <3>1. ((LAST_BLOCK + 1) * n) * PAGE = (LAST_BLOCK + 1) * (n * PAGE)
        BY <2>1
      <3>. QED  BY <2>1, <2>2, <2>3, <3>1
    <2>5. 0 \in 0 .. PAGE - 1
      BY <2>1
    <2>6. (q * PAGE + 0) % PAGE = 0
      BY <2>1, <2>5, Quotient
    <2>7. q * PAGE + 0 = q * PAGE
      BY <2>1
    <2>8. PAGE_USED \in Nat
      <3>1. PICK x \in Nat : x = PAGE \div SHORT_PACKET
        BY <2>1, Division
      <3>2. x * SHORT_PACKET \in Nat
        BY <2>1
      <3>. QED  BY <2>1, <3>1, <3>2
    <2>. QED  BY <1>1, <2>4, <2>6, <2>7, <2>8
  <1>2. CASE address # DEVICE
    <2>1. \E b \in LogBlocks : InBlock(address, b, recorder)
      <3>1. CASE machState = "RUN"
        <4>1. OnGrid(Position) /\ Position = address
          BY <3>1, Zenon DEF LogIsFine, LogIInv, Position
        <4>. QED  BY <1>2, <4>1, Zenon DEF OnGrid
      <3>2. CASE machState = "CONFIRM"
        BY <3>2, Zenon DEF LogIsFine, PlaceIsTaken
      <3>. QED  BY <3>1, <3>2
    <2>. QED  BY <2>1, PlaceInPage
  <1>. QED  BY <1>1, <1>2

\* The log rests while the upload works.
LEMMA LogRests ==
  ASSUME LogIsFine, UNCHANGED vars, newest' \in 0 .. sent,
         \A k \in 1 .. Len(queue) : queue[k] \in Packets => queue[k] > newest'
  PROVE  LogIsFine'
  <1>1. UNCHANGED <<flash, bad, recorder, sent, faults, queue, address, wrapAddr,
                    logReady, logErase, packetSize, machState>>
    BY DEF vars
  <1>2. LogIInv'
    BY LogKept DEF LogIsFine
  <1>3. OrderIInv'
    BY <1>1, OrderKept, Zenon DEF LogIsFine
  <1>4. logErase' = 3 /\ newest' \in 0 .. sent'
    BY <1>1 DEF LogIsFine
  <1>5. PlaceIsTaken' /\ RoomIsComing'
    BY <1>1, Zenon DEF LogIsFine, PlaceIsTaken, RoomIsComing
  <1>6. NewerWait'
    BY <1>1, Zenon DEF NewerWait
  <1>. QED  BY <1>2, <1>3, <1>4, <1>5, <1>6, Zenon DEF LogIsFine

\* A file cut short, and the turn of the log machine, leave the reading as it is.
LEMMA ReadsPrefix ==
  ASSUME NEW q \in Seq(QueueValues), NEW n \in Nat, n <= Len(q), NEW r, Reads(q, r)
  PROVE  SubSeq(q, 1, n) \in Seq(QueueValues) /\ Reads(SubSeq(q, 1, n), r)
  BY PrefixInOrder, Zenon DEF Reads, ReadsLeft, ReadsOn, ReadsFront

LEMMA ReadsNext ==
  ASSUME UNCHANGED <<flash, bad, newest, wrapAddr, recorder, ReadEnd, GetFrontEnd>>,
         turn = "usb" \/ UNCHANGED <<turn, machState, logReady, address>>,
         NEW q, q = file', NEW r, r = ReadLocation', Reads(q, r)
  PROVE  Reads(file, ReadLocation)'
  <1>1. OldCells' = OldCells
    BY DEF OldCells, Old
  <1>2. ASSUME NEW cells, Sound(q, cells) PROVE Sound(file, cells)'
    BY <1>2, Zenon DEF Sound, InFileOrder, Precedes, Old
  <1>3. CASE ReadsLeft(q, r)
    <2>1. ReadsLeft(file, ReadLocation)'
      BY <1>1, <1>2, <1>3, Zenon DEF ReadsLeft
    <2>. QED  BY <2>1, Zenon DEF Reads
  <1>4. CASE ReadsOn(q, r)
    <2>1. ReadsOn(file, ReadLocation)'
      BY <1>1, <1>2, <1>4, Zenon DEF ReadsOn
    <2>. QED  BY <2>1, Zenon DEF Reads
  <1>5. CASE ReadsFront(q, r)
    <2>1. "usb" # "log"
      OBVIOUS
    <2>2. ReadsFront(file, ReadLocation)'
      BY <1>1, <1>2, <1>5, <2>1, Zenon DEF ReadsFront
    <2>. QED  BY <2>2, Zenon DEF Reads
  <1>. QED  BY <1>3, <1>4, <1>5 DEF Reads

\* What the upload owes to its file, as long as what goes wrong is harmless.
UploadIInv ==
    /\ LogIsFine
    /\ file \in Seq(QueueValues) /\ InFileOrder(file)
    /\ ReadLocation \in Nat /\ ReadEnd \in Nat
    /\ GetFrontEnd => wrapAddr # 0
    /\ fileState = "none" => file = <<>> /\ newest = 0
    /\ appState = "COPY" => fileState # "none" /\ Reads(file, ReadLocation)

NewestFollows ==
    newest' = IF Opens THEN Max({0} \cup {flash[c] : c \in InLog})
              ELSE IF fileState' = "none" THEN 0 ELSE newest

\* The last packet of the log, if it has one.
LEMMA NewestIs ==
  ASSUME LogIsFine, newest' = Max({0} \cup {flash[c] : c \in InLog})
  PROVE  newest' \in 0 .. sent /\ (newest' = 0 \/ \E c \in InLog : newest' = flash[c])
  <1>1. OrderIInv /\ sent \in Nat
    BY IInvParts, Geometry DEF LogIsFine, FlashTypes, Numbers
  <1>2. ASSUME NEW c \in InLog PROVE flash[c] \in 0 .. sent
    <2>1. c \in Cells /\ Shows(flash, bad, c)
      BY DEF InLog, Readable, Shows
    <2>2. flash[c] \in Packets /\ flash[c] <= sent
      BY <1>1, <2>1, Zenon DEF OrderIInv, FlashIsSound, Shows
    <2>. QED  BY <1>1, <2>2, PacketNumbers
  <1>3. PICK S : S = {0} \cup {flash[c] : c \in InLog}
    OBVIOUS
  <1>4. S \subseteq 0 .. sent /\ S # {}
    BY <1>1, <1>2, <1>3
  <1>5. newest' \in S
    BY <1>1, <1>3, <1>4, GreatestOf
  <1>. QED  BY <1>3, <1>4, <1>5

\* State 2: where the file is opened, nothing has been read.
LEMMA OpenFileStep ==
  ASSUME UploadIInv, OpenFile, NewestFollows
  PROVE  UploadIInv'
  <1>1. /\ LogIsFine /\ LogIInv /\ OrderIInv /\ FlashTypes
        /\ PlaceIsTaken /\ NewerWait /\ logErase = 3
    BY IInvParts DEF UploadIInv, LogIsFine
  <1>2. /\ UNCHANGED vars /\ file' = <<>> /\ fileState' = "open" /\ appState' = "COPY"
        /\ newest' = Max({0} \cup {flash[c] : c \in InLog})
    BY DEF OpenFile, MayOpen, NewestFollows, Opens
  <1>3. \A c \in InLog : c \in Cells /\ Shows(flash, bad, c)
    BY DEF InLog, Readable, Shows
  <1>4. newest' \in 0 .. sent /\ (newest' = 0 \/ \E c \in InLog : newest' = flash[c])
    BY <1>1, <1>2, NewestIs
  <1>5. ASSUME NEW k \in 1 .. Len(queue), queue[k] \in Packets PROVE queue[k] > newest'
    <2>1. queue[k] \in Nat \ {0}
      BY <1>5, PacketNumbers
    <2>2. \A c \in Cells : Shows(flash, bad, c) => flash[c] < queue[k]
      BY <1>1, <1>5, Zenon DEF OrderIInv, QueueIsSound, OlderThan
    <2>. QED  BY <1>3, <1>4, <2>1, <2>2
  <1>6. LogIsFine'
    BY <1>1, <1>2, <1>4, <1>5, LogRests
  <1>7. /\ address \in Nat /\ wrapAddr \in Nat /\ wrapAddr' = wrapAddr /\ address # 0
        /\ RDU_LOG_ADDR_START \in Nat /\ RDU_LOG_ADDR_END \in Nat
    <2>1. /\ PAGE \in Nat \ {0} /\ BLOCK \in Nat \ {0} /\ BLOCK <= DEVICE /\ DEVICE \in Nat
          /\ PAGE <= BLOCK
      <3>1. PAGE \in Nat \ {0} /\ BLOCK \in Nat \ {0} /\ LAST_BLOCK \in LogBlocks
            /\ PAGE <= BLOCK
        BY Geometry DEF Numbers, LogBlocks
      <3>2. /\ BLOCK <= LAST_BLOCK * BLOCK /\ LAST_BLOCK * BLOCK \in Nat /\ DEVICE \in Nat
            /\ (LAST_BLOCK + 1) * BLOCK = LAST_BLOCK * BLOCK + BLOCK
            /\ (LAST_BLOCK + 1) * BLOCK <= DEVICE
        BY <3>1, BlockSums
      <3>3. PICK x \in Nat : x = LAST_BLOCK * BLOCK
        BY <3>2
      <3>. QED  BY <3>1, <3>2, <3>3
    <2>2. RDU_LOG_ADDR_START \in Nat /\ RDU_LOG_ADDR_END \in Nat
      BY <2>1 DEF RDU_LOG_ADDR_START, RDU_LOG_ADDR_END
    <2>3. address \in Nat /\ wrapAddr \in Nat /\ address # 0
      BY <1>1, <2>1, WrapNumbers
    <2>. QED  BY <1>2, <2>2, <2>3 DEF vars
  <1>8. \A cells : Sound(file, cells)'
    BY <1>2 DEF Sound, InFileOrder, Precedes
  <1>9. /\ Reads(file, ReadLocation)'
        /\ ReadLocation' \in Nat /\ ReadEnd' \in Nat
        /\ GetFrontEnd' => wrapAddr' # 0
    <2>1. CASE wrapAddr < address
      <3>1. wrapAddr = 0
        BY <1>1, <1>7, <2>1, WrapIsAhead
      <3>2. ~GetFrontEnd' /\ ReadLocation' = RDU_LOG_ADDR_START /\ ReadEnd' = address
        BY <2>1, <3>1 DEF OpenFile, UploadIInv
      <3>3. \A c \in OldCells' : wrapAddr' <= c
        <4>1. \A c \in Cells : c \in Nat
          BY CellFacts
        <4>. QED  BY <1>7, <3>1, <4>1 DEF OldCells
      <3>4. ReadsOn(file, ReadLocation)'
        BY <1>8, <3>2, <3>3, Zenon DEF ReadsOn
      <3>5. Reads(file, ReadLocation)'
        BY <3>4, Zenon DEF Reads
      <3>. QED  BY <1>7, <3>2, <3>5
    <2>2. CASE ~(wrapAddr < address)
      <3>1. wrapAddr # 0
        BY <1>7, <2>2
      <3>2. GetFrontEnd' /\ ReadLocation' = wrapAddr /\ ReadEnd' = RDU_LOG_ADDR_END
        BY <2>2 DEF OpenFile
      <3>3. \A c \in OldCells' : c < wrapAddr' => c < ReadLocation'
        BY <1>7, <3>2
      <3>4. ReadsLeft(file, ReadLocation)'
        BY <1>7, <1>8, <3>1, <3>2, <3>3, Zenon DEF ReadsLeft
      <3>5. Reads(file, ReadLocation)'
        BY <3>4, Zenon DEF Reads
      <3>. QED  BY <1>7, <3>1, <3>2, <3>5
    <2>. QED  BY <2>1, <2>2
  <1>10. /\ file' \in Seq(QueueValues) /\ InFileOrder(file)'
         /\ fileState' # "none"
    BY <1>2 DEF InFileOrder
  <1>. QED  BY <1>6, <1>9, <1>10, Zenon DEF UploadIInv

\* The log rests, and so does "newest".
LEMMA StillFine ==
  ASSUME UploadIInv, UNCHANGED <<vars, newest>>
  PROVE  LogIsFine' /\ wrapAddr' = wrapAddr
  BY LogRests DEF UploadIInv, LogIsFine, NewerWait, vars

\* What f_write leaves in the file.
LEMMA FileIsWritten ==
  ASSUME UploadIInv, turn = "usb", appState = "COPY", UNCHANGED <<vars, newest>>,
         f_write(Group.buf)
  PROVE  /\ file' \in Seq(QueueValues) /\ Group.addr \in Nat
         /\ Reads(file', Group.addr) /\ InFileOrder(file)'
  <1>1. PICK s : s = Group
    OBVIOUS
  <1>2. Carries(s)
    BY <1>1, GroupIsRead, Zenon DEF UploadIInv
  <1>3. PICK all \in Seq(QueueValues) : all = file \o s.buf
    BY <1>2, ConcatProperties DEF Carries, UploadIInv
  <1>4. s.addr \in Nat /\ Reads(all, s.addr)
    BY <1>2, <1>3, Zenon DEF Carries
  <1>5. \/ file' = all
        \/ SmallStick < Len(all) /\ file' = SubSeq(all, 1, SmallStick)
    BY <1>1, <1>3 DEF f_write
  <1>6. SmallStick \in Nat
    BY UsbUploadAssumption
  <1>7. file' \in Seq(QueueValues) /\ Reads(file', s.addr)
    <2>1. CASE file' = all
      BY <1>4, <2>1
    <2>2. CASE SmallStick < Len(all) /\ file' = SubSeq(all, 1, SmallStick)
      <3>1. Len(all) \in Nat
        OBVIOUS
      <3>2. SmallStick <= Len(all)
        BY <1>6, <2>2, <3>1
      <3>. QED  BY <1>4, <1>6, <2>2, <3>2, ReadsPrefix, Zenon
    <2>. QED  BY <1>5, <2>1, <2>2
  <1>8. PICK q : q = file'
    OBVIOUS
  <1>9. InFileOrder(q)
    BY <1>7, <1>8, Zenon DEF Reads, ReadsLeft, ReadsOn, ReadsFront, Sound
  <1>10. InFileOrder(file)'
    BY <1>8, <1>9, Zenon DEF InFileOrder, Old
  <1>. QED  BY <1>1, <1>4, <1>7, <1>10

\* State 3.
LEMMA CopyStep ==
  ASSUME UploadIInv, turn = "usb", turn' = "log", newest' = newest,
         CopyGroup \/ CopyFrontEnd \/ CloseFile
  PROVE  UploadIInv'
  <1>1. /\ LogIsFine /\ file \in Seq(QueueValues) /\ InFileOrder(file)
        /\ ReadLocation \in Nat /\ ReadEnd \in Nat
        /\ GetFrontEnd => wrapAddr # 0
        /\ appState = "COPY" => fileState # "none" /\ Reads(file, ReadLocation)
    BY DEF UploadIInv
  <1>2. appState = "COPY" /\ UNCHANGED vars
    BY DEF CopyGroup, CopyFrontEnd, CloseFile
  <1>3. UNCHANGED <<flash, bad, newest, wrapAddr, recorder>>
    BY <1>2 DEF vars
  <1>4. LogIsFine'
    BY <1>2, StillFine
  <1>5. CASE CopyGroup
    <2>1. /\ f_write(Group.buf) /\ ReadLocation' = Group.addr
          /\ UNCHANGED <<ReadEnd, GetFrontEnd, appState, fileState>>
      BY <1>5, Zenon DEF CopyGroup
    <2>2. /\ file' \in Seq(QueueValues) /\ ReadLocation' \in Nat
          /\ Reads(file', ReadLocation') /\ InFileOrder(file)'
      BY <1>2, <2>1, FileIsWritten
    <2>3. Reads(file, ReadLocation)'
      BY <1>3, <2>1, <2>2, ReadsNext, Zenon
    <2>. QED  BY <1>1, <1>2, <1>3, <1>4, <2>1, <2>2, <2>3, Zenon DEF UploadIInv
  <1>6. CASE CopyFrontEnd
    <2>1. /\ GetFrontEnd /\ GetFrontEnd' = FALSE
          /\ ReadLocation' = RDU_LOG_ADDR_START /\ ReadEnd' = address
          /\ UNCHANGED <<appState, file, fileState>>
      BY <1>6, Zenon DEF CopyFrontEnd, fileVars
    <2>2. PICK from : from = {c \in OldCells : ReadLocation <= c \/ c < wrapAddr}
      OBVIOUS
    <2>3. wrapAddr # 0 /\ Sound(file, from)
      BY <1>1, <1>2, <2>1, <2>2, Zenon DEF Reads, ReadsLeft, ReadsOn, ReadsFront
    <2>4. /\ machState \in {"RUN", "CONFIRM"} /\ address <= wrapAddr
          /\ address = wrapAddr => machState = "RUN" /\ logReady
      BY <1>1, <2>3, WrapIsAhead DEF LogIsFine, RoomIsComing
    <2>5. EndsInLog'
      <3>1. recorder = SHORT_PACKET => address % PAGE <= PAGE_USED
        BY <1>1, <2>4, AddressInPage
      <3>. QED  BY <1>2, <2>1, <2>4, <3>1 DEF EndsInLog, vars
    <2>6. PICK to : to = {c \in OldCells' : ReadLocation' <= c /\ c < wrapAddr'}
      OBVIOUS
    <2>7. OldCells' = OldCells
      BY <1>3 DEF OldCells, Old
    <2>8. to \subseteq from /\ to \subseteq OldCells'
      BY <1>3, <2>2, <2>6, <2>7
    <2>9. OldStay
      BY <1>3, <2>7 DEF OldStay
    <2>10. Sound(file, to)'
      BY <1>3, <2>1, <2>3, <2>8, <2>9, SoundStays, Zenon
    <2>11. ReadsFront(file, ReadLocation)'
      BY <1>3, <2>1, <2>3, <2>5, <2>6, <2>10, Zenon DEF ReadsFront, EndsInLog
    <2>12. Reads(file, ReadLocation)'
      BY <2>11, Zenon DEF Reads
    <2>13. InFileOrder(file)'
      BY <2>10, Zenon DEF Sound
    <2>14. ReadLocation' \in Nat /\ ReadEnd' \in Nat
      <3>1. BLOCK \in Nat /\ address \in Nat
        BY <1>1, WrapNumbers DEF LogIsFine
      <3>. QED  BY <2>1, <3>1 DEF RDU_LOG_ADDR_START
    <2>. QED  BY <1>1, <1>2, <1>4, <2>1, <2>12, <2>13, <2>14, Zenon DEF UploadIInv
  <1>7. CASE CloseFile
    <2>1. /\ f_write(Group.buf) /\ ReadLocation' = Group.addr + packetSize
          /\ fileState' = "closed" /\ appState' = "DONE"
          /\ UNCHANGED <<ReadEnd, GetFrontEnd>>
      BY <1>7, Zenon DEF CloseFile
    <2>2. file' \in Seq(QueueValues) /\ Group.addr \in Nat /\ InFileOrder(file)'
      BY <1>2, <2>1, FileIsWritten
    <2>3. ReadLocation' \in Nat
      <3>1. packetSize \in Nat
        BY <1>1, IInvParts, Geometry DEF LogIsFine, LogTypes, FlashTypes, Numbers
      <3>2. PICK x \in Nat : x = Group.addr
        BY <2>2
      <3>. QED  BY <2>1, <3>1, <3>2
    <2>4. fileState' # "none" /\ appState' # "COPY"
      BY <2>1
    <2>. QED  BY <1>1, <1>3, <1>4, <2>1, <2>2, <2>3, <2>4, Zenon DEF UploadIInv
  <1>. QED  BY <1>5, <1>6, <1>7

\* A call of the log machine, or a packet that comes, under the upload.
LEMMA LogCallStep ==
  ASSUME UploadIInv, CallLogMachine \/ PacketsArrive, newest' = newest,
         faults' \subseteq Harmless
  PROVE  UploadIInv'
  <1>1. /\ LogIsFine /\ ReadLocation \in Nat /\ ReadEnd \in Nat
        /\ appState = "COPY" => Reads(file, ReadLocation)
    BY DEF UploadIInv
  <1>2. /\ LogMachine \/ ReceivePacket
        /\ UNCHANGED <<appState, file, fileState, ReadLocation, ReadEnd, GetFrontEnd>>
        /\ recorder' = recorder
    <2>1. CASE CallLogMachine
      <3>1. LogMachine /\ UNCHANGED appVars
        BY <2>1, Zenon DEF CallLogMachine
      <3>2. recorder' = recorder
        BY <3>1, Zenon DEF LogMachine
      <3>. QED  BY <3>1, <3>2 DEF appVars, readVars, fileVars
    <2>2. CASE PacketsArrive
      <3>1. ReceivePacket /\ UNCHANGED appVars
        BY <2>2, Zenon DEF PacketsArrive
      <3>2. recorder' = recorder
        BY <3>1, Zenon DEF ReceivePacket, Receive
      <3>. QED  BY <3>1, <3>2 DEF appVars, readVars, fileVars
    <2>. QED  BY <2>1, <2>2
  <1>3. LogIsFine' /\ OldStay /\ (WrapStays \/ LogStartsOver \/ WrapMovesOn)
    BY <1>1, <1>2, LogUnderUpload
  <1>4. GetFrontEnd' => wrapAddr' # 0
    <2>1. wrapAddr \in Nat /\ (wrapAddr \in Nat)'
      <3>1. (LogIInv => wrapAddr \in Nat) /\ (LogIInv => wrapAddr \in Nat)'
        BY WrapNumbers, PTL
      <3>. QED  BY <1>1, <1>3, <3>1 DEF LogIsFine
    <2>. QED  BY <1>2, <1>3, <2>1
              DEF UploadIInv, WrapStays, LogStartsOver, WrapMovesOn
  <1>5. ASSUME ReadEnd = wrapAddr, EndsInLog
        PROVE  EndsInLog' \/ LogStartsOver \/ WrapMovesOn
    <2>1. machState = "RUN" /\ logReady /\ address = wrapAddr /\ turn = "log"
      BY <1>5 DEF EndsInLog
    <2>2. CASE PacketsArrive
      <3>1. turn' = turn /\ UNCHANGED <<machState, address, wrapAddr>> /\ logReady' = TRUE
        BY <2>2, Zenon DEF PacketsArrive, ReceivePacket, Receive
      <3>. QED  BY <1>2, <1>5, <3>1 DEF EndsInLog
    <2>3. CASE CallLogMachine
      <3>1. Run /\ UNCHANGED <<recorder, sent>>
        BY <2>1, <2>3 DEF CallLogMachine, LogMachine, Idle, RunErase, RunNothing,
                          Confirm, WriteFail, Erase
      <3>2. wrapAddr # 0
        <4>1. address \in Nat /\ BLOCK \in Nat \ {0} /\ BLOCK <= address
          BY <1>1, WrapNumbers DEF LogIsFine
        <4>. QED  BY <2>1, <4>1
      <3>. QED  BY <1>1, <2>1, <3>1, <3>2, RunUnderUpload
    <2>. QED  BY <2>2, <2>3
  <1>6. appState' = "COPY" => Reads(file, ReadLocation)'
    <2>1. SUFFICES ASSUME appState = "COPY" PROVE Reads(file, ReadLocation)'
      BY <1>2
    <2>2. UNCHANGED <<file, ReadLocation, ReadEnd, GetFrontEnd>>
      BY <1>2
    <2>. QED  BY <1>1, <1>2, <1>3, <1>5, <2>1, <2>2, ReadsUnderLog, Zenon
  <1>7. InFileOrder(file)'
    BY <1>2 DEF UploadIInv, InFileOrder, Old
  <1>. QED  BY <1>1, <1>2, <1>3, <1>4, <1>6, <1>7, Zenon DEF UploadIInv

\* What leaves the reading alone.
LEMMA UploadKept ==
  ASSUME UploadIInv, UNCHANGED <<vars, newest>>,
         UNCHANGED <<fileVars, readVars>>,
         turn' = turn \/ turn = "usb",
         appState' # "COPY" \/ appState' = appState
  PROVE  UploadIInv'
  <1>1. LogIsFine' /\ wrapAddr' = wrapAddr
    BY StillFine
  <1>2. /\ UNCHANGED <<flash, bad, newest, wrapAddr, recorder, machState, logReady, address>>
        /\ UNCHANGED <<file, fileState, ReadLocation, ReadEnd, GetFrontEnd>>
    BY DEF vars, fileVars, readVars
  <1>3. InFileOrder(file)'
    BY <1>2 DEF UploadIInv, InFileOrder, Old
  <1>4. ASSUME appState = "COPY" PROVE Reads(file, ReadLocation)'
    <2>1. turn = "usb" \/ UNCHANGED <<turn, machState, logReady, address>>
      BY <1>2
    <2>2. Reads(file, ReadLocation)
      BY <1>4 DEF UploadIInv
    <2>. QED  BY <1>2, <2>1, <2>2, ReadsNext, Zenon
  <1>. QED  BY <1>1, <1>2, <1>3, <1>4 DEF UploadIInv

\* A stick is plugged in.
LEMMA PlugFileStep ==
  ASSUME UploadIInv, LedIInv, Plug, newest' = 0
  PROVE  UploadIInv'
  <1>1. /\ appState' = "INIT" /\ file' = <<>> /\ UNCHANGED vars
        /\ UNCHANGED <<ReadLocation, ReadEnd, GetFrontEnd>>
    BY DEF Plug, LedIInv, DarkWhenIdle, readVars
  <1>2. 0 \in 0 .. sent
    BY IInvParts, Geometry DEF UploadIInv, LogIsFine, FlashTypes, Numbers
  <1>3. LogIsFine'
    <2>1. \A k \in 1 .. Len(queue) : queue[k] \in Packets => queue[k] > newest'
      BY PacketNumbers
    <2>2. newest' \in 0 .. sent
      BY <1>2
    <2>. QED  BY <1>1, <2>1, <2>2, LogRests DEF UploadIInv
  <1>4. wrapAddr' = wrapAddr
    BY <1>1 DEF vars
  <1>5. file' \in Seq(QueueValues) /\ InFileOrder(file)' /\ appState' # "COPY"
    BY <1>1 DEF InFileOrder
  <1>. QED  BY <1>1, <1>3, <1>4, <1>5, Zenon DEF UploadIInv

LEMMA NewestStays ==
  ASSUME UploadIInv, NewestFollows, ~Opens, fileState' # "none" \/ fileState' = fileState
  PROVE  newest' = newest
  BY DEF UploadIInv, NewestFollows

\* A call of the library.
LEMMA HostFileStep ==
  ASSUME UploadIInv, LedIInv, USBH_Process, NewestFollows
  PROVE  UploadIInv'
  <1>1. turn = "usb" /\ turn' = "log"
    BY DEF USBH_Process
  <1>2. ASSUME UNCHANGED <<vars, fileVars, readVars>>, ~Opens,
               appState' # "COPY" \/ appState' = appState
        PROVE  UploadIInv'
    <2>1. fileState' = fileState
      BY <1>2 DEF fileVars
    <2>2. newest' = newest
      BY <1>2, <2>1, NewestStays
    <2>. QED  BY <1>1, <1>2, <2>2, UploadKept
  <1>3. CASE HostIdle \/ HostAttaches \/ HostEnumerates
    BY <1>2, <1>3 DEF HostIdle, HostAttaches, HostEnumerates, appVars, Opens
  <1>4. CASE HostDisconnects
    BY <1>2, <1>4 DEF HostDisconnects, USBH_USR_DeInit, Opens
  <1>5. CASE HostRunsClass
    <2>1. CASE FsInit
      BY <1>2, <2>1 DEF FsInit, Opens
    <2>2. CASE Iap
      BY <1>2, <2>2 DEF Iap, Opens
    <2>3. CASE AskAgain
      BY <1>2, <2>3 DEF AskAgain, Opens
    <2>4. CASE OpenFile
      BY <2>4, OpenFileStep
    <2>5. CASE OpenFails
      BY <1>2, <2>5 DEF OpenFails, Opens
    <2>6. CASE CopyGroup \/ CopyFrontEnd \/ CloseFile
      <3>1. appState = "COPY" /\ (fileState' = "closed" \/ fileState' = fileState)
        BY <2>6 DEF CopyGroup, CopyFrontEnd, CloseFile, fileVars
      <3>2. ~Opens /\ (fileState' # "none" \/ fileState' = fileState)
        BY <3>1 DEF Opens
      <3>3. newest' = newest
        BY <3>2, NewestStays
      <3>. QED  BY <1>1, <2>6, <3>3, CopyStep
    <2>7. CASE Finished
      BY <1>2, <2>7 DEF Finished, appVars, Opens
    <2>. QED  BY <1>5, <2>1, <2>2, <2>3, <2>4, <2>5, <2>6, <2>7
              DEF HostRunsClass, MSC_Application
  <1>. QED  BY <1>3, <1>4, <1>5 DEF USBH_Process

\* A restart that is not harmless, and what goes wrong stays.
LEMMA UploadFaults ==
  ASSUME UpNext, faults \subseteq UNION Faults
  PROVE  /\ faults \subseteq faults' /\ faults' \subseteq UNION Faults
         /\ FirmwareReset \/ BoardLosesPower => ~(faults' \subseteq Harmless)
  <1>1. CASE FirmwareReset \/ BoardLosesPower
    <2>1. PICK kind : kind = PowerFault(Position)
      OBVIOUS
    <2>2. kind \in {"power", "power at boundary"}
      BY <2>1, Zenon DEF PowerFault
    <2>3. Happen({kind})
      <3>1. Happen({PowerFault(Position)})
        BY <1>1, Zenon DEF FirmwareReset, BoardLosesPower, PowerFails
      <3>. QED  BY <2>1, <3>1
    <2>4. kind \notin Harmless
      BY <2>2, Harms, Zenon
    <2>. QED  BY <2>3, <2>4, HappenFacts
  <1>2. CASE CallLogMachine \/ PacketsArrive
    <2>1. Next
      BY <1>2, Zenon DEF CallLogMachine, PacketsArrive, Next
    <2>2. ~(FirmwareReset \/ BoardLosesPower) \/ (FirmwareReset \/ BoardLosesPower)
      OBVIOUS
    <2>. QED  BY <1>1, <2>1, <2>2, FaultsStay
  <1>3. CASE UNCHANGED vars
    <2>1. faults' = faults
      BY <1>3 DEF vars
    <2>. QED  BY <1>1, <2>1
  <1>4. ASSUME USBH_Process PROVE UNCHANGED vars
    BY <1>4 DEF USBH_Process, HostIdle, HostAttaches, HostEnumerates, HostRunsClass,
                HostDisconnects, MSC_Application, FsInit, Iap, AskAgain, OpenFile,
                OpenFails, CopyGroup, CopyFrontEnd, CloseFile, Finished
  <1>5. ASSUME Plug \/ Unplug \/ RtcArrives \/ BlinkUploadProgressLed
                    \/ BlinkUploadCompleteLed
        PROVE  UNCHANGED vars
    BY <1>5 DEF Plug, Unplug, RtcArrives, BlinkUploadProgressLed, BlinkUploadCompleteLed
  <1>. QED  BY <1>1, <1>2, <1>3, <1>4, <1>5 DEF UpNext

LEMMA UploadStep ==
  ASSUME UploadIInv, LedIInv, MCUpNext, faults \subseteq UNION Faults,
         faults' \subseteq Harmless
  PROVE  UploadIInv'
  <1>1. UpNext /\ NewestFollows
    BY DEF MCUpNext, NewestFollows
  <1>2. CASE CallLogMachine \/ PacketsArrive
    <2>1. appState' = appState /\ fileState' = fileState
      BY <1>2 DEF CallLogMachine, PacketsArrive, appVars, fileVars
    <2>2. newest' = newest
      BY <1>1, <2>1, NewestStays DEF Opens
    <2>. QED  BY <1>2, <2>2, LogCallStep
  <1>3. CASE USBH_Process
    BY <1>1, <1>3, HostFileStep
  <1>4. CASE Plug
    <2>1. fileState' = "none" /\ appState' = appState
      BY <1>4 DEF Plug
    <2>2. newest' = 0
      BY <1>1, <2>1 DEF NewestFollows, Opens
    <2>. QED  BY <1>4, <2>2, PlugFileStep
  <1>5. CASE Unplug \/ RtcArrives \/ BlinkUploadProgressLed \/ BlinkUploadCompleteLed
    <2>1. /\ UNCHANGED <<vars, fileVars, readVars>>
          /\ UNCHANGED <<turn, appState, fileState>>
      BY <1>5 DEF Unplug, RtcArrives, BlinkUploadProgressLed, BlinkUploadCompleteLed,
                  appVars, fileVars
    <2>2. newest' = newest
      BY <1>1, <2>1, NewestStays DEF Opens
    <2>. QED  BY <2>1, <2>2, UploadKept
  <1>6. CASE FirmwareReset \/ BoardLosesPower
    BY <1>1, <1>6, UploadFaults
  <1>. QED  BY <1>1, <1>2, <1>3, <1>4, <1>5, <1>6 DEF UpNext

UploadInv ==
    /\ LedIInv
    /\ faults \subseteq UNION Faults
    /\ faults \subseteq Harmless => UploadIInv

LEMMA UploadInvHolds == MCUpSpec => []UploadInv
  <1>1. MCUpInit => UploadInv
    <2>1. SUFFICES ASSUME MCUpInit PROVE UploadInv
      OBVIOUS
    <2>2. /\ Init /\ LedIInv /\ faults = {} /\ newest = 0 /\ file = <<>>
          /\ ReadLocation = 0 /\ ReadEnd = 0 /\ GetFrontEnd = FALSE
          /\ appState = "INIT" /\ queue = <<>> /\ machState = "IDLE" /\ logErase = 3
          /\ sent = 0
      <3>1. UpInit /\ newest = 0
        BY <2>1, Zenon DEF MCUpInit
      <3>2. Init /\ LedIInv
        BY <3>1, UpInitIInv, Zenon DEF UpInit
      <3>3. /\ file = <<>> /\ ReadLocation = 0 /\ ReadEnd = 0 /\ GetFrontEnd = FALSE
            /\ appState = "INIT"
        BY <3>1, Zenon DEF UpInit
      <3>4. /\ faults = {} /\ queue = <<>> /\ machState = "IDLE" /\ logErase = 3
            /\ sent = 0
        BY <3>2, Zenon DEF Init
      <3>. QED  BY <3>1, <3>2, <3>3, <3>4
    <2>3. LogIInv /\ OrderIInv
      BY <2>2, LogInit, OrderInit
    <2>4. LogIsFine
      BY <2>2, <2>3 DEF LogIsFine, PlaceIsTaken, NewerWait, RoomIsComing
    <2>5. UploadIInv
      BY <2>2, <2>4 DEF UploadIInv, InFileOrder
    <2>. QED  BY <2>2, <2>5 DEF UploadInv
  <1>2. UploadInv /\ [MCUpNext]_mcUpVars => UploadInv'
    <2>1. ASSUME UploadInv, MCUpNext PROVE UploadInv'
      <3>1. UpNext
        BY <2>1 DEF MCUpNext
      <3>2. LedIInv'
        BY <2>1, <3>1, UpNextIInv DEF UploadInv
      <3>3. faults \subseteq faults' /\ faults' \subseteq UNION Faults
        BY <2>1, <3>1, UploadFaults DEF UploadInv
      <3>4. ASSUME faults' \subseteq Harmless PROVE UploadIInv'
        <4>1. faults \subseteq Harmless
          BY <3>3, <3>4
        <4>. QED  BY <2>1, <3>4, <4>1, UploadStep DEF UploadInv
      <3>. QED  BY <3>2, <3>3, <3>4 DEF UploadInv
    <2>2. ASSUME UploadInv, UNCHANGED mcUpVars PROVE UploadInv'
      <3>1. UNCHANGED <<vars, newest, turn, fileVars, readVars, appState, upVars, faults>>
        BY <2>2 DEF mcUpVars, upVars, appVars, vars
      <3>2. LedIInv'
        BY <2>2, <3>1, UpNextIInv DEF UploadInv
      <3>3. ASSUME UploadIInv PROVE UploadIInv'
        BY <3>1, <3>3, UploadKept
      <3>. QED  BY <2>2, <3>1, <3>2, <3>3 DEF UploadInv
    <2>. QED  BY <2>1, <2>2
  <1>. QED  BY <1>1, <1>2, PTL DEF MCUpSpec

\* As long as no power fails, and no write is refused for nothing, the file has
\* the packets it owes in the order they were sent, each once: the front end of
\* a wrapped log stands before the wrap address when its turn comes, the log
\* erases only what is read already or older than all that is, and a block is
\* never read twice.
THEOREM FileCorrect ==
  UNION Faults \subseteq Harmless \cup {"power"} => (MCUpSpec => []FileInOrder)
  <1>. SUFFICES ASSUME UNION Faults \subseteq Harmless \cup {"power"}
                PROVE  MCUpSpec => []FileInOrder
    OBVIOUS
  <1>1. UploadInv => FileInOrder
    <2>1. SUFFICES ASSUME UploadInv, "power" \notin faults
                   PROVE  InFileOrder(file)
      BY DEF FileInOrder, InFileOrder
    <2>2. faults \subseteq Harmless
      BY <2>1 DEF UploadInv
    <2>. QED  BY <2>1, <2>2 DEF UploadInv, UploadIInv
  <1>. QED  BY <1>1, UploadInvHolds, PTL

-----------------------------------------------------------------------------
(* What the file has.  With packets of 104 bytes a call reads a group that  *)
(* lies in one page, and so it reads every packet there is.                *)

\* An upload goes on where a group begins, or at the unused rest of a page.
OnGroups(r) ==
    \E q, j \in Nat : /\ r = q * PAGE + j * (GROUP * SHORT_PACKET)
                      /\ j * (GROUP * SHORT_PACKET) <= PAGE_USED

\* What is old is in the file or still to be read: in a wrapped log to its end
\* and in the front end, where the log has not yet come.
CoversLeft(q, r) ==
    /\ GetFrontEnd /\ ReadEnd = RDU_LOG_ADDR_END
    /\ \A c \in OldCells : flash[c] \in ToSet(q) \/ r <= c \/ c < wrapAddr
    /\ \A c \in OldCells : c < wrapAddr => c < address

CoversOn(q, r) ==
    /\ ~GetFrontEnd
    /\ \A c \in OldCells : flash[c] \in ToSet(q) \/ (r <= c /\ c < ReadEnd)

Covers(q, r) == CoversLeft(q, r) \/ CoversOn(q, r)

WholeIInv ==
    /\ NoneAtEnd
    /\ appState = "COPY" => OnGroups(ReadLocation)
    /\ stick = "empty" /\ ~overtaken =>
          /\ appState = "COPY" => Covers(file, ReadLocation)
          /\ appState = "DONE" /\ fileState = "closed" =>
                \A c \in OldCells : flash[c] \in ToSet(file)

LEMMA GroupNumbers ==
  /\ GROUP \in Nat \ {0} /\ SHORT_PACKET \in Nat \ {0} /\ PAGE \in Nat \ {0}
  /\ PAGE_USED \in Nat \ {0} /\ PAGE_USED <= PAGE
  /\ GROUP * SHORT_PACKET \in Nat \ {0}
  /\ \E n \in Nat \ {0} : PAGE_USED = n * (GROUP * SHORT_PACKET)
  <1>1. GROUP \in Nat \ {0} /\ PAGE \in Nat \ {0} /\ SHORT_PACKET \in 1 .. PAGE
    BY UsbUploadAssumption, Geometry DEF Numbers
  <1>2. PICK u \in Nat : u = PAGE \div SHORT_PACKET
    BY <1>1, Division
  <1>3. PICK z \in 0 .. SHORT_PACKET - 1 : PAGE = u * SHORT_PACKET + z
    <2>1. /\ PAGE % SHORT_PACKET \in 0 .. SHORT_PACKET - 1
          /\ PAGE = (PAGE \div SHORT_PACKET) * SHORT_PACKET + (PAGE % SHORT_PACKET)
      BY <1>1, Division
    <2>. QED  BY <1>2, <2>1
  <1>4. PAGE_USED = u * SHORT_PACKET
    BY <1>2, Geometry
  <1>5. u # 0
    BY <1>1, <1>3
  <1>6. u * SHORT_PACKET \in Nat \ {0}
    <2>1. PICK v \in Nat : u = v + 1
      <3>1. u - 1 \in Nat /\ u = (u - 1) + 1
        BY <1>5
      <3>. QED  BY <3>1
    <2>2. (v + 1) * SHORT_PACKET = v * SHORT_PACKET + SHORT_PACKET /\ v * SHORT_PACKET \in Nat
      BY <1>1
    <2>. QED  BY <1>1, <2>1, <2>2
  <1>7. GROUP * SHORT_PACKET \in Nat \ {0}
    <2>1. PICK v \in Nat : GROUP = v + 1
      <3>1. GROUP - 1 \in Nat /\ GROUP = (GROUP - 1) + 1
        BY <1>1
      <3>. QED  BY <3>1
    <2>2. (v + 1) * SHORT_PACKET = v * SHORT_PACKET + SHORT_PACKET /\ v * SHORT_PACKET \in Nat
      BY <1>1
    <2>. QED  BY <1>1, <2>1, <2>2
  <1>8. PICK g \in Nat \ {0} : g = GROUP * SHORT_PACKET
    BY <1>7
  <1>9. PICK n \in Nat : n = PAGE_USED \div g
    BY <1>4, <1>6, Division
  <1>10. PAGE_USED = n * g
    <2>1. PAGE_USED \in Nat /\ PAGE_USED % g = 0
      BY <1>4, <1>6, <1>8, GroupsFillPages
    <2>2. PAGE_USED = (PAGE_USED \div g) * g + (PAGE_USED % g)
      BY <2>1, Division
    <2>3. n * g \in Nat
      OBVIOUS
    <2>. QED  BY <1>9, <2>1, <2>2, <2>3
  <1>11. n # 0
    BY <1>4, <1>6, <1>10
  <1>. QED  BY <1>1, <1>3, <1>4, <1>6, <1>7, <1>8, <1>10, <1>11

\* The places of short packets in the used part of a page.
IsShortPlace(a) == \E q, k \in Nat : /\ a = q * PAGE + k * SHORT_PACKET
                                     /\ k * SHORT_PACKET + SHORT_PACKET <= PAGE_USED

\* No other place in a block has room for one.
LEMMA ShortPlace ==
  ASSUME NEW b \in LogBlocks, NEW a, InBlock(a, b, SHORT_PACKET)
  PROVE  IsShortPlace(a)
  <1>1. /\ PAGE \in Nat \ {0} /\ SHORT_PACKET \in Nat \ {0} /\ b \in Nat
        /\ PAGE_USED = (PAGE \div SHORT_PACKET) * SHORT_PACKET
    <2>1. PAGE \in Nat \ {0} /\ SHORT_PACKET \in 1 .. PAGE
      BY Geometry DEF Numbers
    <2>2. b \in Nat
      BY BlockSums
    <2>3. PAGE_USED = (PAGE \div SHORT_PACKET) * SHORT_PACKET
      BY Geometry
    <2>. QED  BY <2>1, <2>2, <2>3
  <1>2. PICK n \in Nat \ {0} : BLOCK = n * PAGE
    BY Geometry
  <1>3. PICK j \in Nat, k \in Nat : /\ (k + 1) * SHORT_PACKET <= PAGE
                                   /\ a = b * BLOCK + j * PAGE + k * SHORT_PACKET
    BY DEF InBlock
  <1>4. PICK q \in Nat : q = b * n + j
    <2>1. b * n \in Nat
      BY <1>1
    <2>. QED  BY <2>1
  <1>5. q * PAGE = b * BLOCK + j * PAGE
    <2>1. q * PAGE = (b * n) * PAGE + j * PAGE
      BY <1>1, <1>4
    <2>2. (b * n) * PAGE = b * (n * PAGE)
      BY <1>1
    <2>. QED  BY <1>2, <2>1, <2>2
  <1>6. PICK u \in Nat : u = PAGE \div SHORT_PACKET
    BY <1>1, Division
  <1>7. PICK z \in 0 .. SHORT_PACKET - 1 : PAGE = u * SHORT_PACKET + z
    <2>1. /\ PAGE % SHORT_PACKET \in 0 .. SHORT_PACKET - 1
          /\ PAGE = (PAGE \div SHORT_PACKET) * SHORT_PACKET + (PAGE % SHORT_PACKET)
      BY <1>1, Division
    <2>. QED  BY <1>6, <2>1
  <1>8. (u + 1) * SHORT_PACKET = u * SHORT_PACKET + SHORT_PACKET
        /\ (k + 1) * SHORT_PACKET = k * SHORT_PACKET + SHORT_PACKET
    BY <1>1
  <1>9. PICK x \in Nat, y \in Nat : x = u * SHORT_PACKET /\ y = k * SHORT_PACKET
    BY <1>1
  <1>10. (k + 1) * SHORT_PACKET < (u + 1) * SHORT_PACKET
    BY <1>1, <1>3, <1>7, <1>8, <1>9
  <1>11. k + 1 < u + 1
    <2>1. k + 1 \in Nat /\ u + 1 \in Nat
      OBVIOUS
    <2>. QED  BY <1>1, <1>10, <2>1, Cancel
  <1>12. (k + 1) * SHORT_PACKET <= u * SHORT_PACKET
    <2>1. k + 1 \in Nat /\ k + 1 <= u
      BY <1>11
    <2>. QED  BY <1>1, <2>1, Times
  <1>13. k * SHORT_PACKET + SHORT_PACKET <= PAGE_USED
    BY <1>1, <1>6, <1>8, <1>12
  <1>. QED  BY <1>3, <1>5, <1>13 DEF IsShortPlace

\* Two places for short packets that share a cell are the same.
LEMMA SameShortPlace ==
  ASSUME NEW a \in Nat, NEW d \in Nat, NEW c \in Nat, IsShortPlace(a), IsShortPlace(d),
         a <= c, c < a + SHORT_PACKET, d <= c, c < d + SHORT_PACKET
  PROVE  a = d
  <1>. PICK q \in Nat, k \in Nat : /\ a = q * PAGE + k * SHORT_PACKET
                                   /\ k * SHORT_PACKET + SHORT_PACKET <= PAGE_USED
    BY DEF IsShortPlace
  <1>. PICK p \in Nat, i \in Nat : /\ d = p * PAGE + i * SHORT_PACKET
                                   /\ i * SHORT_PACKET + SHORT_PACKET <= PAGE_USED
    BY DEF IsShortPlace
  <1>1. /\ PAGE \in Nat \ {0} /\ PAGE_USED \in Nat \ {0} /\ PAGE_USED <= PAGE
        /\ SHORT_PACKET \in Nat \ {0}
    BY GroupNumbers
  <1>2. PICK x \in Nat, y \in Nat : x = k * SHORT_PACKET /\ y = i * SHORT_PACKET
    BY <1>1
  <1>3. PICK u \in Nat, v \in Nat : u = q * PAGE /\ v = p * PAGE
    BY <1>1
  <1>4. PICK z \in 0 .. SHORT_PACKET - 1 : z = c - a
    BY <1>1
  <1>5. PICK t \in 0 .. SHORT_PACKET - 1 : t = c - d
    BY <1>1
  <1>6. PICK m \in 0 .. PAGE - 1 : m = x + z
    BY <1>1, <1>2, <1>4
  <1>7. PICK n \in 0 .. PAGE - 1 : n = y + t
    BY <1>1, <1>2, <1>5
  <1>8. c = q * PAGE + m /\ c = p * PAGE + n
    BY <1>2, <1>3, <1>4, <1>5, <1>6, <1>7
  <1>9. (q * PAGE + m) \div PAGE = q /\ (p * PAGE + n) \div PAGE = p
    BY <1>1, Quotient
  <1>10. q = p
    BY <1>8, <1>9
  <1>11. m = n
    BY <1>3, <1>8, <1>10
  <1>12. (k * SHORT_PACKET + z) \div SHORT_PACKET = k
         /\ (i * SHORT_PACKET + t) \div SHORT_PACKET = i
    BY <1>1, Quotient
  <1>13. k * SHORT_PACKET + z = i * SHORT_PACKET + t
    BY <1>2, <1>6, <1>7, <1>11
  <1>14. k = i
    BY <1>12, <1>13
  <1>. QED  BY <1>10, <1>14

\* There is room for a group in the used part of its page.
GroupFits(at) ==
    \E q, j \in Nat : /\ at = q * PAGE + j * (GROUP * SHORT_PACKET)
                      /\ j * (GROUP * SHORT_PACKET) + GROUP * SHORT_PACKET <= PAGE_USED

\* A group begins where it fits, in the page and in a good block.
LEMMA GroupPage ==
  ASSUME packetSize = SHORT_PACKET, NEW r \in Nat, OnGroups(r)
  PROVE  GroupFits(PageFor(r))
  <1>1. /\ PAGE \in Nat \ {0} /\ PAGE_USED \in Nat \ {0} /\ PAGE_USED <= PAGE
    BY GroupNumbers
  <1>2. PICK g \in Nat \ {0} : g = GROUP * SHORT_PACKET
    BY GroupNumbers
  <1>3. PICK n \in Nat \ {0} : PAGE_USED = n * g
    BY <1>2, GroupNumbers
  <1>4. PICK q \in Nat, j \in Nat : r = q * PAGE + j * g /\ j * g <= PAGE_USED
    BY <1>2 DEF OnGroups
  <1>5. PICK x \in Nat, y \in Nat : x = j * g /\ y = q * PAGE
    BY <1>1
  <1>6. (q + 1) * PAGE = y + PAGE /\ (q + 1) * PAGE + 0 * g = y + PAGE
        /\ 0 * g + g = g
    BY <1>1, <1>5
  <1>7. g <= PAGE_USED
    <2>1. 1 * g <= n * g
      BY <1>3, Times
    <2>. QED  BY <1>3, <2>1
  <1>8. CASE x < PAGE_USED
    <2>1. j * g < n * g
      BY <1>3, <1>5, <1>8
    <2>2. j + 1 <= n
      BY <2>1, Cancel
    <2>3. (j + 1) * g <= n * g /\ (j + 1) * g = j * g + g
      <3>1. j + 1 \in Nat /\ (j + 1) * g = j * g + g
        OBVIOUS
      <3>. QED  BY <2>2, <3>1, Times
    <2>4. x \in 0 .. PAGE - 1
      BY <1>1, <1>8
    <2>5. (q * PAGE + x) % PAGE = x
      BY <1>1, <2>4, Quotient
    <2>6. r % PAGE # PAGE_USED
      BY <1>1, <1>4, <1>5, <1>8, <2>5
    <2>7. PageFor(r) = r
      BY <2>6 DEF PageFor
    <2>8. PageFor(r) = q * PAGE + j * g /\ j * g + g <= PAGE_USED
      BY <1>3, <1>4, <2>3, <2>7
    <2>. QED  BY <1>2, <2>8 DEF GroupFits
  <1>9. CASE x = PAGE_USED
    <2>1. PageFor(r) = (q + 1) * PAGE
      <3>1. CASE PAGE_USED < PAGE
        <4>1. x \in 0 .. PAGE - 1
          BY <1>1, <1>9, <3>1
        <4>2. (q * PAGE + x) % PAGE = x /\ (q * PAGE + x) \div PAGE = q
          BY <1>1, <4>1, Quotient
        <4>3. r % PAGE = PAGE_USED /\ r \div PAGE = q
          BY <1>4, <1>5, <1>9, <4>2
        <4>. QED  BY <4>3 DEF PageFor
      <3>2. CASE PAGE_USED = PAGE
        <4>1. 0 \in 0 .. PAGE - 1 /\ q + 1 \in Nat
          BY <1>1
        <4>2. ((q + 1) * PAGE + 0) % PAGE = 0
          BY <1>1, <4>1, Quotient
        <4>3. r = (q + 1) * PAGE /\ r = (q + 1) * PAGE + 0
          BY <1>1, <1>4, <1>5, <1>6, <1>9, <3>2
        <4>4. r % PAGE # PAGE_USED
          BY <1>1, <4>2, <4>3
        <4>. QED  BY <4>3, <4>4 DEF PageFor
      <3>. QED  BY <1>1, <3>1, <3>2
    <2>2. PageFor(r) = (q + 1) * PAGE + 0 * g /\ 0 * g + g <= PAGE_USED
      BY <1>1, <1>5, <1>6, <1>7, <2>1
    <2>3. q + 1 \in Nat /\ 0 \in Nat
      OBVIOUS
    <2>. QED  BY <1>2, <2>2, <2>3 DEF GroupFits
  <1>10. x < PAGE_USED \/ x = PAGE_USED
    BY <1>1, <1>4, <1>5
  <1>. QED  BY <1>8, <1>9, <1>10

LEMMA GroupPlace ==
  ASSUME LogIInv, packetSize = SHORT_PACKET, NEW r \in Nat, OnGroups(r)
  PROVE  /\ PlaceFor(r) \in Nat /\ BlockOf(PlaceFor(r)) \notin bad
         /\ GroupFits(PlaceFor(r))
  <1>1. PICK g \in Nat \ {0} : g = GROUP * SHORT_PACKET
    BY GroupNumbers
  <1>2. PICK q \in Nat, j \in Nat : PageFor(r) = q * PAGE + j * g /\ j * g + g <= PAGE_USED
    BY <1>1, GroupPage DEF GroupFits
  <1>3. PICK a \in Nat : a = PageFor(r)
    BY PageIsAhead
  <1>4. PICK at : at = PlaceFor(r)
    OBVIOUS
  <1>5. /\ at \in Nat /\ BlockOf(at) \notin bad
        /\ at = a \/ \E b \in LogBlocks : at = b * BLOCK
    BY <1>3, <1>4, GoodPlace DEF PlaceFor
  <1>6. CASE at = a
    <2>1. at = q * PAGE + j * g
      BY <1>2, <1>3, <1>6
    <2>. QED  BY <1>1, <1>2, <1>4, <1>5, <2>1 DEF GroupFits
  <1>7. CASE \E b \in LogBlocks : at = b * BLOCK
    <2>1. PICK b \in LogBlocks : at = b * BLOCK
      BY <1>7
    <2>2. PICK n \in Nat \ {0} : BLOCK = n * PAGE
      BY Geometry
    <2>3. b \in Nat /\ PAGE \in Nat
      BY BlockSums, GroupNumbers
    <2>4. PICK p \in Nat : p = b * n
      BY <2>3
    <2>5. at = p * PAGE + 0 * g
      <3>1. b * (n * PAGE) = (b * n) * PAGE /\ p * PAGE + 0 * g = p * PAGE
        BY <2>3
      <3>. QED  BY <2>1, <2>2, <2>4, <3>1
    <2>6. 0 * g + g <= PAGE_USED
      <3>1. PICK x \in Nat : x = j * g
        OBVIOUS
      <3>2. 0 * g + g = g /\ PAGE_USED \in Nat
        BY GroupNumbers
      <3>. QED  BY <1>2, <3>1, <3>2
    <2>7. 0 \in Nat
      OBVIOUS
    <2>. QED  BY <1>1, <1>4, <1>5, <2>5, <2>6, <2>7 DEF GroupFits
  <1>. QED  BY <1>5, <1>6, <1>7

\* The other places of the group follow in the same page of the same block.
LEMMA InGroup ==
  ASSUME NEW at \in Nat, GroupFits(at), NEW i \in Nat, i < GROUP
  PROVE  /\ at + i * SHORT_PACKET \in Nat
         /\ i # 0 => (at + i * SHORT_PACKET) % PAGE # PAGE_USED
         /\ BlockOf(at + i * SHORT_PACKET) = BlockOf(at)
         /\ IsShortPlace(at + i * SHORT_PACKET)
  <1>0. PICK q \in Nat, j \in Nat :
           /\ at = q * PAGE + j * (GROUP * SHORT_PACKET)
           /\ j * (GROUP * SHORT_PACKET) + GROUP * SHORT_PACKET <= PAGE_USED
    BY DEF GroupFits
  <1>1. /\ PAGE \in Nat \ {0} /\ PAGE_USED \in Nat \ {0} /\ PAGE_USED <= PAGE
        /\ GROUP \in Nat \ {0} /\ SHORT_PACKET \in Nat \ {0}
    BY GroupNumbers
  <1>2. PICK k \in Nat : k = j * GROUP + i
    BY <1>1
  <1>3. k * SHORT_PACKET = j * (GROUP * SHORT_PACKET) + i * SHORT_PACKET
    <2>1. j * GROUP \in Nat /\ (j * GROUP) * SHORT_PACKET = j * (GROUP * SHORT_PACKET)
      BY <1>1
    <2>2. PICK y \in Nat : y = j * GROUP
      BY <2>1
    <2>3. (y + i) * SHORT_PACKET = y * SHORT_PACKET + i * SHORT_PACKET
      BY <1>1
    <2>. QED  BY <1>2, <2>1, <2>2, <2>3
  <1>4. PICK g \in Nat, x \in Nat, z \in Nat, v \in Nat :
           /\ g = GROUP * SHORT_PACKET /\ x = j * g /\ z = i * SHORT_PACKET /\ v = q * PAGE
    BY <1>1
  <1>5. z + SHORT_PACKET <= g
    <2>1. (i + 1) * SHORT_PACKET <= GROUP * SHORT_PACKET
      BY <1>1, Times
    <2>2. (i + 1) * SHORT_PACKET = i * SHORT_PACKET + SHORT_PACKET
      BY <1>1
    <2>. QED  BY <1>4, <2>1, <2>2
  <1>6. k * SHORT_PACKET = x + z /\ x + g <= PAGE_USED /\ at = v + x
    BY <1>0, <1>3, <1>4
  <1>7. /\ at + i * SHORT_PACKET = q * PAGE + k * SHORT_PACKET
        /\ k * SHORT_PACKET + SHORT_PACKET <= PAGE_USED
    BY <1>1, <1>4, <1>5, <1>6
  <1>8. (at + i * SHORT_PACKET) % PAGE # PAGE_USED
    <2>1. PICK m \in 0 .. PAGE - 1 : m = x + z /\ m < PAGE_USED
      BY <1>1, <1>4, <1>5, <1>6
    <2>2. (q * PAGE + m) % PAGE = m
      BY <1>1, Quotient
    <2>3. at + i * SHORT_PACKET = q * PAGE + m
      BY <1>4, <1>6, <2>1
    <2>4. (at + i * SHORT_PACKET) % PAGE = m
      BY <2>2, <2>3
    <2>. QED  BY <1>1, <2>1, <2>4
  <1>9. BlockOf(at + i * SHORT_PACKET) = BlockOf(at)
    <2>1. PICK n \in Nat \ {0} : BLOCK = n * PAGE
      BY Geometry
    <2>2. PICK b \in Nat, t \in Nat : q = b * n + t /\ t < n
      <3>1. /\ q \div n \in Nat /\ q % n \in 0 .. n - 1
            /\ q = (q \div n) * n + (q % n)
        BY Division
      <3>2. PICK b \in Nat : b = q \div n
        BY <3>1
      <3>3. PICK t \in Nat : t = q % n
        BY <3>1
      <3>4. q = b * n + t /\ t < n
        BY <3>1, <3>2, <3>3
      <3>. QED  BY <3>4
    <2>3. (t + 1) * PAGE <= n * PAGE /\ (t + 1) * PAGE = t * PAGE + PAGE
      <3>1. t + 1 \in Nat /\ t + 1 <= n /\ (t + 1) * PAGE = t * PAGE + PAGE
        BY <1>1, <2>2
      <3>. QED  BY <1>1, <3>1, Times
    <2>4. q * PAGE = b * BLOCK + t * PAGE
      <3>1. PICK y \in Nat : y = b * n
        OBVIOUS
      <3>2. (y + t) * PAGE = y * PAGE + t * PAGE /\ (b * n) * PAGE = b * (n * PAGE)
        BY <1>1
      <3>. QED  BY <2>1, <2>2, <3>1, <3>2
    <2>5. BLOCK \in Nat \ {0} /\ (b + 1) * BLOCK = b * BLOCK + BLOCK
      <3>1. BLOCK \in Nat \ {0}
        BY Geometry DEF Numbers
      <3>. QED  BY <3>1
    <2>6. PICK w \in Nat, s \in Nat : w = b * BLOCK /\ s = t * PAGE
      BY <1>1, <2>5
    <2>7. s + PAGE <= BLOCK /\ v = w + s /\ (b + 1) * BLOCK = w + BLOCK
      BY <1>4, <2>1, <2>3, <2>4, <2>5, <2>6
    <2>8. PICK d \in Nat : d = at + i * SHORT_PACKET /\ w <= d /\ d < w + BLOCK
      BY <1>1, <1>4, <1>5, <1>6, <2>5, <2>7
    <2>9. w <= at /\ at < w + BLOCK
      BY <1>1, <1>4, <1>5, <1>6, <2>5, <2>7
    <2>10. BlockOf(d) = b /\ BlockOf(at) = b
      BY <2>6, <2>7, <2>8, <2>9, CellOfBlock
    <2>. QED  BY <2>8, <2>10
  <1>10. at + i * SHORT_PACKET \in Nat
    BY <1>1
  <1>. QED  BY <1>7, <1>8, <1>9, <1>10 DEF IsShortPlace

\* Where reading goes on is not behind what is still to be read.
LEMMA ShownIsAhead ==
  ASSUME LogIsFine, recorder = SHORT_PACKET, packetSize = SHORT_PACKET,
         NEW r \in Nat, NEW c \in Cells, Shows(flash, bad, c), r <= c
  PROVE  PlaceFor(r) <= c
  <1>1. LogIInv /\ Whole(flash, bad, SHORT_PACKET)
    BY DEF LogIsFine, OrderIInv, FlashIsSound
  <1>2. PICK b \in LogBlocks, a \in Nat :
           InBlock(a, b, SHORT_PACKET) /\ IsAt(flash, bad, flash[c], a, SHORT_PACKET)
    BY <1>1 DEF Whole
  <1>3. c \in a .. a + SHORT_PACKET - 1
    BY <1>2 DEF IsAt
  <1>4. PICK q \in Nat, k \in Nat : /\ a = q * PAGE + k * SHORT_PACKET
                                   /\ k * SHORT_PACKET + SHORT_PACKET <= PAGE_USED
    BY <1>2, ShortPlace DEF IsShortPlace
  <1>5. /\ PAGE \in Nat \ {0} /\ PAGE_USED \in Nat \ {0} /\ PAGE_USED <= PAGE
        /\ SHORT_PACKET \in Nat \ {0} /\ c \in Nat
    BY GroupNumbers, CellFacts
  <1>6. PageFor(r) \in Nat /\ PageFor(r) <= c
    <2>1. CASE r % PAGE # PAGE_USED
      BY <2>1 DEF PageFor
    <2>2. CASE r % PAGE = PAGE_USED
      <3>1. PICK p \in Nat : p = r \div PAGE
        BY <1>5, Division
      <3>2. r = p * PAGE + PAGE_USED
        BY <1>5, <2>2, <3>1, Division
      <3>3. PICK x \in Nat, y \in Nat, z \in Nat :
               x = p * PAGE /\ y = q * PAGE /\ z = k * SHORT_PACKET
        BY <1>5
      <3>4. c < y + PAGE_USED
        BY <1>3, <1>4, <1>5, <3>3
      <3>5. p < q
        <4>1. p * PAGE < q * PAGE
          BY <1>5, <3>2, <3>3, <3>4
        <4>. QED  BY <1>5, <4>1, Cancel
      <3>6. (p + 1) * PAGE <= q * PAGE
        <4>1. p + 1 \in Nat /\ p + 1 <= q
          BY <3>5
        <4>. QED  BY <1>5, <4>1, Times
      <3>7. (p + 1) * PAGE <= c
        <4>1. (p + 1) * PAGE \in Nat
          BY <1>5
        <4>. QED  BY <1>3, <1>4, <1>5, <3>3, <3>6, <4>1
      <3>8. PageFor(r) = (p + 1) * PAGE
        BY <2>2, <3>1 DEF PageFor
      <3>. QED  BY <1>5, <3>7, <3>8
    <2>. QED  BY <2>1, <2>2
  <1>7. BlockOf(c) \notin bad
    BY DEF Shows
  <1>. QED  BY <1>1, <1>6, <1>7, GoodPlace DEF PlaceFor

\* What a call has read of the group at "at".
GroupAt(s, at) ==
    /\ Len(s.buf) \in 1 .. GROUP
    /\ s.addr = at + Len(s.buf) * SHORT_PACKET
    /\ s.loc \in Int /\ s.offset \in Int /\ s.loc + s.offset = at
    /\ \A i \in 1 .. Len(s.buf) :
          s.buf[i] = Content(at + (i - 1) * SHORT_PACKET, SHORT_PACKET)

\* The first packet of a group, in the page and the block it is looked for in.
LEMMA FirstOfGroup ==
  ASSUME LogIInv, packetSize = SHORT_PACKET, ReadLocation \in Nat, OnGroups(ReadLocation)
  PROVE  GroupAt(ReadPacket(StartOfGroup), PlaceFor(ReadLocation))
  <1>1. PICK r \in Nat : r = ReadLocation
    OBVIOUS
  <1>2. PICK at \in Nat : at = PlaceFor(r)
    BY <1>1, GroupPlace
  <1>3. PICK page \in Nat : page = PageFor(r)
    BY PageIsAhead
  <1>4. /\ PAGE \in Nat \ {0} /\ PAGE_USED \in Nat /\ GROUP \in Nat \ {0}
        /\ SHORT_PACKET \in Nat
    BY GroupNumbers
  <1>. DEFINE t == ReadPacket(StartOfGroup)
  <1>. DEFINE off == IF r % PAGE = PAGE_USED THEN PAGE - PAGE_USED ELSE 0
  <1>5. off \in Int /\ page = r + off
    <2>1. CASE r % PAGE # PAGE_USED
      BY <1>3, <2>1 DEF PageFor
    <2>2. CASE r % PAGE = PAGE_USED
      <3>1. PICK p \in Nat : p = r \div PAGE
        BY <1>4, Division
      <3>2. r = p * PAGE + PAGE_USED
        BY <1>4, <2>2, <3>1, Division
      <3>3. page = (p + 1) * PAGE
        BY <1>3, <2>2, <3>1 DEF PageFor
      <3>4. (p + 1) * PAGE = p * PAGE + PAGE /\ p * PAGE \in Nat
        BY <1>4
      <3>. QED  BY <1>4, <2>2, <3>2, <3>3, <3>4
    <2>. QED  BY <2>1, <2>2
  <1>6. at - off - (r + (at - page)) = 0
    BY <1>5
  <1>7. t = [addr |-> at + SHORT_PACKET, loc |-> r + (at - page), offset |-> off,
             buf |-> Append(<<>>, IF at - off - (r + (at - page)) = Len(<<>>) * SHORT_PACKET
                                  THEN Content(at, SHORT_PACKET) ELSE GARBAGE)]
    BY <1>1, <1>2, <1>3 DEF ReadPacket, StartOfGroup, PlaceFor, PageFor
  <1>8. Len(<<>>) * SHORT_PACKET = 0
    BY <1>4
  <1>9. /\ t.addr = at + SHORT_PACKET /\ t.loc = r + (at - page) /\ t.offset = off
        /\ t.buf = <<Content(at, SHORT_PACKET)>>
    BY <1>6, <1>7, <1>8
  <1>10. Len(t.buf) = 1 /\ t.buf[1] = Content(at, SHORT_PACKET)
    BY <1>9
  <1>11. t.addr = at + 1 * SHORT_PACKET /\ at + (1 - 1) * SHORT_PACKET = at
    BY <1>4, <1>9
  <1>12. t.loc \in Int /\ t.offset \in Int /\ t.loc + t.offset = at
    BY <1>5, <1>9
  <1>13. \A i \in 1 .. Len(t.buf) :
            t.buf[i] = Content(at + (i - 1) * SHORT_PACKET, SHORT_PACKET)
    <2>1. \A i \in 1 .. Len(t.buf) : i = 1
      BY <1>10
    <2>. QED  BY <1>10, <1>11, <2>1
  <1>. QED  BY <1>1, <1>2, <1>4, <1>10, <1>11, <1>12, <1>13 DEF GroupAt

\* The next one, while the group is not full.
LEMMA NextOfGroup ==
  ASSUME LogIInv, packetSize = SHORT_PACKET, NEW at \in Nat, BlockOf(at) \notin bad,
         GroupFits(at), NEW s, GroupAt(s, at), Len(s.buf) < GROUP, s.buf \in Seq(QueueValues)
  PROVE  GroupAt(ReadPacket(s), at) /\ Len(ReadPacket(s).buf) = Len(s.buf) + 1
  <1>1. PICK m \in 1 .. GROUP : m = Len(s.buf)
    BY DEF GroupAt
  <1>2. PICK a \in Nat : a = at + m * SHORT_PACKET
    <2>1. SHORT_PACKET \in Nat /\ GROUP \in Nat /\ m \in Nat
      BY <1>1, GroupNumbers
    <2>. QED  BY <2>1
  <1>3. a % PAGE # PAGE_USED /\ BlockOf(a) = BlockOf(at)
    <2>1. m \in Nat /\ m # 0 /\ m < GROUP
      BY <1>1, GroupNumbers
    <2>. QED  BY <1>2, <2>1, InGroup
  <1>4. s.addr = a /\ s.loc \in Int /\ s.offset \in Int /\ s.loc + s.offset = at
    BY <1>1, <1>2 DEF GroupAt
  <1>5. HandleBadBlock(a, bad) = a
    BY <1>3 DEF HandleBadBlock
  <1>. DEFINE t == ReadPacket(s)
  <1>6. t = [addr |-> a + SHORT_PACKET, loc |-> s.loc + (a - a), offset |-> s.offset,
             buf |-> Append(s.buf, IF a - s.offset - (s.loc + (a - a)) = m * SHORT_PACKET
                                   THEN Content(a, SHORT_PACKET) ELSE GARBAGE)]
    BY <1>1, <1>3, <1>4, <1>5 DEF ReadPacket
  <1>7. s.loc + (a - a) = s.loc
    BY <1>4
  <1>8. a - s.offset - s.loc = m * SHORT_PACKET
    <2>1. PICK x \in Nat : x = m * SHORT_PACKET
      <3>1. m \in Nat /\ SHORT_PACKET \in Nat
        BY <1>1, GroupNumbers
      <3>. QED  BY <3>1
    <2>2. PICK u \in Int, v \in Int : u = s.loc /\ v = s.offset
      BY <1>4
    <2>3. a = at + x
      BY <1>2, <2>1
    <2>4. u + v = at
      BY <1>4, <2>2, Zenon
    <2>5. a - v - u = x
      BY <2>3, <2>4
    <2>. QED  BY <2>1, <2>2, <2>5, Zenon
  <1>9. /\ t.addr = a + SHORT_PACKET /\ t.loc = s.loc /\ t.offset = s.offset
        /\ t.buf = Append(s.buf, Content(a, SHORT_PACKET))
    BY <1>6, <1>7, <1>8
  <1>10. PICK x : x = Content(a, SHORT_PACKET)
    OBVIOUS
  <1>11. /\ Len(t.buf) = m + 1 /\ t.buf[m + 1] = x
         /\ \A i \in 1 .. m : t.buf[i] = s.buf[i]
    BY <1>1, <1>9, <1>10
  <1>12. m + 1 \in 1 .. GROUP
    BY <1>1, GroupNumbers
  <1>13. t.addr = at + (m + 1) * SHORT_PACKET
    <2>1. SHORT_PACKET \in Nat /\ m \in Nat
      BY <1>1, GroupNumbers
    <2>2. (m + 1) * SHORT_PACKET = m * SHORT_PACKET + SHORT_PACKET /\ m * SHORT_PACKET \in Nat
      BY <2>1
    <2>. QED  BY <1>2, <1>9, <2>1, <2>2
  <1>14. ASSUME NEW i \in 1 .. m + 1
         PROVE  t.buf[i] = Content(at + (i - 1) * SHORT_PACKET, SHORT_PACKET)
    <2>1. CASE i = m + 1
      <3>1. i - 1 = m
        BY <1>1, <2>1
      <3>. QED  BY <1>2, <1>10, <1>11, <2>1, <3>1
    <2>2. CASE i # m + 1
      <3>1. i \in 1 .. m
        BY <1>1, <2>2
      <3>. QED  BY <1>1, <1>11, <3>1 DEF GroupAt
    <2>. QED  BY <2>1, <2>2
  <1>15. t.loc \in Int /\ t.offset \in Int /\ t.loc + t.offset = at
    BY <1>4, <1>9
  <1>. QED  BY <1>1, <1>11, <1>12, <1>13, <1>14, <1>15 DEF GroupAt

\* Up to GROUP packets follow each other from the place of the first, and the
\* call stops before only at the end of what is read.
LEMMA GroupIs ==
  ASSUME LogIInv, packetSize = SHORT_PACKET, ReadLocation \in Nat, ReadEnd \in Nat,
         OnGroups(ReadLocation)
  PROVE  /\ Group.buf \in Seq(QueueValues) /\ Group.addr \in Nat
         /\ Group = StartOfGroup \/ GroupAt(Group, PlaceFor(ReadLocation))
         /\ Len(Group.buf) = GROUP \/ ReadEnd <= Group.addr
         /\ Len(Group.buf) \in 0 .. GROUP
  <1>1. PICK at \in Nat : at = PlaceFor(ReadLocation) /\ BlockOf(at) \notin bad
    BY GroupPlace
  <1>2. GroupFits(at)
    BY <1>1, GroupPlace
  <1>3. GROUP \in Nat \ {0} /\ SHORT_PACKET \in Nat
    BY GroupNumbers
  <1>. DEFINE Fine(s) == /\ s.buf \in Seq(QueueValues) /\ s.addr \in Nat
                         /\ s = StartOfGroup \/ GroupAt(s, at)
  <1>. DEFINE S == {n \in 0 .. GROUP : /\ Fine(Reading[n])
                                       /\ \/ Len(Reading[n].buf) = n
                                          \/ ReadEnd <= Reading[n].addr}
  <1>4. 0 \in S
    <2>1. Reading[0] = StartOfGroup
      BY ReadingSteps
    <2>2. StartOfGroup.buf = <<>> /\ StartOfGroup.addr = ReadLocation /\ Len(<<>>) = 0
      BY DEF StartOfGroup
    <2>3. Fine(Reading[0])
      BY <2>1, <2>2
    <2>4. 0 \in 0 .. GROUP
      BY <1>3
    <2>. QED  BY <2>1, <2>2, <2>3, <2>4
  <1>5. ASSUME NEW n \in S, n < GROUP PROVE n + 1 \in S
    <2>1. PICK s : s = Reading[n]
      OBVIOUS
    <2>2. Fine(s) /\ (Len(s.buf) = n \/ ReadEnd <= s.addr) /\ n \in 0 .. GROUP
      BY <2>1
    <2>3. Reading[n + 1] = ReadNext(s)
      BY <1>5, <2>1, <2>2, ReadingSteps
    <2>4. n + 1 \in 0 .. GROUP
      BY <1>3, <1>5, <2>2
    <2>5. CASE ~(s.addr < ReadEnd)
      <3>1. Reading[n + 1] = s
        BY <2>3, <2>5 DEF ReadNext
      <3>2. ReadEnd <= s.addr
        BY <2>2, <2>5
      <3>. QED  BY <2>2, <2>4, <3>1, <3>2
    <2>6. CASE s.addr < ReadEnd
      <3>1. Reading[n + 1] = ReadPacket(s)
        BY <2>3, <2>6 DEF ReadNext
      <3>2. Len(s.buf) = n
        BY <2>2, <2>6
      <3>3. GroupAt(ReadPacket(s), at) /\ Len(ReadPacket(s).buf) = n + 1
        <4>1. CASE s = StartOfGroup
          <5>1. GroupAt(ReadPacket(s), at)
            BY <1>1, <4>1, FirstOfGroup
          <5>2. n = 0 /\ s.buf = <<>>
            BY <3>2, <4>1 DEF StartOfGroup
          <5>3. Len(ReadPacket(s).buf) = 1
            <6>1. \E x : ReadPacket(s).buf = Append(s.buf, x)
              BY PacketIsRead, Zenon
            <6>. QED  BY <5>2, <6>1
          <5>. QED  BY <5>1, <5>2, <5>3
        <4>2. CASE GroupAt(s, at)
          BY <1>1, <1>2, <1>5, <2>2, <3>2, <4>2, NextOfGroup
        <4>. QED  BY <2>2, <4>1, <4>2
      <3>4. ReadPacket(s).buf \in Seq(QueueValues) /\ ReadPacket(s).addr \in Nat
        <4>1. PICK x : /\ ReadPacket(s).buf = Append(s.buf, x)
                       /\ x = Content(PlaceFor(s.addr), packetSize) \/ x = GARBAGE
          BY PacketIsRead, Zenon
        <4>2. PlaceFor(s.addr) \in Nat
          <5>1. s.addr \in Nat
            BY <2>2
          <5>2. PageFor(s.addr) \in Nat
            BY <5>1, PageIsAhead
          <5>. QED  BY <5>2, GoodPlace DEF PlaceFor
        <4>3. x \in QueueValues
          <5>1. Content(PlaceFor(s.addr), packetSize) \in QueueValues
            BY <4>2, ContentIs
          <5>2. GARBAGE \in QueueValues
            BY DEF QueueValues
          <5>. QED  BY <4>1, <5>1, <5>2
        <4>4. ReadPacket(s).addr = PlaceFor(s.addr) + packetSize
          BY PacketIsRead, Zenon
        <4>. QED  BY <1>3, <2>2, <4>1, <4>2, <4>3, <4>4
      <3>5. Fine(Reading[n + 1])
        BY <3>1, <3>3, <3>4
      <3>. QED  BY <2>4, <3>1, <3>3, <3>5
    <2>. QED  BY <2>5, <2>6
  <1>6. \A n \in 0 .. GROUP : n \in S
    <2>1. GROUP \in Nat /\ \A n \in S : n < GROUP => n + 1 \in S
      BY <1>3, <1>5
    <2>. HIDE DEF S
    <2>. QED  BY <1>4, <2>1, CountUp
  <1>7. GROUP \in S
    <2>1. GROUP \in 0 .. GROUP
      BY <1>3
    <2>. HIDE DEF S
    <2>. QED  BY <1>6, <2>1
  <1>8. Fine(Group) /\ (Len(Group.buf) = GROUP \/ ReadEnd <= Group.addr)
    BY <1>7 DEF Group
  <1>9. Len(Group.buf) \in 0 .. GROUP
    <2>1. CASE Group = StartOfGroup
      BY <1>3, <2>1 DEF StartOfGroup
    <2>2. CASE GroupAt(Group, at)
      BY <1>3, <2>2 DEF GroupAt
    <2>. QED  BY <1>8, <2>1, <2>2
  <1>. QED  BY <1>1, <1>8, <1>9

\* A packet of the flash is what its place is read as.
LEMMA PlaceIsReadAs ==
  ASSUME recorder = SHORT_PACKET, NEW c \in Cells, Shows(flash, bad, c),
         NEW b \in LogBlocks, NEW a \in Nat, InBlock(a, b, SHORT_PACKET),
         IsAt(flash, bad, flash[c], a, SHORT_PACKET)
  PROVE  Content(a, SHORT_PACKET) = flash[c]
  <1>1. PICK p \in Packets : p = flash[c]
    BY DEF Shows
  <1>2. SHORT_PACKET \in Nat \ {0} /\ SHORT_PACKET \in 1 .. PAGE
    BY GroupNumbers, Geometry DEF Numbers
  <1>3. \A d \in a .. a + SHORT_PACKET - 1 : d \in Cells /\ flash[d] = p
    <2>1. \A d \in a .. a + SHORT_PACKET - 1 : d \in Cells
      BY <1>2, PlaceCells
    <2>. QED  BY <1>1, <2>1 DEF IsAt
  <1>4. a \in a .. a + SHORT_PACKET - 1
    BY <1>2
  <1>. DEFINE whole == {x \in Packets : \A d \in a .. a + SHORT_PACKET - 1 :
                                           d \in Cells /\ flash[d] = x}
  <1>5. whole = {p}
    <2>1. p \in whole
      BY <1>3
    <2>2. \A x \in whole : x = p
      BY <1>3, <1>4
    <2>. QED  BY <2>1, <2>2
  <1>6. Content(a, SHORT_PACKET) = CHOOSE x \in whole : TRUE
    BY <1>5 DEF Content
  <1>7. (CHOOSE x \in whole : TRUE) = p
    <2>. HIDE DEF whole
    <2>. QED  BY <1>5
  <1>. QED  BY <1>1, <1>6, <1>7

\* A call reads every packet it does not leave ahead.
LEMMA GroupHas ==
  ASSUME LogIsFine, recorder = SHORT_PACKET, packetSize = SHORT_PACKET,
         ReadLocation \in Nat, ReadEnd \in Nat, OnGroups(ReadLocation),
         NEW c \in Cells, Shows(flash, bad, c), ReadLocation <= c
  PROVE  flash[c] \in ToSet(Group.buf) \/ Group.addr <= c
  <1>1. LogIInv /\ Whole(flash, bad, SHORT_PACKET)
    BY DEF LogIsFine, OrderIInv, FlashIsSound
  <1>2. PICK at \in Nat : at = PlaceFor(ReadLocation) /\ GroupFits(at)
    BY <1>1, GroupPlace
  <1>3. at <= c
    BY <1>2, ShownIsAhead
  <1>4. CASE Group = StartOfGroup
    BY <1>4 DEF StartOfGroup
  <1>5. CASE GroupAt(Group, at)
    <2>1. PICK m \in 1 .. GROUP : m = Len(Group.buf)
      BY <1>5 DEF GroupAt
    <2>2. SHORT_PACKET \in Nat \ {0} /\ GROUP \in Nat /\ PAGE_USED <= PAGE /\ c \in Nat
          /\ PAGE \in Nat /\ PAGE_USED \in Nat
      BY GroupNumbers, CellFacts
    <2>3. Group.addr = at + m * SHORT_PACKET
      BY <1>5, <2>1 DEF GroupAt
    <2>4. SUFFICES ASSUME c < at + m * SHORT_PACKET PROVE flash[c] \in ToSet(Group.buf)
      <3>1. m * SHORT_PACKET \in Nat
        BY <2>1, <2>2
      <3>. QED  BY <2>2, <2>3, <3>1
    <2>5. PICK x \in Nat : x = c - at
      BY <1>3, <2>2
    <2>6. PICK i \in Nat, z \in 0 .. SHORT_PACKET - 1 : x = i * SHORT_PACKET + z
      <3>1. PICK i \in Nat : i = x \div SHORT_PACKET
        BY <2>2, Division
      <3>2. PICK z \in 0 .. SHORT_PACKET - 1 : z = x % SHORT_PACKET
        BY <2>2, Division
      <3>3. x = i * SHORT_PACKET + z
        BY <2>2, <3>1, <3>2, Division
      <3>. QED  BY <3>3
    <2>7. PICK u \in Nat : u = i * SHORT_PACKET
      BY <2>2
    <2>8. i < m
      <3>1. i * SHORT_PACKET < m * SHORT_PACKET
        <4>1. PICK v \in Nat : v = m * SHORT_PACKET
          BY <2>1, <2>2
        <4>2. at + u + z = c /\ c < at + v
          BY <2>2, <2>4, <2>5, <2>6, <2>7, <4>1
        <4>3. u < v
          BY <2>2, <4>2
        <4>. QED  BY <2>7, <4>1, <4>3
      <3>. QED  BY <2>1, <2>2, <3>1, Cancel
    <2>9. PICK d \in Nat : d = at + i * SHORT_PACKET /\ d <= c /\ c < d + SHORT_PACKET
      <3>1. PICK d \in Nat : d = at + u
        OBVIOUS
      <3>2. d <= c /\ c < d + SHORT_PACKET
        BY <2>2, <2>5, <2>6, <2>7, <3>1
      <3>. QED  BY <2>7, <3>1, <3>2
    <2>10. IsShortPlace(d)
      <3>1. i < GROUP
        BY <2>1, <2>2, <2>8
      <3>. QED  BY <1>2, <2>9, <3>1, InGroup
    <2>11. PICK b \in LogBlocks, a \in Nat :
              InBlock(a, b, SHORT_PACKET) /\ IsAt(flash, bad, flash[c], a, SHORT_PACKET)
      BY <1>1 DEF Whole
    <2>12. IsShortPlace(a)
      BY <2>11, ShortPlace
    <2>13. a <= c /\ c < a + SHORT_PACKET
      <3>1. c \in a .. a + SHORT_PACKET - 1
        BY <2>11 DEF IsAt
      <3>. QED  BY <2>2, <3>1
    <2>14. a = d
      BY <2>2, <2>9, <2>10, <2>12, <2>13, SameShortPlace
    <2>15. Content(d, SHORT_PACKET) = flash[c]
      BY <2>11, <2>14, PlaceIsReadAs
    <2>16. PICK n \in 1 .. m : n = i + 1
      BY <2>1, <2>8
    <2>17. Group.buf[n] = Content(d, SHORT_PACKET)
      <3>1. n - 1 = i
        BY <2>16
      <3>2. Group.buf[n] = Content(at + (n - 1) * SHORT_PACKET, SHORT_PACKET)
        BY <1>5, <2>1 DEF GroupAt
      <3>. QED  BY <2>9, <3>1, <3>2
    <2>18. Group.buf \in Seq(QueueValues)
      BY <1>1, GroupIs
    <2>. QED  BY <2>1, <2>15, <2>16, <2>17, <2>18 DEF ToSet
  <1>. QED  BY <1>1, <1>2, <1>4, <1>5, GroupIs

\* Behind a full group the next one fits, or the page is used up.
LEMMA FullGroupEnds ==
  ASSUME LogIInv, packetSize = SHORT_PACKET, ReadLocation \in Nat, ReadEnd \in Nat,
         OnGroups(ReadLocation), Len(Group.buf) = GROUP
  PROVE  OnGroups(Group.addr)
  <1>1. PICK at \in Nat : at = PlaceFor(ReadLocation) /\ GroupFits(at)
    BY GroupPlace
  <1>2. GROUP \in Nat \ {0} /\ PAGE \in Nat /\ PAGE_USED \in Nat
    BY GroupNumbers
  <1>3. PICK g \in Nat \ {0} : g = GROUP * SHORT_PACKET
    BY GroupNumbers
  <1>4. Group # StartOfGroup
    BY <1>2 DEF StartOfGroup
  <1>5. Group.addr = at + g
    BY <1>1, <1>3, <1>4, GroupIs DEF GroupAt
  <1>6. PICK q \in Nat, j \in Nat : at = q * PAGE + j * g /\ j * g + g <= PAGE_USED
    BY <1>1, <1>3 DEF GroupFits
  <1>7. (j + 1) * g = j * g + g /\ j + 1 \in Nat /\ j * g \in Nat /\ q * PAGE \in Nat
    BY <1>2
  <1>8. Group.addr = q * PAGE + (j + 1) * g /\ (j + 1) * g <= PAGE_USED
    <2>1. PICK x \in Nat, y \in Nat : x = q * PAGE /\ y = j * g
      BY <1>7
    <2>. QED  BY <1>5, <1>6, <1>7, <2>1
  <1>. QED  BY <1>3, <1>7, <1>8 DEF OnGroups

\* A call that comes to the end of the device with less than a group leaves
\* nothing ahead.
LEMMA ShortGroupAtEnd ==
  ASSUME LogIsFine, recorder = SHORT_PACKET, packetSize = SHORT_PACKET,
         ReadLocation \in Nat, ReadEnd = RDU_LOG_ADDR_END, OnGroups(ReadLocation),
         Len(Group.buf) < GROUP, NoneAtEnd,
         NEW c \in Cells, Shows(flash, bad, c)
  PROVE  ~(ReadLocation <= c)
  <1>. SUFFICES ASSUME ReadLocation <= c PROVE FALSE
    OBVIOUS
  <1>1. LogIInv
    BY DEF LogIsFine
  <1>2. PICK at \in Nat : at = PlaceFor(ReadLocation) /\ GroupFits(at) /\ at <= c
    BY <1>1, GroupPlace, ShownIsAhead
  <1>3. /\ PAGE \in Nat \ {0} /\ PAGE_USED \in Nat \ {0} /\ PAGE_USED <= PAGE
        /\ SHORT_PACKET \in Nat \ {0} /\ GROUP \in Nat /\ c \in Nat
    BY GroupNumbers, CellFacts
  <1>4. RDU_LOG_ADDR_END \in Nat /\ c < RDU_LOG_ADDR_END
    BY EndOfDevice DEF NoneAtEnd
  <1>5. RDU_LOG_ADDR_END <= Group.addr
    BY <1>1, <1>3, <1>4, GroupIs
  <1>6. CASE Group = StartOfGroup
    <2>1. Group.addr = ReadLocation
      BY <1>6 DEF StartOfGroup
    <2>. QED  BY <1>3, <1>4, <1>5, <2>1
  <1>7. CASE GroupAt(Group, at)
    <2>1. PICK m \in Nat : m = Len(Group.buf) /\ m < GROUP
      <3>1. Len(Group.buf) \in Nat
        BY <1>1, <1>3, <1>4, GroupIs
      <3>. QED  BY <3>1
    <2>2. PICK q \in Nat, j \in Nat :
             /\ at = q * PAGE + j * (GROUP * SHORT_PACKET)
             /\ j * (GROUP * SHORT_PACKET) + GROUP * SHORT_PACKET <= PAGE_USED
      BY <1>2 DEF GroupFits
    <2>3. PICK e \in Nat : RDU_LOG_ADDR_END = e * PAGE
      BY EndOfDevice
    <2>4. m * SHORT_PACKET <= GROUP * SHORT_PACKET /\ m * SHORT_PACKET # GROUP * SHORT_PACKET
      <3>1. m * SHORT_PACKET <= GROUP * SHORT_PACKET
        BY <1>3, <2>1, Times
      <3>2. ~(GROUP * SHORT_PACKET <= m * SHORT_PACKET)
        BY <1>3, <2>1, Cancel
      <3>3. GROUP * SHORT_PACKET \in Nat /\ m * SHORT_PACKET \in Nat
        BY <1>3
      <3>. QED  BY <3>1, <3>2, <3>3
    <2>5. PICK g \in Nat : g = GROUP * SHORT_PACKET
      BY GroupNumbers
    <2>6. PICK x \in Nat, y \in Nat, z \in Nat, w \in Nat :
             x = q * PAGE /\ y = j * g /\ z = e * PAGE /\ w = m * SHORT_PACKET
      BY <1>3
    <2>7. z <= x + y + w
      <3>1. Group.addr = at + w
        BY <1>7, <2>1, <2>6 DEF GroupAt
      <3>2. at = x + y
        BY <2>2, <2>5, <2>6
      <3>. QED  BY <1>5, <2>3, <2>6, <3>1, <3>2
    <2>8. y + w < PAGE_USED
      <3>1. y + g <= PAGE_USED
        BY <2>2, <2>5, <2>6
      <3>2. w < g
        BY <2>4, <2>5, <2>6
      <3>. QED  BY <1>3, <3>1, <3>2
    <2>9. e < q + 1
      <3>1. (q + 1) * PAGE = x + PAGE /\ q + 1 \in Nat
        BY <1>3, <2>6
      <3>2. e * PAGE < (q + 1) * PAGE
        BY <1>3, <2>6, <2>7, <2>8, <3>1
      <3>. QED  BY <1>3, <3>1, <3>2, Cancel
    <2>10. e * PAGE <= q * PAGE
      BY <1>3, <2>9, Times
    <2>11. z <= at
      <3>1. z <= x
        BY <2>6, <2>10
      <3>2. at = x + y
        BY <2>2, <2>5, <2>6
      <3>. QED  BY <3>1, <3>2
    <2>. QED  BY <1>2, <1>3, <1>4, <2>3, <2>6, <2>11
  <1>. QED  BY <1>1, <1>2, <1>4, <1>6, <1>7, GroupIs

\* The packet that is being written is newer than those the addresses tell of.
LEMMA AheadIsNewer ==
  ASSUME LogIsFine, recorder = SHORT_PACKET,
         NEW c \in Cells, Shows(flash, bad, c), address <= c, ~Behind(wrapAddr, c),
         NEW d \in Cells, Shows(flash, bad, d), d < address \/ Behind(wrapAddr, d)
  PROVE  flash[d] < flash[c]
  <1>1. /\ LogIInv /\ PlaceIsGood /\ PlaceIsTaken
        /\ InOrder(flash, bad, wrapAddr) /\ Whole(flash, bad, SHORT_PACKET)
    BY IInvParts DEF LogIsFine, OrderIInv, FlashIsSound
  <1>2. /\ wrapAddr \in Nat /\ address \in Nat /\ c \in Nat /\ d \in Nat
        /\ flash[c] \in Packets /\ flash[d] \in Packets /\ BlockOf(c) \notin bad
    BY <1>1, WrapNumbers, CellFacts DEF Shows
  <1>3. flash[c] \in Nat /\ flash[d] \in Nat /\ flash[c] # ERASED
    BY <1>2, PacketNumbers
  <1>4. wrapAddr = 0 \/ c < wrapAddr
    BY <1>2 DEF Behind
  <1>5. machState = "CONFIRM"
    <2>1. SUFFICES ASSUME machState # "CONFIRM" PROVE flash[c] = ERASED
      BY <1>3
    <2>2. Position = address
      BY <2>1 DEF Position
    <2>3. CASE wrapAddr = 0
      <3>1. ErasedFrom(address)
        BY <1>1, <2>2, <2>3, Zenon DEF PlaceIsGood
      <3>. QED  BY <1>2, <3>1 DEF ErasedFrom
    <2>4. CASE wrapAddr # 0
      <3>1. ErasedToWrap(address)
        BY <1>1, <2>2, <2>4, Zenon DEF PlaceIsGood
      <3>. QED  BY <1>2, <1>4, <2>4, <3>1 DEF ErasedToWrap
    <2>. QED  BY <2>3, <2>4
  <1>6. PICK b \in LogBlocks : /\ InBlock(address, b, SHORT_PACKET)
                               /\ wrapAddr # 0 => wrapAddr = (b + 1) * BLOCK
    BY <1>1, <1>5, Zenon DEF PlaceIsTaken
  <1>7. Earlier(wrapAddr, d, c)
    BY <1>2 DEF Earlier, Behind
  <1>8. flash[d] <= flash[c]
    BY <1>1, <1>7, Zenon DEF InOrder
  <1>9. ASSUME flash[d] = flash[c] PROVE FALSE
    <2>1. PICK g \in LogBlocks, a \in Nat :
            InBlock(a, g, SHORT_PACKET) /\ IsAt(flash, bad, flash[c], a, SHORT_PACKET)
      BY <1>1, Zenon DEF Whole
    <2>2. c \in a .. a + SHORT_PACKET - 1 /\ d \in a .. a + SHORT_PACKET - 1
      BY <1>9, <2>1, Zenon DEF IsAt
    <2>3. SHORT_PACKET \in Nat \ {0} /\ SHORT_PACKET \in 1 .. PAGE
      BY GroupNumbers, Geometry DEF Numbers
    <2>4. CASE d < address
      <3>1. IsShortPlace(a) /\ IsShortPlace(address)
        BY <1>6, <2>1, ShortPlace
      <3>2. /\ a <= address /\ address < a + SHORT_PACKET /\ a # address
            /\ address <= address /\ address < address + SHORT_PACKET
        BY <1>2, <2>2, <2>3, <2>4
      <3>. QED  BY <1>2, <3>1, <3>2, SameShortPlace
    <2>5. CASE Behind(wrapAddr, d)
      <3>1. wrapAddr # 0 /\ wrapAddr <= d
        BY <1>2, <2>5 DEF Behind
      <3>2. BlockOf(c) = g /\ BlockOf(d) = g
        BY <2>1, <2>2, <2>3, PlaceCells
      <3>3. g \in Nat /\ b + 1 \in Nat
        <4>1. g \in Nat /\ b \in Nat
          BY BlockSums, Zenon
        <4>. QED  BY <4>1
      <3>4. CASE g < b + 1
        <4>1. d < (b + 1) * BLOCK
          BY <3>2, <3>3, <3>4, BlockOrder
        <4>. QED  BY <1>2, <1>6, <3>1, <4>1
      <3>5. CASE b + 1 <= g
        <4>1. (b + 1) * BLOCK <= c
          BY <3>2, <3>3, <3>5, BlockOrder
        <4>. QED  BY <1>2, <1>4, <1>6, <3>1, <4>1
      <3>. QED  BY <3>3, <3>4, <3>5
    <2>. QED  BY <2>4, <2>5
  <1>. QED  BY <1>3, <1>8, <1>9

OvertakenFollows ==
    overtaken' = (~Opens /\ (overtaken \/ (GetFrontEnd /\ address' < address)))

\* The log machine leaves what is old in the file or ahead, unless it starts
\* over while the end of the log is read.
LEMMA LogCallWhole ==
  ASSUME UploadIInv, UploadIInv', WholeIInv, recorder = SHORT_PACKET,
         CallLogMachine \/ PacketsArrive, newest' = newest, OvertakenFollows,
         faults' \subseteq Harmless
  PROVE  WholeIInv'
  <1>1. LogIsFine /\ LogIsFine' /\ LogIInv
    BY DEF UploadIInv, LogIsFine
  <1>2. /\ LogMachine \/ ReceivePacket
        /\ UNCHANGED <<appState, file, fileState, ReadLocation, ReadEnd, GetFrontEnd, stick>>
    <2>1. CASE CallLogMachine
      BY <2>1, Zenon DEF CallLogMachine, appVars, readVars, fileVars, plugVars
    <2>2. CASE PacketsArrive
      BY <2>2, Zenon DEF PacketsArrive, appVars, readVars, fileVars, plugVars
    <2>. QED  BY <2>1, <2>2
  <1>3. OldStay /\ (WrapStays \/ LogStartsOver \/ WrapMovesOn)
    BY <1>1, <1>2, LogUnderUpload
  <1>4. ~overtaken' => ~overtaken /\ (GetFrontEnd => ~(address' < address))
    BY <1>2 DEF OvertakenFollows, Opens
  <1>5. NoneAtEnd'
    <2>1. CASE UNCHANGED <<flash, bad>>
      BY <2>1, Zenon DEF WholeIInv, NoneAtEnd, Shows
    <2>2. CASE Run /\ UNCHANGED <<recorder, sent>>
      BY <1>1, <2>2, RunBeforeEnd DEF WholeIInv
    <2>3. CASE ReceivePacket
      BY <2>1, <2>3, Zenon DEF ReceivePacket, Receive
    <2>4. CASE LogMachine
      <3>1. machState # "WRITE_FAIL" /\ machState # "ERASE"
        <4>1. FlagsAgree /\ logErase = 3
          BY <1>1, IInvParts DEF LogIsFine
        <4>. QED  BY <4>1 DEF FlagsAgree
      <3>2. (Run /\ UNCHANGED <<recorder, sent>>) \/ UNCHANGED <<flash, bad>>
        BY <2>4, <3>1, Zenon DEF LogMachine, Idle, RunErase, RunNothing, Confirm, WriteFail,
                                 Erase
      <3>. QED  BY <2>1, <2>2, <3>2
    <2>. QED  BY <1>2, <2>3, <2>4
  <1>6. \A c \in OldCells' : c \in OldCells /\ flash'[c] = flash[c] /\ c \in Nat
    <2>1. \A c \in OldCells : c \in Nat
      BY <1>1, OldFacts
    <2>. QED  BY <1>3, <2>1, Zenon DEF OldStay
  <1>7. ASSUME appState = "COPY", stick = "empty", ~overtaken'
        PROVE  Covers(file, ReadLocation)'
    <2>1. Covers(file, ReadLocation) /\ ReadLocation \in Nat
      BY <1>4, <1>7 DEF WholeIInv, UploadIInv
    <2>2. CASE CoversLeft(file, ReadLocation)
      <3>1. GetFrontEnd /\ GetFrontEnd' /\ ~(address' < address)
            /\ ReadEnd' = RDU_LOG_ADDR_END
        BY <1>2, <1>4, <1>7, <2>2 DEF CoversLeft
      <3>2. wrapAddr # 0 /\ wrapAddr' # 0
        BY <3>1 DEF UploadIInv
      <3>3. /\ address \in Nat /\ address' \in Nat /\ wrapAddr \in Nat /\ wrapAddr' \in Nat
        <4>1. /\ LogIInv => address \in Nat /\ wrapAddr \in Nat
              /\ (LogIInv => address \in Nat /\ wrapAddr \in Nat)'
          BY WrapNumbers, PTL
        <4>. QED  BY <1>1, <4>1 DEF LogIsFine
      <3>4. address' <= wrapAddr'
        <4>1. (LogIInv /\ PlaceIsTaken /\ logErase = 3 /\ wrapAddr # 0
                 => address <= wrapAddr)'
          BY WrapIsAhead, PTL
        <4>. QED  BY <1>1, <3>2, <4>1 DEF LogIsFine
      <3>5. ASSUME NEW c \in OldCells', c < wrapAddr' PROVE c < address'
        <4>1. c \in OldCells /\ c \in Nat
          BY <1>6
        <4>2. c < wrapAddr
          <5>1. CASE WrapStays
            BY <3>5, <5>1 DEF WrapStays
          <5>2. CASE LogStartsOver
            <6>1. wrapAddr' <= c
              BY <5>2 DEF LogStartsOver
            <6>. QED  BY <3>3, <3>5, <4>1, <6>1
          <5>3. CASE WrapMovesOn
            BY <3>5, <5>3 DEF WrapMovesOn
          <5>. QED  BY <1>3, <5>1, <5>2, <5>3
        <4>3. c < address
          BY <2>2, <4>1, <4>2 DEF CoversLeft
        <4>. QED  BY <3>1, <3>3, <4>1, <4>3
      <3>6. ASSUME NEW c \in OldCells'
            PROVE  flash'[c] \in ToSet(file) \/ ReadLocation <= c \/ c < wrapAddr'
        <4>1. c \in OldCells /\ flash'[c] = flash[c] /\ c \in Nat
          BY <1>6
        <4>2. flash[c] \in ToSet(file) \/ ReadLocation <= c \/ c < address
          BY <2>2, <4>1 DEF CoversLeft
        <4>3. c < address => c < wrapAddr'
          BY <3>1, <3>3, <3>4, <4>1
        <4>. QED  BY <4>1, <4>2, <4>3
      <3>7. CoversLeft(file, ReadLocation)'
        BY <1>2, <3>1, <3>5, <3>6, Zenon DEF CoversLeft
      <3>. QED  BY <3>7, Zenon DEF Covers
    <2>3. CASE CoversOn(file, ReadLocation)
      <3>1. CoversOn(file, ReadLocation)'
        BY <1>2, <1>6, <2>3, Zenon DEF CoversOn
      <3>. QED  BY <3>1, Zenon DEF Covers
    <2>. QED  BY <2>1, <2>2, <2>3 DEF Covers
  <1>8. ASSUME appState = "DONE", fileState = "closed", stick = "empty", ~overtaken'
        PROVE  \A c \in OldCells' : flash'[c] \in ToSet(file)
    BY <1>4, <1>6, <1>8, Zenon DEF WholeIInv
  <1>9. appState = "COPY" => OnGroups(ReadLocation)'
    BY <1>2 DEF WholeIInv, OnGroups
  <1>. QED  BY <1>2, <1>5, <1>7, <1>8, <1>9, Zenon DEF WholeIInv

\* What leaves the log, the file and the reading alone.
LEMMA WholeKept ==
  ASSUME WholeIInv, UNCHANGED <<flash, bad, newest, address, wrapAddr>>,
         UNCHANGED <<file, fileState, ReadLocation, ReadEnd, GetFrontEnd>>,
         OvertakenFollows, stick' = stick \/ stick' # "empty",
         appState' = "COPY" => appState = "COPY",
         appState' = "DONE" => appState = "DONE" \/ stick' # "empty"
  PROVE  WholeIInv'
  <1>1. appState' = "COPY" => ~Opens
    BY DEF Opens
  <1>2. NoneAtEnd' /\ OldCells' = OldCells
    BY Zenon DEF WholeIInv, NoneAtEnd, OldCells, Shows, Old
  <1>3. OnGroups(ReadLocation) => OnGroups(ReadLocation)'
    BY DEF OnGroups
  <1>4. Covers(file, ReadLocation) => Covers(file, ReadLocation)'
    BY <1>2, Zenon DEF Covers, CoversLeft, CoversOn
  <1>5. Opens => appState' = "COPY"
    BY DEF Opens
  <1>6. ~overtaken' /\ (appState' = "COPY" \/ appState' = "DONE") => ~overtaken
    BY <1>1, <1>5 DEF OvertakenFollows
  <1>. QED  BY <1>2, <1>3, <1>4, <1>6, Zenon DEF WholeIInv

\* The start of a block is one of a group.
LEMMA BlockStart ==
  ASSUME NEW b \in Nat
  PROVE  OnGroups(b * BLOCK)
  <1>1. PICK n \in Nat \ {0} : BLOCK = n * PAGE
    BY Geometry
  <1>2. PICK g \in Nat : g = GROUP * SHORT_PACKET
    BY GroupNumbers
  <1>3. PICK q \in Nat : q = b * n
    OBVIOUS
  <1>4. b * BLOCK = q * PAGE + 0 * g /\ 0 * g <= PAGE_USED /\ 0 \in Nat
    <2>1. PAGE \in Nat /\ PAGE_USED \in Nat
      BY GroupNumbers
    <2>2. b * (n * PAGE) = (b * n) * PAGE /\ q * PAGE + 0 * g = q * PAGE /\ 0 * g = 0
      BY <2>1
    <2>. QED  BY <1>1, <1>3, <2>1, <2>2
  <1>. QED  BY <1>2, <1>4 DEF OnGroups

\* When the file is opened, what is old is before the address or left by the wrap.
LEMMA OpenWhole ==
  ASSUME UploadIInv, WholeIInv, recorder = SHORT_PACKET, OpenFile, NewestFollows
  PROVE  WholeIInv'
  <1>1. LogIsFine /\ LogIInv
    BY DEF UploadIInv, LogIsFine
  <1>2. /\ UNCHANGED vars /\ appState' = "COPY"
        /\ newest' = Max({0} \cup {flash[c] : c \in InLog})
    BY DEF OpenFile, MayOpen, NewestFollows, Opens
  <1>3. UNCHANGED <<flash, bad, address, wrapAddr>>
    BY <1>2 DEF vars
  <1>4. NoneAtEnd'
    BY <1>3, Zenon DEF WholeIInv, NoneAtEnd, Shows
  <1>5. /\ address \in Nat /\ wrapAddr \in Nat /\ BLOCK \in Nat \ {0} /\ BLOCK <= address
    BY <1>1, WrapNumbers
  <1>6. ASSUME NEW c \in OldCells'
        PROVE  /\ c \in Nat /\ BLOCK <= c /\ flash'[c] = flash[c]
               /\ c < address \/ Behind(wrapAddr, c)
    <2>1. c \in Cells /\ Shows(flash, bad, c) /\ flash[c] \in 1 .. newest'
      BY <1>3, Zenon DEF OldCells, Old, Shows
    <2>2. c \in Nat /\ BLOCK <= c
      BY <2>1, CellFacts
    <2>3. ASSUME address <= c, ~Behind(wrapAddr, c) PROVE FALSE
      <3>1. newest' \in Nat /\ (newest' = 0 \/ \E d \in InLog : newest' = flash[d])
        <4>1. sent \in Nat
          BY <1>1, IInvParts, Geometry DEF FlashTypes, Numbers
        <4>. QED  BY <1>1, <1>2, <4>1, NewestIs
      <3>2. PICK d \in InLog : newest' = flash[d]
        BY <2>1, <3>1
      <3>3. d \in Cells /\ Shows(flash, bad, d) /\ (d < address \/ LeftByWrap(d))
        BY DEF InLog, Readable, Shows
      <3>4. d < address \/ Behind(wrapAddr, d)
        BY <1>1, <3>3, LeftIsBehind
      <3>5. flash[d] < flash[c]
        BY <1>1, <2>1, <2>3, <3>3, <3>4, AheadIsNewer
      <3>. QED  BY <2>1, <3>1, <3>2, <3>5
    <2>. QED  BY <1>3, <1>5, <2>2, <2>3
  <1>7. OnGroups(ReadLocation)' /\ Covers(file, ReadLocation)'
    <2>1. CASE wrapAddr < address
      <3>1. wrapAddr = 0
        BY <1>1, <1>5, <2>1, WrapIsAhead DEF LogIsFine
      <3>2. ~GetFrontEnd' /\ ReadLocation' = BLOCK /\ ReadEnd' = address
        BY <2>1, <3>1 DEF OpenFile, UploadIInv, RDU_LOG_ADDR_START
      <3>3. OnGroups(BLOCK)
        <4>1. BLOCK = 1 * BLOCK /\ 1 \in Nat
          BY <1>5
        <4>2. OnGroups(1 * BLOCK)
          BY <4>1, BlockStart
        <4>. QED  BY <4>1, <4>2, Zenon
      <3>4. CoversOn(file, ReadLocation)'
        BY <1>6, <3>1, <3>2, Zenon DEF CoversOn, Behind
      <3>. QED  BY <3>2, <3>3, <3>4, Zenon DEF Covers, OnGroups
    <2>2. CASE ~(wrapAddr < address)
      <3>1. wrapAddr # 0
        BY <1>5, <2>2
      <3>2. GetFrontEnd' /\ ReadLocation' = wrapAddr /\ ReadEnd' = RDU_LOG_ADDR_END
        BY <2>2 DEF OpenFile
      <3>3. PICK b \in LogBlocks : wrapAddr = (b + 1) * BLOCK
        BY <1>1, <3>1, WrapIsAhead DEF LogIsFine
      <3>4. OnGroups(wrapAddr)
        <4>1. b \in Nat
          BY BlockSums, Zenon
        <4>2. b + 1 \in Nat
          BY <4>1
        <4>. QED  BY <3>3, <4>2, BlockStart
      <3>5. ASSUME NEW c \in OldCells'
            PROVE  /\ ReadLocation' <= c \/ c < wrapAddr'
                   /\ c < wrapAddr' => c < address'
        BY <1>3, <1>5, <1>6, <3>2 DEF Behind
      <3>6. CoversLeft(file, ReadLocation)'
        BY <3>2, <3>5, Zenon DEF CoversLeft
      <3>. QED  BY <3>2, <3>4, <3>6, Zenon DEF Covers, OnGroups
    <2>. QED  BY <2>1, <2>2
  <1>. QED  BY <1>2, <1>4, <1>7, Zenon DEF WholeIInv

\* A group behind the records of a file: both are in it.
LEMMA JoinedHave ==
  ASSUME NEW q \in Seq(QueueValues), NEW t \in Seq(QueueValues), NEW x,
         x \in ToSet(q) \/ x \in ToSet(t)
  PROVE  x \in ToSet(q \o t)
  <1>1. /\ Len(q) \in Nat /\ Len(t) \in Nat /\ Len(q \o t) = Len(q) + Len(t)
        /\ \A i \in 1 .. Len(q) : (q \o t)[i] = q[i]
        /\ \A i \in 1 .. Len(t) : (q \o t)[Len(q) + i] = t[i]
    OBVIOUS
  <1>2. q \o t \in Seq(QueueValues)
    BY ConcatProperties
  <1>3. CASE x \in ToSet(q)
    <2>1. PICK i \in 1 .. Len(q) : x = q[i]
      BY <1>3 DEF ToSet
    <2>2. i \in 1 .. Len(q \o t) /\ x = (q \o t)[i]
      BY <1>1, <2>1
    <2>. QED  BY <1>2, <2>2 DEF ToSet
  <1>4. CASE x \in ToSet(t)
    <2>1. PICK i \in 1 .. Len(t) : x = t[i]
      BY <1>4 DEF ToSet
    <2>2. Len(q) + i \in 1 .. Len(q \o t) /\ x = (q \o t)[Len(q) + i]
      BY <1>1, <2>1
    <2>. QED  BY <1>2, <2>2 DEF ToSet
  <1>. QED  BY <1>3, <1>4

\* A call writes what it reads, and only what is not there is left ahead.
LEMMA CopyWhole ==
  ASSUME UploadIInv, WholeIInv, recorder = SHORT_PACKET, UNCHANGED <<vars, newest>>,
         stick' = stick, OvertakenFollows, CopyGroup \/ CopyFrontEnd \/ CloseFile
  PROVE  WholeIInv'
  <1>1. /\ LogIsFine /\ LogIInv /\ file \in Seq(QueueValues)
        /\ ReadLocation \in Nat /\ ReadEnd \in Nat
    BY DEF UploadIInv, LogIsFine
  <1>2. UNCHANGED <<flash, bad, address, wrapAddr, newest>>
    BY DEF vars
  <1>3. appState = "COPY" /\ OnGroups(ReadLocation) /\ NoneAtEnd
    BY DEF CopyGroup, CopyFrontEnd, CloseFile, WholeIInv
  <1>4. packetSize = SHORT_PACKET
    BY <1>1, IInvParts DEF LogTypes
  <1>5. NoneAtEnd' /\ OldCells' = OldCells
    BY <1>2, <1>3, Zenon DEF NoneAtEnd, OldCells, Shows, Old
  <1>6. \A c \in OldCells : /\ c \in Cells /\ c \in Nat /\ Shows(flash, bad, c)
                            /\ BLOCK <= c
    BY <1>1, OldFacts, CellFacts
  <1>7. ~overtaken' /\ stick' = "empty" => stick = "empty" /\ Covers(file, ReadLocation)
    BY <1>3 DEF OvertakenFollows, Opens, WholeIInv
  <1>8. /\ Group.buf \in Seq(QueueValues) /\ Group.addr \in Nat
        /\ Len(Group.buf) < GROUP => ReadEnd <= Group.addr
    <2>1. GROUP \in Nat
      BY GroupNumbers
    <2>. QED  BY <1>1, <1>3, <1>4, <2>1, GroupIs
  <1>9. ASSUME NEW c \in OldCells, ReadLocation <= c
        PROVE  flash[c] \in ToSet(Group.buf) \/ Group.addr <= c
    BY <1>1, <1>3, <1>4, <1>6, <1>9, GroupHas
  <1>10. PICK all : all = file \o Group.buf
    OBVIOUS
  <1>11. \A c \in OldCells :
            flash[c] \in ToSet(file) \/ flash[c] \in ToSet(Group.buf) => flash[c] \in ToSet(all)
    BY <1>1, <1>8, <1>10, JoinedHave, Zenon
  <1>12. f_write(Group.buf) /\ stick = "empty" => file' = all
    BY <1>10 DEF f_write
  <1>13. CASE CopyGroup
    <2>1. /\ f_write(Group.buf) /\ ReadLocation' = Group.addr /\ Len(Group.buf) = GROUP
          /\ UNCHANGED <<ReadEnd, GetFrontEnd, appState, fileState>>
      BY <1>13, Zenon DEF CopyGroup
    <2>2. OnGroups(ReadLocation)'
      <3>1. OnGroups(Group.addr)
        BY <1>1, <1>3, <1>4, <2>1, FullGroupEnds
      <3>. QED  BY <2>1, <3>1 DEF OnGroups
    <2>3. ASSUME ~overtaken', stick' = "empty" PROVE Covers(file, ReadLocation)'
      <3>1. file' = all /\ Covers(file, ReadLocation)
        BY <1>7, <1>12, <2>1, <2>3
      <3>2. ASSUME NEW c \in OldCells, flash[c] \in ToSet(file) \/ ReadLocation <= c
            PROVE  flash[c] \in ToSet(file') \/ ReadLocation' <= c
        BY <1>9, <1>11, <2>1, <3>1, <3>2
      <3>3. CASE CoversLeft(file, ReadLocation)
        <4>1. CoversLeft(file, ReadLocation)'
          BY <1>2, <1>5, <2>1, <3>2, <3>3, Zenon DEF CoversLeft
        <4>. QED  BY <4>1, Zenon DEF Covers
      <3>4. CASE CoversOn(file, ReadLocation)
        <4>1. ASSUME NEW c \in OldCells
              PROVE  flash[c] \in ToSet(file') \/ (ReadLocation' <= c /\ c < ReadEnd')
          <5>1. flash[c] \in ToSet(file) \/ (ReadLocation <= c /\ c < ReadEnd)
            BY <3>4 DEF CoversOn
          <5>2. flash[c] \in ToSet(file') \/ ReadLocation' <= c
            BY <3>2, <5>1
          <5>3. ReadEnd' = ReadEnd
            BY <2>1
          <5>4. CASE flash[c] \in ToSet(file)
            <6>1. flash[c] \in ToSet(file')
              BY <1>11, <3>1, <5>4
            <6>. QED  BY <6>1
          <5>5. CASE ReadLocation <= c /\ c < ReadEnd
            BY <5>2, <5>3, <5>5
          <5>. QED  BY <5>1, <5>4, <5>5
        <4>2. CoversOn(file, ReadLocation)'
          BY <1>2, <1>5, <2>1, <3>4, <4>1, Zenon DEF CoversOn
        <4>. QED  BY <4>2, Zenon DEF Covers
      <3>. QED  BY <3>1, <3>3, <3>4 DEF Covers
    <2>. QED  BY <1>3, <1>5, <2>1, <2>2, <2>3, Zenon DEF WholeIInv
  <1>14. CASE CopyFrontEnd
    <2>1. /\ GetFrontEnd /\ GetFrontEnd' = FALSE /\ Len(Group.buf) < GROUP
          /\ ReadLocation' = BLOCK /\ ReadEnd' = address
          /\ UNCHANGED <<appState, file, fileState>>
      BY <1>14, Zenon DEF CopyFrontEnd, fileVars, RDU_LOG_ADDR_START
    <2>2. OnGroups(ReadLocation)'
      <3>1. BLOCK = 1 * BLOCK /\ 1 \in Nat
        BY <1>1, WrapNumbers
      <3>2. OnGroups(1 * BLOCK)
        BY <3>1, BlockStart
      <3>3. OnGroups(ReadLocation')
        BY <2>1, <3>1, <3>2, Zenon
      <3>. QED  BY <3>3 DEF OnGroups
    <2>3. ASSUME ~overtaken', stick' = "empty" PROVE Covers(file, ReadLocation)'
      <3>1. CoversLeft(file, ReadLocation)
        BY <1>7, <2>1, <2>3 DEF Covers, CoversOn
      <3>2. ReadEnd = RDU_LOG_ADDR_END
        BY <3>1 DEF CoversLeft
      <3>3. \A c \in OldCells : ~(ReadLocation <= c)
        BY <1>1, <1>3, <1>4, <1>6, <2>1, <3>2, ShortGroupAtEnd
      <3>4. \A c \in OldCells : flash[c] \in ToSet(file) \/ c < address
        BY <3>1, <3>3, Zenon DEF CoversLeft
      <3>5. CoversOn(file, ReadLocation)'
        BY <1>2, <1>5, <1>6, <2>1, <3>4, Zenon DEF CoversOn
      <3>. QED  BY <3>5, Zenon DEF Covers
    <2>. QED  BY <1>3, <1>5, <2>1, <2>2, <2>3, Zenon DEF WholeIInv
  <1>15. CASE CloseFile
    <2>1. /\ f_write(Group.buf) /\ Len(Group.buf) < GROUP /\ ~GetFrontEnd
          /\ appState' = "DONE"
      BY <1>15, Zenon DEF CloseFile
    <2>2. ASSUME ~overtaken', stick' = "empty"
          PROVE  \A c \in OldCells' : flash'[c] \in ToSet(file')
      <3>1. file' = all /\ CoversOn(file, ReadLocation)
        BY <1>7, <1>12, <2>1, <2>2 DEF Covers, CoversLeft
      <3>2. ASSUME NEW c \in OldCells PROVE flash[c] \in ToSet(all)
        <4>1. flash[c] \in ToSet(file) \/ (ReadLocation <= c /\ c < ReadEnd)
          BY <3>1 DEF CoversOn
        <4>2. ReadLocation <= c /\ c < ReadEnd => flash[c] \in ToSet(Group.buf)
          BY <1>1, <1>6, <1>8, <1>9, <2>1
        <4>. QED  BY <1>11, <4>1, <4>2
      <3>. QED  BY <1>2, <1>5, <3>1, <3>2
    <2>. QED  BY <1>5, <2>1, <2>2, Zenon DEF WholeIInv
  <1>. QED  BY <1>13, <1>14, <1>15

\* A call of the library.
LEMMA HostWhole ==
  ASSUME UploadIInv, LedIInv, WholeIInv, recorder = SHORT_PACKET, USBH_Process,
         NewestFollows, OvertakenFollows
  PROVE  WholeIInv'
  <1>1. stick' = stick
    BY DEF USBH_Process, plugVars
  <1>2. ASSUME UNCHANGED <<vars, fileVars, readVars>>, ~Opens,
               appState' = "COPY" => appState = "COPY",
               appState' = "DONE" => appState = "DONE" \/ stick = "protected"
        PROVE  WholeIInv'
    <2>1. /\ UNCHANGED <<flash, bad, address, wrapAddr>>
          /\ UNCHANGED <<file, fileState, ReadLocation, ReadEnd, GetFrontEnd>>
      BY <1>2 DEF vars, fileVars, readVars
    <2>2. newest' = newest
      BY <1>2, <2>1, NewestStays
    <2>. QED  BY <1>1, <1>2, <2>1, <2>2, WholeKept
  <1>3. CASE HostIdle \/ HostAttaches \/ HostEnumerates
    BY <1>2, <1>3 DEF HostIdle, HostAttaches, HostEnumerates, appVars, Opens
  <1>4. CASE HostDisconnects
    BY <1>2, <1>4 DEF HostDisconnects, USBH_USR_DeInit, Opens
  <1>5. CASE HostRunsClass
    <2>1. CASE FsInit
      BY <1>2, <2>1 DEF FsInit, Opens
    <2>2. CASE Iap
      BY <1>2, <2>2 DEF Iap, Opens
    <2>3. CASE AskAgain
      BY <1>2, <2>3 DEF AskAgain, Opens
    <2>4. CASE OpenFile
      BY <2>4, OpenWhole
    <2>5. CASE OpenFails
      BY <1>2, <2>5 DEF OpenFails, MayOpen, Opens
    <2>6. CASE CopyGroup \/ CopyFrontEnd \/ CloseFile
      <3>1. appState = "COPY" /\ (fileState' = "closed" \/ fileState' = fileState)
        BY <2>6 DEF CopyGroup, CopyFrontEnd, CloseFile, fileVars
      <3>2. ~Opens /\ (fileState' # "none" \/ fileState' = fileState)
        BY <3>1 DEF Opens
      <3>3. newest' = newest /\ UNCHANGED vars
        BY <2>6, <3>2, NewestStays DEF CopyGroup, CopyFrontEnd, CloseFile
      <3>. QED  BY <1>1, <2>6, <3>3, CopyWhole
    <2>7. CASE Finished
      BY <1>2, <2>7 DEF Finished, appVars, Opens
    <2>. QED  BY <1>5, <2>1, <2>2, <2>3, <2>4, <2>5, <2>6, <2>7
              DEF HostRunsClass, MSC_Application
  <1>. QED  BY <1>3, <1>4, <1>5 DEF USBH_Process

LEMMA RecorderStays ==
  ASSUME UpNext PROVE recorder' = recorder
  <1>1. ASSUME UNCHANGED vars PROVE recorder' = recorder
    BY <1>1 DEF vars
  <1>2. CASE CallLogMachine
    BY <1>2, Zenon DEF CallLogMachine, LogMachine, Idle, Run, RunErase, RunNothing,
                       Confirm, WriteFail, Erase
  <1>3. CASE PacketsArrive
    BY <1>3, Zenon DEF PacketsArrive, ReceivePacket, Receive
  <1>4. CASE USBH_Process
    <2>1. UNCHANGED vars
      BY <1>4 DEF USBH_Process, HostIdle, HostAttaches, HostEnumerates, HostRunsClass,
                  HostDisconnects, MSC_Application, FsInit, Iap, AskAgain, OpenFile,
                  OpenFails, CopyGroup, CopyFrontEnd, CloseFile, Finished
    <2>. QED  BY <1>1, <2>1
  <1>5. CASE FirmwareReset \/ BoardLosesPower
    BY <1>5, Zenon DEF FirmwareReset, BoardLosesPower, PowerFails, Restart
  <1>6. CASE \/ Plug \/ Unplug \/ RtcArrives
             \/ BlinkUploadProgressLed \/ BlinkUploadCompleteLed
    <2>1. UNCHANGED vars
      BY <1>6 DEF Plug, Unplug, RtcArrives, BlinkUploadProgressLed, BlinkUploadCompleteLed
    <2>. QED  BY <1>1, <2>1
  <1>. QED  BY <1>2, <1>3, <1>4, <1>5, <1>6 DEF UpNext

LEMMA WholeStep ==
  ASSUME UploadIInv, UploadIInv', LedIInv, WholeIInv, recorder = SHORT_PACKET,
         MCUpNext, faults \subseteq UNION Faults, faults' \subseteq Harmless
  PROVE  WholeIInv'
  <1>1. UpNext /\ NewestFollows /\ OvertakenFollows
    BY DEF MCUpNext, NewestFollows, OvertakenFollows
  <1>2. CASE CallLogMachine \/ PacketsArrive
    <2>1. appState' = appState /\ fileState' = fileState
      BY <1>2 DEF CallLogMachine, PacketsArrive, appVars, fileVars
    <2>2. newest' = newest
      BY <1>1, <2>1, NewestStays DEF Opens
    <2>. QED  BY <1>1, <1>2, <2>2, LogCallWhole
  <1>3. CASE USBH_Process
    BY <1>1, <1>3, HostWhole
  <1>4. CASE Plug
    <2>1. appState' = "INIT" /\ UNCHANGED <<flash, bad>>
      BY <1>4 DEF Plug, LedIInv, DarkWhenIdle, vars
    <2>2. NoneAtEnd'
      BY <2>1, Zenon DEF WholeIInv, NoneAtEnd, Shows
    <2>. QED  BY <2>1, <2>2 DEF WholeIInv
  <1>5. CASE Unplug \/ RtcArrives \/ BlinkUploadProgressLed \/ BlinkUploadCompleteLed
    <2>1. /\ UNCHANGED <<vars, fileVars, readVars, appState>>
          /\ stick' = stick \/ stick' = "none"
      BY <1>5 DEF Unplug, RtcArrives, BlinkUploadProgressLed, BlinkUploadCompleteLed,
                  appVars, plugVars
    <2>2. /\ UNCHANGED <<flash, bad, address, wrapAddr>>
          /\ UNCHANGED <<file, fileState, ReadLocation, ReadEnd, GetFrontEnd>>
      BY <2>1 DEF vars, fileVars, readVars
    <2>3. newest' = newest
      BY <1>1, <2>1, <2>2, NewestStays DEF Opens
    <2>. QED  BY <1>1, <2>1, <2>2, <2>3, WholeKept
  <1>6. CASE FirmwareReset \/ BoardLosesPower
    BY <1>1, <1>6, UploadFaults
  <1>. QED  BY <1>1, <1>2, <1>3, <1>4, <1>5, <1>6 DEF UpNext

WholeInv ==
    /\ UploadInv
    /\ faults \subseteq Harmless /\ recorder = SHORT_PACKET => WholeIInv

LEMMA WholeInvHolds == MCUpSpec => []WholeInv
  <1>1. MCUpInit => WholeIInv
    <2>1. SUFFICES ASSUME MCUpInit PROVE WholeIInv
      OBVIOUS
    <2>2. appState = "INIT" /\ \A c \in Cells : flash[c] = ERASED
      BY <2>1, Zenon DEF MCUpInit, UpInit, Init
    <2>3. NoneAtEnd
      BY <2>2, PacketNumbers DEF NoneAtEnd, Shows, ERASED
    <2>. QED  BY <2>2, <2>3 DEF WholeIInv
  <1>2. WholeInv /\ UploadInv' /\ [MCUpNext]_mcUpVars => WholeInv'
    <2>1. ASSUME WholeInv, UploadInv', MCUpNext PROVE WholeInv'
      <3>1. UpNext
        BY <2>1 DEF MCUpNext
      <3>2. recorder' = recorder
        BY <3>1, RecorderStays
      <3>3. faults \subseteq faults' /\ faults \subseteq UNION Faults
        BY <2>1, <3>1, UploadFaults DEF WholeInv, UploadInv
      <3>4. ASSUME faults' \subseteq Harmless, recorder' = SHORT_PACKET
            PROVE  WholeIInv'
        <4>1. faults \subseteq Harmless /\ recorder = SHORT_PACKET
          BY <3>2, <3>3, <3>4
        <4>2. UploadIInv /\ LedIInv /\ WholeIInv /\ UploadIInv'
          BY <2>1, <3>4, <4>1 DEF WholeInv, UploadInv
        <4>. QED  BY <2>1, <3>3, <3>4, <4>1, <4>2, WholeStep
      <3>. QED  BY <2>1, <3>4 DEF WholeInv
    <2>2. ASSUME WholeInv, UploadInv', UNCHANGED mcUpVars PROVE WholeInv'
      <3>1. /\ UNCHANGED <<vars, upVars, newest, overtaken, appState, fileVars, readVars>>
            /\ stick' = stick
        BY <2>2 DEF mcUpVars, upVars, appVars, plugVars
      <3>2. /\ UNCHANGED <<flash, bad, address, wrapAddr, faults, recorder>>
            /\ UNCHANGED <<file, fileState, ReadLocation, ReadEnd, GetFrontEnd>>
        BY <3>1 DEF vars, fileVars, readVars
      <3>3. ASSUME WholeIInv PROVE WholeIInv'
        <4>1. NoneAtEnd' /\ OldCells' = OldCells
          BY <3>1, <3>2, <3>3, Zenon DEF WholeIInv, NoneAtEnd, OldCells, Shows, Old
        <4>2. Covers(file, ReadLocation) => Covers(file, ReadLocation)'
          BY <3>2, <4>1, Zenon DEF Covers, CoversLeft, CoversOn
        <4>3. OnGroups(ReadLocation) => OnGroups(ReadLocation)'
          BY <3>2 DEF OnGroups
        <4>. QED  BY <3>1, <3>2, <3>3, <4>1, <4>2, <4>3, Zenon DEF WholeIInv
      <3>. QED  BY <2>2, <3>2, <3>3 DEF WholeInv
    <2>. QED  BY <2>1, <2>2
  <1>3. MCUpInit /\ UploadInv => WholeInv
    BY <1>1 DEF WholeInv
  <1>. QED  BY <1>2, <1>3, UploadInvHolds, PTL DEF MCUpSpec

\* With packets of 104 bytes, as long as no power fails and no write is refused
\* for nothing, a closed file has every packet it owes: a group lies in one
\* page, so no call reads over a packet, none stands behind the end of a wrapped
\* log, and the log gives up only what is erased, unless it starts over before
\* the upload turns to its front end.
THEOREM WholeFileCorrect ==
  UNION Faults \subseteq Harmless \cup {"power"} => (MCUpSpec => []NothingLeftOut)
  <1>. SUFFICES ASSUME UNION Faults \subseteq Harmless \cup {"power"}
                PROVE  MCUpSpec => []NothingLeftOut
    OBVIOUS
  <1>1. WholeInv => NothingLeftOut
    <2>1. SUFFICES ASSUME WholeInv, Saved, recorder = SHORT_PACKET,
                          "power" \notin faults, ~overtaken
                   PROVE  NothingLeft
      BY DEF NothingLeftOut
    <2>2. faults \subseteq Harmless
      BY <2>1 DEF WholeInv, UploadInv
    <2>3. \A c \in OldCells : flash[c] \in ToSet(file)
      BY <2>1, <2>2 DEF WholeInv, WholeIInv, Saved
    <2>4. \A c \in Readable : Old(flash[c]) => c \in OldCells
      BY DEF Readable, OldCells, Shows
    <2>. QED  BY <2>3, <2>4 DEF NothingLeft
  <1>. QED  BY <1>1, WholeInvHolds, PTL

=============================================================================
