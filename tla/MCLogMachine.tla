---------------------------- MODULE MCLogMachine -----------------------------
(***************************************************************************)
(* LogMachine for TLC.  What can be read of the log is kept in a variable, *)
(* so that it is worked out once in a step; the quantifiers over a set of  *)
(* one element bind the parts of it.  Of an erase on command the variable  *)
(* "cleared" keeps the newest packet there was.                            *)
(***************************************************************************)
EXTENDS LogMachine

\* A page holds as many short packets as long ones, or more.
ASSUME KeepAssumption == SHORT_PACKET <= LONG_PACKET

VARIABLES
    log,       \* the packets a reader finds, oldest first
    cleared    \* the newest packet sent when the log was erased on command

mcVars == <<flash, bad, recorder, sent, faults, queue, address, wrapAddr,
            logReady, logErase, packetSize, machState, TempDataBuf, log,
            cleared>>

MCInit == Init /\ log = <<>> /\ cleared = 0

MCNext ==
    /\ Next
    /\ \E info \in {LogInfo'} :
          \E order \in {ReadingOrder(info)'} : log' = PacketsRead(order)'
    /\ cleared' = IF machState = "ERASE" /\ machState' = "IDLE" /\ faults' = faults
                  THEN sent ELSE cleared

MCSpec == MCInit /\ [][MCNext]_mcVars /\ Fairness

-----------------------------------------------------------------------------

\* The blocks the log may need to make room, and the places a fault may cost,
\* hold the rest.
KEEP == ((LAST_BLOCK - 2) * BLOCK - 2 * PAGE) \div LONG_PACKET

\* To its readers the flash is the log of PacketLog, through wraps, bad
\* blocks, failing writes and restarts: packets in order and once, and the
\* oldest go first.
Promise == INSTANCE PacketLog WITH LogPackets <- Packets

ImplementsPacketLog == Promise!LogSpec

\* "Find log memory end for a wrapping memory type": a restart that leaves
\* the flash as it is finds the log that was there, with the packet that was
\* written but not yet confirmed.
RestartFindsEnd ==
    [][machState # "IDLE" /\ machState' = "IDLE" /\ flash' = flash
       /\ cleared' = cleared
       => log' \in {log, Append(log, TempDataBuf)}]_mcVars

\* "flag letting software know erase is complete": no packet that was there
\* when the log was erased on command is read after it.
ErasedPacketsStayAway == \A k \in 1 .. Len(log) : log[k] > cleared
=============================================================================
