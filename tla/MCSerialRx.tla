----------------------------- MODULE MCSerialRx ------------------------------
(***************************************************************************)
(* SerialRx for TLC: the packets of a small peer, an ideal checksum, and   *)
(* history variables about the packets the port owes an answer.            *)
(***************************************************************************)
EXTENDS SerialRx

\* A packet without payload and one whose payload is a DLE.
PlainFrame == <<DLE, STX, 0, 8, 0, 3, 3, 3>>
DleFrame == <<DLE, STX, 0, 9, 0, 4, DLE, 4, 4>>

MCFrames == {PlainFrame, DleFrame}

\* Right for the packets of the peer, and for nothing else.
MCChecksum(s) ==
    LET hit == {f \in MCFrames : SubSeq(f, 1, Len(f) - 2) = s}
    IN  IF hit = {} THEN 65536
        ELSE LET f == CHOOSE g \in hit : TRUE
             IN  f[Len(f) - 1] * 256 + f[Len(f)]

VARIABLES
    clean,      \* no fault since the machine was last ready
    owed        \* commands begun since then and not yet delivered

mcVars == <<TimerTicks, lag, sending, frameAge, faults, offered, fifo, pc,
            failed, machState, timeoutTimer, subState, rxBuffer, nbrBytes,
            command, errorCnt, delivered, clean, owed>>

MCInit == Init /\ clean = TRUE /\ owed = <<>>

MCNext ==
    /\ Next
    /\ IF faults' # faults
       THEN clean' = FALSE /\ owed' = <<>>
       ELSE IF offered' # offered
       THEN /\ clean' = (clean \/ Ready)
            /\ owed' = IF clean' THEN Append(owed, offered'[Len(offered')])
                                 ELSE owed
       ELSE /\ UNCHANGED clean
            /\ owed' = IF delivered' # delivered /\ owed # <<>>
                       THEN Tail(owed) ELSE owed

MCSpec == MCInit /\ [][MCNext]_mcVars

MCFairSpec == MCSpec /\ Fairness

-----------------------------------------------------------------------------

\* SerialRxMachine writes behind rxBuffer only after a fault: as long as none
\* hit since it was last ready, the length it counts up to is that of a packet
\* of the peer, through the spin, the fall through and the timeouts.
OverrunOnlyAfterFault == pc = "overrun" => ~clean

\* After any fault, a packet that begins while the machine is ready is
\* answered, and so is every packet that follows it without another fault:
\* the machine is never ready again while it owes an answer.  A port that has
\* run over its buffer is never ready.
ResynchronizesAfterFault ==
    clean /\ Ready /\ sending = <<>> => owed = <<>>

\* The packets owed are answered in the order they were sent.  Nothing is
\* owed by a port that has run over its buffer.
AnswersWhatItOwes ==
    [][delivered' # delivered /\ clean
          => owed # <<>> /\ delivered'[Len(delivered')] = Head(owed)]_mcVars
=============================================================================
