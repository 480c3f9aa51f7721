------------------------------ MODULE LogQueue -------------------------------
(***************************************************************************)
(* The ring of packets between the command handler and the log machine     *)
(* (LogQueEventData, LogDequeEventData of ApplicationLogMachine.c): a      *)
(* buffer of 2112 bytes in steps of 132, so an index stands for a byte     *)
(* offset divided by 132.                                                  *)
(***************************************************************************)
EXTENDS Naturals, Sequences

CONSTANTS
    Packets,    \* what a slot can hold
    NoPacket,   \* a slot of zeros, and no packet handed out
    Slots       \* 2112 / 132 = 16

ASSUME LogQueueAssumption ==
    /\ Slots \in Nat \ {0, 1}
    /\ NoPacket \notin Packets

Indices == 0 .. Slots - 1

VARIABLES
    buffer,          \* buffer[i]: the packet in slot i
    in, full, out,   \* write index, full flag, read index
    result,          \* TRUE when the last call returned TRUE
    handed           \* what the last call copied to its caller, or NoPacket

ringVars == <<buffer, in, full, out>>
vars == <<buffer, in, full, out, result, handed>>

\* The part of InitLog that is about the queue.
ClearRing ==
    /\ buffer' = [i \in Indices |-> NoPacket]
    /\ in' = 0 /\ full' = 0 /\ out' = 0

Init ==
    /\ buffer = [i \in Indices |-> NoPacket]
    /\ in = 0 /\ full = 0 /\ out = 0
    /\ result = FALSE
    /\ handed = NoPacket

\* Mutant: the index wraps one slot late.
StepLate(i) == IF i + 1 > Slots THEN 0 ELSE i + 1

\* Move an index to the next slot.
Step(i) == IF i + 1 > Slots - 1 THEN 0 ELSE i + 1

HasRoom == in # out \/ full = 0

\* Mutant: the flag is read the wrong way round.
HasDataInverted == in # out \/ full = 0

HasData == in # out \/ full # 0

\* LogQueEventData
LogQueEventData(p) ==
    /\ IF HasRoom
       THEN /\ buffer' = [buffer EXCEPT ![in] = p]
            /\ in' = Step(in)
            /\ full' = 0
       ELSE UNCHANGED <<buffer, in, full>>
    /\ result' = HasRoom
    /\ handed' = NoPacket
    /\ UNCHANGED out

\* Mutant: the read index moves before the packet is copied.
LogDequeEventDataSkips ==
    /\ IF HasData
       THEN /\ handed' = buffer[Step(out)]
            /\ out' = Step(out)
            /\ full' = 0
       ELSE /\ handed' = NoPacket
            /\ UNCHANGED <<out, full>>
    /\ result' = HasData
    /\ UNCHANGED <<buffer, in>>

\* LogDequeEventData
LogDequeEventData ==
    /\ IF HasData
       THEN /\ handed' = buffer[out]
            /\ out' = Step(out)
            /\ full' = 0
       ELSE /\ handed' = NoPacket
            /\ UNCHANGED <<out, full>>
    /\ result' = HasData
    /\ UNCHANGED <<buffer, in>>

InitLog ==
    /\ ClearRing
    /\ result' = FALSE
    /\ handed' = NoPacket

Next ==
    \/ \E p \in Packets : LogQueEventData(p)
    \/ LogDequeEventData
    \/ InitLog

Spec == Init /\ [][Next]_vars

-----------------------------------------------------------------------------
(* Properties.                                                             *)

\* The packets that wait, first to last.
Count == IF in >= out THEN in - out ELSE in + Slots - out

Slot(k) == IF out + k - 1 < Slots THEN out + k - 1 ELSE out + k - 1 - Slots

Waiting == [k \in 1 .. Count |-> buffer[Slot(k)]]

\* The types of the ring; the full flag is never raised.
RingTypes ==
    /\ buffer \in [Indices -> Packets \cup {NoPacket}]
    /\ in \in Indices
    /\ out \in Indices
    /\ full = 0
    /\ result \in BOOLEAN
    /\ handed \in Packets \cup {NoPacket}

\* The log machine is handed nothing but packets that were queued: a slot
\* between the indices holds one, whatever the ring went through.
WaitingArePackets == \A k \in 1 .. Count : buffer[Slot(k)] \in Packets

\* Indices stay in the ring, the full flag is never raised, and no slot
\* between the read and the write index is empty.
TypeOK == RingTypes /\ WaitingArePackets

\* Seen from outside the ring is the queue of EventQueue: first in first out,
\* each packet once, and an overflow that drops everything.
Queue == INSTANCE EventQueue WITH q <- Waiting, out <- handed

ImplementsEventQueue == Queue!EvqSpec

\* ApplicationLogMachine.h:48 "Queue full flag", which LogQueEventData tests
\* so as to refuse a packet there is no room for (ApplicationLogMachine.c:514):
\* a packet it accepts waits in the queue afterwards.
AcceptedPacketsWait ==
    [][\A p \in Packets :
          LogQueEventData(p) /\ result' => Len(Waiting)' = Len(Waiting) + 1]_vars
=============================================================================
