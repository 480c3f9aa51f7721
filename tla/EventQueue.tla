----------------------------- MODULE EventQueue ------------------------------
(***************************************************************************)
(* What the queue of log packets does, seen from outside: it hands the     *)
(* packets out in the order they came in, each once, as long as fewer than *)
(* Slots of them wait; the packet that would fill the last slot is         *)
(* accepted and empties the queue.                                         *)
(***************************************************************************)
EXTENDS Naturals, Sequences

CONSTANTS Packets, NoPacket, Slots

VARIABLES
    q,      \* the packets that wait
    out     \* the packet the last call handed out, or NoPacket

evqVars == <<q, out>>

EvqInit == q = <<>> /\ out = NoPacket

Put(p) ==
    /\ Len(q) < Slots - 1
    /\ q' = Append(q, p)
    /\ out' = NoPacket

\* The packet is accepted as every other, and all that wait are gone.
PutOverflows ==
    /\ Len(q) = Slots - 1
    /\ q' = <<>>
    /\ out' = NoPacket

Get ==
    /\ q # <<>>
    /\ out' = Head(q)
    /\ q' = Tail(q)

\* A call that finds nothing to hand out.
GetNothing ==
    /\ q = <<>>
    /\ out' = NoPacket
    /\ UNCHANGED q

\* The log is initialised again.
Clear == q' = <<>> /\ out' = NoPacket

EvqNext ==
    \/ \E p \in Packets : Put(p)
    \/ PutOverflows \/ Get \/ GetNothing \/ Clear

EvqSpec == EvqInit /\ [][EvqNext]_evqVars

=============================================================================
