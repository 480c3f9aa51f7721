--------------------------- MODULE CommandChannel ----------------------------
(***************************************************************************)
(* What a serial port of the download port promises on a clean line: the   *)
(* commands its peer sends reach the command handler, each once and in     *)
(* order.                                                                  *)
(***************************************************************************)
EXTENDS Naturals, Sequences

CONSTANT Commands

VARIABLES offered, delivered    \* commands sent by the peer, and handled

chanVars == <<offered, delivered>>

ChanInit == offered = <<>> /\ delivered = <<>>

Offer(c) ==
    /\ offered' = Append(offered, c)
    /\ UNCHANGED delivered

Deliver ==
    /\ Len(delivered) < Len(offered)
    /\ delivered' = Append(delivered, offered[Len(delivered) + 1])
    /\ UNCHANGED offered

ChanNext == Deliver \/ \E c \in Commands : Offer(c)

ChanSpec == ChanInit /\ [][ChanNext]_chanVars /\ WF_chanVars(Deliver)

=============================================================================
