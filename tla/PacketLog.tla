------------------------------ MODULE PacketLog ------------------------------
(***************************************************************************)
(* What the flash log promises to whoever reads it: packets in the order   *)
(* they came, each once.  Only the oldest ones are given up, and never so  *)
(* many that fewer than KEEP remain.  A log that is cleared on command is    *)
(* empty, and what was in it is never read again.                          *)
(***************************************************************************)
EXTENDS Naturals, Sequences

CONSTANTS
    LogPackets,    \* packet numbers, in the order the packets came
    KEEP           \* packets the log holds on to

VARIABLES
    log,           \* the packets that can be read, oldest first
    cleared        \* the newest packet a command has cleared

logVars == <<log, cleared>>

LogInit == log = <<>> /\ cleared = 0

\* The log without its n oldest packets.
From(n) == SubSeq(log, n + 1, Len(log))

MayForget(n) == n = 0 \/ Len(log) - n >= KEEP

Forget ==
    /\ \E n \in 0 .. Len(log) : MayForget(n) /\ log' = From(n)
    /\ UNCHANGED cleared

\* A packet newer than all there are; room may have been made for it.
Record(p) ==
    /\ p > cleared
    /\ \A k \in 1 .. Len(log) : log[k] < p
    /\ \E n \in 0 .. Len(log) : MayForget(n) /\ log' = Append(From(n), p)
    /\ UNCHANGED cleared

Clear ==
    /\ log' = <<>>
    /\ \E p \in LogPackets \cup {0} :
         /\ p >= cleared /\ \A k \in 1 .. Len(log) : log[k] <= p
         /\ cleared' = p

LogNext == Forget \/ Clear \/ \E p \in LogPackets : Record(p)

LogSpec == LogInit /\ [][LogNext]_logVars
=============================================================================
