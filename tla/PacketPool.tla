----------------------------- MODULE PacketPool ------------------------------
(***************************************************************************)
(* The pool of packet buffers (pbufs) of lwIP, which is external: a frame  *)
(* is received in a buffer of the pool, and a callback that does not free  *)
(* it has taken it out of the pool for good.                               *)
(***************************************************************************)
EXTENDS Naturals

CONSTANT POOL       \* packet buffers

ASSUME PoolAssumption == POOL \in Nat \ {0}

\* With n buffers kept, a frame can be received.
BufferLeft(n) == n < POOL

=============================================================================
