----------------------------- MODULE MCNetwork -------------------------------
(***************************************************************************)
(* Network for TLC: the segments a peer sends.                             *)
(***************************************************************************)
EXTENDS Network

\* A request for the tick count, one for the LED and one that is echoed; short
\* and just over a char, with room for little and for all.
MCSegments == [cmd : {"#", "1", "x"}, tot : {1, 100, 200, 260}, room : {2, 1460}]

=============================================================================
