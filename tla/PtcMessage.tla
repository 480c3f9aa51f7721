------------------------------ MODULE PtcMessage -----------------------------
(***************************************************************************)
(* The PTC message of AppPtcMessaging.c: the bytes it is sent as, and what *)
(* a receiver reads of them.                                               *)
(***************************************************************************)
EXTENDS Integers, Sequences

\* A value of 32 bits, high byte first.
Bytes(value) ==
    LET b == value \div 256
        c == b \div 256
        d == c \div 256
    IN  <<d % 256, c % 256, b % 256, value % 256>>

\* Mutant: the low byte goes first.
AppendToBufferLow(value, size) ==
    [k \in 1 .. size |-> Bytes(value)[5 - k]]

\* AppendToBuffer: the low size bytes of a value.
AppendToBuffer(value, size) == SubSeq(Bytes(value), 5 - size, 4)

\* BuildPtcMessage, BuildPtcPacket: the header of the message numbered msgNbr,
\* protocolHdr to dataLength, msgNbr, timeStamp and varHrdSize.
HeaderStart ==
    AppendToBuffer(2, 1) \o AppendToBuffer(65535, 2) \o AppendToBuffer(2, 1)
    \o AppendToBuffer(9, 1) \o AppendToBuffer(821, 3)

MsgHeader(msgNbr) ==
    HeaderStart \o AppendToBuffer(msgNbr, 4) \o AppendToBuffer(0, 4)
    \o AppendToBuffer(0, 1)

\* Its second header: tag, size, dataVersionValue to validity, and epoch.
LigMsgHeader ==
    AppendToBuffer(65535, 2) \o AppendToBuffer(13, 4)
    \o <<2, 77, 1, 3, 3, 47, 0>> \o <<0, 0, 0, 0, 0, 0>>

\* BuildPtcBody: what the message says of a tag.
PtcTag(tag, value) ==
    AppendToBuffer(tag, 2) \o AppendToBuffer(1, 4) \o AppendToBuffer(value, 1)

BuildPtcPacket(msgNbr, tag, value) ==
    MsgHeader(msgNbr) \o LigMsgHeader \o PtcTag(tag, value)

\* The fields of a packet a receiver goes by.
MsgNbrOf(packet) ==
    ((packet[9] * 256 + packet[10]) * 256 + packet[11]) * 256 + packet[12]
TagOf(packet) == packet[37] * 256 + packet[38]
ValueOf(packet) == packet[43]

=============================================================================
