--------------------------- MODULE CommandsProofs ----------------------------
(***************************************************************************)
(* What holds of Commands for a queue of any number of slots, any number   *)
(* of retries and any number of commands, packets and sticks.              *)
(***************************************************************************)
EXTENDS Commands, SequenceTheorems, TLAPS

\* The numbers behind the first n of s rise, but for those behind a 0.
Rises(s, n) ==
    \A i, j \in n + 1 .. Len(s) :
        i < j => s[i] <= s[j] \/ \E k \in i + 1 .. j : s[k] = 0

\* ... and come to m.
RisesTo(s, n, m) ==
    \A i \in n + 1 .. Len(s) : s[i] <= m \/ \E k \in i + 1 .. Len(s) : s[k] = 0

\* Unless a 0 was lost, both.
InOrder(lost, s, n, m) == ~lost => Rises(s, n) /\ RisesTo(s, n, m)

-----------------------------------------------------------------------------
(* Sequences of packet numbers.                                            *)

\* A packet that is not older than the last, or a 0, goes on with the order.
LEMMA RisesAppend ==
  ASSUME NEW s \in Seq(Nat), NEW n \in Nat, NEW p \in Nat, NEW x \in Nat,
         n <= Len(s), Rises(s, n), RisesTo(s, n, p), x = 0 \/ x >= p
  PROVE  Rises(Append(s, x), n) /\ RisesTo(Append(s, x), n, x)
  <1> DEFINE t == Append(s, x)
  <1>1. /\ Len(s) \in Nat /\ Len(t) = Len(s) + 1 /\ t[Len(s) + 1] = x
        /\ \A i \in 1 .. Len(s) : t[i] = s[i] /\ s[i] \in Nat
    BY AppendProperties, LenProperties, ElementOfSeq
  <1> HIDE DEF t
  <1>2. RisesTo(t, n, x)
    <2> SUFFICES ASSUME NEW i \in n + 1 .. Len(t)
                 PROVE  t[i] <= x \/ \E k \in i + 1 .. Len(t) : t[k] = 0
      BY DEF RisesTo
    <2>1. CASE i = Len(s) + 1
      BY <1>1, <2>1
    <2>2. CASE i \in n + 1 .. Len(s) /\ s[i] <= p
      <3>1. x = 0 => Len(t) \in i + 1 .. Len(t) /\ t[Len(t)] = 0
        BY <1>1, <2>2
      <3> QED BY <1>1, <2>2, <3>1
    <2>3. CASE i \in n + 1 .. Len(s) /\ \E k \in i + 1 .. Len(s) : s[k] = 0
      BY <1>1, <2>3
    <2> QED BY <1>1, <2>1, <2>2, <2>3 DEF RisesTo
  <1>3. Rises(t, n)
    <2> SUFFICES ASSUME NEW i \in n + 1 .. Len(t), NEW j \in n + 1 .. Len(t), i < j
                 PROVE  t[i] <= t[j] \/ \E k \in i + 1 .. j : t[k] = 0
      BY DEF Rises
    <2>1. CASE j = Len(s) + 1
      BY <1>1, <1>2, <2>1 DEF RisesTo
    <2>2. CASE j \in n + 1 .. Len(s)
      <3>1. i \in n + 1 .. Len(s) /\ t[i] = s[i] /\ t[j] = s[j]
               /\ \A k \in i + 1 .. j : t[k] = s[k]
        BY <1>1, <2>2
      <3> QED BY <2>2, <3>1 DEF Rises
    <2> QED BY <1>1, <2>1, <2>2
  <1> QED BY <1>2, <1>3 DEF t

\* A queue without a 0 may go: what is behind it still follows what is before.
LEMMA RisesPrefix ==
  ASSUME NEW f \in Seq(Nat), NEW q \in Seq(Nat), NEW n \in Nat, NEW p \in Nat,
         NEW x \in Nat, Rises(f \o q, n), RisesTo(f \o q, n, p), x >= p,
         \A k \in 1 .. Len(q) : q[k] # 0
  PROVE  Rises(f, n) /\ RisesTo(f, n, x)
  <1> DEFINE t == f \o q
  <1>1. /\ Len(f) \in Nat /\ Len(q) \in Nat /\ Len(t) = Len(f) + Len(q)
        /\ \A i \in 1 .. Len(f) : t[i] = f[i] /\ f[i] \in Nat
        /\ \A i \in Len(f) + 1 .. Len(t) : t[i] = q[i - Len(f)]
    BY ConcatProperties, LenProperties, ElementOfSeq
  <1>2. \A i \in Len(f) + 1 .. Len(t) : t[i] # 0
    BY <1>1
  <1> HIDE DEF t
  <1>3. RisesTo(f, n, x)
    <2> SUFFICES ASSUME NEW i \in n + 1 .. Len(f)
                 PROVE  f[i] <= x \/ \E k \in i + 1 .. Len(f) : f[k] = 0
      BY DEF RisesTo
    <2>1. i \in 1 .. Len(f) /\ f[i] \in Nat /\ t[i] = f[i] /\ i \in n + 1 .. Len(t)
      BY <1>1
    <2>2. f[i] <= p \/ \E k \in i + 1 .. Len(t) : t[k] = 0
      BY <2>1 DEF RisesTo, t
    <2>3. ASSUME NEW k \in i + 1 .. Len(t), t[k] = 0
          PROVE  k \in i + 1 .. Len(f) /\ f[k] = 0
      <3>1. k \in Len(f) + 1 .. Len(t) \/ k \in i + 1 .. Len(f)
        BY <1>1, <2>1
      <3>2. k \in i + 1 .. Len(f)
        BY <1>2, <2>3, <3>1
      <3>3. k \in 1 .. Len(f)
        BY <1>1, <2>1, <3>2
      <3> QED BY <1>1, <2>3, <3>2, <3>3
    <2> QED BY <2>1, <2>2, <2>3
  <1>4. Rises(f, n)
    <2> SUFFICES ASSUME NEW i \in n + 1 .. Len(f), NEW j \in n + 1 .. Len(f), i < j
                 PROVE  f[i] <= f[j] \/ \E k \in i + 1 .. j : f[k] = 0
      BY DEF Rises
    <2>1. /\ i \in n + 1 .. Len(t) /\ j \in n + 1 .. Len(t)
          /\ t[i] = f[i] /\ t[j] = f[j]
          /\ \A k \in i + 1 .. j : t[k] = f[k]
      <3>1. /\ i \in 1 .. Len(f) /\ j \in 1 .. Len(f)
            /\ \A k \in i + 1 .. j : k \in 1 .. Len(f)
        BY <1>1
      <3> QED BY <1>1, <3>1
    <2>2. t[i] <= t[j] \/ \E k \in i + 1 .. j : t[k] = 0
      BY <2>1 DEF Rises, t
    <2> QED BY <2>1, <2>2
  <1> QED BY <1>3, <1>4

\* Without the file, the queue is in order.
LEMMA RisesSuffix ==
  ASSUME NEW f \in Seq(Nat), NEW q \in Seq(Nat), NEW n \in Nat, n <= Len(f),
         NEW p \in Nat, Rises(f \o q, n), RisesTo(f \o q, n, p)
  PROVE  Rises(q, 0) /\ RisesTo(q, 0, p)
  <1> DEFINE t == f \o q
  <1>1. /\ Len(f) \in Nat /\ Len(q) \in Nat /\ Len(t) = Len(f) + Len(q)
        /\ \A i \in 1 .. Len(q) : Len(f) + i \in n + 1 .. Len(t) /\ t[Len(f) + i] = q[i]
    BY ConcatProperties, LenProperties
  <1>2. \A i \in Len(f) + 1 .. Len(t) : i - Len(f) \in 1 .. Len(q) /\ t[i] = q[i - Len(f)]
    BY ConcatProperties, LenProperties
  <1> HIDE DEF t
  <1>3. RisesTo(q, 0, p)
    <2> SUFFICES ASSUME NEW i \in 1 .. Len(q)
                 PROVE  q[i] <= p \/ \E k \in i + 1 .. Len(q) : q[k] = 0
      BY DEF RisesTo
    <2>1. q[i] <= p \/ \E k \in Len(f) + i + 1 .. Len(t) : t[k] = 0
      BY <1>1 DEF RisesTo, t
    <2>2. ASSUME NEW k \in Len(f) + i + 1 .. Len(t), t[k] = 0
          PROVE  k - Len(f) \in i + 1 .. Len(q) /\ q[k - Len(f)] = 0
      <3>1. k \in Len(f) + 1 .. Len(t) /\ k - Len(f) \in i + 1 .. Len(q)
        BY <1>1
      <3> QED BY <1>2, <2>2, <3>1
    <2> QED BY <2>1, <2>2
  <1>4. Rises(q, 0)
    <2> SUFFICES ASSUME NEW i \in 1 .. Len(q), NEW j \in 1 .. Len(q), i < j
                 PROVE  q[i] <= q[j] \/ \E k \in i + 1 .. j : q[k] = 0
      BY DEF Rises
    <2>1. q[i] <= q[j] \/ \E k \in Len(f) + i + 1 .. Len(f) + j : t[k] = 0
      <3>1. Len(f) + i < Len(f) + j /\ Len(f) + i \in n + 1 .. Len(t)
               /\ Len(f) + j \in n + 1 .. Len(t)
        BY <1>1
      <3> QED BY <1>1, <3>1 DEF Rises, t
    <2>2. ASSUME NEW k \in Len(f) + i + 1 .. Len(f) + j, t[k] = 0
          PROVE  k - Len(f) \in i + 1 .. j /\ q[k - Len(f)] = 0
      <3>1. k \in Len(f) + 1 .. Len(t) /\ k - Len(f) \in i + 1 .. j
        BY <1>1
      <3> QED BY <1>2, <2>2, <3>1
    <2> QED BY <2>1, <2>2
  <1> QED BY <1>3, <1>4

-----------------------------------------------------------------------------
(* The invariant.                                                          *)

\* Types of what the invariant is about.
NumbersOK ==
    /\ com1.nbr \in Nat
    /\ packetNbr \in Nat /\ PrevPacketNbr \in Nat
    /\ queue \in Seq(Nat) /\ file \in Seq(Nat)
    /\ fileAtReset \in Nat /\ fileAtReset <= Len(file)
    /\ restartLost \in BOOLEAN

\* What is in the file since the last reset and what waits for it are one order
\* of packets, which goes on with PrevPacketNbr.
QueueFollowsFile ==
    InOrder(restartLost, file \o queue, fileAtReset, PrevPacketNbr)

\* The answer to SendGetRtc and the clock it brought are not told apart.
ClockIsTheAnswers ==
    /\ MsgReceived = 3 => FileRtc = "recorder"
    /\ MsgFailCnt \in 0 .. RETRIES

\* The second port has got beyond its mount only with its volume mounted, or
\* while it waits for the first.
MountedOrWaiting == hsState # "INIT" => volume = "hs" \/ fs = "busy" \/ interrupted

CmdIInv == NumbersOK /\ QueueFollowsFile /\ ClockIsTheAnswers /\ MountedOrWaiting

orderVars == <<com1, packetNbr, PrevPacketNbr, queue, file, fileAtReset, restartLost>>
clockVars == <<MsgReceived, FileRtc, MsgFailCnt>>
mountVars == <<hsState, volume, fs, interrupted>>

LEMMA OrderKept ==
  ASSUME NumbersOK, QueueFollowsFile, UNCHANGED orderVars
  PROVE  NumbersOK' /\ QueueFollowsFile'
  <1>1. NumbersOK'
    BY DEF orderVars, NumbersOK
  <1>2. QueueFollowsFile'
    BY DEF orderVars, QueueFollowsFile
  <1> QED BY <1>1, <1>2

LEMMA ClockKept ==
  ASSUME ClockIsTheAnswers, UNCHANGED clockVars PROVE ClockIsTheAnswers'
  BY DEF clockVars, ClockIsTheAnswers

LEMMA MountKept ==
  ASSUME MountedOrWaiting, UNCHANGED mountVars PROVE MountedOrWaiting'
  BY DEF mountVars, MountedOrWaiting

LEMMA PacketNumber == ASSUME NEW c PROVE Packet(c).nbr = 0 /\ Packet(c).nbr \in Nat
  BY DEF Packet

LEMMA CmdInitIInv == ASSUME CmdInit PROVE CmdIInv
  <1>1. NumbersOK
    <2>1. com1.nbr \in Nat
      BY PacketNumber DEF CmdInit
    <2>2. file \in Seq(Nat) /\ queue \in Seq(Nat) /\ Len(file) = 0
      BY EmptySeq DEF CmdInit
    <2>3. fileAtReset \in Nat /\ fileAtReset <= Len(file)
      BY <2>2 DEF CmdInit
    <2> QED BY <2>1, <2>2, <2>3 DEF CmdInit, NumbersOK
  <1>2. file \o queue = <<>>
    BY ConcatEmptySeq, EmptySeq DEF CmdInit
  <1>3. InOrder(restartLost, <<>>, 0, 0)
    BY EmptySeq DEF InOrder, Rises, RisesTo
  <1>4. QueueFollowsFile
    BY <1>2, <1>3 DEF CmdInit, QueueFollowsFile
  <1>5. ClockIsTheAnswers /\ MountedOrWaiting
    BY CommandsAssumption DEF CmdInit, ClockIsTheAnswers, MountedOrWaiting
  <1> QED BY <1>1, <1>4, <1>5 DEF CmdIInv

-----------------------------------------------------------------------------
(* The order of the packets.                                               *)

\* CMD_EVR_PACKET, with room in the queue and without.
LEMMA EvrStep ==
  ASSUME NumbersOK, QueueFollowsFile, EvrPacket, com1' = Packet(NONE),
         UNCHANGED <<packetNbr, file, fileAtReset>>
  PROVE  NumbersOK' /\ QueueFollowsFile'
  <1> DEFINE nbr == com1.nbr
             all == file \o queue
  <1>0. nbr \in Nat /\ com1'.nbr \in Nat
    BY PacketNumber DEF NumbersOK
  <1>1. CASE UNCHANGED <<PrevPacketNbr, restartLost, queVars>>
    <2>1. NumbersOK'
      BY <1>0, <1>1 DEF NumbersOK, queVars
    <2>2. QueueFollowsFile'
      BY <1>1 DEF QueueFollowsFile, queVars
    <2> QED BY <2>1, <2>2
  <1>2. CASE /\ nbr = 0 \/ nbr >= PrevPacketNbr
             /\ PrevPacketNbr' = nbr /\ LogQueEventData(nbr)
    <2>1. CASE queue' = Append(queue, nbr) /\ UNCHANGED restartLost
      <3>1. NumbersOK'
        <4>1. queue' \in Seq(Nat)
          BY <1>0, <2>1, AppendProperties DEF NumbersOK
        <4> QED BY <1>0, <1>2, <2>1, <4>1 DEF NumbersOK
      <3>2. /\ file' \o queue' = Append(all, nbr)
            /\ all \in Seq(Nat) /\ fileAtReset <= Len(all)
        <4> HIDE DEF nbr
        <4>0. queue' = queue \o <<nbr>>
          BY <1>0, <2>1, AppendIsConcat DEF NumbersOK
        <4>1. <<nbr>> \in Seq(Nat) /\ queue' = queue \o <<nbr>>
          BY <1>0, <4>0
        <4>2. all \in Seq(Nat) /\ Len(all) = Len(file) + Len(queue)
          BY ConcatProperties DEF NumbersOK
        <4>3. Append(all, nbr) = all \o <<nbr>>
          BY <1>0, <4>2, AppendIsConcat
        <4>4. all \o <<nbr>> = file \o (queue \o <<nbr>>)
          BY <4>1, ConcatAssociative DEF NumbersOK
        <4>5. Len(file) \in Nat /\ Len(queue) \in Nat
          BY LenProperties DEF NumbersOK
        <4> QED BY <4>1, <4>2, <4>3, <4>4, <4>5 DEF NumbersOK
      <3>3. InOrder(restartLost, Append(all, nbr), fileAtReset, nbr)
        <4> SUFFICES ASSUME ~restartLost
                     PROVE  /\ Rises(Append(all, nbr), fileAtReset)
                            /\ RisesTo(Append(all, nbr), fileAtReset, nbr)
          BY DEF InOrder
        <4>1. Rises(all, fileAtReset) /\ RisesTo(all, fileAtReset, PrevPacketNbr)
          BY DEF QueueFollowsFile, InOrder
        <4> HIDE DEF nbr, all
        <4> QED BY <1>0, <1>2, <3>2, <4>1, RisesAppend DEF NumbersOK
      <3>4. QueueFollowsFile'
        BY <1>2, <2>1, <3>2, <3>3 DEF QueueFollowsFile
      <3> QED BY <3>1, <3>4
    <2>2. CASE /\ queue' = <<>>
               /\ restartLost' = (restartLost \/ nbr = 0
                                     \/ \E k \in 1 .. Len(queue) : queue[k] = 0)
      <3>1. NumbersOK'
        <4>1. queue' \in Seq(Nat) /\ restartLost' \in BOOLEAN
          BY <2>2, EmptySeq DEF NumbersOK
        <4> QED BY <1>0, <1>2, <4>1 DEF NumbersOK
      <3>2. file' \o queue' = file
        BY <2>2, ConcatEmptySeq DEF NumbersOK
      <3>3. InOrder(restartLost', file, fileAtReset, nbr)
        <4> SUFFICES ASSUME ~restartLost'
                     PROVE  /\ Rises(file, fileAtReset)
                            /\ RisesTo(file, fileAtReset, nbr)
          BY DEF InOrder
        <4>1. ~restartLost /\ nbr >= PrevPacketNbr
                 /\ \A k \in 1 .. Len(queue) : queue[k] # 0
          BY <1>2, <2>2
        <4>2. Rises(all, fileAtReset) /\ RisesTo(all, fileAtReset, PrevPacketNbr)
          BY <4>1 DEF QueueFollowsFile, InOrder
        <4> HIDE DEF nbr
        <4> QED BY <1>0, <4>1, <4>2, RisesPrefix DEF NumbersOK
      <3>4. QueueFollowsFile'
        BY <1>2, <3>2, <3>3 DEF QueueFollowsFile
      <3> QED BY <3>1, <3>4
    <2> QED BY <1>2, <2>1, <2>2 DEF LogQueEventData
  <1> QED BY <1>1, <1>2 DEF EvrPacket

\* ProcessCommandCom1: all but the log packets leave the order alone.
LEMMA Com1Order ==
  ASSUME NumbersOK, QueueFollowsFile, ProcessCommandCom1
  PROVE  NumbersOK' /\ QueueFollowsFile'
  <1>1. /\ com1' = Packet(NONE)
        /\ UNCHANGED <<packetNbr, file, fileAtReset>>
    BY DEF ProcessCommandCom1, sentVars, usbVars
  <1>2. CASE EvrPacket
    BY <1>1, <1>2, EvrStep
  <1>3. CASE OtherPacket
    <2>1. com1'.nbr \in Nat
      BY <1>1, PacketNumber
    <2>2. NumbersOK'
      BY <1>1, <1>3, <2>1 DEF OtherPacket, queVars, NumbersOK
    <2>3. QueueFollowsFile'
      BY <1>1, <1>3 DEF OtherPacket, queVars, QueueFollowsFile
    <2> QED BY <2>2, <2>3
  <1> QED BY <1>2, <1>3 DEF ProcessCommandCom1, ConfigInfo, Rtc, Heartbeat,
                            RoutedAnswer, OtherCommand

\* The erase on command: the file goes, the queue stays.
LEMMA EraseOrder ==
  ASSUME NumbersOK, QueueFollowsFile, EraseLogs,
         UNCHANGED <<com1, packetNbr, PrevPacketNbr, queue, restartLost>>
  PROVE  NumbersOK' /\ QueueFollowsFile'
  <1>1. CASE UNCHANGED <<file, fileAtReset>>
    BY <1>1, OrderKept DEF orderVars
  <1>2. CASE file' = <<>> /\ fileAtReset' = 0
    <2>1. NumbersOK'
      <3>1. file' \in Seq(Nat) /\ Len(file') = 0
        BY <1>2, EmptySeq
      <3> QED BY <1>2, <3>1 DEF NumbersOK
    <2>2. file' \o queue' = queue
      BY <1>2, ConcatEmptySeq DEF NumbersOK
    <2>3. InOrder(restartLost, queue, 0, PrevPacketNbr)
      <3> SUFFICES ASSUME ~restartLost
                   PROVE  Rises(queue, 0) /\ RisesTo(queue, 0, PrevPacketNbr)
        BY DEF InOrder
      <3>1. /\ Rises(file \o queue, fileAtReset)
            /\ RisesTo(file \o queue, fileAtReset, PrevPacketNbr)
        BY DEF QueueFollowsFile, InOrder
      <3> QED BY <3>1, RisesSuffix DEF NumbersOK
    <2>4. QueueFollowsFile'
      BY <1>2, <2>2, <2>3 DEF QueueFollowsFile
    <2> QED BY <2>1, <2>4
  <1> QED BY <1>1, <1>2 DEF EraseLogs

\* ProcessCommandCom2.
LEMMA Com2Order ==
  ASSUME NumbersOK, QueueFollowsFile, ProcessCommandCom2
  PROVE  NumbersOK' /\ QueueFollowsFile'
  <1>1. UNCHANGED <<com1, packetNbr, PrevPacketNbr, queue, restartLost>>
    BY DEF ProcessCommandCom2, sentVars, queVars
  <1>2. CASE EraseLogs
    BY <1>1, <1>2, EraseOrder
  <1>3. CASE UNCHANGED <<file, fileAtReset>>
    BY <1>1, <1>3, OrderKept DEF orderVars
  <1> QED BY <1>2, <1>3 DEF ProcessCommandCom2, AnswerVersion, Synch, Route,
                            PassThru, UnknownCommand

\* A reset begins a new order.
LEMMA ResetOrder ==
  ASSUME NumbersOK, Reset
  PROVE  NumbersOK' /\ QueueFollowsFile'
  <1>1. /\ com1'.nbr \in Nat
        /\ PrevPacketNbr' = 0 /\ queue' = <<>> /\ restartLost' = FALSE
        /\ fileAtReset' = Len(file) /\ UNCHANGED <<packetNbr, file>>
    BY PacketNumber DEF Reset, sentVars
  <1>2. Len(file) \in Nat /\ queue' \in Seq(Nat)
    BY <1>1, EmptySeq, LenProperties DEF NumbersOK
  <1>3. NumbersOK'
    <2>1. fileAtReset' \in Nat /\ fileAtReset' <= Len(file')
      BY <1>1, <1>2
    <2> QED BY <1>1, <1>2, <2>1 DEF NumbersOK
  <1>4. file' \o queue' = file
    BY <1>1, ConcatEmptySeq DEF NumbersOK
  <1>5. InOrder(FALSE, file, Len(file), 0)
    BY <1>2 DEF InOrder, Rises, RisesTo
  <1>6. QueueFollowsFile'
    BY <1>1, <1>4, <1>5 DEF QueueFollowsFile
  <1> QED BY <1>3, <1>6

\* USBH_USR_HS_MSC_Application moves the queue to the end of the file.
LEMMA HsOrder ==
  ASSUME NumbersOK, QueueFollowsFile, HsPort
  PROVE  NumbersOK' /\ QueueFollowsFile'
  <1>1. UNCHANGED <<com1, packetNbr, PrevPacketNbr, restartLost, fileAtReset>>
    BY DEF HsPort, sentVars, flagVars
  <1>2. CASE UNCHANGED <<queue, file>>
    BY <1>1, <1>2, OrderKept DEF orderVars
  <1>3. CASE file' = file \o queue /\ queue' = <<>>
    <2>1. /\ file \o queue \in Seq(Nat)
          /\ Len(file \o queue) = Len(file) + Len(queue)
          /\ Len(file) \in Nat /\ Len(queue) \in Nat
          /\ queue' \in Seq(Nat)
      BY <1>3, ConcatProperties, LenProperties, EmptySeq DEF NumbersOK
    <2>2. NumbersOK'
      BY <1>1, <1>3, <2>1 DEF NumbersOK
    <2>3. file' \o queue' = file \o queue
      BY <1>3, <2>1, ConcatEmptySeq
    <2>4. QueueFollowsFile'
      BY <1>1, <2>3 DEF QueueFollowsFile
    <2> QED BY <2>2, <2>4
  <1> QED BY <1>2, <1>3 DEF HsPort, HsNotCalled, HsGivesWay, HsInit, HsIap,
                            HsAsksAgain, HsCreatesFile, HsAppends, queVars

\* What the recorder sends has a number, or none.
LEMMA RecorderOrder ==
  ASSUME NumbersOK, QueueFollowsFile, RecorderSends \/ RecorderAnswers,
         com1'.nbr \in Nat, packetNbr' \in Nat
  PROVE  NumbersOK' /\ QueueFollowsFile'
  <1>1. UNCHANGED <<PrevPacketNbr, queue, file, fileAtReset, restartLost>>
    BY DEF RecorderSends, RecorderAnswers, Board, flagVars, queVars
  <1>2. NumbersOK'
    BY <1>1 DEF NumbersOK
  <1>3. QueueFollowsFile'
    BY <1>1 DEF QueueFollowsFile
  <1> QED BY <1>2, <1>3

\* The calls and events that have nothing to do with log packets.
LEMMA ElseOrder ==
  ASSUME NumbersOK, QueueFollowsFile,
         NoPacket \/ FsPort \/ PcSends \/ FsStickMoves \/ HsStickMoves
  PROVE  NumbersOK' /\ QueueFollowsFile'
  <1>1. UNCHANGED orderVars
    BY DEF NoPacket, FsPort, PcSends, FsStickMoves, HsStickMoves, Board, sentVars,
           flagVars, queVars, usbVars, orderVars
  <1> QED BY <1>1, OrderKept

LEMMA OrderStep ==
  ASSUME NumbersOK, QueueFollowsFile, CmdNext
  PROVE  NumbersOK' /\ QueueFollowsFile'
  <1>1. CASE MainLoop
    BY <1>1, Com1Order, Com2Order, ResetOrder, HsOrder, ElseOrder DEF MainLoop
  <1>2. CASE PcSends \/ FsStickMoves \/ HsStickMoves
    BY <1>2, ElseOrder
  <1>3. CASE RecorderSends
    <2>1. CASE \E nbr \in 0 .. packetNbr + 1 :
                   com1' = [code |-> "EVR", nbr |-> nbr] /\ packetNbr' = nbr
      <3>1. com1'.nbr \in Nat /\ packetNbr' \in Nat
        BY <2>1 DEF NumbersOK
      <3> QED BY <1>3, <3>1, RecorderOrder
    <2>2. CASE \E code \in {"CONFIG", "HEARTBEAT_OK", "HEARTBEAT_FAULT", "VERSION",
                           "UNKNOWN"} :
                   com1' = Packet(code) /\ UNCHANGED packetNbr
      <3>1. com1'.nbr \in Nat /\ packetNbr' \in Nat
        BY <2>2, PacketNumber DEF NumbersOK
      <3> QED BY <1>3, <3>1, RecorderOrder
    <2> QED BY <1>3, <2>1, <2>2 DEF RecorderSends
  <1>4. CASE RecorderAnswers
    <2>1. com1'.nbr \in Nat /\ packetNbr' \in Nat
      BY <1>4, PacketNumber DEF RecorderAnswers, sentVars, NumbersOK
    <2> QED BY <1>4, <2>1, RecorderOrder
  <1> QED BY <1>1, <1>2, <1>3, <1>4 DEF CmdNext

-----------------------------------------------------------------------------
(* The clock and the mounted volume.                                       *)

LEMMA ClockStep ==
  ASSUME ClockIsTheAnswers, CmdNext
  PROVE  ClockIsTheAnswers'
  <1>1. CASE ProcessCommandCom1
    <2>1. MsgFailCnt' = MsgFailCnt
      BY <1>1 DEF ProcessCommandCom1, hsVars
    <2> QED BY <1>1, <2>1 DEF ProcessCommandCom1, EvrPacket, ConfigInfo, Rtc, Heartbeat,
            RoutedAnswer, OtherCommand, rtcVars, ClockIsTheAnswers
  <1>2. CASE ProcessCommandCom2
    <2>1. UNCHANGED <<FileRtc, MsgFailCnt>>
      BY <1>2 DEF ProcessCommandCom2, hsVars
    <2>2. MsgReceived' = MsgReceived \/ MsgReceived' = 0
      BY <1>2 DEF ProcessCommandCom2, AnswerVersion, EraseLogs, Synch, Route,
                  PassThru, UnknownCommand, RouteCommand
    <2> QED BY <2>1, <2>2 DEF ClockIsTheAnswers
  <1>3. CASE Reset
    BY <1>3, CommandsAssumption DEF Reset, ClockIsTheAnswers
  <1>4. CASE FsPort
    <2>1. MsgFailCnt' = MsgFailCnt
      BY <1>4 DEF FsPort, FsBegins, FsAsksAgain, FsEnds, FsGoesOn, hsVars
    <2>2. MsgReceived' = 0 \/ UNCHANGED rtcVars
      BY <1>4 DEF FsPort, FsBegins, FsAsksAgain, FsEnds, FsGoesOn, SendGetRtc, NoRequest
    <2> QED BY <2>1, <2>2 DEF ClockIsTheAnswers, rtcVars
  <1>5. CASE HsPort
    <2>1. MsgReceived' = 0 \/ UNCHANGED rtcVars
      BY <1>5 DEF HsPort, HsNotCalled, HsGivesWay, HsInit, HsIap, HsAsksAgain,
                  HsCreatesFile, HsAppends, SendGetRtc, NoRequest
    <2>2. MsgFailCnt' \in 0 .. RETRIES
      <3>1. CASE UNCHANGED MsgFailCnt
        BY <3>1 DEF ClockIsTheAnswers
      <3>2. CASE HsIap
        BY <3>2, CommandsAssumption DEF HsIap
      <3>3. CASE HsAsksAgain
        BY <3>3, CommandsAssumption DEF HsAsksAgain, HsWaits, ClockIsTheAnswers
      <3> QED BY <1>5, <3>1, <3>2, <3>3 DEF HsPort, HsNotCalled, HsGivesWay, HsInit,
                HsCreatesFile, HsAppends, hsVars
    <2> QED BY <2>1, <2>2 DEF ClockIsTheAnswers, rtcVars
  <1>6. CASE UNCHANGED clockVars
    BY <1>6, ClockKept
  <1> QED BY <1>1, <1>2, <1>3, <1>4, <1>5, <1>6
          DEF CmdNext, MainLoop, NoPacket, NoRequest, PcSends, RecorderSends,
              RecorderAnswers, FsStickMoves, HsStickMoves, Board, rtcVars, hsVars, clockVars

LEMMA MountStep ==
  ASSUME MountedOrWaiting, CmdNext
  PROVE  MountedOrWaiting'
  <1>1. CASE Reset
    BY <1>1 DEF Reset, MountedOrWaiting
  <1>2. CASE FsPort
    BY <1>2 DEF FsPort, FsBegins, FsAsksAgain, FsEnds, FsGoesOn, hsVars, MountedOrWaiting
  <1>3. CASE HsPort
    BY <1>3 DEF HsPort, HsNotCalled, HsGivesWay, HsInit, HsIap, HsAsksAgain,
                HsCreatesFile, HsAppends, hsVars, MountedOrWaiting
  <1>4. CASE FsStickMoves
    BY <1>4 DEF FsStickMoves, Board, hsVars, MountedOrWaiting
  <1>5. CASE UNCHANGED mountVars
    BY <1>5, MountKept
  <1> QED BY <1>1, <1>2, <1>3, <1>4, <1>5
          DEF CmdNext, MainLoop, ProcessCommandCom1, ProcessCommandCom2, NoPacket,
              PcSends, RecorderSends, RecorderAnswers, HsStickMoves, Board, usbVars,
              hsVars, mountVars

-----------------------------------------------------------------------------
(* The theorems.                                                           *)

LEMMA CmdNextIInv == CmdIInv /\ [CmdNext]_cmdVars => CmdIInv'
  <1> SUFFICES ASSUME CmdIInv, [CmdNext]_cmdVars PROVE CmdIInv'
    OBVIOUS
  <1>1. CASE CmdNext
    BY <1>1, OrderStep, ClockStep, MountStep DEF CmdIInv
  <1>2. CASE UNCHANGED cmdVars
    <2>1. UNCHANGED orderVars /\ UNCHANGED clockVars /\ UNCHANGED mountVars
      BY <1>2 DEF cmdVars, sentVars, flagVars, rtcVars, queVars, usbVars, hsVars,
                  orderVars, clockVars, mountVars
    <2> QED BY <2>1, OrderKept, ClockKept, MountKept DEF CmdIInv
  <1> QED BY <1>1, <1>2

LEMMA AlwaysCmdIInv == CmdSpec => []CmdIInv
  <1>1. CmdInit => CmdIInv
    BY CmdInitIInv
  <1> QED BY <1>1, CmdNextIInv, PTL DEF CmdSpec

\* Whatever is resent, overflows or is plugged and unplugged, the packets that
\* HsAppends writes to the file are in order, for a queue of any size.
THEOREM OrderCorrect == CmdSpec => []PacketsInOrder
  <1>1. CmdIInv => PacketsInOrder
    <2> SUFFICES ASSUME CmdIInv, ~restartLost, NEW k \in fileAtReset + 1 .. Len(file) - 1
                 PROVE  file[k] <= file[k + 1] \/ file[k + 1] = 0
      BY DEF PacketsInOrder
    <2> DEFINE t == file \o queue
    <2>1. /\ Len(file) \in Nat /\ Len(queue) \in Nat /\ Len(t) = Len(file) + Len(queue)
          /\ \A i \in 1 .. Len(file) : t[i] = file[i]
          /\ fileAtReset \in Nat
      BY ConcatProperties, LenProperties DEF CmdIInv, NumbersOK
    <2>2. Rises(t, fileAtReset)
      BY DEF CmdIInv, QueueFollowsFile, InOrder
    <2> HIDE DEF t
    <2>3. /\ k \in fileAtReset + 1 .. Len(t) /\ k + 1 \in fileAtReset + 1 .. Len(t)
          /\ k < k + 1 /\ k \in 1 .. Len(file) /\ k + 1 \in 1 .. Len(file)
      BY <2>1
    <2>4. t[k] <= t[k + 1] \/ \E i \in k + 1 .. k + 1 : t[i] = 0
      BY <2>2, <2>3 DEF Rises
    <2>5. \A i \in k + 1 .. k + 1 : i = k + 1
      BY <2>3
    <2> QED BY <2>1, <2>3, <2>4, <2>5
  <1> QED BY <1>1, AlwaysCmdIInv, PTL

\* A step of the second port's application that touches the file.
LEMMA FileTouched ==
  ASSUME CmdNext, turn = "hs", <<exists, file>>' # <<exists, file>>
  PROVE  fs = "none" /\ hsState = "WRITE" /\ ~HsWaits /\ UNCHANGED <<volume, interrupted>>
  <1>1. HsPort
    BY DEF CmdNext, MainLoop, PcSends, RecorderSends, RecorderAnswers, FsStickMoves,
           HsStickMoves, Board
  <1> QED BY <1>1 DEF HsPort, HsNotCalled, HsGivesWay, HsInit, HsIap, HsAsksAgain,
                      HsCreatesFile, HsAppends

\* The file is opened with the recorder's clock or after all RETRIES, although
\* both ports and the commands of the PC share MsgReceived and FileRtc.
THEOREM ClockCorrect == CmdSpec => ClockOrRetries
  <1>1. ASSUME CmdIInv, [CmdNext]_cmdVars
        PROVE  [turn = "hs" /\ <<exists, file>>' # <<exists, file>>
                => FileRtc = "recorder" \/ MsgFailCnt = RETRIES]_cmdVars
    <2> SUFFICES ASSUME CmdNext, turn = "hs", <<exists, file>>' # <<exists, file>>
                 PROVE  FileRtc = "recorder" \/ MsgFailCnt = RETRIES
      BY <1>1
    <2>1. MsgReceived = 3 \/ ~(MsgFailCnt < RETRIES)
      BY FileTouched DEF HsWaits
    <2> QED BY <1>1, <2>1, CommandsAssumption DEF CmdIInv, ClockIsTheAnswers
  <1> QED BY <1>1, AlwaysCmdIInv, PTL DEF CmdSpec, ClockOrRetries

\* The second port never writes to drive 0 while the first one's volume is
\* mounted on it, but after an upload that was cut short.
THEOREM VolumeCorrect == CmdSpec => OwnVolume
  <1>1. ASSUME CmdIInv, [CmdNext]_cmdVars
        PROVE  [turn = "hs" /\ <<exists, file>>' # <<exists, file>>
                => volume = "hs" \/ interrupted]_cmdVars
    <2> SUFFICES ASSUME CmdNext, turn = "hs", <<exists, file>>' # <<exists, file>>
                 PROVE  volume = "hs" \/ interrupted
      BY <1>1
    <2>1. fs = "none" /\ hsState = "WRITE"
      BY FileTouched
    <2> QED BY <1>1, <2>1 DEF CmdIInv, MountedOrWaiting
  <1> QED BY <1>1, AlwaysCmdIInv, PTL DEF CmdSpec, OwnVolume

=============================================================================
