---------------------------- MODULE LogQueueProofs ---------------------------
(***************************************************************************)
(* The ring of LogQueue implements the queue of EventQueue, for every      *)
(* number of slots and every set of packets.                               *)
(***************************************************************************)
EXTENDS LogQueue, SequenceTheorems, TLAPS

IInv == RingTypes /\ WaitingArePackets

\* The indices of the waiting packets are slots.
LEMMA SlotRange ==
    ASSUME RingTypes
    PROVE  /\ Count \in 0 .. Slots - 1
           /\ \A k \in 1 .. Count : Slot(k) \in Indices
  BY LogQueueAssumption DEF LogQueueAssumption, RingTypes, Count, Slot, Indices

\* Where the next packet goes: behind the last one that waits.
LEMMA PutSlot ==
    ASSUME RingTypes
    PROVE  /\ Slot(Count + 1) = in
           /\ \A k \in 1 .. Count : Slot(k) # in
           /\ Step(in) \in Indices
  BY LogQueueAssumption
     DEF LogQueueAssumption, RingTypes, Count, Slot, Step, Indices

\* A packet more: one waits more, except that the packet in the last slot
\* makes the indices meet and leaves none.
LEMMA PutCount ==
    ASSUME RingTypes, in' = Step(in), out' = out
    PROVE  /\ Count = Slots - 1 => Count' = 0
           /\ Count # Slots - 1 => Count' = Count + 1
           /\ \A k \in 1 .. Count' : Slot(k)' = Slot(k)
  BY LogQueueAssumption
     DEF LogQueueAssumption, RingTypes, Count, Slot, Step, Indices

\* A packet less: the second that waits becomes the first.
LEMMA GetCount ==
    ASSUME RingTypes, in # out, out' = Step(out), in' = in
    PROVE  /\ Count \in 1 .. Slots - 1
           /\ Count' = Count - 1
           /\ Slot(1) = out
           /\ \A k \in 1 .. Count' : Slot(k)' = Slot(k + 1)
           /\ Step(out) \in Indices
  BY LogQueueAssumption
     DEF LogQueueAssumption, RingTypes, Count, Slot, Step, Indices

\* What waits is a sequence of packets.
WaitingFacts ==
    /\ Waiting \in Seq(Packets)
    /\ Len(Waiting) = Count
    /\ \A k \in 1 .. Count : Waiting[k] = buffer[Slot(k)]
    /\ Waiting = <<>> <=> in = out

LEMMA WaitingIsSeq == IInv => WaitingFacts
  <1> SUFFICES ASSUME IInv PROVE WaitingFacts
    OBVIOUS
  <1>1. Count \in Nat
    BY SlotRange, LogQueueAssumption DEF IInv, LogQueueAssumption
  <1>2. \A k \in 1 .. Count : buffer[Slot(k)] \in Packets
    BY DEF IInv, WaitingArePackets
  <1>3. Waiting \in [1 .. Count -> Packets]
    BY <1>2 DEF Waiting
  <1>4. Waiting \in Seq(Packets) /\ Len(Waiting) = Count
    BY <1>1, <1>3, IsASeq, LenProperties
  <1>5. Waiting = <<>> <=> Count = 0
    BY <1>4, EmptySeq
  <1>6. Count = 0 <=> in = out
    BY LogQueueAssumption
       DEF LogQueueAssumption, IInv, RingTypes, Count, Indices
  <1>. QED
    BY <1>4, <1>5, <1>6 DEF Waiting, WaitingFacts

\* An empty ring is in the invariant.
LEMMA EmptyRing ==
    ASSUME in = 0, out = 0
    PROVE  Count = 0 /\ WaitingArePackets
  BY DEF Count, WaitingArePackets

LEMMA InitIInv == Init => IInv
  <1> SUFFICES ASSUME Init PROVE IInv
    OBVIOUS
  <1>1. RingTypes
    <2>1. 0 \in Indices
      BY LogQueueAssumption DEF LogQueueAssumption, Indices
    <2>2. [i \in Indices |-> NoPacket] \in [Indices -> Packets \cup {NoPacket}]
      OBVIOUS
    <2>. QED
      BY <2>1, <2>2, Zenon DEF Init, RingTypes
  <1>. QED
    BY <1>1, EmptyRing DEF Init, IInv

LEMMA NextIInv == IInv /\ [Next]_vars => IInv'
  <1> SUFFICES ASSUME IInv, [Next]_vars PROVE IInv'
    OBVIOUS
  <1>. USE LogQueueAssumption DEF LogQueueAssumption
  <1>1. ASSUME NEW p \in Packets, LogQueEventData(p) PROVE IInv'
    <2>1. /\ buffer' = [buffer EXCEPT ![in] = p] /\ in' = Step(in)
          /\ full' = 0 /\ out' = out /\ handed' = NoPacket /\ result' = TRUE
      BY <1>1 DEF LogQueEventData, HasRoom, IInv, RingTypes
    <2>2. RingTypes'
      BY <2>1, PutSlot DEF IInv, RingTypes
    <2>3. ASSUME NEW k \in 1 .. Count' PROVE (buffer[Slot(k)])' \in Packets
      <3>1. Slot(k)' = Slot(k) /\ Count' = Count + 1
        BY <2>1, <2>3, PutCount, SlotRange DEF IInv
      <3>2. CASE k = Count + 1
        BY <2>1, <3>1, <3>2, PutSlot DEF IInv, RingTypes
      <3>3. CASE k \in 1 .. Count
        BY <2>1, <3>1, <3>3, PutSlot, SlotRange DEF IInv, RingTypes, WaitingArePackets
      <3>. QED
        BY <3>1, <3>2, <3>3, SlotRange DEF IInv
    <2>. QED
      BY <2>2, <2>3 DEF IInv, WaitingArePackets
  <1>2. ASSUME LogDequeEventData PROVE IInv'
    <2>1. CASE in = out
      BY <1>2, <2>1 DEF LogDequeEventData, HasData, IInv, RingTypes,
                        WaitingArePackets, Count, Slot
    <2>2. CASE in # out
      <3>1. /\ handed' = buffer[out] /\ out' = Step(out) /\ full' = 0
            /\ result' = TRUE /\ buffer' = buffer /\ in' = in
        BY <1>2, <2>2 DEF LogDequeEventData, HasData
      <3>2. buffer[out] \in Packets
        BY <2>2, <3>1, GetCount DEF IInv, WaitingArePackets
      <3>3. RingTypes'
        BY <2>2, <3>1, <3>2, GetCount DEF IInv, RingTypes
      <3>4. ASSUME NEW k \in 1 .. Count' PROVE (buffer[Slot(k)])' \in Packets
        <4>1. Slot(k)' = Slot(k + 1) /\ k + 1 \in 1 .. Count
          BY <2>2, <3>1, GetCount DEF IInv
        <4>. QED
          BY <3>1, <4>1 DEF IInv, WaitingArePackets
      <3>. QED
        BY <3>3, <3>4 DEF IInv, WaitingArePackets
    <2>. QED
      BY <2>1, <2>2
  <1>3. ASSUME InitLog PROVE IInv'
    <2>1. RingTypes'
      <3>1. 0 \in Indices
        BY DEF Indices
      <3>2. [i \in Indices |-> NoPacket] \in [Indices -> Packets \cup {NoPacket}]
        OBVIOUS
      <3>. QED
        BY <1>3, <3>1, <3>2, Zenon DEF InitLog, ClearRing, RingTypes
    <2>2. Count' = 0
      BY <1>3 DEF InitLog, ClearRing, Count
    <2>. QED
      BY <2>1, <2>2 DEF IInv, WaitingArePackets
  <1>4. CASE UNCHANGED vars
    BY <1>4 DEF vars, IInv, RingTypes, WaitingArePackets, Count, Slot
  <1>. QED
    BY <1>1, <1>2, <1>3, <1>4 DEF Next

LEMMA AlwaysIInv == Spec => []IInv
  BY InitIInv, NextIInv, PTL DEF Spec

\* The indices, the flag and the slots of the ring keep their types, the full
\* flag is never raised, and LogDequeEventData finds in the slots between the
\* indices nothing that was not queued.
THEOREM TypeCorrect == Spec => []TypeOK
  BY AlwaysIInv, PTL DEF IInv, TypeOK

-----------------------------------------------------------------------------
(* The refinement: each call is the abstract call of the same kind.        *)

LEMMA InitRefines == Init => Queue!EvqInit
  BY InitIInv, WaitingIsSeq DEF Init, WaitingFacts, Queue!EvqInit

LEMMA PutRefines ==
    ASSUME IInv, WaitingFacts, WaitingFacts', NEW p \in Packets,
           LogQueEventData(p)
    PROVE  Queue!Put(p) \/ Queue!PutOverflows
  <1>. USE LogQueueAssumption DEF LogQueueAssumption
  <1>1. /\ buffer' = [buffer EXCEPT ![in] = p] /\ in' = Step(in)
        /\ out' = out /\ handed' = NoPacket
    BY DEF LogQueEventData, HasRoom, IInv, RingTypes
  <1>2. CASE Count = Slots - 1
    <2>1. in' = out'
      BY <1>1, <1>2 DEF IInv, RingTypes, Indices, Count, Step
    <2>. QED
      BY <1>1, <1>2, <2>1 DEF WaitingFacts, Queue!PutOverflows
  <1>3. CASE Count # Slots - 1
    <2>1. Count' = Count + 1 /\ Count \in 0 .. Slots - 1 /\ Count < Slots - 1
      BY <1>1, <1>3, PutCount, SlotRange DEF IInv
    <2>2. \A k \in 1 .. Count : Waiting'[k] = Waiting[k]
      <3>1. ASSUME NEW k \in 1 .. Count PROVE (buffer[Slot(k)])' = buffer[Slot(k)]
        BY <1>1, <2>1, PutCount, PutSlot, SlotRange DEF IInv, RingTypes
      <3>2. \A k \in 1 .. Count : Waiting'[k] = (buffer[Slot(k)])'
        BY <2>1 DEF WaitingFacts
      <3>. QED
        BY <3>1, <3>2 DEF WaitingFacts
    <2>3. Waiting'[Count + 1] = p
      <3>1. ASSUME NEW k \in 1 .. Count', k = Count + 1 PROVE Waiting'[k] = p
        <4>1. Slot(k)' = in
          BY <1>1, <3>1, PutCount, PutSlot DEF IInv
        <4>2. Waiting'[k] = (buffer[Slot(k)])'
          BY DEF WaitingFacts
        <4>. QED
          BY <1>1, <4>1, <4>2 DEF IInv, RingTypes
      <3>. QED
        BY <2>1, <3>1
    <2>4. Waiting' = Append(Waiting, p)
      <3>1. /\ Append(Waiting, p) \in Seq(Packets)
            /\ Len(Append(Waiting, p)) = Count + 1
            /\ \A k \in 1 .. Count : Append(Waiting, p)[k] = Waiting[k]
            /\ Append(Waiting, p)[Count + 1] = p
        BY AppendProperties DEF WaitingFacts
      <3>2. Waiting' \in Seq(Packets) /\ Len(Waiting') = Count + 1
        BY <2>1 DEF WaitingFacts
      <3>3. \A k \in 1 .. Count + 1 : Waiting'[k] = Append(Waiting, p)[k]
        BY <2>1, <2>2, <2>3, <3>1
      <3>. QED
        BY <3>1, <3>2, <3>3, SeqEqual
    <2>. QED
      BY <1>1, <2>1, <2>4 DEF WaitingFacts, Queue!Put
  <1>. QED
    BY <1>2, <1>3

LEMMA GetRefines ==
    ASSUME IInv, WaitingFacts, WaitingFacts', LogDequeEventData
    PROVE  Queue!Get \/ Queue!GetNothing
  <1>. USE LogQueueAssumption DEF LogQueueAssumption
  <1>1. CASE in = out
    <2>1. handed' = NoPacket /\ out' = out /\ in' = in
      BY <1>1 DEF LogDequeEventData, HasData, IInv, RingTypes
    <2>. QED
      BY <1>1, <2>1 DEF WaitingFacts, Queue!GetNothing
  <1>2. CASE in # out
    <2>1. /\ handed' = buffer[out] /\ out' = Step(out)
          /\ buffer' = buffer /\ in' = in
      BY <1>2 DEF LogDequeEventData, HasData
    <2>2. /\ Count \in 1 .. Slots - 1 /\ Count' = Count - 1 /\ Slot(1) = out
          /\ \A k \in 1 .. Count' : Slot(k)' = Slot(k + 1)
      BY <1>2, <2>1, GetCount DEF IInv
    <2>3. handed' = Head(Waiting)
      <3>1. Waiting[1] = buffer[out]
        BY <2>2 DEF WaitingFacts
      <3>. QED
        BY <1>2, <2>1, <3>1 DEF WaitingFacts
    <2>4. Waiting' = Tail(Waiting)
      <3>1. /\ Tail(Waiting) \in Seq(Packets)
            /\ Len(Tail(Waiting)) = Count - 1
            /\ \A k \in 1 .. Count - 1 : Tail(Waiting)[k] = Waiting[k + 1]
        BY <1>2, HeadTailProperties DEF WaitingFacts
      <3>2. Waiting' \in Seq(Packets) /\ Len(Waiting') = Count - 1
        BY <2>2 DEF WaitingFacts
      <3>3. ASSUME NEW k \in 1 .. Count - 1 PROVE Waiting'[k] = Waiting[k + 1]
        <4>1. Waiting'[k] = (buffer[Slot(k)])'
          BY <2>2 DEF WaitingFacts
        <4>2. (buffer[Slot(k)])' = buffer[Slot(k + 1)]
          BY <2>1, <2>2
        <4>3. k + 1 \in 1 .. Count
          BY <2>2
        <4>. QED
          BY <4>1, <4>2, <4>3 DEF WaitingFacts
      <3>. QED
        BY <3>1, <3>2, <3>3, SeqEqual
    <2>. QED
      BY <1>2, <2>3, <2>4 DEF WaitingFacts, Queue!Get
  <1>. QED
    BY <1>1, <1>2

LEMMA NextRefines ==
    ASSUME IInv, WaitingFacts, WaitingFacts', [Next]_vars
    PROVE  [Queue!EvqNext]_(Queue!evqVars)
  <1>1. ASSUME NEW p \in Packets, LogQueEventData(p)
        PROVE  [Queue!EvqNext]_(Queue!evqVars)
    BY <1>1, PutRefines DEF Queue!EvqNext
  <1>2. ASSUME LogDequeEventData PROVE [Queue!EvqNext]_(Queue!evqVars)
    BY <1>2, GetRefines DEF Queue!EvqNext
  <1>3. ASSUME InitLog PROVE [Queue!EvqNext]_(Queue!evqVars)
    BY <1>3 DEF InitLog, ClearRing, WaitingFacts, Queue!EvqNext, Queue!Clear
  <1>4. CASE UNCHANGED vars
    BY <1>4 DEF vars, Waiting, Count, Slot, Queue!evqVars
  <1>. QED
    BY <1>1, <1>2, <1>3, <1>4 DEF Next

\* Whatever calls are made, in whatever order, LogQueEventData and
\* LogDequeEventData are the operations of EventQueue.
THEOREM Refinement == Spec => ImplementsEventQueue
  <1>1. Spec => []WaitingFacts
    BY AlwaysIInv, WaitingIsSeq, PTL
  <1>. QED
    BY <1>1, AlwaysIInv, InitRefines, NextRefines, PTL
       DEF Spec, ImplementsEventQueue, Queue!EvqSpec
=============================================================================
