---------------------------- MODULE SerialRxProofs ---------------------------
(***************************************************************************)
(* Types of the serial receiver, and BufferMatchesState, for every set of  *)
(* packets, every checksum, every timeout and every fault of the line, up  *)
(* to the point where a damaged length takes the port over its buffer.     *)
(* Then the bytes in flight and the packets they are owed to: what the     *)
(* port answers after any faults, and that without them it is a channel.   *)
(***************************************************************************)
EXTENDS MCSerialRx, SequenceTheorems, TLAPS

\* Inside the spin for a header the sub-state counts the bytes read, nothing
\* but a failed call has lost the state it stands for, and the high bytes of
\* length and command are those of this header.
SpinMatchesState ==
    /\ pc = "headerTimeout" /\ Len(rxBuffer) < SIZEOF_HEAD
          => Len(rxBuffer) = subState + 1
    /\ pc \in {"header", "headerTimeout"} /\ ~failed
          => machState = IF Len(rxBuffer) < SIZEOF_HEAD THEN HEADER ELSE PAYLOAD
    /\ pc \in {"header", "headerTimeout"} /\ Len(rxBuffer) < SIZEOF_HEAD
          => /\ machState \in {IDLE, HEADER}
             /\ subState = 2 => nbrBytes <= 255 * 256
             /\ subState = 4 => command <= 255 * 256

RxIInv == TypeOK /\ BufferMatchesState /\ SpinMatchesState

Byte == 0 .. 255
MaxWord == 65535
Word == 0 .. MaxWord
Ticks == 0 .. TICK_MODULUS - 1
Places == {"loop", "header", "headerTimeout", "payload", "payloadTimeout",
           "overrun"}
States == {IDLE, HEADER, PAYLOAD}

\* TypeOK, in two parts: the line with the queue, and SERIAL_DATA.
LineTypes ==
    /\ TimerTicks \in Ticks
    /\ lag \in 0 .. MAX_LAG
    /\ sending \in Seq(Byte)
    /\ frameAge \in -1 .. 1
    /\ faults \in 0 .. MAX_FAULTS
    /\ offered \in Seq(Nat) /\ Len(offered) <= MAX_FRAMES

RxTypes ==
    /\ fifo \in Seq(Byte)
    /\ pc \in Places
    /\ failed \in BOOLEAN
    /\ machState \in States
    /\ timeoutTimer \in Ticks
    /\ subState \in 0 .. 4
    /\ rxBuffer \in Seq(Byte)
    /\ nbrBytes \in Word
    /\ command \in Word
    /\ errorCnt \in Nat
    /\ delivered \in Seq(Word)

LEMMA TypeParts == TypeOK <=> LineTypes /\ RxTypes
  BY DEF TypeOK, LineTypes, RxTypes, Byte, Word, MaxWord, Ticks, Places, States

LEMMA TypePartsNext == TypeOK' <=> LineTypes' /\ RxTypes'
  BY DEF TypeOK, LineTypes, RxTypes, Byte, Word, MaxWord, Ticks, Places, States

\* What taking a byte and adding one do to a queue or a buffer.
LEMMA SeqStep ==
  ASSUME NEW S, NEW s \in Seq(S)
  PROVE  /\ Len(s) \in Nat
         /\ s # <<>> => Head(s) \in S /\ Tail(s) \in Seq(S)
         /\ \A e \in S : Append(s, e) \in Seq(S) /\ Len(Append(s, e)) = Len(s) + 1
         /\ \A i \in 1 .. Len(s) : s[i] \in S
  BY HeadTailProperties, AppendProperties, LenProperties, ElementOfSeq

LEMMA Numbers ==
  /\ TIMEOUT_100MSEC \in Nat /\ TIMEOUT_500MSEC \in Nat
  /\ TICK_MODULUS \in Nat \ {0} /\ MAX_LAG \in Nat \ {0}
  /\ MAX_FRAMES \in Nat /\ MAX_FAULTS \in Nat
  BY SerialRxAssumption

LEMMA RxInitIInv == ASSUME Init PROVE RxIInv
  <1>1. LineTypes
    BY Numbers DEF Init, LineTypes, Ticks
  <1>2. RxTypes
    <2>1. /\ fifo = <<>> /\ rxBuffer = <<>> /\ delivered = <<>>
          /\ pc = "loop" /\ failed = FALSE /\ machState = IDLE /\ errorCnt = 0
          /\ timeoutTimer = 0 /\ subState = 0 /\ nbrBytes = 0 /\ command = 0
      BY DEF Init
    <2>2. /\ fifo \in Seq(Byte) /\ rxBuffer \in Seq(Byte) /\ delivered \in Seq(Word)
      BY <2>1
    <2>3. /\ timeoutTimer \in Ticks /\ subState \in 0 .. 4 /\ nbrBytes \in Word
          /\ command \in Word /\ errorCnt \in Nat
      BY <2>1, Numbers DEF Ticks, Word, MaxWord
    <2>4. machState \in States /\ pc \in Places
      BY <2>1 DEF States, Places
    <2> QED BY <2>1, <2>2, <2>3, <2>4, Zenon DEF RxTypes
  <1>3. BufferMatchesState /\ SpinMatchesState
    BY DEF Init, BufferMatchesState, SpinMatchesState, IDLE, HEADER, PAYLOAD
  <1> QED BY <1>1, <1>2, <1>3, TypeParts DEF RxIInv

-----------------------------------------------------------------------------
(* The line, the interrupt and the tick: they leave the machine alone.     *)

\* The machine's own variables as they were, but for what a byte adds to the queue.
LEMMA MachineIsLeft ==
  ASSUME RxIInv, UNCHANGED <<localVars, dataVars>>, fifo' \in Seq(Byte)
  PROVE  RxTypes' /\ BufferMatchesState' /\ SpinMatchesState'
  <1>1. RxTypes'
    <2>1. RxTypes
      BY TypeParts, Zenon DEF RxIInv
    <2>2. /\ UNCHANGED <<pc, failed, machState, timeoutTimer, subState, rxBuffer>>
          /\ UNCHANGED <<nbrBytes, command, errorCnt, delivered>>
      BY Zenon DEF localVars, dataVars
    <2> QED BY <2>1, <2>2, Zenon DEF RxTypes
  <1>2. BufferMatchesState' /\ SpinMatchesState'
    BY DEF RxIInv, BufferMatchesState, SpinMatchesState, localVars, dataVars
  <1> QED BY <1>1, <1>2

LEMMA LineStep ==
  ASSUME RxIInv,
         SysTick \/ (\E f \in Frames : StartFrame(f)) \/ SciQue \/ LoseByte
            \/ (\E b \in NoiseBytes : NoiseByte(b)) \/ Gap
  PROVE  RxIInv'
  <1>1. UNCHANGED <<localVars, dataVars>>
    BY DEF SysTick, StartFrame, SciQue, LoseByte, NoiseByte, Gap
  <1>2. LineTypes /\ fifo \in Seq(Byte)
    BY TypeParts, Zenon DEF RxIInv, RxTypes
  <1>3. LineTypes' /\ fifo' \in Seq(Byte)
    <2>1. CASE SysTick
      <3>1. /\ lag < MAX_LAG /\ lag' = lag + 1
            /\ TimerTicks' = (TimerTicks + 1) % TICK_MODULUS
            /\ frameAge' \in {1, frameAge}
            /\ UNCHANGED <<sending, faults, offered, fifo>>
        BY <1>2, <2>1, Numbers DEF SysTick, LineTypes
      <3> QED BY <1>2, <3>1, Numbers DEF LineTypes, Ticks
    <2>2. ASSUME NEW f \in Frames, StartFrame(f)
          PROVE  LineTypes' /\ fifo' \in Seq(Byte)
      <3>1. f \in Seq(Byte) /\ Len(f) > 7
        BY SerialRxAssumption DEF SIZEOF_HEAD, Byte
      <3>2. CommandOf(f) \in Nat
        <4>1. 5 \in 1 .. Len(f) /\ 6 \in 1 .. Len(f)
          BY <3>1, SeqStep
        <4>2. f[5] \in Byte /\ f[6] \in Byte
          BY <3>1, <4>1, SeqStep
        <4>3. \A x, y \in Byte : x * 256 + y \in Nat
          BY DEF Byte
        <4> QED BY <4>2, <4>3, Zenon DEF CommandOf
      <3>3. /\ sending' = f /\ frameAge' = 0
            /\ Len(offered) < MAX_FRAMES /\ offered' = Append(offered, CommandOf(f))
            /\ UNCHANGED <<TimerTicks, lag, faults, fifo>>
        BY <2>2 DEF StartFrame
      <3>4. offered' \in Seq(Nat) /\ Len(offered') <= MAX_FRAMES
        BY <1>2, <3>2, <3>3, Numbers DEF LineTypes
      <3> QED BY <1>2, <3>1, <3>3, <3>4 DEF LineTypes
    <2>3. CASE SciQue
      <3>1. /\ sending \in Seq(Byte) /\ sending # <<>>
            /\ fifo' = Append(fifo, Head(sending)) /\ sending' = Tail(sending)
            /\ UNCHANGED <<TimerTicks, lag, frameAge, faults, offered>>
        BY <1>2, <2>3 DEF SciQue, LineTypes
      <3>2. fifo' \in Seq(Byte) /\ sending' \in Seq(Byte)
        BY <1>2, <3>1, SeqStep
      <3> QED BY <1>2, <3>1, <3>2 DEF LineTypes
    <2>4. CASE LoseByte
      <3>1. /\ sending \in Seq(Byte) /\ sending # <<>> /\ sending' = Tail(sending)
            /\ faults < MAX_FAULTS /\ faults' = faults + 1
            /\ UNCHANGED <<TimerTicks, lag, frameAge, offered, fifo>>
        BY <1>2, <2>4 DEF LoseByte, Fault, LineTypes
      <3>2. sending' \in Seq(Byte) /\ faults' \in 0 .. MAX_FAULTS
        BY <1>2, <3>1, Numbers, SeqStep DEF LineTypes
      <3> QED BY <1>2, <3>1, <3>2 DEF LineTypes
    <2>5. ASSUME NEW b \in NoiseBytes, NoiseByte(b)
          PROVE  LineTypes' /\ fifo' \in Seq(Byte)
      <3>1. b \in Byte
        BY SerialRxAssumption DEF Byte
      <3>2. /\ fifo' = Append(fifo, b)
            /\ faults < MAX_FAULTS /\ faults' = faults + 1
            /\ UNCHANGED <<TimerTicks, lag, sending, frameAge, offered>>
        BY <2>5 DEF NoiseByte, Fault
      <3>3. fifo' \in Seq(Byte) /\ faults' \in 0 .. MAX_FAULTS
        BY <1>2, <3>1, <3>2, Numbers, SeqStep DEF LineTypes
      <3> QED BY <1>2, <3>2, <3>3 DEF LineTypes
    <2>6. CASE Gap
      <3>1. /\ faults < MAX_FAULTS /\ faults' = faults + 1 /\ frameAge' = -1
            /\ UNCHANGED <<TimerTicks, lag, sending, offered, fifo>>
        BY <2>6 DEF Gap, Fault
      <3> QED BY <1>2, <3>1, Numbers DEF LineTypes
    <2> QED BY <2>1, <2>2, <2>3, <2>4, <2>5, <2>6
  <1> QED BY <1>1, <1>3, MachineIsLeft, TypePartsNext DEF RxIInv

-----------------------------------------------------------------------------
(* SerialRxMachine: one lemma for each step that reads or starts over.     *)

\* What every step of the machine leaves alone.
Outside == lag' = 0 /\ UNCHANGED <<TimerTicks, lineVars>>

LEMMA LineIsLeft == ASSUME RxIInv, Outside PROVE LineTypes' /\ LineTypes
  <1>1. LineTypes
    BY TypeParts, Zenon DEF RxIInv
  <1> QED BY <1>1, Numbers DEF LineTypes, Outside, lineVars

LEMMA IdleStep == ASSUME RxIInv, Outside, Idle PROVE RxIInv'
  <1>1. LineTypes' /\ LineTypes /\ RxTypes
    BY LineIsLeft, TypeParts, Zenon DEF RxIInv
  <1>2. fifo' \in Seq(Byte)
    <2>1. fifo \in Seq(Byte)
      BY <1>1, Zenon DEF RxTypes
    <2>2. fifo' = IF fifo # <<>> THEN Tail(fifo) ELSE fifo
      BY Zenon DEF Idle
    <2> QED BY <2>1, <2>2, SeqStep
  <1>3. CASE fifo # <<>> /\ Head(fifo) = DLE
    <2>1. /\ rxBuffer' = <<DLE>> /\ subState' = 0 /\ machState' = HEADER
          /\ timeoutTimer' = TimerTicks /\ pc = "loop"
          /\ UNCHANGED <<pc, failed, nbrBytes, command, errorCnt, delivered>>
      BY <1>3 DEF Idle, localVars
    <2>2. rxBuffer' \in Seq(Byte) /\ Len(rxBuffer') = 1
      BY <2>1 DEF DLE, Byte
    <2>3. RxTypes'
      <3>1. subState' \in 0 .. 4 /\ machState' \in States
        BY <2>1 DEF States
      <3>2. /\ pc \in Places /\ failed \in BOOLEAN /\ nbrBytes \in Word
            /\ command \in Word /\ errorCnt \in Nat /\ delivered \in Seq(Word)
            /\ TimerTicks \in Ticks
        BY <1>1, Zenon DEF RxTypes, LineTypes
      <3> QED BY <1>2, <2>1, <2>2, <3>1, <3>2, Zenon DEF RxTypes
    <2>4. BufferMatchesState' /\ SpinMatchesState'
      BY <2>1, <2>2 DEF BufferMatchesState, SpinMatchesState, HEADER, PAYLOAD
    <2> QED BY <1>1, <2>3, <2>4, TypePartsNext DEF RxIInv
  <1>4. CASE ~(fifo # <<>> /\ Head(fifo) = DLE)
    <2>1. UNCHANGED <<localVars, dataVars>>
      BY <1>4 DEF Idle, localVars, dataVars
    <2> QED BY <1>1, <1>2, <2>1, MachineIsLeft, TypePartsNext DEF RxIInv
  <1> QED BY <1>3, <1>4

LEMMA EnterStep ==
  ASSUME RxIInv, Outside, Enter \/ HeaderEmpty \/ HeaderTimeout \/ PayloadEmpty
  PROVE  RxIInv'
  <1>1. LineTypes' /\ LineTypes /\ RxTypes
    BY LineIsLeft, TypeParts, Zenon DEF RxIInv
  <1>2. UNCHANGED <<fifo, dataVars>>
    BY DEF Enter, HeaderEmpty, HeaderTimeout, PayloadEmpty
  <1>3. /\ pc' \in {"header", "headerTimeout", "payload", "payloadTimeout"}
        /\ failed' \in BOOLEAN
    <2>1. failed \in BOOLEAN
      BY <1>1, Zenon DEF RxTypes
    <2>2. /\ pc' \in {"header", "headerTimeout", "payload", "payloadTimeout"}
          /\ \/ failed' = FALSE
             \/ failed' = failed
             \/ failed' = (failed \/ SerialCheckTimeout(TIMEOUT_100MSEC))
      BY DEF Enter, HeaderEmpty, HeaderTimeout, PayloadEmpty
    <2>3. failed' \in BOOLEAN
      BY <2>1, <2>2, Zenon
    <2> QED BY <2>2, <2>3
  <1>4. RxTypes'
    <2>1. pc' \in Places
      BY <1>3 DEF Places
    <2> QED BY <1>1, <1>2, <1>3, <2>1, Zenon DEF RxTypes, dataVars
  <1>5. BufferMatchesState' /\ SpinMatchesState'
    <2> DEFINE n == Len(rxBuffer)
    <2>1. /\ n \in Nat /\ n' = n /\ subState \in 0 .. 4
          /\ machState \in {IDLE, HEADER, PAYLOAD}
          /\ UNCHANGED <<machState, subState, nbrBytes, command>>
      <3>1. /\ rxBuffer \in Seq(Byte) /\ subState \in 0 .. 4 /\ machState \in States
            /\ UNCHANGED <<rxBuffer, machState, subState, nbrBytes, command>>
        BY <1>1, <1>2, Zenon DEF RxTypes, dataVars
      <3> QED BY <3>1, SeqStep DEF States
    <2>2. BufferMatchesState /\ SpinMatchesState
      BY DEF RxIInv
    <2> USE <2>1, <2>2 DEF BufferMatchesState, SpinMatchesState, IDLE, HEADER,
                           PAYLOAD, SIZEOF_HEAD
    <2>3. CASE Enter
      BY <2>3 DEF Enter
    <2>4. CASE HeaderEmpty
      BY <2>4 DEF HeaderEmpty
    <2>5. CASE HeaderTimeout
      <3> DEFINE expired == SerialCheckTimeout(TIMEOUT_100MSEC)
      <3>1. /\ pc = "headerTimeout" /\ failed' = (failed \/ expired)
            /\ pc' = IF ~expired /\ n < 6 THEN "header" ELSE "payload"
        BY <2>5 DEF HeaderTimeout
      <3> HIDE DEF expired
      <3>2. ~failed' => ~failed /\ ~expired
        BY <3>1, Zenon
      <3> QED BY <3>1, <3>2
    <2>6. CASE PayloadEmpty
      BY <2>6 DEF PayloadEmpty
    <2> QED BY <2>3, <2>4, <2>5, <2>6
  <1> QED BY <1>1, <1>4, <1>5, TypePartsNext DEF RxIInv

\* What the bytes of a header are for, by the sub-state they come in.
LEMMA HeaderFields ==
  ASSUME HeaderByte, subState \in 0 .. 4
  PROVE  /\ subState = 0 =>
              /\ UNCHANGED <<nbrBytes, command>>
              /\ machState' = IF Head(fifo) # STX THEN IDLE ELSE machState
         /\ subState = 1 =>
              nbrBytes' = Head(fifo) * 256 /\ UNCHANGED <<command, machState>>
         /\ subState = 2 =>
              nbrBytes' = nbrBytes + Head(fifo) /\ UNCHANGED <<command, machState>>
         /\ subState = 3 =>
              command' = Head(fifo) * 256 /\ UNCHANGED <<nbrBytes, machState>>
         /\ subState = 4 =>
              command' = command + Head(fifo) /\ machState' = machState + 1
                /\ UNCHANGED nbrBytes
  <1> DEFINE b == Head(fifo)
  <1>1. nbrBytes' = CASE subState = 1 -> b * 256
                      [] subState = 2 -> nbrBytes + b
                      [] OTHER        -> nbrBytes
    BY Zenon DEF HeaderByte
  <1>2. command' = CASE subState = 3 -> b * 256
                     [] subState = 4 -> command + b
                     [] OTHER        -> command
    BY Zenon DEF HeaderByte
  <1>3. machState' = CASE subState = 0 /\ b # STX -> IDLE
                       [] subState = 4            -> machState + 1
                       [] OTHER                   -> machState
    BY Zenon DEF HeaderByte
  <1> HIDE DEF b
  <1>4. CASE subState = 0
    <2>1. ~(subState = 1) /\ ~(subState = 2) /\ ~(subState = 3) /\ ~(subState = 4)
      BY <1>4
    <2>2. nbrBytes' = nbrBytes
      BY <1>1, <2>1, Zenon
    <2>3. command' = command
      BY <1>2, <2>1, Zenon
    <2>4. machState' = IF b # STX THEN IDLE ELSE machState
      BY <1>3, <1>4, <2>1, Zenon
    <2> QED BY <1>4, <2>2, <2>3, <2>4 DEF b
  <1>5. CASE subState = 1
    <2>1. ~(subState = 0) /\ ~(subState = 2) /\ ~(subState = 3) /\ ~(subState = 4)
      BY <1>5
    <2>2. nbrBytes' = b * 256
      BY <1>1, <1>5, <2>1, Zenon
    <2>3. command' = command
      BY <1>2, <2>1, Zenon
    <2>4. machState' = machState
      BY <1>3, <2>1, Zenon
    <2> QED BY <1>5, <2>2, <2>3, <2>4 DEF b
  <1>6. CASE subState = 2
    <2>1. ~(subState = 0) /\ ~(subState = 1) /\ ~(subState = 3) /\ ~(subState = 4)
      BY <1>6
    <2>2. nbrBytes' = nbrBytes + b
      BY <1>1, <1>6, <2>1, Zenon
    <2>3. command' = command
      BY <1>2, <2>1, Zenon
    <2>4. machState' = machState
      BY <1>3, <2>1, Zenon
    <2> QED BY <1>6, <2>2, <2>3, <2>4 DEF b
  <1>7. CASE subState = 3
    <2>1. ~(subState = 0) /\ ~(subState = 1) /\ ~(subState = 2) /\ ~(subState = 4)
      BY <1>7
    <2>2. nbrBytes' = nbrBytes
      BY <1>1, <2>1, Zenon
    <2>3. command' = b * 256
      BY <1>2, <1>7, <2>1, Zenon
    <2>4. machState' = machState
      BY <1>3, <2>1, Zenon
    <2> QED BY <1>7, <2>2, <2>3, <2>4 DEF b
  <1>8. CASE subState = 4
    <2>1. ~(subState = 0) /\ ~(subState = 1) /\ ~(subState = 2) /\ ~(subState = 3)
      BY <1>8
    <2>2. nbrBytes' = nbrBytes
      BY <1>1, <2>1, Zenon
    <2>3. command' = command + b
      BY <1>2, <1>8, <2>1, Zenon
    <2>4. machState' = machState + 1
      BY <1>3, <1>8, <2>1, Zenon
    <2> QED BY <1>8, <2>2, <2>3, <2>4 DEF b
  <1> QED BY <1>4, <1>5, <1>6, <1>7, <1>8

LEMMA HeaderByteStep == ASSUME RxIInv, Outside, HeaderByte PROVE RxIInv'
  <1> DEFINE b == Head(fifo)
  <1>1. fifo # <<>>
    BY Zenon DEF HeaderByte
  <1>2. /\ pc = "header" /\ fifo' = Tail(fifo) /\ rxBuffer' = Append(rxBuffer, b)
        /\ failed' = (failed \/ (subState = 0 /\ b # STX))
    BY Zenon DEF HeaderByte
  <1>3. /\ timeoutTimer' = IF subState = 4 THEN TimerTicks ELSE timeoutTimer
        /\ IF Len(rxBuffer') >= SIZEOF_HEAD
           THEN pc' = "headerTimeout" /\ UNCHANGED subState
           ELSE subState' = subState + 1 /\ UNCHANGED pc
        /\ UNCHANGED <<errorCnt, delivered>>
    BY Zenon DEF HeaderByte
  <1>4. subState \in 0 .. 4 /\ fifo \in Seq(Byte) /\ rxBuffer \in Seq(Byte)
    BY TypeParts, Zenon DEF RxIInv, RxTypes
  <1>5. /\ b \in Byte /\ Tail(fifo) \in Seq(Byte)
        /\ Append(rxBuffer, b) \in Seq(Byte)
        /\ Len(Append(rxBuffer, b)) = Len(rxBuffer) + 1 /\ Len(rxBuffer) \in Nat
    BY <1>1, <1>4, SeqStep
  <1>6. /\ Len(rxBuffer) = subState + 1
        /\ machState \in {IDLE, HEADER} /\ (~failed => machState = HEADER)
        /\ subState = 2 => nbrBytes <= 255 * 256
        /\ subState = 4 => command <= 255 * 256
    BY <1>2, <1>4, <1>5
    DEF RxIInv, BufferMatchesState, SpinMatchesState, SIZEOF_HEAD
  <1>7. Len(rxBuffer') = subState + 2
    BY <1>2, <1>4, <1>5, <1>6
  <1>8. IF subState = 4 THEN pc' = "headerTimeout" /\ subState' = 4
                        ELSE pc' = "header" /\ subState' = subState + 1
    BY <1>2, <1>3, <1>4, <1>7 DEF SIZEOF_HEAD
  <1>9. /\ failed' \in BOOLEAN
        /\ failed => failed'
        /\ subState = 0 /\ b # STX => failed'
    <2>1. failed \in BOOLEAN
      BY TypeParts, Zenon DEF RxIInv, RxTypes
    <2> QED BY <1>2, <2>1, Zenon
  <1> HIDE DEF b
  <1>10. /\ nbrBytes' \in Word /\ command' \in Word
         /\ subState = 1 => nbrBytes' <= 255 * 256
         /\ subState = 3 => command' <= 255 * 256
    <2>1. nbrBytes \in Word /\ command \in Word
      BY TypeParts, Zenon DEF RxIInv, RxTypes
    <2>2. b \in Byte
      BY <1>5
    <2>3. /\ subState = 2 => nbrBytes <= 255 * 256
          /\ subState = 4 => command <= 255 * 256
      BY <1>6
    <2>4. ASSUME NEW x \in Byte
          PROVE  x * 256 \in Word /\ x * 256 <= 255 * 256
      <3>1. x \in Int /\ 0 <= x /\ x <= 255
        BY DEF Byte
      <3>2. x * 256 \in Int /\ 0 <= x * 256 /\ x * 256 <= MaxWord /\ x * 256 <= 255 * 256
        BY <3>1 DEF MaxWord
      <3>3. MaxWord \in Nat
        BY DEF MaxWord
      <3> QED BY <3>2, <3>3 DEF Word
    <2>5. ASSUME NEW x \in Byte, NEW w \in Word, w <= 255 * 256
          PROVE  w + x \in Word
      <3>1. MaxWord \in Nat
        BY DEF MaxWord
      <3>2. x \in Int /\ 0 <= x /\ x <= 255 /\ w \in Int /\ 0 <= w
        BY <3>1 DEF Byte, Word
      <3>3. w + x \in Int /\ 0 <= w + x /\ w + x <= MaxWord
        BY <2>5, <3>2 DEF MaxWord
      <3> QED BY <3>1, <3>3 DEF Word
    <2>6. CASE subState = 0
      <3>1. UNCHANGED <<nbrBytes, command>>
        BY <1>4, <2>6, HeaderFields
      <3> QED BY <2>1, <2>6, <3>1
    <2>7. CASE subState = 1
      <3>1. nbrBytes' = b * 256 /\ UNCHANGED command
        BY <1>4, <2>7, HeaderFields DEF b
      <3> QED BY <2>1, <2>2, <2>4, <2>7, <3>1
    <2>8. CASE subState = 2
      <3>1. nbrBytes' = nbrBytes + b /\ UNCHANGED command
        BY <1>4, <2>8, HeaderFields DEF b
      <3> QED BY <2>1, <2>2, <2>3, <2>5, <2>8, <3>1
    <2>9. CASE subState = 3
      <3>1. command' = b * 256 /\ UNCHANGED nbrBytes
        BY <1>4, <2>9, HeaderFields DEF b
      <3> QED BY <2>1, <2>2, <2>4, <2>9, <3>1
    <2>10. CASE subState = 4
      <3>1. command' = command + b /\ UNCHANGED nbrBytes
        BY <1>4, <2>10, HeaderFields DEF b
      <3> QED BY <2>1, <2>2, <2>3, <2>5, <2>10, <3>1
    <2> QED BY <1>4, <2>6, <2>7, <2>8, <2>9, <2>10
  <1>11. ASSUME subState # 4
         PROVE  machState' \in {IDLE, HEADER} /\ (~failed' => machState' = HEADER)
    <2>1. machState' = IF subState = 0 /\ b # STX THEN IDLE ELSE machState
      BY <1>4, <1>11, HeaderFields DEF b
    <2>2. machState \in {IDLE, HEADER} /\ (~failed => machState = HEADER)
      BY <1>6
    <2>3. (~failed' => ~failed) /\ (subState = 0 /\ b # STX => failed')
      BY <1>9, Zenon
    <2>4. machState' \in {IDLE, HEADER}
      BY <2>1, <2>2
    <2>5. ~failed' => machState' = HEADER
      BY <2>1, <2>2, <2>3
    <2> QED BY <2>4, <2>5
  <1>12. ASSUME subState = 4
         PROVE  machState' \in {HEADER, PAYLOAD} /\ (~failed' => machState' = PAYLOAD)
    <2>1. machState' = machState + 1
      BY <1>4, <1>12, HeaderFields
    <2>2. machState \in {IDLE, HEADER} /\ (~failed => machState = HEADER)
      BY <1>6
    <2>3. ~failed' => ~failed
      BY <1>9, Zenon
    <2>4. machState' \in {HEADER, PAYLOAD}
      BY <2>1, <2>2 DEF IDLE, HEADER, PAYLOAD
    <2>5. ~failed' => machState' = PAYLOAD
      BY <2>1, <2>2, <2>3 DEF HEADER, PAYLOAD
    <2> QED BY <2>4, <2>5
  <1>13. RxTypes'
    <2>1. LineTypes /\ RxTypes
      BY LineIsLeft, TypeParts, Zenon DEF RxIInv
    <2>2. /\ timeoutTimer' \in Ticks /\ errorCnt' \in Nat
          /\ delivered' \in Seq(Word)
      BY <1>3, <2>1, Zenon DEF RxTypes, LineTypes
    <2>3. fifo' \in Seq(Byte) /\ rxBuffer' \in Seq(Byte)
      BY <1>2, <1>5
    <2>4. subState' \in 0 .. 4 /\ pc' \in Places
      BY <1>2, <1>4, <1>8 DEF Places
    <2>5. machState' \in States
      BY <1>11, <1>12 DEF States
    <2>6. nbrBytes' \in Word /\ command' \in Word
      BY <1>10
    <2> QED BY <1>2, <1>9, <2>2, <2>3, <2>4, <2>5, <2>6, Zenon DEF RxTypes
  <1>14. BufferMatchesState' /\ SpinMatchesState'
    <2>1. CASE subState = 4
      BY <1>7, <1>8, <1>12, <2>1
      DEF BufferMatchesState, SpinMatchesState, SIZEOF_HEAD, IDLE, HEADER, PAYLOAD
    <2>2. CASE subState # 4
      BY <1>4, <1>7, <1>8, <1>10, <1>11, <2>2
      DEF BufferMatchesState, SpinMatchesState, SIZEOF_HEAD, IDLE, HEADER, PAYLOAD
    <2> QED BY <2>1, <2>2
  <1> QED BY <1>13, <1>14, LineIsLeft, TypePartsNext DEF RxIInv

\* The packet is complete, or its wait has ended: everything starts over.
LEMMA StartsOver ==
  ASSUME RxIInv, Outside, InitSerialData, pc' = "loop", fifo' \in Seq(Byte),
         delivered' \in Seq(Word),
         UNCHANGED <<failed, subState, nbrBytes, command>>
  PROVE  RxIInv'
  <1>1. RxTypes /\ LineTypes'
    BY LineIsLeft, TypeParts, Zenon DEF RxIInv
  <1>2. /\ machState' = IDLE /\ rxBuffer' = <<>> /\ errorCnt' = 0
        /\ timeoutTimer' = 0 /\ timeoutTimer' \in Ticks
    BY Numbers DEF InitSerialData, Ticks
  <1>3. RxTypes'
    <2>1. /\ rxBuffer' \in Seq(Byte) /\ pc' \in Places /\ machState' \in States
          /\ errorCnt' \in Nat
      BY <1>2 DEF Places, States
    <2> QED BY <1>1, <1>2, <2>1, Zenon DEF RxTypes
  <1>4. BufferMatchesState' /\ SpinMatchesState'
    BY <1>2 DEF BufferMatchesState, SpinMatchesState, IDLE, HEADER, PAYLOAD
  <1> QED BY <1>1, <1>3, <1>4, TypePartsNext DEF RxIInv

LEMMA PayloadByteStep == ASSUME RxIInv, Outside, PayloadByte PROVE RxIInv'
  <1> DEFINE packet == Append(rxBuffer, Head(fifo))
             n == Len(packet)
             valid == packet[n - 1] * 256 + packet[n] = Checksum(SubSeq(packet, 1, n - 2))
  <1>1. LineTypes' /\ LineTypes /\ RxTypes
    BY LineIsLeft, TypeParts, Zenon DEF RxIInv
  <1>2. /\ fifo # <<>> /\ pc = "payload" /\ fifo' = Tail(fifo)
        /\ UNCHANGED <<failed, subState, nbrBytes, command>>
    BY DEF PayloadByte
  <1>3. machState # PASS_THRU
    <2>1. machState \in States
      BY <1>1, Zenon DEF RxTypes
    <2> QED BY <2>1 DEF States, IDLE, HEADER, PAYLOAD, PASS_THRU
  <1>4. /\ Tail(fifo) \in Seq(Byte) /\ packet \in Seq(Byte)
        /\ n = Len(rxBuffer) + 1 /\ Len(rxBuffer) \in Nat
    <2>1. fifo \in Seq(Byte) /\ rxBuffer \in Seq(Byte)
      BY <1>1, Zenon DEF RxTypes
    <2> QED BY <1>2, <2>1, SeqStep
  <1>5. CASE n = nbrBytes
    <2>1. /\ delivered' = IF valid THEN Append(delivered, command) ELSE delivered
          /\ InitSerialData /\ pc' = "loop"
      BY <1>3, <1>5, Zenon DEF PayloadByte
    <2>2. delivered' \in Seq(Word)
      <3> HIDE DEF valid
      <3>1. delivered \in Seq(Word) /\ command \in Word
        BY <1>1, Zenon DEF RxTypes
      <3> QED BY <2>1, <3>1, SeqStep
    <2> QED BY <1>2, <1>4, <2>1, <2>2, StartsOver
  <1>6. CASE n # nbrBytes
    <2>1. /\ rxBuffer' = packet /\ timeoutTimer' = TimerTicks
          /\ UNCHANGED <<delivered, machState, errorCnt, pc>>
      BY <1>6, Zenon DEF PayloadByte
    <2> HIDE DEF packet
    <2>2. RxTypes'
      BY <1>1, <1>2, <1>4, <2>1, Zenon DEF RxTypes, LineTypes
    <2>3. Len(rxBuffer') = Len(rxBuffer) + 1
      BY <1>4, <2>1
    <2>4. BufferMatchesState' /\ SpinMatchesState'
      <3>1. ~failed => machState = PAYLOAD /\ Len(rxBuffer) >= SIZEOF_HEAD
        BY <1>2 DEF RxIInv, BufferMatchesState
      <3> QED BY <1>2, <1>4, <2>1, <2>3, <3>1
              DEF BufferMatchesState, SpinMatchesState, SIZEOF_HEAD
    <2> QED BY <1>1, <2>2, <2>4, TypePartsNext DEF RxIInv
  <1> QED BY <1>5, <1>6

LEMMA PayloadTimeoutStep == ASSUME RxIInv, Outside, PayloadTimeout PROVE RxIInv'
  <1>1. LineTypes' /\ RxTypes
    BY LineIsLeft, TypeParts, Zenon DEF RxIInv
  <1>2. /\ pc' = "loop" /\ pc = "payloadTimeout"
        /\ UNCHANGED <<failed, fifo, subState, nbrBytes, command, delivered>>
    BY DEF PayloadTimeout
  <1>3. CASE InitSerialData
    <2>1. fifo' \in Seq(Byte) /\ delivered' \in Seq(Word)
      BY <1>1, <1>2, Zenon DEF RxTypes
    <2> QED BY <1>2, <1>3, <2>1, StartsOver
  <1>4. CASE ~failed /\ UNCHANGED <<machState, timeoutTimer, errorCnt, rxBuffer>>
    <2>1. RxTypes'
      <3>1. pc' \in Places
        BY <1>2 DEF Places
      <3> QED BY <1>1, <1>2, <1>4, <3>1, Zenon DEF RxTypes
    <2>2. machState = PAYLOAD /\ Len(rxBuffer) >= SIZEOF_HEAD
      BY <1>2, <1>4 DEF RxIInv, BufferMatchesState
    <2>3. BufferMatchesState' /\ SpinMatchesState'
      BY <1>2, <1>4, <2>2
      DEF BufferMatchesState, SpinMatchesState, HEADER, PAYLOAD
    <2> QED BY <1>1, <2>1, <2>3, TypePartsNext DEF RxIInv
  <1> QED BY <1>3, <1>4 DEF PayloadTimeout

\* A port that runs over its buffer, and one that has.
LEMMA OverrunStep ==
  ASSUME RxIInv, Outside, PayloadOverrun \/ AfterOverrun PROVE RxIInv'
  <1>1. LineTypes' /\ RxTypes
    BY LineIsLeft, TypeParts, Zenon DEF RxIInv
  <1>2. /\ pc' = "overrun" /\ failed' = failed /\ UNCHANGED dataVars
        /\ (fifo' = Tail(fifo) /\ fifo # <<>>) \/ fifo' = fifo
    BY DEF PayloadOverrun, AfterOverrun, localVars
  <1>3. fifo' \in Seq(Byte)
    <2>1. fifo \in Seq(Byte)
      BY <1>1, Zenon DEF RxTypes
    <2> QED BY <1>2, <2>1, SeqStep
  <1>4. RxTypes'
    <2>1. pc' \in Places
      BY <1>2 DEF Places
    <2>2. UNCHANGED <<failed, machState, timeoutTimer, subState, rxBuffer,
                      nbrBytes, command, errorCnt, delivered>>
      BY <1>2, Zenon DEF dataVars
    <2> QED BY <1>1, <1>3, <2>1, <2>2, Zenon DEF RxTypes
  <1>5. BufferMatchesState' /\ SpinMatchesState'
    BY <1>2 DEF BufferMatchesState, SpinMatchesState
  <1> QED BY <1>1, <1>4, <1>5, TypePartsNext DEF RxIInv

LEMMA RxNextIInv == ASSUME RxIInv, [Next]_vars PROVE RxIInv'
  <1>1. CASE UNCHANGED vars
    <2>1. UNCHANGED <<TimerTicks, lag, sending, frameAge, faults, offered, fifo>>
          /\ UNCHANGED <<localVars, dataVars>>
      BY <1>1 DEF vars, localVars, dataVars
    <2>2. LineTypes /\ fifo \in Seq(Byte)
      BY TypeParts, Zenon DEF RxIInv, RxTypes
    <2>3. LineTypes' /\ fifo' \in Seq(Byte)
      BY <2>1, <2>2, Zenon DEF LineTypes
    <2> QED BY <2>1, <2>3, MachineIsLeft, TypePartsNext DEF RxIInv
  <1>2. CASE SerialRxMachine
    BY <1>2, IdleStep, EnterStep, HeaderByteStep, PayloadByteStep,
       PayloadTimeoutStep, OverrunStep DEF SerialRxMachine, Outside
  <1>3. CASE Next /\ ~SerialRxMachine
    BY <1>3, LineStep DEF Next
  <1> QED BY <1>1, <1>2, <1>3

LEMMA AlwaysRxIInv == Spec => []RxIInv
  <1> QED BY RxInitIInv, RxNextIInv, PTL DEF Spec

\* Bytes, lengths, commands and timers of SERIAL_DATA keep their ranges, with
\* every set of packets and whatever the line does to them, until a damaged
\* length takes SerialRxMachine over the end of rxBuffer.
THEOREM TypeCorrect == Spec => []TypeOK
  <1>1. RxIInv => TypeOK
    BY DEF RxIInv
  <1> QED BY <1>1, AlwaysRxIInv, PTL

\* SerialRxMachine knows where it stands in its packet: state, sub-state and
\* bytes agree at each of its steps, after timeouts and failed calls as well,
\* until a damaged length takes it over the end of rxBuffer.
THEOREM BufferCorrect == Spec => []BufferMatchesState
  <1>1. RxIInv => BufferMatchesState
    BY DEF RxIInv
  <1> QED BY <1>1, AlwaysRxIInv, PTL

-----------------------------------------------------------------------------
(* Bytes in flight.  Between a fault and the next one the bytes the        *)
(* machine has, those in the queue and those still on the line are whole   *)
(* packets one after the other, those of the commands it owes an answer.   *)

\* s is the packets fs, cut at cut[1] .. cut[Len(fs) + 1], and o their
\* commands; all but the last have arrived when the last k bytes have not.
Packed(fs, cut, s, o, k) ==
    /\ Len(o) = Len(fs)
    /\ cut[1] = 0 /\ cut[Len(fs) + 1] = Len(s)
    /\ \A i, j \in 1 .. Len(fs) + 1 : i <= j => cut[i] <= cut[j]
    /\ \A i \in 1 .. Len(fs) :
          /\ cut[i + 1] = cut[i] + Len(fs[i])
          /\ o[i] = CommandOf(fs[i])
          /\ \A j \in 1 .. Len(fs[i]) : s[cut[i] + j] = fs[i][j]
          /\ i < Len(fs) => cut[i + 1] + k <= Len(s)

InFlight(s, o, k) ==
    \E fs \in Seq(Frames) : \E cut \in [1 .. Len(fs) + 1 -> Nat] :
        Packed(fs, cut, s, o, k)

LEMMA FrameFacts ==
  ASSUME NEW f \in Frames
  PROVE  /\ f \in Seq(Byte) /\ Len(f) \in Nat /\ Len(f) > 7
         /\ \A j \in 1 .. Len(f) : f[j] \in Byte
         /\ f[1] = DLE /\ f[2] = STX /\ f[3] * 256 + f[4] = Len(f)
         /\ f[Len(f) - 1] * 256 + f[Len(f)] = Checksum(SubSeq(f, 1, Len(f) - 2))
  <1>1. f \in Seq(Byte) /\ Len(f) > 7
    BY SerialRxAssumption DEF SIZEOF_HEAD, Byte
  <1>2. Len(f) \in Nat /\ \A j \in 1 .. Len(f) : f[j] \in Byte
    BY <1>1, SeqStep
  <1>3. WellFormed(f)
    BY PeerAssumption
  <1>. QED  BY <1>1, <1>2, <1>3, Zenon DEF WellFormed

LEMMA FlowEmpty == InFlight(<<>>, <<>>, 0)
  <1>. DEFINE cut == [i \in 1 .. 1 |-> 0]
  <1>1. <<>> \in Seq(Frames) /\ cut \in [1 .. Len(<<>>) + 1 -> Nat]
    OBVIOUS
  <1>2. Packed(<<>>, cut, <<>>, <<>>, 0)
    BY DEF Packed
  <1>. QED  BY <1>1, <1>2 DEF InFlight

LEMMA FlowLess ==
  ASSUME NEW s, NEW o, NEW k \in Nat, NEW m \in Nat, m <= k, Len(s) \in Nat,
         InFlight(s, o, k)
  PROVE  InFlight(s, o, m)
  <1>0. PICK fs \in Seq(Frames) :
           \E cut \in [1 .. Len(fs) + 1 -> Nat] : Packed(fs, cut, s, o, k)
    BY DEF InFlight
  <1>1. PICK cut \in [1 .. Len(fs) + 1 -> Nat] : Packed(fs, cut, s, o, k)
    BY <1>0
  <1>2. \A i \in 1 .. Len(fs) : cut[i + 1] \in Nat
    OBVIOUS
  <1>3. \A i \in 1 .. Len(fs) : cut[i + 1] + k <= Len(s) => cut[i + 1] + m <= Len(s)
    BY <1>2
  <1>4. Packed(fs, cut, s, o, m)
    BY <1>1, <1>3, Zenon DEF Packed
  <1>. QED  BY <1>4 DEF InFlight

\* Nothing in flight, nothing owed.
LEMMA FlowNone ==
  ASSUME NEW o \in Seq(Nat), NEW k \in Nat, InFlight(<<>>, o, k)
  PROVE  o = <<>>
  <1>0. PICK fs \in Seq(Frames) :
           \E cut \in [1 .. Len(fs) + 1 -> Nat] : Packed(fs, cut, <<>>, o, k)
    BY DEF InFlight
  <1>1. PICK cut \in [1 .. Len(fs) + 1 -> Nat] : Packed(fs, cut, <<>>, o, k)
    BY <1>0
  <1>2. CASE fs = <<>>
    <2>1. Len(o) = 0
      BY <1>1, <1>2 DEF Packed
    <2>. QED  BY <2>1, EmptySeq
  <1>3. CASE fs # <<>>
    <2>1. Len(fs) \in Nat \ {0} /\ fs[1] \in Frames
      BY <1>3, EmptySeq, ElementOfSeq
    <2>2. Len(fs[1]) \in Nat /\ Len(fs[1]) > 7
      BY <2>1, FrameFacts
    <2>3. /\ cut[1] = 0 /\ cut[Len(fs) + 1] = 0
          /\ cut[2] = cut[1] + Len(fs[1]) /\ cut[2] <= cut[Len(fs) + 1]
      BY <1>1, <2>1 DEF Packed
    <2>. QED  BY <2>2, <2>3
  <1>. QED  BY <1>2, <1>3

LEMMA PlaceInRest ==
  ASSUME NEW a, NEW b, NEW c, NEW d, NEW e, NEW m, NEW l,
         a \in Nat, b \in Nat, c \in Nat, d \in Nat, m \in Nat, l \in 1 .. m,
         e = c - d, a = b - d, b + m <= c
  PROVE  a + l \in 1 .. e /\ d + (a + l) = b + l
  OBVIOUS

LEMMA PlaceInRange ==
  ASSUME NEW c \in Nat, NEW m \in Nat, NEW l \in Nat, NEW x \in Nat,
         NEW j \in 1 .. m, c + m <= l
  PROVE  c + j \in 1 .. l + x /\ c + j <= l
  OBVIOUS

\* A packet that begins when the ones before have arrived.
LEMMA FlowAppend ==
  ASSUME NEW s \in Seq(Byte), NEW o \in Seq(Nat), NEW f \in Frames,
         CommandOf(f) \in Nat, InFlight(s, o, 0)
  PROVE  InFlight(s \o f, Append(o, CommandOf(f)), Len(f))
  <1>0. PICK fs \in Seq(Frames) :
           \E cut \in [1 .. Len(fs) + 1 -> Nat] : Packed(fs, cut, s, o, 0)
    BY DEF InFlight
  <1>1. PICK cut \in [1 .. Len(fs) + 1 -> Nat] : Packed(fs, cut, s, o, 0)
    BY <1>0
  <1>. DEFINE n == Len(fs)
              gs == Append(fs, f)
              t == s \o f
              p == Append(o, CommandOf(f))
              cup == [i \in 1 .. n + 2 |-> IF i <= n + 1 THEN cut[i]
                                                         ELSE Len(t)]
  <1>2. /\ f \in Seq(Byte) /\ Len(f) \in Nat /\ Len(f) > 7 /\ Len(s) \in Nat
        /\ n \in Nat
    BY FrameFacts, LenProperties
  <1>3. /\ gs \in Seq(Frames) /\ Len(gs) = n + 1 /\ gs[n + 1] = f
        /\ \A i \in 1 .. n : gs[i] = fs[i]
    BY AppendProperties
  <1>4. /\ Len(p) = n + 1 /\ p[n + 1] = CommandOf(f)
        /\ \A i \in 1 .. n : p[i] = o[i]
    BY <1>1, AppendProperties DEF Packed
  <1>5. /\ Len(t) = Len(s) + Len(f)
        /\ \A i \in 1 .. Len(s) + Len(f) :
              t[i] = IF i <= Len(s) THEN s[i] ELSE f[i - Len(s)]
    BY <1>2, ConcatProperties
  <1>6. cup \in [1 .. n + 2 -> Nat] /\ Len(t) \in Nat
    BY <1>2, <1>5
  <1>7. /\ cut[1] = 0 /\ cut[n + 1] = Len(s)
        /\ \A i, j \in 1 .. n + 1 : i <= j => cut[i] <= cut[j]
        /\ \A i \in 1 .. n :
              /\ cut[i + 1] = cut[i] + Len(fs[i])
              /\ o[i] = CommandOf(fs[i])
              /\ \A j \in 1 .. Len(fs[i]) : s[cut[i] + j] = fs[i][j]
    BY <1>1 DEF Packed
  <1>8. ASSUME NEW i \in 1 .. n + 1
        PROVE  cup[i] = cut[i] /\ cut[i] \in Nat /\ cut[i] <= Len(s)
    <2>1. i \in 1 .. n + 2 /\ i <= n + 1 /\ n + 1 \in 1 .. n + 1
      BY <1>2
    <2>2. cut[i] <= cut[n + 1]
      BY <1>7, <2>1
    <2>3. cup[i] = cut[i]
      BY <2>1
    <2>. QED  BY <1>7, <2>2, <2>3
  <1>9. cup[n + 2] = Len(s) + Len(f)
    BY <1>2, <1>5
  <1>. HIDE DEF gs, t, p, cup
  <1>10. \A i, j \in 1 .. Len(gs) + 1 : i <= j => cup[i] <= cup[j]
    <2>. SUFFICES ASSUME NEW i \in 1 .. n + 2, NEW j \in 1 .. n + 2, i <= j
                  PROVE  cup[i] <= cup[j]
      BY <1>2, <1>3
    <2>1. CASE j <= n + 1
      <3>1. i \in 1 .. n + 1 /\ j \in 1 .. n + 1
        BY <1>2, <2>1
      <3>2. cut[i] <= cut[j]
        BY <1>7, <3>1
      <3>. QED  BY <1>8, <3>1, <3>2
    <2>2. CASE j = n + 2 /\ i <= n + 1
      BY <1>2, <1>8, <1>9, <2>2
    <2>3. CASE j = n + 2 /\ i = n + 2
      BY <1>2, <1>9, <2>3
    <2>. QED  BY <1>2, <2>1, <2>2, <2>3
  <1>11. ASSUME NEW i \in 1 .. Len(gs)
         PROVE  /\ cup[i + 1] = cup[i] + Len(gs[i])
                /\ p[i] = CommandOf(gs[i])
                /\ \A j \in 1 .. Len(gs[i]) : t[cup[i] + j] = gs[i][j]
                /\ i < Len(gs) => cup[i + 1] + Len(f) <= Len(t)
    <2>1. CASE i <= n
      <3>1. i \in 1 .. n /\ i + 1 \in 1 .. n + 1 /\ i \in 1 .. n + 1
        BY <1>2, <1>3, <2>1
      <3>2. gs[i] = fs[i] /\ p[i] = o[i] /\ fs[i] \in Frames
        BY <1>3, <1>4, <3>1, ElementOfSeq
      <3>3. /\ cup[i + 1] = cut[i + 1] /\ cup[i] = cut[i]
            /\ cut[i] \in Nat /\ cut[i + 1] <= Len(s)
        BY <1>8, <3>1
      <3>4. /\ cut[i + 1] = cut[i] + Len(fs[i]) /\ o[i] = CommandOf(fs[i])
            /\ \A j \in 1 .. Len(fs[i]) : s[cut[i] + j] = fs[i][j]
        BY <1>7, <3>1
      <3>5. Len(fs[i]) \in Nat
        BY <3>2, FrameFacts
      <3>6. ASSUME NEW j \in 1 .. Len(fs[i]) PROVE t[cut[i] + j] = s[cut[i] + j]
        <4>1. /\ cut[i] + j \in 1 .. Len(s) + Len(f)
              /\ cut[i] + j <= Len(s)
          <5>1. cut[i] \in Nat /\ cut[i] + Len(fs[i]) <= Len(s)
            BY <3>3, <3>4
          <5>. HIDE DEF n
          <5>. QED  BY <1>2, <3>5, <5>1, PlaceInRange
        <4>. QED  BY <1>5, <4>1
      <3>7. i < Len(gs) => cup[i + 1] + Len(f) <= Len(t)
        <4>1. ASSUME NEW a \in Nat, NEW b \in Nat, NEW c \in Nat, a <= b
              PROVE  a + c <= b + c
          BY <4>1
        <4>2. cut[i + 1] \in Nat
          BY <1>8, <3>1
        <4>3. Len(t) = Len(s) + Len(f)
          BY <1>5
        <4>. QED  BY <1>2, <3>3, <4>1, <4>2, <4>3
      <3>8. /\ cup[i + 1] = cup[i] + Len(gs[i])
            /\ p[i] = CommandOf(gs[i])
        BY <3>2, <3>3, <3>4
      <3>9. \A j \in 1 .. Len(gs[i]) : t[cup[i] + j] = gs[i][j]
        <4>1. \A j \in 1 .. Len(fs[i]) : t[cut[i] + j] = fs[i][j]
          BY <3>4, <3>6, Zenon
        <4>. QED  BY <3>2, <3>3, <4>1, Zenon
      <3>. QED  BY <3>7, <3>8, <3>9
    <2>2. CASE i = n + 1
      <3>1. gs[i] = f /\ p[i] = CommandOf(f) /\ ~(i < Len(gs))
        BY <1>2, <1>3, <1>4, <2>2
      <3>2. cup[i] = Len(s) /\ cup[i + 1] = Len(s) + Len(f)
        <4>1. n + 1 \in 1 .. n + 1 /\ i + 1 = n + 2
          BY <1>2, <2>2
        <4>2. cup[n + 1] = cut[n + 1]
          BY <1>8, <4>1
        <4>. QED  BY <1>7, <1>9, <2>2, <4>1, <4>2
      <3>3. ASSUME NEW j \in 1 .. Len(f) PROVE t[Len(s) + j] = f[j]
        <4>1. /\ Len(s) + j \in 1 .. Len(s) + Len(f) /\ ~(Len(s) + j <= Len(s))
              /\ (Len(s) + j) - Len(s) = j
          BY <1>2
        <4>. QED  BY <1>5, <4>1
      <3>. QED  BY <3>1, <3>2, <3>3
    <2>. QED  BY <1>2, <1>3, <2>1, <2>2
  <1>12. Len(p) = Len(gs) /\ cup[1] = 0 /\ cup[Len(gs) + 1] = Len(t)
    <2>1. 1 \in 1 .. n + 1 /\ Len(gs) + 1 = n + 2
      BY <1>2, <1>3
    <2>. QED  BY <1>3, <1>4, <1>5, <1>7, <1>8, <1>9, <2>1
  <1>13. Packed(gs, cup, t, p, Len(f))
    BY <1>10, <1>11, <1>12, Zenon DEF Packed
  <1>14. cup \in [1 .. Len(gs) + 1 -> Nat]
    <2>1. Len(gs) + 1 = n + 2
      BY <1>2, <1>3
    <2>. QED  BY <1>6, <2>1
  <1>. QED  BY <1>3, <1>13, <1>14, Zenon DEF InFlight, t, p

\* The first packet in flight is that of the first command owed; it has
\* arrived when it is not the last, and the rest is in flight behind it.
LEMMA FlowFirst ==
  ASSUME NEW s \in Seq(Byte), NEW o \in Seq(Nat), NEW k \in Nat,
         InFlight(s, o, k), s # <<>>
  PROVE  /\ o # <<>>
         /\ \E f \in Frames :
              /\ Head(o) = CommandOf(f)
              /\ Len(f) <= Len(s)
              /\ \A j \in 1 .. Len(f) : s[j] = f[j]
              /\ Len(o) = 1 => Len(f) = Len(s)
              /\ Len(o) # 1 => Len(f) + k <= Len(s)
              /\ \A r \in Seq(Byte) :
                    /\ Len(r) = Len(s) - Len(f)
                    /\ \A j \in 1 .. Len(r) : r[j] = s[Len(f) + j]
                    => InFlight(r, Tail(o), k)
  <1>0. PICK fs \in Seq(Frames) :
           \E cut \in [1 .. Len(fs) + 1 -> Nat] : Packed(fs, cut, s, o, k)
    BY DEF InFlight
  <1>1. PICK cut \in [1 .. Len(fs) + 1 -> Nat] : Packed(fs, cut, s, o, k)
    BY <1>0
  <1>. DEFINE n == Len(fs)
              f == fs[1]
  <1>2. /\ Len(o) = n /\ n \in Nat /\ Len(s) \in Nat
        /\ cut[1] = 0 /\ cut[n + 1] = Len(s)
        /\ \A i, j \in 1 .. n + 1 : i <= j => cut[i] <= cut[j]
        /\ \A i \in 1 .. n :
              /\ cut[i + 1] = cut[i] + Len(fs[i])
              /\ o[i] = CommandOf(fs[i])
              /\ \A j \in 1 .. Len(fs[i]) : s[cut[i] + j] = fs[i][j]
              /\ i < n => cut[i + 1] + k <= Len(s)
    BY <1>1, LenProperties DEF Packed
  <1>3. n # 0
    <2>1. Len(s) # 0
      BY EmptySeq
    <2>. QED  BY <1>2, <2>1
  <1>4. o # <<>> /\ Head(o) = o[1]
    BY <1>2, <1>3
  <1>5. 1 \in 1 .. n /\ f \in Frames /\ Len(f) \in Nat /\ Len(f) > 7
    BY <1>2, <1>3, ElementOfSeq, FrameFacts
  <1>6. /\ cut[2] = Len(f) /\ Head(o) = CommandOf(f)
        /\ \A j \in 1 .. Len(f) : s[j] = f[j]
        /\ 1 < n => cut[2] + k <= Len(s)
        /\ cut[2] <= cut[n + 1]
    <2>1. 2 \in 1 .. n + 1 /\ n + 1 \in 1 .. n + 1
      BY <1>2, <1>3
    <2>2. /\ cut[1 + 1] = cut[1] + Len(f) /\ o[1] = CommandOf(f)
          /\ \A j \in 1 .. Len(f) : s[cut[1] + j] = f[j]
          /\ 1 < n => cut[1 + 1] + k <= Len(s)
      BY <1>2, <1>5
    <2>3. \A j \in 1 .. Len(f) : cut[1] + j = j
      BY <1>2
    <2>. QED  BY <1>2, <1>4, <1>5, <2>1, <2>2, <2>3
  <1>7. ASSUME NEW r \in Seq(Byte), Len(r) = Len(s) - Len(f),
               \A j \in 1 .. Len(r) : r[j] = s[Len(f) + j]
        PROVE  InFlight(r, Tail(o), k)
    <2>. DEFINE gs == Tail(fs)
                p == Tail(o)
                cup == [i \in 1 .. n |-> cut[i + 1] - Len(f)]
    <2>1. /\ gs \in Seq(Frames) /\ Len(gs) = n - 1
          /\ \A i \in 1 .. n - 1 : gs[i] = fs[i + 1]
      <3>1. fs # <<>>
        BY <1>3
      <3>. QED  BY <3>1, HeadTailProperties
    <2>2. /\ Len(p) = n - 1
          /\ \A i \in 1 .. n - 1 : p[i] = o[i + 1]
      BY <1>2, <1>4, HeadTailProperties
    <2>3. /\ cup \in [1 .. n -> Nat]
          /\ \A i \in 1 .. n : cup[i] = cut[i + 1] - Len(f) /\ cut[i + 1] \in Nat
      <3>1. ASSUME NEW i \in 1 .. n
            PROVE  cut[i + 1] \in Nat /\ cut[i + 1] - Len(f) \in Nat
        <4>1. 2 \in 1 .. n + 1 /\ i + 1 \in 1 .. n + 1 /\ 2 <= i + 1
          BY <1>2, <1>3
        <4>2. cut[2] <= cut[i + 1] /\ cut[i + 1] \in Nat
          BY <1>2, <4>1
        <4>. QED  BY <1>5, <1>6, <4>2
      <3>. QED  BY <3>1
    <2>. HIDE DEF gs, p, cup
    <2>4. \A i, j \in 1 .. Len(gs) + 1 : i <= j => cup[i] <= cup[j]
      <3>. SUFFICES ASSUME NEW i \in 1 .. n, NEW j \in 1 .. n, i <= j
                    PROVE  cup[i] <= cup[j]
        BY <1>2, <1>3, <2>1
      <3>0. i + 1 \in 1 .. n + 1 /\ j + 1 \in 1 .. n + 1 /\ i + 1 <= j + 1
        BY <1>2
      <3>1. cut[i + 1] <= cut[j + 1]
        BY <1>2, <3>0
      <3>. QED  BY <1>5, <2>3, <3>1
    <2>5. ASSUME NEW i \in 1 .. Len(gs)
          PROVE  /\ cup[i + 1] = cup[i] + Len(gs[i])
                 /\ p[i] = CommandOf(gs[i])
                 /\ \A j \in 1 .. Len(gs[i]) : r[cup[i] + j] = gs[i][j]
                 /\ i < Len(gs) => cup[i + 1] + k <= Len(r)
      <3>1. /\ i \in 1 .. n - 1 /\ i + 1 \in 1 .. n /\ i \in 1 .. n /\ i \in Nat
            /\ i + 2 \in 1 .. n + 1 /\ n + 1 \in 1 .. n + 1 /\ i + 2 <= n + 1
        BY <1>2, <1>3, <2>1
      <3>2. gs[i] = fs[i + 1] /\ p[i] = o[i + 1]
        BY <2>1, <2>2, <3>1
      <3>3. /\ cut[(i + 1) + 1] = cut[i + 1] + Len(fs[i + 1])
            /\ o[i + 1] = CommandOf(fs[i + 1])
            /\ \A j \in 1 .. Len(fs[i + 1]) : s[cut[i + 1] + j] = fs[i + 1][j]
            /\ i + 1 < n => cut[(i + 1) + 1] + k <= Len(s)
        BY <1>2, <3>1
      <3>4. /\ cup[i] = cut[i + 1] - Len(f) /\ cup[i + 1] = cut[(i + 1) + 1] - Len(f)
            /\ cut[i + 1] \in Nat /\ cut[(i + 1) + 1] \in Nat /\ cup[i] \in Nat
        BY <2>3, <3>1
      <3>5. fs[i + 1] \in Frames /\ Len(fs[i + 1]) \in Nat
        BY <3>1, ElementOfSeq, FrameFacts
      <3>6. cut[(i + 1) + 1] <= Len(s)
        <4>1. (i + 1) + 1 = i + 2
          BY <3>1
        <4>2. cut[i + 2] <= cut[n + 1]
          BY <1>2, <3>1
        <4>. QED  BY <1>2, <4>1, <4>2
      <3>7. ASSUME NEW j \in 1 .. Len(fs[i + 1])
            PROVE  r[cup[i] + j] = fs[i + 1][j]
        <4>1. s[cut[i + 1] + j] = fs[i + 1][j]
          BY <3>3
        <4>2. /\ cup[i] + j \in 1 .. Len(r)
              /\ Len(f) + (cup[i] + j) = cut[i + 1] + j
          <5>1. /\ Len(s) \in Nat /\ Len(f) \in Nat /\ Len(r) = Len(s) - Len(f)
                /\ Len(fs[i + 1]) \in Nat
            BY <1>2, <1>5, <1>7, <3>5
          <5>2. cut[i + 1] + Len(fs[i + 1]) <= Len(s)
            BY <3>3, <3>6
          <5>3. cup[i] \in Nat /\ cut[i + 1] \in Nat /\ cup[i] = cut[i + 1] - Len(f)
            BY <3>4
          <5>4. j \in 1 .. Len(fs[i + 1])
            OBVIOUS
          <5>. HIDE DEF n, f
          <5>5. PICK a \in Nat : a = cup[i]
            BY <5>3
          <5>6. PICK b \in Nat : b = cut[i + 1]
            BY <5>3
          <5>7. PICK m \in Nat : m = Len(fs[i + 1])
            BY <5>1
          <5>8. PICK c \in Nat : c = Len(s)
            BY <5>1
          <5>9. PICK d \in Nat : d = Len(f)
            BY <5>1
          <5>10. Len(r) = c - d /\ b + m <= c /\ a = b - d /\ j \in 1 .. m
            BY <5>1, <5>2, <5>3, <5>4, <5>5, <5>6, <5>7, <5>8, <5>9, Zenon
          <5>11. a + j \in 1 .. Len(r) /\ d + (a + j) = b + j
            BY <5>10, PlaceInRest
          <5>. QED  BY <5>5, <5>6, <5>9, <5>11, Zenon
        <4>. QED  BY <1>7, <4>1, <4>2
      <3>8. i < Len(gs) => cup[i + 1] + k <= Len(r)
        <4>1. i < Len(gs) => i + 1 < n
          BY <1>2, <2>1, <3>1
        <4>2. ASSUME NEW a \in Nat, NEW b \in Nat, NEW c \in Nat, NEW d \in Nat,
                     a = b - d, b + k <= c
              PROVE  a + k <= c - d
          BY <4>2
        <4>3. cup[i + 1] \in Nat
          BY <2>3, <3>1
        <4>4. Len(s) \in Nat /\ Len(f) \in Nat /\ Len(r) = Len(s) - Len(f)
          BY <1>2, <1>5, <1>7
        <4>5. i + 1 < n => cut[(i + 1) + 1] + k <= Len(s)
          BY <3>3
        <4>. HIDE DEF n, f
        <4>. QED  BY <3>4, <4>1, <4>2, <4>3, <4>4, <4>5
      <3>9. cup[i + 1] = cup[i] + Len(gs[i])
        <4>1. cut[(i + 1) + 1] = cut[i + 1] + Len(gs[i]) /\ Len(gs[i]) \in Nat
          BY <3>2, <3>3, <3>5
        <4>2. PICK x \in Nat : x = cut[i + 1]
          BY <3>4
        <4>3. PICK y \in Nat : y = Len(gs[i])
          BY <4>1
        <4>4. PICK z \in Nat : z = Len(f)
          BY <1>5
        <4>5. (x + y) - z = (x - z) + y
          OBVIOUS
        <4>. QED  BY <3>4, <4>1, <4>2, <4>3, <4>4, <4>5, Zenon
      <3>. QED  BY <3>2, <3>3, <3>7, <3>8, <3>9
    <2>6. Len(p) = Len(gs) /\ cup[1] = 0 /\ cup[Len(gs) + 1] = Len(r)
      <3>1. 1 \in 1 .. n /\ n \in 1 .. n /\ Len(gs) + 1 = n
        BY <1>2, <1>3, <2>1
      <3>. QED  BY <1>2, <1>5, <1>6, <1>7, <2>1, <2>2, <2>3, <3>1
    <2>7. Packed(gs, cup, r, p, k)
      BY <2>4, <2>5, <2>6, Zenon DEF Packed
    <2>8. cup \in [1 .. Len(gs) + 1 -> Nat]
      <3>1. Len(gs) + 1 = n
        BY <1>2, <2>1
      <3>. QED  BY <2>3, <3>1
    <2>. QED  BY <2>1, <2>7, <2>8, Zenon DEF InFlight, p
  <1>8. /\ Len(o) = 1 => Len(f) = Len(s)
        /\ Len(o) # 1 => Len(f) + k <= Len(s)
        /\ Len(f) <= Len(s)
    BY <1>2, <1>3, <1>5, <1>6
  <1>. QED  BY <1>4, <1>5, <1>6, <1>7, <1>8

-----------------------------------------------------------------------------
(* The flow of packets through the machine between two faults.             *)

Busy == pc # "loop" \/ machState # IDLE

Part == IF Busy THEN rxBuffer ELSE <<>>

Stream == (Part \o fifo) \o sending

TicksSince == (TimerTicks - timeoutTimer) % TICK_MODULUS

\* The bytes the machine has are a proper beginning of a packet, and length
\* and command are those of that packet as far as it has read them.
PacketInWork ==
    Busy =>
      /\ rxBuffer # <<>>
      /\ pc # "loop" => ~failed
      /\ Len(rxBuffer) = 3 => nbrBytes = rxBuffer[3] * 256
      /\ Len(rxBuffer) >= 4 =>
            /\ nbrBytes = rxBuffer[3] * 256 + rxBuffer[4]
            /\ Len(rxBuffer) < nbrBytes
      /\ Len(rxBuffer) = 5 => command = rxBuffer[5] * 256
      /\ Len(rxBuffer) >= 6 => command = rxBuffer[5] * 256 + rxBuffer[6]

\* The machine waits only for a packet that is on the line, whose ticks bound
\* those of the wait; and it tests a timeout a tick after it saw the queue
\* empty, or has set the timer since.
InTime(o) ==
    /\ sending # <<>> => frameAge \in {0, 1}
    /\ Busy /\ sending # <<>> /\ Len(o) = 1 => TicksSince <= frameAge
    /\ pc # "loop" => lag <= 1
    /\ pc \in {"headerTimeout", "payloadTimeout"} => TicksSince <= 1 + lag

Flow(o) ==
    /\ InFlight(Stream, o, Len(sending))
    /\ PacketInWork
    /\ InTime(o)

\* Taking the next byte of a queue moves it, and loses none.
LEMMA MoveByte ==
  ASSUME NEW S, NEW a \in Seq(S), NEW b \in Seq(S), b # <<>>
  PROVE  Append(a, Head(b)) \o Tail(b) = a \o b
  <1>. DEFINE l == Append(a, Head(b)) \o Tail(b)
              r == a \o b
  <1>1. /\ Head(b) \in S /\ Tail(b) \in Seq(S) /\ Len(Tail(b)) = Len(b) - 1
        /\ \A i \in 1 .. Len(b) - 1 : Tail(b)[i] = b[i + 1]
        /\ Len(a) \in Nat /\ Len(b) \in Nat \ {0} /\ Head(b) = b[1]
    BY HeadTailProperties, EmptySeq, LenProperties
  <1>2. /\ Append(a, Head(b)) \in Seq(S) /\ Len(Append(a, Head(b))) = Len(a) + 1
        /\ \A i \in 1 .. Len(a) : Append(a, Head(b))[i] = a[i]
        /\ Append(a, Head(b))[Len(a) + 1] = Head(b)
    BY <1>1, AppendProperties
  <1>3. /\ l \in Seq(S) /\ Len(l) = (Len(a) + 1) + (Len(b) - 1)
        /\ \A i \in 1 .. (Len(a) + 1) + (Len(b) - 1) :
              l[i] = IF i <= Len(a) + 1 THEN Append(a, Head(b))[i]
                                        ELSE Tail(b)[i - (Len(a) + 1)]
    BY <1>1, <1>2, ConcatProperties
  <1>4. /\ r \in Seq(S) /\ Len(r) = Len(a) + Len(b)
        /\ \A i \in 1 .. Len(a) + Len(b) :
              r[i] = IF i <= Len(a) THEN a[i] ELSE b[i - Len(a)]
    BY ConcatProperties
  <1>. HIDE DEF l, r
  <1>5. Len(l) = Len(r)
    BY <1>1, <1>3, <1>4
  <1>6. ASSUME NEW i \in 1 .. Len(l) PROVE l[i] = r[i]
    <2>0. i \in 1 .. (Len(a) + 1) + (Len(b) - 1) /\ i \in 1 .. Len(a) + Len(b)
      BY <1>1, <1>3
    <2>1. CASE i <= Len(a)
      <3>1. i \in 1 .. Len(a) /\ i <= Len(a) + 1
        BY <1>1, <2>0, <2>1
      <3>. QED  BY <1>2, <1>3, <1>4, <2>0, <2>1, <3>1
    <2>2. CASE i = Len(a) + 1
      <3>1. ~(i <= Len(a)) /\ i <= Len(a) + 1 /\ i - Len(a) = 1
        BY <1>1, <2>2
      <3>. QED  BY <1>1, <1>2, <1>3, <1>4, <2>0, <2>2, <3>1
    <2>3. CASE i > Len(a) + 1
      <3>1. /\ ~(i <= Len(a)) /\ ~(i <= Len(a) + 1)
            /\ i - (Len(a) + 1) \in 1 .. Len(b) - 1
            /\ (i - (Len(a) + 1)) + 1 = i - Len(a)
        BY <1>1, <2>0, <2>3
      <3>2. l[i] = Tail(b)[i - (Len(a) + 1)] /\ r[i] = b[i - Len(a)]
        BY <1>3, <1>4, <2>0, <3>1
      <3>3. Tail(b)[i - (Len(a) + 1)] = b[(i - (Len(a) + 1)) + 1]
        BY <1>1, <3>1
      <3>. QED  BY <3>1, <3>2, <3>3
    <2>. QED  BY <1>1, <2>0, <2>1, <2>2, <2>3
  <1>7. l = r
    BY <1>3, <1>4, <1>5, <1>6, SeqEqual
  <1>. QED  BY <1>7 DEF l, r

\* Three parts of a stream: its bytes, and what moving one of them keeps.
LEMMA ThreeParts ==
  ASSUME NEW S, NEW a \in Seq(S), NEW b \in Seq(S), NEW c \in Seq(S)
  PROVE  /\ (a \o b) \o c \in Seq(S)
         /\ Len((a \o b) \o c) = Len(a) + Len(b) + Len(c)
         /\ \A j \in 1 .. Len(a) : ((a \o b) \o c)[j] = a[j]
         /\ b # <<>> =>
              /\ ((a \o b) \o c)[Len(a) + 1] = Head(b)
              /\ (Append(a, Head(b)) \o Tail(b)) \o c = (a \o b) \o c
  <1>1. /\ a \o b \in Seq(S) /\ Len(a \o b) = Len(a) + Len(b)
        /\ \A i \in 1 .. Len(a) + Len(b) :
              (a \o b)[i] = IF i <= Len(a) THEN a[i] ELSE b[i - Len(a)]
        /\ Len(a) \in Nat /\ Len(b) \in Nat /\ Len(c) \in Nat
    BY ConcatProperties, LenProperties
  <1>. DEFINE d == a \o b
  <1>. HIDE DEF d
  <1>2. /\ d \o c \in Seq(S) /\ Len(d \o c) = Len(d) + Len(c)
        /\ \A i \in 1 .. Len(d) + Len(c) :
              (d \o c)[i] = IF i <= Len(d) THEN d[i] ELSE c[i - Len(d)]
    BY <1>1, ConcatProperties DEF d
  <1>3. ASSUME NEW j \in 1 .. Len(a) PROVE (d \o c)[j] = a[j]
    <2>1. j \in 1 .. Len(d) + Len(c) /\ j <= Len(d) /\ j \in 1 .. Len(a) + Len(b)
          /\ j <= Len(a)
      BY <1>1 DEF d
    <2>. QED  BY <1>1, <1>2, <2>1 DEF d
  <1>4. ASSUME b # <<>> PROVE (d \o c)[Len(a) + 1] = Head(b)
    <2>1. Len(b) # 0 /\ Head(b) = b[1]
      BY <1>4, EmptySeq
    <2>2. /\ Len(a) + 1 \in 1 .. Len(d) + Len(c) /\ Len(a) + 1 <= Len(d)
          /\ Len(a) + 1 \in 1 .. Len(a) + Len(b) /\ ~(Len(a) + 1 <= Len(a))
          /\ (Len(a) + 1) - Len(a) = 1
      BY <1>1, <2>1 DEF d
    <2>3. (d \o c)[Len(a) + 1] = d[Len(a) + 1]
      BY <1>2, <2>2
    <2>4. d[Len(a) + 1] = b[1]
      BY <1>1, <2>2 DEF d
    <2>. QED  BY <2>1, <2>3, <2>4
  <1>5. b # <<>> => Append(a, Head(b)) \o Tail(b) = d
    BY MoveByte DEF d
  <1>6. Len(d \o c) = Len(a) + Len(b) + Len(c)
    BY <1>1, <1>2 DEF d
  <1>. QED  BY <1>2, <1>3, <1>4, <1>5, <1>6 DEF d

\* The interrupt moves a byte from the line to the queue.
LEMMA ArrivingByte ==
  ASSUME NEW a \in Seq(Byte), NEW b \in Seq(Byte), NEW c \in Seq(Byte), c # <<>>
  PROVE  (a \o Append(b, Head(c))) \o Tail(c) = (a \o b) \o c
  <1>. DEFINE d == a \o b
  <1>1. d \in Seq(Byte) /\ Head(c) \in Byte
    BY ConcatProperties, HeadTailProperties
  <1>. HIDE DEF d
  <1>2. Append(b, Head(c)) = b \o <<Head(c)>> /\ <<Head(c)>> \in Seq(Byte)
    BY <1>1, AppendIsConcat
  <1>3. a \o (b \o <<Head(c)>>) = d \o <<Head(c)>>
    BY <1>2, ConcatAssociative DEF d
  <1>4. Append(d, Head(c)) = d \o <<Head(c)>>
    BY <1>1, AppendIsConcat
  <1>5. a \o Append(b, Head(c)) = Append(d, Head(c))
    BY <1>2, <1>3, <1>4
  <1>6. Append(d, Head(c)) \o Tail(c) = d \o c
    BY <1>1, MoveByte
  <1>. QED  BY <1>5, <1>6 DEF d

LEMMA TickDifference ==
  ASSUME NEW M \in Nat \ {0}, NEW x \in 0 .. M - 1, NEW y \in 0 .. M - 1
  PROVE  (x - y) % M = IF x >= y THEN x - y ELSE x - y + M
  <1>1. CASE x >= y
    BY <1>1
  <1>2. CASE x < y
    BY <1>2
  <1>. QED  BY <1>1, <1>2

\* A tick ages a timer by at most one, however the count wraps.
LEMMA TickCount ==
  ASSUME NEW M \in Nat \ {0}, NEW x \in 0 .. M - 1, NEW y \in 0 .. M - 1
  PROVE  /\ (x - y) % M \in Nat
         /\ (((x + 1) % M) - y) % M <= ((x - y) % M) + 1
         /\ (x - x) % M = 0
  <1>1. (x + 1) % M = IF x = M - 1 THEN 0 ELSE x + 1
    <2>1. CASE x = M - 1
      BY <2>1
    <2>2. CASE x # M - 1
      BY <2>2
    <2>. QED  BY <2>1, <2>2
  <1>2. (x + 1) % M \in 0 .. M - 1
    BY <1>1
  <1>3. /\ (x - y) % M = IF x >= y THEN x - y ELSE x - y + M
        /\ (x - x) % M = IF x >= x THEN x - x ELSE x - x + M
    BY TickDifference
  <1>4. PICK z \in 0 .. M - 1 : z = (x + 1) % M
    BY <1>2
  <1>5. (z - y) % M = IF z >= y THEN z - y ELSE z - y + M
    BY TickDifference
  <1>6. PICK u \in Int : u = (x - y) % M
    OBVIOUS
  <1>7. PICK v \in Int : v = (z - y) % M
    OBVIOUS
  <1>8. u \in Nat /\ v <= u + 1 /\ (x - x) % M = 0
    BY <1>1, <1>3, <1>4, <1>5, <1>6, <1>7
  <1>. QED  BY <1>4, <1>6, <1>7, <1>8, Zenon

LEMMA TickAges ==
  ASSUME RxIInv, SysTick
  PROVE  TicksSince \in Nat /\ TicksSince' \in Nat /\ TicksSince' <= TicksSince + 1
  <1>1. /\ TimerTicks \in Ticks /\ timeoutTimer \in Ticks /\ TimerTicks' \in Ticks
    BY LineStep, TypeParts, TypePartsNext DEF RxIInv, LineTypes, RxTypes
  <1>2. timeoutTimer' = timeoutTimer /\ TimerTicks' = (TimerTicks + 1) % TICK_MODULUS
    BY DEF SysTick, dataVars
  <1>3. TICK_MODULUS \in Nat \ {0}
    BY Numbers
  <1>. QED  BY <1>1, <1>2, <1>3, TickCount DEF TicksSince, Ticks

LEMMA TimerSet ==
  ASSUME RxIInv, timeoutTimer' = TimerTicks, TimerTicks' = TimerTicks
  PROVE  TicksSince' = 0
  <1>1. TimerTicks \in 0 .. TICK_MODULUS - 1
    BY TypeParts DEF RxIInv, LineTypes, Ticks
  <1>2. (TimerTicks - TimerTicks) % TICK_MODULUS = 0
    BY <1>1, Numbers, TickCount
  <1>. QED  BY <1>2 DEF TicksSince

LEMMA FlowTypes ==
  ASSUME RxIInv
  PROVE  /\ fifo \in Seq(Byte) /\ sending \in Seq(Byte) /\ rxBuffer \in Seq(Byte)
         /\ Part \in Seq(Byte) /\ Stream \in Seq(Byte)
         /\ Len(rxBuffer) \in Nat /\ Len(fifo) \in Nat /\ Len(sending) \in Nat
         /\ Len(Stream) = Len(Part) + Len(fifo) + Len(sending)
         /\ TicksSince \in Nat /\ lag \in Nat /\ pc \in Places
         /\ machState \in States /\ failed \in BOOLEAN
  <1>1. LineTypes /\ RxTypes
    BY TypeParts DEF RxIInv
  <1>2. /\ fifo \in Seq(Byte) /\ sending \in Seq(Byte) /\ rxBuffer \in Seq(Byte)
        /\ pc \in Places /\ machState \in States /\ failed \in BOOLEAN
        /\ TimerTicks \in Ticks /\ timeoutTimer \in Ticks /\ lag \in 0 .. MAX_LAG
    BY <1>1, Zenon DEF LineTypes, RxTypes
  <1>3. Part \in Seq(Byte)
    BY <1>2 DEF Part
  <1>4. TicksSince \in Nat /\ lag \in Nat
    BY <1>2, Numbers, TickCount DEF TicksSince, Ticks
  <1>5. /\ Stream \in Seq(Byte)
        /\ Len(Stream) = Len(Part) + Len(fifo) + Len(sending)
    BY <1>2, <1>3, ThreeParts DEF Stream
  <1>. QED  BY <1>2, <1>3, <1>4, <1>5, LenProperties

\* The packet the machine is reading: the first in flight.
LEMMA CurrentPacket ==
  ASSUME RxIInv, NEW o \in Seq(Nat), Flow(o), Busy
  PROVE  /\ o # <<>>
         /\ \E f \in Frames :
              /\ Head(o) = CommandOf(f)
              /\ Len(rxBuffer) < Len(f)
              /\ \A j \in 1 .. Len(rxBuffer) : rxBuffer[j] = f[j]
              /\ fifo # <<>> => Head(fifo) = f[Len(rxBuffer) + 1]
              /\ fifo = <<>> => sending # <<>> /\ Len(o) = 1
              /\ \A r \in Seq(Byte) :
                    /\ Len(r) = Len(Stream) - Len(f)
                    /\ \A j \in 1 .. Len(r) : r[j] = Stream[Len(f) + j]
                    => InFlight(r, Tail(o), Len(sending))
  <1>. DEFINE n == Len(rxBuffer)
  <1>1. /\ fifo \in Seq(Byte) /\ sending \in Seq(Byte) /\ rxBuffer \in Seq(Byte)
        /\ Stream \in Seq(Byte) /\ n \in Nat /\ Len(fifo) \in Nat
        /\ Len(sending) \in Nat
        /\ Len(Stream) = n + Len(fifo) + Len(sending)
        /\ Stream = (rxBuffer \o fifo) \o sending
    BY FlowTypes DEF Part, Stream
  <1>2. rxBuffer # <<>> /\ n # 0
    BY <1>1, EmptySeq DEF Flow, PacketInWork
  <1>3. Stream # <<>>
    <2>1. Len(Stream) # 0
      BY <1>1, <1>2
    <2>. QED  BY <2>1
  <1>4. InFlight(Stream, o, Len(sending))
    BY DEF Flow
  <1>5. o # <<>>
    BY <1>1, <1>3, <1>4, FlowFirst
  <1>6. PICK f \in Frames :
          /\ Head(o) = CommandOf(f)
          /\ Len(f) <= Len(Stream)
          /\ \A j \in 1 .. Len(f) : Stream[j] = f[j]
          /\ Len(o) = 1 => Len(f) = Len(Stream)
          /\ Len(o) # 1 => Len(f) + Len(sending) <= Len(Stream)
          /\ \A r \in Seq(Byte) :
                /\ Len(r) = Len(Stream) - Len(f)
                /\ \A j \in 1 .. Len(r) : r[j] = Stream[Len(f) + j]
                => InFlight(r, Tail(o), Len(sending))
    BY <1>1, <1>3, <1>4, FlowFirst
  <1>7. /\ \A j \in 1 .. n : Stream[j] = rxBuffer[j]
        /\ fifo # <<>> => Stream[n + 1] = Head(fifo)
    BY <1>1, ThreeParts
  <1>8. Len(f) \in Nat /\ Len(f) > 7 /\ f[3] * 256 + f[4] = Len(f)
    BY FrameFacts
  <1>9. n < Len(f)
    <2>1. CASE n >= 4
      <3>1. 3 \in 1 .. n /\ 4 \in 1 .. n /\ 3 \in 1 .. Len(f) /\ 4 \in 1 .. Len(f)
        BY <1>1, <1>8, <2>1
      <3>2. rxBuffer[3] = f[3] /\ rxBuffer[4] = f[4]
        BY <1>6, <1>7, <3>1
      <3>3. nbrBytes = rxBuffer[3] * 256 + rxBuffer[4] /\ n < nbrBytes
        BY <2>1 DEF Flow, PacketInWork
      <3>4. nbrBytes = Len(f)
        BY <1>8, <3>2, <3>3, Zenon
      <3>. QED  BY <3>3, <3>4
    <2>2. CASE n < 4
      BY <1>1, <1>8, <2>2
    <2>. QED  BY <1>1, <2>1, <2>2
  <1>10. \A j \in 1 .. n : rxBuffer[j] = f[j]
    <2>1. \A j \in 1 .. n : j \in 1 .. Len(f)
      BY <1>1, <1>8, <1>9
    <2>. QED  BY <1>6, <1>7, <2>1
  <1>11. fifo # <<>> => Head(fifo) = f[n + 1]
    <2>1. n + 1 \in 1 .. Len(f)
      BY <1>1, <1>8, <1>9
    <2>. QED  BY <1>6, <1>7, <2>1
  <1>12. ASSUME fifo = <<>> PROVE sending # <<>> /\ Len(o) = 1
    <2>1. Len(fifo) = 0
      BY <1>12
    <2>2. Len(o) = 1
      BY <1>1, <1>6, <1>8, <1>9, <2>1
    <2>3. Len(sending) # 0
      BY <1>1, <1>6, <1>8, <1>9, <2>1
    <2>4. sending # <<>>
      BY <2>3
    <2>. QED  BY <2>2, <2>4
  <1>. QED  BY <1>5, <1>6, <1>9, <1>10, <1>11, <1>12

\* A machine that is ready, with nothing on the line, owes nothing.
LEMMA ReadyFlow ==
  ASSUME Ready, sending = <<>>
  PROVE  /\ Stream = <<>>
         /\ Flow(<<>>)
  <1>1. ~Busy /\ fifo = <<>> /\ Part = <<>> /\ pc = "loop"
    BY DEF Ready, Busy, Part
  <1>2. Stream = <<>> /\ Len(sending) = 0
    BY <1>1 DEF Stream
  <1>3. InFlight(Stream, <<>>, Len(sending))
    BY <1>2, FlowEmpty
  <1>4. PacketInWork
    BY <1>1 DEF PacketInWork
  <1>5. InTime(<<>>)
    BY <1>1 DEF InTime
  <1>. QED  BY <1>2, <1>3, <1>4, <1>5 DEF Flow

\* A packet begins behind those in flight.
LEMMA FlowStartFrame ==
  ASSUME RxIInv, NEW o \in Seq(Nat), Flow(o), NEW f \in Frames, StartFrame(f),
         CommandOf(f) \in Nat
  PROVE  Flow(Append(o, CommandOf(f)))'
  <1>1. /\ sending = <<>> /\ sending' = f /\ frameAge' = 0
        /\ UNCHANGED <<TimerTicks, lag, fifo>>
        /\ UNCHANGED <<pc, failed, machState, timeoutTimer, subState, rxBuffer,
                       nbrBytes, command>>
    BY DEF StartFrame, localVars, dataVars
  <1>2. /\ Part \in Seq(Byte) /\ fifo \in Seq(Byte) /\ Stream \in Seq(Byte)
        /\ TicksSince \in Nat
    BY FlowTypes
  <1>3. Busy' = Busy /\ Part' = Part /\ TicksSince' = TicksSince
    BY <1>1 DEF Busy, Part, TicksSince
  <1>4. Stream = Part \o fifo /\ Stream' = Stream \o f
    <2>1. Part \o fifo \in Seq(Byte)
      BY <1>2, ConcatProperties
    <2>2. Stream = (Part \o fifo) \o <<>>
      BY <1>1 DEF Stream
    <2>3. Stream = Part \o fifo
      BY <2>1, <2>2, ConcatEmptySeq
    <2>. QED  BY <1>1, <1>3, <2>3 DEF Stream
  <1>5. InFlight(Stream, o, 0)
    BY <1>1 DEF Flow
  <1>6. InFlight(Stream', Append(o, CommandOf(f)), Len(sending'))
    BY <1>1, <1>2, <1>4, <1>5, FlowAppend
  <1>7. PacketInWork'
    BY <1>1, <1>3 DEF Flow, PacketInWork
  <1>8. ~(Busy /\ Len(Append(o, CommandOf(f))) = 1)
    <2>1. Busy => o # <<>>
      BY CurrentPacket
    <2>2. Len(Append(o, CommandOf(f))) = Len(o) + 1 /\ Len(o) \in Nat
          /\ (o # <<>> => Len(o) # 0)
      BY AppendProperties, EmptySeq, LenProperties
    <2>. QED  BY <2>1, <2>2
  <1>9. InTime(Append(o, CommandOf(f)))'
    BY <1>1, <1>3, <1>8 DEF Flow, InTime
  <1>. QED  BY <1>6, <1>7, <1>9 DEF Flow

\* A byte that arrives stays in the stream.
LEMMA FlowSciQue ==
  ASSUME RxIInv, NEW o \in Seq(Nat), Flow(o), SciQue
  PROVE  Flow(o)'
  <1>1. /\ sending # <<>> /\ sending' = Tail(sending)
        /\ fifo' = Append(fifo, Head(sending))
        /\ UNCHANGED <<TimerTicks, lag, frameAge>>
        /\ UNCHANGED <<pc, failed, machState, timeoutTimer, subState, rxBuffer,
                       nbrBytes, command>>
    BY DEF SciQue, localVars, dataVars
  <1>2. /\ Part \in Seq(Byte) /\ fifo \in Seq(Byte) /\ sending \in Seq(Byte)
        /\ Stream \in Seq(Byte)
    BY FlowTypes
  <1>3. Busy' = Busy /\ Part' = Part /\ TicksSince' = TicksSince
    BY <1>1 DEF Busy, Part, TicksSince
  <1>4. Stream' = Stream
    <2>1. Stream' = (Part \o Append(fifo, Head(sending))) \o Tail(sending)
      BY <1>1, <1>3 DEF Stream
    <2>2. (Part \o Append(fifo, Head(sending))) \o Tail(sending)
             = (Part \o fifo) \o sending
      <3>1. sending # <<>>
        BY <1>1
      <3>. QED  BY <1>2, <3>1, ArrivingByte
    <2>. QED  BY <2>1, <2>2 DEF Stream
  <1>5. InFlight(Stream, o, Len(sending'))
    <2>1. /\ Len(sending) \in Nat /\ Len(sending') \in Nat
          /\ Len(sending') <= Len(sending) /\ Len(Stream) \in Nat
      BY <1>1, <1>2, HeadTailProperties, LenProperties
    <2>2. InFlight(Stream, o, Len(sending))
      BY DEF Flow
    <2>. QED  BY <2>1, <2>2, FlowLess
  <1>6. PacketInWork'
    BY <1>1, <1>3 DEF Flow, PacketInWork
  <1>7. InTime(o)'
    BY <1>1, <1>3 DEF Flow, InTime
  <1>. QED  BY <1>4, <1>5, <1>6, <1>7 DEF Flow

\* A tick passes while a packet is on the line, or a step of the machine runs.
LEMMA FlowSysTick ==
  ASSUME RxIInv, NEW o \in Seq(Nat), Flow(o), SysTick
  PROVE  Flow(o)'
  <1>1. /\ lag < IF pc = "loop" THEN MAX_LAG ELSE 1
        /\ lag' = lag + 1
        /\ sending # <<>> => frameAge # 1
        /\ frameAge' = IF sending # <<>> /\ frameAge = 0 THEN 1 ELSE frameAge
        /\ UNCHANGED <<sending, fifo>>
        /\ UNCHANGED <<pc, failed, machState, timeoutTimer, subState, rxBuffer,
                       nbrBytes, command>>
    BY DEF SysTick, localVars, dataVars
  <1>2. lag \in Nat /\ TicksSince \in Nat
    BY FlowTypes
  <1>3. TicksSince' \in Nat /\ TicksSince' <= TicksSince + 1
    BY TickAges
  <1>4. Busy' = Busy /\ Part' = Part /\ Stream' = Stream
    BY <1>1 DEF Busy, Part, Stream
  <1>5. PacketInWork'
    BY <1>1, <1>4 DEF Flow, PacketInWork
  <1>6. InTime(o)'
    <2>1. InTime(o)
      BY DEF Flow
    <2>2. ASSUME sending # <<>>
          PROVE  frameAge = 0 /\ frameAge' = 1
      BY <1>1, <2>1, <2>2 DEF InTime
    <2>3. ASSUME Busy, sending # <<>>, Len(o) = 1
          PROVE  TicksSince' <= 1
      <3>1. TicksSince <= 0
        BY <2>1, <2>2, <2>3 DEF InTime
      <3>. QED  BY <1>2, <1>3, <3>1
    <2>4. pc # "loop" => lag' <= 1
      BY <1>1, <1>2
    <2>5. TicksSince <= 1 + lag => TicksSince' <= 1 + lag'
      BY <1>1, <1>2, <1>3
    <2>. QED  BY <1>1, <1>4, <2>1, <2>2, <2>3, <2>4, <2>5 DEF InTime
  <1>. QED  BY <1>1, <1>4, <1>5, <1>6 DEF Flow

\* A call that finds no byte, or one that begins a packet.
LEMMA FlowIdle ==
  ASSUME RxIInv, NEW o \in Seq(Nat), Flow(o), Outside, Idle
  PROVE  Flow(o)' /\ delivered' = delivered
  <1>1. /\ pc = "loop" /\ machState = IDLE
        /\ fifo' = IF fifo # <<>> THEN Tail(fifo) ELSE fifo
        /\ UNCHANGED <<pc, failed, nbrBytes, command, delivered>>
        /\ lag' = 0 /\ UNCHANGED <<TimerTicks, sending, frameAge>>
    BY DEF Idle, Outside, localVars, lineVars
  <1>2. /\ fifo \in Seq(Byte) /\ sending \in Seq(Byte) /\ Stream \in Seq(Byte)
        /\ <<>> \in Seq(Byte)
    BY FlowTypes
  <1>3. ~Busy /\ Part = <<>> /\ Stream = (<<>> \o fifo) \o sending
    BY <1>1 DEF Busy, Part, Stream
  <1>4. CASE fifo = <<>>
    <2>1. UNCHANGED <<rxBuffer, subState, machState, timeoutTimer, fifo>>
      BY <1>1, <1>4 DEF Idle
    <2>2. Busy' = Busy /\ Part' = Part /\ Stream' = Stream
      BY <1>1, <1>3, <2>1 DEF Busy, Part, Stream
    <2>. QED
      BY <1>1, <1>3, <2>1, <2>2 DEF Flow, PacketInWork, InTime
  <1>5. CASE fifo # <<>>
    <2>1. /\ Len(Stream) \in Nat /\ Stream # <<>> /\ Stream[1] = Head(fifo)
      <3>1. /\ Len(Stream) = 0 + Len(fifo) + Len(sending) /\ Len(fifo) \in Nat \ {0}
            /\ Len(sending) \in Nat
        BY <1>2, <1>3, <1>5, ThreeParts, EmptySeq, LenProperties
      <3>2. Stream[0 + 1] = Head(fifo)
        BY <1>2, <1>3, <1>5, ThreeParts
      <3>. QED  BY <3>1, <3>2
    <2>2. Head(fifo) = DLE
      <3>1. PICK f \in Frames : Len(f) <= Len(Stream)
                                /\ \A j \in 1 .. Len(f) : Stream[j] = f[j]
        BY <1>2, <2>1, FlowFirst, FlowTypes DEF Flow
      <3>2. f[1] = DLE /\ 1 \in 1 .. Len(f)
        BY FrameFacts
      <3>. QED  BY <2>1, <3>1, <3>2
    <2>3. /\ rxBuffer' = <<DLE>> /\ machState' = HEADER
          /\ timeoutTimer' = TimerTicks /\ fifo' = Tail(fifo)
      BY <1>1, <1>5, <2>2 DEF Idle
    <2>4. Busy' /\ Part' = <<DLE>>
      BY <2>3 DEF Busy, Part, HEADER, IDLE
    <2>5. Stream' = Stream
      <3>1. Append(<<>>, Head(fifo)) = <<DLE>>
        BY <2>2
      <3>2. (Append(<<>>, Head(fifo)) \o Tail(fifo)) \o sending
               = (<<>> \o fifo) \o sending
        BY <1>2, <1>5, ThreeParts
      <3>3. Stream' = (<<DLE>> \o Tail(fifo)) \o sending
        BY <1>1, <2>3, <2>4 DEF Stream
      <3>. QED  BY <1>3, <3>1, <3>2, <3>3
    <2>6. InFlight(Stream, o, Len(sending))
      BY DEF Flow
    <2>7. PacketInWork'
      BY <1>1, <2>3 DEF PacketInWork
    <2>8. TicksSince' = 0
      BY <1>1, <2>3, TimerSet
    <2>9. InTime(o)'
      BY <1>1, <2>8 DEF Flow, InTime
    <2>. QED  BY <1>1, <2>5, <2>6, <2>7, <2>9 DEF Flow
  <1>. QED  BY <1>4, <1>5

\* The steps that take no byte.  No timeout of theirs expires: the machine
\* waits for a packet that is on the line.
LEMMA FlowWait ==
  ASSUME RxIInv, NEW o \in Seq(Nat), Flow(o), Outside,
         Enter \/ HeaderEmpty \/ HeaderTimeout \/ PayloadEmpty \/ PayloadTimeout
  PROVE  Flow(o)' /\ delivered' = delivered
  <1>1. /\ lag' = 0 /\ UNCHANGED <<TimerTicks, sending, frameAge>>
        /\ UNCHANGED <<fifo, subState, nbrBytes, command, delivered>>
    BY DEF Outside, lineVars, Enter, HeaderEmpty, HeaderTimeout, PayloadEmpty,
           PayloadTimeout, dataVars
  <1>2. /\ TicksSince \in Nat /\ lag \in Nat /\ machState \in States
        /\ pc \in Places /\ TIMEOUT_100MSEC \in Nat /\ TIMEOUT_500MSEC \in Nat
        /\ TIMEOUT_100MSEC >= 2 /\ TIMEOUT_500MSEC >= 2
    BY FlowTypes, Numbers, PeerAssumption
  <1>3. InFlight(Stream, o, Len(sending)) /\ PacketInWork /\ InTime(o)
    BY DEF Flow
  <1>4. Busy
    BY DEF Busy, Enter, HeaderEmpty, HeaderTimeout, PayloadEmpty,
           PayloadTimeout, HEADER, PAYLOAD, IDLE
  <1>5. pc \in {"headerTimeout", "payloadTimeout"} => TicksSince <= 2
    BY <1>2, <1>3 DEF InTime
  <1>6. fifo = <<>> => TicksSince <= 1
    <2>1. fifo = <<>> => sending # <<>> /\ Len(o) = 1
      BY <1>4, CurrentPacket
    <2>2. fifo = <<>> => TicksSince <= frameAge /\ frameAge \in {0, 1}
      BY <1>3, <1>4, <2>1 DEF InTime
    <2>. QED  BY <1>2, <2>2
  <1>7. UNCHANGED <<rxBuffer, machState, timeoutTimer>>
    <2>1. CASE PayloadTimeout
      <3>1. ~failed /\ pc = "payloadTimeout"
        BY <1>3, <1>4, <2>1 DEF PacketInWork, PayloadTimeout
      <3>2. ~SerialCheckTimeout(TIMEOUT_500MSEC)
        BY <1>2, <1>5, <3>1 DEF SerialCheckTimeout, TicksSince
      <3>. QED  BY <2>1, <3>1, <3>2 DEF PayloadTimeout
    <2>2. CASE Enter \/ HeaderEmpty \/ HeaderTimeout \/ PayloadEmpty
      BY <2>2 DEF Enter, HeaderEmpty, HeaderTimeout, PayloadEmpty, dataVars
    <2>. QED  BY <2>1, <2>2
  <1>8. Busy'
    <2>1. CASE PayloadTimeout
      <3>1. ~failed /\ pc = "payloadTimeout"
        BY <1>3, <1>4, <2>1 DEF PacketInWork, PayloadTimeout
      <3>2. machState = PAYLOAD
        BY <3>1 DEF RxIInv, BufferMatchesState
      <3>. QED  BY <1>7, <3>2 DEF Busy, PAYLOAD, IDLE
    <2>2. CASE Enter \/ HeaderEmpty \/ HeaderTimeout \/ PayloadEmpty
      BY <2>2 DEF Enter, HeaderEmpty, HeaderTimeout, PayloadEmpty, Busy
    <2>. QED  BY <2>1, <2>2
  <1>9. pc' # "loop" => ~failed'
    <2>1. CASE Enter
      BY <2>1 DEF Enter
    <2>2. CASE HeaderEmpty \/ PayloadEmpty
      BY <1>3, <1>4, <2>2 DEF HeaderEmpty, PayloadEmpty, PacketInWork
    <2>3. CASE HeaderTimeout
      <3>1. ~failed /\ pc = "headerTimeout"
            /\ failed' = (failed \/ SerialCheckTimeout(TIMEOUT_100MSEC))
        BY <1>3, <1>4, <2>3 DEF PacketInWork, HeaderTimeout
      <3>2. ~SerialCheckTimeout(TIMEOUT_100MSEC)
        BY <1>2, <1>5, <3>1 DEF SerialCheckTimeout, TicksSince
      <3>. QED  BY <3>1, <3>2, Zenon
    <2>4. CASE PayloadTimeout
      BY <2>4 DEF PayloadTimeout
    <2>. QED  BY <2>1, <2>2, <2>3, <2>4
  <1>10. Part' = Part /\ Stream' = Stream /\ TicksSince' = TicksSince
    BY <1>1, <1>4, <1>7, <1>8 DEF Part, Stream, TicksSince
  <1>11. PacketInWork'
    BY <1>1, <1>3, <1>4, <1>7, <1>8, <1>9 DEF PacketInWork
  <1>12. pc' \in {"headerTimeout", "payloadTimeout"} => fifo = <<>>
    BY DEF Enter, HeaderEmpty, HeaderTimeout, PayloadEmpty, PayloadTimeout
  <1>13. InTime(o)'
    BY <1>1, <1>3, <1>4, <1>6, <1>10, <1>12 DEF InTime
  <1>. QED  BY <1>1, <1>3, <1>10, <1>11, <1>13 DEF Flow

\* The next byte the machine takes is the next one of its packet.
LEMMA NextByte ==
  ASSUME RxIInv, NEW o \in Seq(Nat), Flow(o), Busy, fifo # <<>>
  PROVE  LET packet == Append(rxBuffer, Head(fifo))
         IN  /\ Head(fifo) \in Byte /\ Tail(fifo) \in Seq(Byte)
             /\ packet \in Seq(Byte) /\ Len(packet) = Len(rxBuffer) + 1
             /\ packet # <<>>
             /\ \A j \in 1 .. Len(rxBuffer) : packet[j] = rxBuffer[j]
             /\ packet[Len(rxBuffer) + 1] = Head(fifo)
             /\ (packet \o Tail(fifo)) \o sending = Stream
  <1>. DEFINE packet == Append(rxBuffer, Head(fifo))
  <1>1. fifo \in Seq(Byte) /\ sending \in Seq(Byte) /\ rxBuffer \in Seq(Byte)
    BY FlowTypes
  <1>2. Head(fifo) \in Byte /\ Tail(fifo) \in Seq(Byte)
    BY <1>1, HeadTailProperties
  <1>3. /\ packet \in Seq(Byte) /\ Len(packet) = Len(rxBuffer) + 1 /\ packet # <<>>
        /\ \A j \in 1 .. Len(rxBuffer) : packet[j] = rxBuffer[j]
        /\ packet[Len(rxBuffer) + 1] = Head(fifo)
    BY <1>1, <1>2, AppendProperties
  <1>4. (packet \o Tail(fifo)) \o sending = (rxBuffer \o fifo) \o sending
    BY <1>1, ThreeParts
  <1>5. Stream = (rxBuffer \o fifo) \o sending
    BY DEF Stream, Part
  <1>. QED  BY <1>2, <1>3, <1>4, <1>5

\* A byte of a header: it is what its sub-state takes it for.
LEMMA FlowHeaderByte ==
  ASSUME RxIInv, NEW o \in Seq(Nat), Flow(o), Outside, HeaderByte
  PROVE  Flow(o)' /\ delivered' = delivered
  <1>. DEFINE b == Head(fifo)
              n == Len(rxBuffer)
  <1>1. /\ fifo # <<>> /\ pc = "header" /\ fifo' = Tail(fifo)
        /\ rxBuffer' = Append(rxBuffer, b)
        /\ failed' = (failed \/ (subState = 0 /\ b # STX))
        /\ timeoutTimer' = IF subState = 4 THEN TimerTicks ELSE timeoutTimer
        /\ IF Len(rxBuffer') >= SIZEOF_HEAD
           THEN pc' = "headerTimeout" /\ UNCHANGED subState
           ELSE subState' = subState + 1 /\ UNCHANGED pc
        /\ UNCHANGED <<errorCnt, delivered>>
    BY Zenon DEF HeaderByte
  <1>2. lag' = 0 /\ UNCHANGED <<TimerTicks, sending, frameAge>>
    BY DEF Outside, lineVars
  <1>3. Busy /\ Busy'
    BY <1>1 DEF Busy
  <1>4. ~failed
    BY <1>1, <1>3 DEF Flow, PacketInWork
  <1>5. /\ subState \in 0 .. 4 /\ n = subState + 1 /\ n \in Nat
        /\ nbrBytes \in Word /\ command \in Word
    BY <1>1, FlowTypes, TypeParts DEF RxIInv, RxTypes, BufferMatchesState
  <1>6. PICK f \in Frames :
          /\ n < Len(f)
          /\ \A j \in 1 .. n : rxBuffer[j] = f[j]
          /\ b = f[n + 1]
    BY <1>1, <1>3, CurrentPacket
  <1>7. /\ Len(f) \in Nat /\ Len(f) > 7 /\ f[2] = STX
        /\ f[3] * 256 + f[4] = Len(f)
        /\ \A j \in 1 .. Len(f) : f[j] \in Byte
    BY FrameFacts
  <1>8. /\ b \in Byte /\ Len(rxBuffer') = n + 1 /\ rxBuffer' # <<>>
        /\ \A j \in 1 .. n : rxBuffer'[j] = rxBuffer[j]
        /\ rxBuffer'[n + 1] = b
        /\ (rxBuffer' \o fifo') \o sending = Stream
    BY <1>1, <1>3, NextByte
  <1>. HIDE DEF b, n
  <1>9. Part' = rxBuffer' /\ Stream' = Stream
    BY <1>2, <1>3, <1>8 DEF Part, Stream
  <1>10. \A j \in 1 .. n + 1 : rxBuffer'[j] = f[j]
    <2>1. \A j \in 1 .. n + 1 : j \in 1 .. n \/ j = n + 1
      BY <1>5
    <2>. QED  BY <1>6, <1>8, <2>1
  <1>11. ~failed'
    <2>1. subState = 0 => b = STX
      BY <1>5, <1>6, <1>7
    <2>. QED  BY <1>1, <1>4, <2>1, Zenon
  <1>12. PacketInWork'
    <2>0. PacketInWork
      BY DEF Flow
    <2>1. n + 1 = 3 => nbrBytes' = rxBuffer'[3] * 256
      <3>1. n + 1 = 3 => subState = 1
        BY <1>5
      <3>2. subState = 1 => nbrBytes' = b * 256
        BY <1>5, HeaderFields DEF b
      <3>. QED  BY <1>8, <3>1, <3>2
    <2>2. n + 1 >= 4 => nbrBytes' = rxBuffer'[3] * 256 + rxBuffer'[4]
      <3>1. ASSUME n = 3
            PROVE  nbrBytes' = rxBuffer'[3] * 256 + rxBuffer'[4]
        <4>1. subState = 2 /\ 3 \in 1 .. n
          BY <1>5, <3>1
        <4>2. nbrBytes' = nbrBytes + b
          BY <1>5, <4>1, HeaderFields DEF b
        <4>3. nbrBytes = rxBuffer[3] * 256
          BY <1>3, <2>0, <3>1 DEF PacketInWork, n
        <4>4. rxBuffer'[3] = rxBuffer[3] /\ rxBuffer'[4] = b
          <5>1. n + 1 = 4
            BY <3>1
          <5>. QED  BY <1>8, <4>1, <5>1
        <4>. QED  BY <4>2, <4>3, <4>4
      <3>2. ASSUME n >= 4
            PROVE  nbrBytes' = rxBuffer'[3] * 256 + rxBuffer'[4]
        <4>1. subState \in {3, 4} /\ 3 \in 1 .. n /\ 4 \in 1 .. n
          BY <1>5, <3>2
        <4>2. nbrBytes' = nbrBytes
          BY <1>5, <4>1, HeaderFields
        <4>3. nbrBytes = rxBuffer[3] * 256 + rxBuffer[4]
          BY <1>3, <2>0, <3>2 DEF PacketInWork, n
        <4>. QED  BY <1>8, <4>1, <4>2, <4>3
      <3>. QED  BY <1>5, <3>1, <3>2
    <2>3. n + 1 >= 4 => n + 1 < nbrBytes'
      <3>1. ASSUME n + 1 >= 4 PROVE nbrBytes' = Len(f)
        <4>1. 3 \in 1 .. n + 1 /\ 4 \in 1 .. n + 1
          BY <1>5, <3>1
        <4>2. rxBuffer'[3] = f[3] /\ rxBuffer'[4] = f[4]
          BY <1>10, <4>1
        <4>. QED  BY <1>7, <2>2, <3>1, <4>2
      <3>2. n + 1 <= 6
        BY <1>5
      <3>. QED  BY <1>5, <1>7, <3>1, <3>2
    <2>4. n + 1 = 5 => command' = rxBuffer'[5] * 256
      <3>1. n + 1 = 5 => subState = 3
        BY <1>5
      <3>2. subState = 3 => command' = b * 256
        BY <1>5, HeaderFields DEF b
      <3>. QED  BY <1>8, <3>1, <3>2
    <2>5. n + 1 >= 6 => command' = rxBuffer'[5] * 256 + rxBuffer'[6]
      <3>1. ASSUME n + 1 >= 6
            PROVE  command' = rxBuffer'[5] * 256 + rxBuffer'[6]
        <4>1. subState = 4 /\ n = 5 /\ 5 \in 1 .. n /\ n + 1 = 6
          BY <1>5, <3>1
        <4>2. command' = command + b
          BY <1>5, <4>1, HeaderFields DEF b
        <4>3. command = rxBuffer[5] * 256
          BY <1>3, <2>0, <4>1 DEF PacketInWork, n
        <4>4. rxBuffer'[5] = rxBuffer[5] /\ rxBuffer'[6] = b
          BY <1>8, <4>1
        <4>. QED  BY <4>2, <4>3, <4>4
      <3>. QED  BY <3>1
    <2>. QED  BY <1>8, <1>11, <2>1, <2>2, <2>3, <2>4, <2>5 DEF PacketInWork
  <1>13. InTime(o)'
    <2>0. InTime(o)
      BY DEF Flow
    <2>1. TicksSince \in Nat
      BY FlowTypes
    <2>2. TicksSince' \in {0, TicksSince} /\ (subState = 4 => TicksSince' = 0)
      <3>1. timeoutTimer' = TimerTicks => TicksSince' = 0
        BY <1>2, TimerSet
      <3>2. timeoutTimer' = timeoutTimer => TicksSince' = TicksSince
        BY <1>2 DEF TicksSince
      <3>. QED  BY <1>1, <3>1, <3>2
    <2>3. pc' = "header" \/ (pc' = "headerTimeout" /\ subState = 4)
      <3>1. pc = "header" /\ IF Len(rxBuffer') >= SIZEOF_HEAD
                             THEN pc' = "headerTimeout" ELSE pc' = pc
        BY <1>1
      <3>2. Len(rxBuffer') >= SIZEOF_HEAD => subState = 4
        BY <1>5, <1>8 DEF SIZEOF_HEAD
      <3>. QED  BY <3>1, <3>2
    <2>4. sending # <<>> => 0 <= frameAge
      BY <2>0 DEF InTime
    <2>5. /\ sending' # <<>> => frameAge' \in {0, 1}
          /\ Busy' /\ sending' # <<>> /\ Len(o) = 1 => TicksSince' <= frameAge'
      BY <1>2, <1>3, <2>0, <2>1, <2>2, <2>4 DEF InTime
    <2>. QED  BY <1>2, <2>1, <2>2, <2>3, <2>5 DEF InTime
  <1>14. InFlight(Stream', o, Len(sending'))
    BY <1>2, <1>9 DEF Flow
  <1>. QED  BY <1>1, <1>12, <1>13, <1>14 DEF Flow

\* A byte of a payload: the last one completes the packet, whose command is
\* handed over, and the rest of the stream begins with the packet behind it.
LEMMA FlowPayloadByte ==
  ASSUME RxIInv, NEW o \in Seq(Nat), Flow(o), Outside, PayloadByte
  PROVE  \/ Flow(o)' /\ delivered' = delivered
         \/ /\ Flow(Tail(o))' /\ o # <<>>
            /\ delivered' = Append(delivered, Head(o))
  <1>. DEFINE b == Head(fifo)
              packet == Append(rxBuffer, b)
              n == Len(packet)
              valid == packet[n - 1] * 256 + packet[n]
                          = Checksum(SubSeq(packet, 1, n - 2))
  <1>1. /\ fifo # <<>> /\ pc = "payload" /\ fifo' = Tail(fifo)
        /\ UNCHANGED <<failed, subState, nbrBytes, command>>
        /\ lag' = 0 /\ UNCHANGED <<TimerTicks, sending, frameAge>>
    BY DEF PayloadByte, Outside, lineVars
  <1>2. Busy
    BY <1>1 DEF Busy
  <1>3. ~failed
    BY <1>1, <1>2 DEF Flow, PacketInWork
  <1>4. /\ machState = PAYLOAD /\ Len(rxBuffer) >= 6 /\ Len(rxBuffer) \in Nat
    BY <1>1, <1>3, FlowTypes DEF RxIInv, BufferMatchesState, SIZEOF_HEAD
  <1>5. PICK f \in Frames :
          /\ Head(o) = CommandOf(f)
          /\ Len(rxBuffer) < Len(f)
          /\ \A j \in 1 .. Len(rxBuffer) : rxBuffer[j] = f[j]
          /\ b = f[Len(rxBuffer) + 1]
          /\ \A r \in Seq(Byte) :
                /\ Len(r) = Len(Stream) - Len(f)
                /\ \A j \in 1 .. Len(r) : r[j] = Stream[Len(f) + j]
                => InFlight(r, Tail(o), Len(sending))
    BY <1>1, <1>2, CurrentPacket
  <1>6. /\ Len(f) \in Nat /\ f \in Seq(Byte) /\ f[3] * 256 + f[4] = Len(f)
        /\ f[Len(f) - 1] * 256 + f[Len(f)] = Checksum(SubSeq(f, 1, Len(f) - 2))
    BY FrameFacts
  <1>7. /\ packet \in Seq(Byte) /\ n = Len(rxBuffer) + 1 /\ packet # <<>>
        /\ \A j \in 1 .. Len(rxBuffer) : packet[j] = rxBuffer[j]
        /\ packet[Len(rxBuffer) + 1] = b
        /\ Tail(fifo) \in Seq(Byte)
        /\ (packet \o Tail(fifo)) \o sending = Stream
    BY <1>1, <1>2, NextByte
  <1>8. /\ nbrBytes = rxBuffer[3] * 256 + rxBuffer[4]
        /\ command = rxBuffer[5] * 256 + rxBuffer[6]
    BY <1>2, <1>4 DEF Flow, PacketInWork
  <1>9. /\ 3 \in 1 .. Len(rxBuffer) /\ 4 \in 1 .. Len(rxBuffer)
        /\ 5 \in 1 .. Len(rxBuffer) /\ 6 \in 1 .. Len(rxBuffer)
    BY <1>4
  <1>10. nbrBytes = Len(f) /\ command = CommandOf(f)
    BY <1>5, <1>6, <1>8, <1>9 DEF CommandOf
  <1>11. o # <<>>
    BY <1>2, CurrentPacket
  <1>12. machState # PASS_THRU
    BY <1>4 DEF PAYLOAD, PASS_THRU
  <1>13. CASE n = nbrBytes
    <2>1. packet = f
      <3>1. Len(packet) = Len(f) /\ Len(packet) = Len(rxBuffer) + 1
        BY <1>7, <1>10, <1>13
      <3>2. \A j \in 1 .. Len(packet) : j \in 1 .. Len(rxBuffer) \/ j = Len(rxBuffer) + 1
        BY <1>4, <3>1
      <3>3. \A j \in 1 .. Len(packet) : packet[j] = f[j]
        BY <1>5, <1>7, <3>2
      <3>. QED  BY <1>6, <1>7, <3>1, <3>3, SeqEqual
    <2>2. valid
      BY <1>6, <2>1
    <2>3. /\ delivered' = IF valid THEN Append(delivered, command) ELSE delivered
          /\ InitSerialData /\ pc' = "loop"
      BY <1>12, <1>13, Zenon DEF PayloadByte
    <2>4. delivered' = Append(delivered, Head(o))
      BY <1>5, <1>10, <2>2, <2>3, Zenon
    <2>5. ~Busy' /\ Part' = <<>>
      BY <2>3 DEF InitSerialData, Busy, Part
    <2>. DEFINE r == Tail(fifo) \o sending
    <2>6. /\ r \in Seq(Byte) /\ Len(r) \in Nat /\ sending \in Seq(Byte)
      BY <1>7, FlowTypes, ConcatProperties, LenProperties
    <2>7. Stream' = r
      <3>1. <<>> \o Tail(fifo) = Tail(fifo)
        BY <1>7, ConcatEmptySeq
      <3>. QED  BY <1>1, <2>5, <3>1 DEF Stream
    <2>8. Stream = f \o r
      <3>1. \A x, y, z \in Seq(Byte) : (x \o y) \o z = x \o (y \o z)
        BY ConcatAssociative
      <3>2. (packet \o Tail(fifo)) \o sending = packet \o r
        BY <1>7, <2>6, <3>1, Zenon
      <3>. QED  BY <1>7, <2>1, <3>2, Zenon
    <2>. HIDE DEF r
    <2>9. /\ Len(r) = Len(Stream) - Len(f)
          /\ \A j \in 1 .. Len(r) : r[j] = Stream[Len(f) + j]
      <3>1. /\ Len(Stream) = Len(f) + Len(r)
            /\ \A j \in 1 .. Len(f) + Len(r) :
                  Stream[j] = IF j <= Len(f) THEN f[j] ELSE r[j - Len(f)]
        BY <1>6, <2>6, <2>8, ConcatProperties
      <3>2. ASSUME NEW j \in 1 .. Len(r) PROVE r[j] = Stream[Len(f) + j]
        <4>1. /\ Len(f) + j \in 1 .. Len(f) + Len(r) /\ ~(Len(f) + j <= Len(f))
              /\ (Len(f) + j) - Len(f) = j
          BY <1>6, <2>6
        <4>. QED  BY <3>1, <4>1
      <3>. QED  BY <1>6, <2>6, <3>1, <3>2
    <2>10. InFlight(Stream', Tail(o), Len(sending'))
      BY <1>1, <1>5, <2>6, <2>7, <2>9
    <2>11. PacketInWork' /\ InTime(Tail(o))'
      BY <1>1, <2>3, <2>5 DEF Flow, PacketInWork, InTime
    <2>. QED  BY <1>11, <2>4, <2>10, <2>11 DEF Flow
  <1>14. CASE n # nbrBytes
    <2>1. /\ rxBuffer' = packet /\ timeoutTimer' = TimerTicks
          /\ UNCHANGED <<delivered, machState, errorCnt, pc>>
      BY <1>14, Zenon DEF PayloadByte
    <2>2. n < nbrBytes
      BY <1>4, <1>5, <1>6, <1>7, <1>10, <1>14
    <2>. HIDE DEF packet, n
    <2>3. Busy' /\ Part' = packet /\ Stream' = Stream
      BY <1>1, <1>7, <2>1 DEF Busy, Part, Stream
    <2>4. /\ rxBuffer'[3] = rxBuffer[3] /\ rxBuffer'[4] = rxBuffer[4]
          /\ rxBuffer'[5] = rxBuffer[5] /\ rxBuffer'[6] = rxBuffer[6]
      BY <1>7, <1>9, <2>1
    <2>5. Len(rxBuffer') = n /\ n > 6
      BY <1>4, <1>7, <2>1 DEF n
    <2>6. PacketInWork'
      BY <1>1, <1>3, <1>7, <1>8, <2>1, <2>2, <2>4, <2>5 DEF PacketInWork
    <2>7. TicksSince' = 0
      BY <1>1, <2>1, TimerSet
    <2>8. InTime(o)'
      BY <1>1, <2>1, <2>7 DEF Flow, InTime
    <2>9. InFlight(Stream', o, Len(sending'))
      BY <1>1, <2>3 DEF Flow
    <2>. QED  BY <2>1, <2>6, <2>8, <2>9 DEF Flow
  <1>. QED  BY <1>13, <1>14

\* Whole packets of the peer never fill the buffer: the one in work is a
\* proper beginning of a packet, and no packet is longer than the buffer.
LEMMA FlowFits ==
  ASSUME RxIInv, NEW o \in Seq(Nat), Flow(o)
  PROVE  ~PayloadOverrun
  <1>1. ASSUME PayloadOverrun PROVE FALSE
    <2>1. Busy /\ Len(rxBuffer) >= BUFFER
      BY <1>1 DEF PayloadOverrun, Busy
    <2>2. PICK f \in Frames : Len(rxBuffer) < Len(f)
      BY <2>1, CurrentPacket
    <2>3. Len(f) <= BUFFER /\ Len(f) \in Nat
      BY PeerAssumption, FrameFacts
    <2>. QED  BY <2>1, <2>2, <2>3, FlowTypes, SerialRxAssumption
  <1>. QED  BY <1>1

\* No other step leaves the buffer.
LEMMA FitsStep ==
  ASSUME pc # "overrun", ~PayloadOverrun, [Next]_vars
  PROVE  pc' # "overrun"
  <1>1. CASE SerialRxMachine
    <2>1. CASE Idle \/ Enter \/ HeaderEmpty \/ PayloadEmpty \/ PayloadTimeout
      BY <2>1 DEF Idle, Enter, HeaderEmpty, PayloadEmpty, PayloadTimeout, localVars
    <2>2. CASE HeaderByte
      BY <2>2 DEF HeaderByte
    <2>3. CASE HeaderTimeout
      BY <2>3 DEF HeaderTimeout
    <2>4. CASE PayloadByte
      BY <2>4 DEF PayloadByte
    <2>5. ~AfterOverrun
      BY DEF AfterOverrun
    <2>. QED  BY <1>1, <2>1, <2>2, <2>3, <2>4, <2>5 DEF SerialRxMachine
  <1>2. CASE UNCHANGED vars
    BY <1>2 DEF vars
  <1>3. CASE Next /\ ~SerialRxMachine
    BY <1>3 DEF Next, SysTick, StartFrame, SciQue, LoseByte, NoiseByte, Gap, localVars
  <1>. QED  BY <1>1, <1>2, <1>3

\* A step of the machine on a stream of whole packets: it hands over nothing,
\* or the command it owes next.
LEMMA FlowMachine ==
  ASSUME RxIInv, NEW o \in Seq(Nat), Flow(o), SerialRxMachine, pc # "overrun"
  PROVE  \/ Flow(o)' /\ delivered' = delivered
         \/ /\ Flow(Tail(o))' /\ o # <<>>
            /\ delivered' = Append(delivered, Head(o))
  <1>1. Outside
    BY DEF SerialRxMachine, Outside
  <1>2. CASE Idle
    BY <1>1, <1>2, FlowIdle
  <1>3. CASE Enter \/ HeaderEmpty \/ HeaderTimeout \/ PayloadEmpty \/ PayloadTimeout
    BY <1>1, <1>3, FlowWait
  <1>4. CASE HeaderByte
    BY <1>1, <1>4, FlowHeaderByte
  <1>5. CASE PayloadByte
    BY <1>1, <1>5, FlowPayloadByte
  <1>6. ~PayloadOverrun /\ ~AfterOverrun
    BY FlowFits DEF AfterOverrun
  <1>. QED  BY <1>2, <1>3, <1>4, <1>5, <1>6 DEF SerialRxMachine

\* Nothing happens.
LEMMA FlowStutter ==
  ASSUME NEW o \in Seq(Nat), Flow(o), UNCHANGED vars
  PROVE  Flow(o)' /\ delivered' = delivered /\ offered' = offered
  <1>1. /\ UNCHANGED <<TimerTicks, lag, sending, frameAge, fifo, pc, failed>>
        /\ UNCHANGED <<machState, timeoutTimer, subState, rxBuffer, nbrBytes>>
        /\ UNCHANGED <<command, delivered, offered>>
    BY DEF vars
  <1>2. Busy' = Busy /\ Part' = Part /\ Stream' = Stream /\ TicksSince' = TicksSince
    BY <1>1 DEF Busy, Part, Stream, TicksSince
  <1>. QED  BY <1>1, <1>2 DEF Flow, PacketInWork, InTime

LEMMA CommandInNat == ASSUME NEW f \in Frames PROVE CommandOf(f) \in Nat
  <1>1. Len(f) \in Nat /\ Len(f) > 7 /\ \A j \in 1 .. Len(f) : f[j] \in Byte
    BY FrameFacts
  <1>2. 5 \in 1 .. Len(f) /\ 6 \in 1 .. Len(f)
    BY <1>1
  <1>3. f[5] \in Byte /\ f[6] \in Byte
    BY <1>1, <1>2
  <1>4. \A x, y \in Byte : x * 256 + y \in Nat
    BY DEF Byte
  <1>. QED  BY <1>3, <1>4, Zenon DEF CommandOf

-----------------------------------------------------------------------------
(* A faulty line: what the port owes between two faults.                   *)

\* Since the machine was last ready without a fault behind it, the bytes in
\* flight are the packets owed; with a fault since then nothing is promised.
McIInv ==
    /\ RxIInv
    /\ clean \in BOOLEAN
    /\ owed \in Seq(Nat)
    /\ clean => Flow(owed)
    /\ ~clean => owed = <<>>
    /\ OverrunOnlyAfterFault

LEMMA McInit == ASSUME MCInit PROVE McIInv
  <1>1. Init /\ clean = TRUE /\ owed = <<>>
    BY DEF MCInit
  <1>2. Ready /\ sending = <<>>
    BY <1>1 DEF Init, Ready
  <1>3. Flow(<<>>)
    BY <1>2, ReadyFlow
  <1>4. OverrunOnlyAfterFault
    BY <1>1 DEF Init, OverrunOnlyAfterFault
  <1>. QED  BY <1>1, <1>3, <1>4, RxInitIInv, EmptySeq DEF McIInv

\* As long as no fault hit, no step leaves the buffer, and none brings a port
\* back that a fault has taken out of it.
LEMMA McFits ==
  ASSUME McIInv, [MCNext]_mcVars
  PROVE  OverrunOnlyAfterFault'
  <1>1. [Next]_vars
    BY DEF MCNext, mcVars, vars
  <1>2. CASE clean
    <2>1. pc # "overrun"
      BY <1>2 DEF McIInv, OverrunOnlyAfterFault
    <2>2. PICK o \in Seq(Nat) : o = owed
      BY DEF McIInv
    <2>3. Flow(o) /\ RxIInv
      BY <1>2, <2>2 DEF McIInv
    <2>. QED  BY <1>1, <2>1, <2>3, FlowFits, FitsStep DEF OverrunOnlyAfterFault
  <1>3. CASE ~clean /\ clean'
    <2>1. Ready /\ offered' # offered
      BY <1>3, Zenon DEF MCNext, mcVars
    <2>2. pc = "loop"
      BY <2>1 DEF Ready
    <2>3. ~PayloadOverrun
      BY <2>2 DEF PayloadOverrun
    <2>. QED  BY <1>1, <2>2, <2>3, FitsStep DEF OverrunOnlyAfterFault
  <1>4. CASE ~clean'
    BY <1>4 DEF OverrunOnlyAfterFault
  <1>5. clean \in BOOLEAN
    BY DEF McIInv
  <1>. QED  BY <1>2, <1>3, <1>4, <1>5

\* What a step does to the history, for the packets owed before it.
LEMMA McOwed ==
  ASSUME McIInv, MCNext, faults' = faults, offered' = offered
  PROVE  /\ clean' = clean
         /\ owed' = IF delivered' # delivered /\ owed # <<>>
                    THEN Tail(owed) ELSE owed
  BY DEF MCNext

LEMMA McLine ==
  ASSUME McIInv, MCNext,
         SysTick \/ SciQue
  PROVE  McIInv' /\ delivered' = delivered
  <1>0. OverrunOnlyAfterFault'
    BY McFits
  <1>1. Next /\ RxIInv'
    BY RxNextIInv DEF MCNext, McIInv
  <1>2. faults' = faults /\ offered' = offered /\ delivered' = delivered
    BY DEF SysTick, SciQue, dataVars
  <1>3. clean' = clean /\ owed' = owed
    BY <1>2, McOwed
  <1>4. PICK o \in Seq(Nat) : o = owed
    BY DEF McIInv
  <1>5. clean => Flow(o)'
    <2>1. clean => Flow(o)
      BY <1>4 DEF McIInv
    <2>. QED  BY <2>1, FlowSysTick, FlowSciQue DEF McIInv
  <1>6. (clean => Flow(owed))'
    BY <1>3, <1>4, <1>5 DEF Flow, InTime
  <1>. QED  BY <1>0, <1>1, <1>2, <1>3, <1>6, Zenon DEF McIInv

\* A step of the machine answers the packet owed first, or none.
LEMMA McMachine ==
  ASSUME McIInv, MCNext, SerialRxMachine
  PROVE  /\ McIInv'
         /\ clean /\ delivered' # delivered
               => owed # <<>> /\ delivered'[Len(delivered')] = Head(owed)
  <1>0. OverrunOnlyAfterFault'
    BY McFits
  <1>1. Next /\ RxIInv'
    BY RxNextIInv DEF MCNext, McIInv
  <1>2. faults' = faults /\ offered' = offered
    BY DEF SerialRxMachine, lineVars
  <1>3. /\ clean' = clean
        /\ owed' = IF delivered' # delivered /\ owed # <<>>
                   THEN Tail(owed) ELSE owed
    BY <1>2, McOwed
  <1>4. PICK o \in Seq(Nat) : o = owed
    BY DEF McIInv
  <1>5. delivered \in Seq(Word)
    BY TypeParts, Zenon DEF McIInv, RxIInv, RxTypes
  <1>6. o # <<>> => Head(o) \in Nat /\ Tail(o) \in Seq(Nat)
    BY HeadTailProperties
  <1>7. CASE ~clean
    <2>1. owed = <<>> /\ owed' = <<>>
      BY <1>3, <1>7 DEF McIInv
    <2>. QED  BY <1>0, <1>1, <1>3, <1>7, <2>1, Zenon DEF McIInv
  <1>8. CASE clean /\ Flow(o)' /\ delivered' = delivered
    <2>1. owed' = o
      BY <1>3, <1>4, <1>8
    <2>2. Flow(owed)'
      BY <1>8, <2>1 DEF Flow, InTime
    <2>. QED  BY <1>0, <1>1, <1>3, <1>4, <1>8, <2>1, <2>2, Zenon DEF McIInv
  <1>9. CASE /\ clean /\ Flow(Tail(o))' /\ o # <<>>
             /\ delivered' = Append(delivered, Head(o))
    <2>1. /\ Len(delivered') = Len(delivered) + 1 /\ Len(delivered) \in Nat
          /\ delivered'[Len(delivered) + 1] = Head(o)
      <3>1. \A c : /\ Len(Append(delivered, c)) = Len(delivered) + 1
                   /\ Append(delivered, c)[Len(delivered) + 1] = c
        BY <1>5
      <3>. QED  BY <1>5, <1>9, <3>1, LenProperties
    <2>2. delivered' # delivered /\ delivered'[Len(delivered')] = Head(o)
      BY <2>1
    <2>3. owed' = Tail(o)
      BY <1>3, <1>4, <1>9, <2>2
    <2>4. Flow(owed)'
      BY <1>9, <2>3 DEF Flow, InTime
    <2>. QED  BY <1>0, <1>1, <1>3, <1>4, <1>6, <1>9, <2>2, <2>3, <2>4, Zenon DEF McIInv
  <1>10. clean => Flow(o)
    BY <1>4 DEF McIInv
  <1>11. RxIInv /\ clean \in BOOLEAN /\ (clean => pc # "overrun")
    BY DEF McIInv, OverrunOnlyAfterFault
  <1>. QED  BY <1>7, <1>8, <1>9, <1>10, <1>11, FlowMachine

\* A packet that begins is owed when nothing went wrong since the machine was
\* ready, or when it is ready now.
LEMMA McStart ==
  ASSUME McIInv, MCNext, NEW f \in Frames, StartFrame(f)
  PROVE  McIInv' /\ delivered' = delivered
  <1>. DEFINE c == CommandOf(f)
  <1>0. OverrunOnlyAfterFault'
    BY McFits
  <1>1. Next /\ RxIInv'
    BY RxNextIInv DEF MCNext, McIInv
  <1>2. /\ faults' = faults /\ delivered' = delivered /\ sending = <<>>
        /\ offered' = Append(offered, c)
    BY DEF StartFrame, dataVars
  <1>3. c \in Nat
    BY CommandInNat
  <1>. HIDE DEF c
  <1>4. offered \in Seq(Nat)
    BY TypeParts, Zenon DEF McIInv, RxIInv, LineTypes
  <1>5. offered' # offered /\ offered'[Len(offered')] = c
    <2>1. /\ Len(offered') = Len(offered) + 1 /\ Len(offered) \in Nat
          /\ offered'[Len(offered) + 1] = c
      BY <1>2, <1>3, <1>4, AppendProperties, LenProperties
    <2>. QED  BY <2>1
  <1>6. /\ clean' = (clean \/ Ready)
        /\ owed' = IF clean' THEN Append(owed, c) ELSE owed
    BY <1>2, <1>5, Zenon DEF MCNext
  <1>7. PICK o \in Seq(Nat) : o = owed
    BY DEF McIInv
  <1>8. CASE clean'
    <2>1. Flow(o)
      <3>1. CASE clean
        BY <1>7, <3>1 DEF McIInv
      <3>2. CASE ~clean
        <4>1. Ready /\ o = <<>>
          BY <1>6, <1>7, <1>8, <3>2 DEF McIInv
        <4>. QED  BY <1>2, <4>1, ReadyFlow
      <3>. QED  BY <3>1, <3>2
    <2>2. Flow(Append(o, c))'
      BY <1>3, <2>1, FlowStartFrame DEF McIInv, c
    <2>3. owed' = Append(o, c) /\ Append(o, c) \in Seq(Nat)
      BY <1>3, <1>6, <1>7, <1>8, AppendProperties
    <2>4. Flow(owed)'
      BY <2>2, <2>3 DEF Flow, InTime
    <2>. QED  BY <1>0, <1>1, <1>2, <1>8, <2>3, <2>4, Zenon DEF McIInv
  <1>9. CASE ~clean'
    <2>1. ~clean /\ owed = <<>> /\ owed' = owed
      BY <1>6, <1>9, Zenon DEF McIInv
    <2>2. clean' \in BOOLEAN
      BY <1>6, Zenon
    <2>. QED  BY <1>0, <1>1, <1>2, <1>9, <2>1, <2>2, EmptySeq, Zenon DEF McIInv
  <1>. QED  BY <1>8, <1>9

\* A fault: from here on nothing is owed.
LEMMA McFault ==
  ASSUME McIInv, MCNext, LoseByte \/ (\E b \in NoiseBytes : NoiseByte(b)) \/ Gap
  PROVE  McIInv' /\ delivered' = delivered
  <1>0. OverrunOnlyAfterFault'
    BY McFits
  <1>1. Next /\ RxIInv'
    BY RxNextIInv DEF MCNext, McIInv
  <1>2. faults' = faults + 1 /\ delivered' = delivered
    BY DEF LoseByte, NoiseByte, Gap, Fault, dataVars
  <1>3. faults \in Nat
    <2>1. LineTypes
      BY TypeParts, Zenon DEF McIInv, RxIInv
    <2>. QED  BY <2>1, Numbers DEF LineTypes
  <1>4. faults' # faults
    BY <1>2, <1>3
  <1>5. clean' = FALSE /\ owed' = <<>>
    BY <1>4, Zenon DEF MCNext
  <1>. QED  BY <1>0, <1>1, <1>2, <1>5, EmptySeq DEF McIInv

LEMMA McNext ==
  ASSUME McIInv, [MCNext]_mcVars
  PROVE  /\ McIInv'
         /\ clean /\ delivered' # delivered
               => owed # <<>> /\ delivered'[Len(delivered')] = Head(owed)
  <1>1. CASE UNCHANGED mcVars
    <2>1. UNCHANGED vars /\ clean' = clean /\ owed' = owed /\ delivered' = delivered
      BY <1>1 DEF mcVars, vars
    <2>2. RxIInv'
      BY <2>1, RxNextIInv DEF McIInv
    <2>3. PICK o \in Seq(Nat) : o = owed
      BY DEF McIInv
    <2>4. clean => Flow(o)'
      BY <2>1, <2>3, FlowStutter DEF McIInv
    <2>5. (clean => Flow(owed))'
      BY <2>1, <2>3, <2>4 DEF Flow, InTime
    <2>6. OverrunOnlyAfterFault'
      BY <1>1, McFits
    <2>. QED  BY <2>1, <2>2, <2>5, <2>6, Zenon DEF McIInv
  <1>2. CASE MCNext
    <2>1. Next
      BY <1>2 DEF MCNext
    <2>. QED  BY <1>2, <2>1, McMachine, McStart, McFault, McLine DEF Next
  <1>. QED  BY <1>1, <1>2

LEMMA AlwaysMcIInv == MCSpec => []McIInv
  <1>. QED  BY McInit, McNext, PTL DEF MCSpec

\* SerialRxMachine stores nothing behind rxBuffer as long as no fault hit since
\* it was last ready, for every set of packets that fit the buffer.
THEOREM OverrunOnlyAfterFaultHolds == MCSpec => []OverrunOnlyAfterFault
  <1>1. McIInv => OverrunOnlyAfterFault
    BY DEF McIInv
  <1>. QED  BY <1>1, AlwaysMcIInv, PTL

\* After a fault SerialRxMachine finds its feet again, unless the fault takes
\* it over the end of rxBuffer: a packet that begins while it is ready, and
\* those behind it until the next fault, are answered before it is ready
\* again, whatever the faults have left in its buffer.
THEOREM ResynchronizesHolds == MCSpec => []ResynchronizesAfterFault
  <1>1. ASSUME McIInv PROVE ResynchronizesAfterFault
    <2>1. ASSUME clean, Ready, sending = <<>> PROVE owed = <<>>
      <3>1. InFlight(<<>>, owed, Len(sending)) /\ Len(sending) \in Nat
        <4>1. sending = <<>> => Len(sending) = 0
          OBVIOUS
        <4>2. Stream = <<>> /\ Len(sending) = 0
          BY <2>1, <4>1, ReadyFlow, Zenon
        <4>3. InFlight(Stream, owed, Len(sending))
          BY <1>1, <2>1, Zenon DEF McIInv, Flow
        <4>4. 0 \in Nat
          OBVIOUS
        <4>. QED  BY <4>2, <4>3, <4>4, Zenon
      <3>2. owed \in Seq(Nat)
        BY <1>1, Zenon DEF McIInv
      <3>. QED  BY <3>1, <3>2, FlowNone, Zenon
    <2>. QED  BY <2>1 DEF ResynchronizesAfterFault
  <1>. QED  BY <1>1, AlwaysMcIInv, PTL

\* Between two faults the commands SerialRxMachine hands over are those of
\* the packets owed, each as it stands at the head of them.
THEOREM AnswersWhatItOwesHolds == MCSpec => AnswersWhatItOwes
  <1>1. ASSUME McIInv, [MCNext]_mcVars
        PROVE  [delivered' # delivered /\ clean
                  => owed # <<>> /\ delivered'[Len(delivered')] = Head(owed)]_mcVars
    BY <1>1, McNext
  <1>. QED  BY <1>1, AlwaysMcIInv, PTL DEF MCSpec, AnswersWhatItOwes

-----------------------------------------------------------------------------
(* A line without faults: the port is the channel of CommandChannel.       *)

\* The packets in flight are those sent and not yet handed over.
ChanIInv ==
    /\ RxIInv
    /\ pc # "overrun"
    /\ \E o \in Seq(Nat) : Flow(o) /\ offered = delivered \o o

LEMMA ChanStart == ASSUME Init PROVE ChanIInv /\ Channel!ChanInit
  <1>1. Ready /\ sending = <<>> /\ offered = <<>> /\ delivered = <<>>
    BY DEF Init, Ready
  <1>2. Flow(<<>>)
    BY <1>1, ReadyFlow
  <1>3. offered = delivered \o <<>> /\ <<>> \in Seq(Nat)
    BY <1>1
  <1>4. pc # "overrun"
    BY DEF Init
  <1>. QED  BY <1>1, <1>2, <1>3, <1>4, RxInitIInv DEF ChanIInv, Channel!ChanInit

LEMMA ChanStep ==
  ASSUME Faults = {}, ChanIInv, [Next]_vars
  PROVE  ChanIInv' /\ [Channel!ChanNext]_(Channel!chanVars)
  <1>1. RxIInv /\ RxIInv' /\ pc # "overrun" /\ pc' # "overrun"
    <2>1. RxIInv /\ RxIInv' /\ pc # "overrun"
      BY RxNextIInv DEF ChanIInv
    <2>2. ~PayloadOverrun
      BY FlowFits DEF ChanIInv
    <2>. QED  BY <2>1, <2>2, FitsStep
  <1>2. PICK o \in Seq(Nat) : Flow(o) /\ offered = delivered \o o
    BY DEF ChanIInv
  <1>3. delivered \in Seq(Nat) /\ offered \in Seq(Nat)
    <2>1. delivered \in Seq(Word) /\ offered \in Seq(Nat)
      BY <1>1, TypeParts, Zenon DEF RxIInv, RxTypes, LineTypes
    <2>2. Word \subseteq Nat
      BY DEF Word, MaxWord
    <2>. QED  BY <2>1, <2>2, SeqMonotonic
  <1>4. CASE Flow(o)' /\ delivered' = delivered /\ offered' = offered
    BY <1>1, <1>2, <1>4 DEF ChanIInv, Channel!chanVars
  <1>5. CASE SerialRxMachine
    <2>1. offered' = offered
      BY <1>5 DEF SerialRxMachine, lineVars
    <2>2. CASE Flow(o)' /\ delivered' = delivered
      BY <1>4, <2>1, <2>2
    <2>3. CASE /\ Flow(Tail(o))' /\ o # <<>>
               /\ delivered' = Append(delivered, Head(o))
      <3>1. Tail(o) \in Seq(Nat) /\ Head(o) = o[1] /\ Len(o) \in Nat \ {0}
        BY <2>3, EmptySeq, LenProperties, HeadTailProperties
      <3>2. offered = delivered' \o Tail(o)
        BY <1>2, <1>3, <2>3, MoveByte
      <3>3. /\ Len(offered) = Len(delivered) + Len(o) /\ Len(delivered) \in Nat
            /\ \A i \in 1 .. Len(delivered) + Len(o) :
                  offered[i] = IF i <= Len(delivered) THEN delivered[i]
                                                     ELSE o[i - Len(delivered)]
        BY <1>2, <1>3, ConcatProperties, LenProperties
      <3>4. /\ Len(delivered) < Len(offered)
            /\ offered[Len(delivered) + 1] = Head(o)
        <4>1. /\ Len(delivered) + 1 \in 1 .. Len(delivered) + Len(o)
              /\ ~(Len(delivered) + 1 <= Len(delivered))
              /\ (Len(delivered) + 1) - Len(delivered) = 1
          BY <3>1, <3>3
        <4>2. offered[Len(delivered) + 1] = o[1]
          BY <3>3, <4>1
        <4>. QED  BY <3>1, <3>3, <4>2
      <3>5. Channel!Deliver
        BY <2>1, <2>3, <3>4 DEF Channel!Deliver
      <3>. QED  BY <1>1, <2>1, <2>3, <3>1, <3>2, <3>5 DEF ChanIInv, Channel!ChanNext
    <2>. QED  BY <1>1, <1>2, <1>5, <2>2, <2>3, FlowMachine
  <1>6. ASSUME NEW f \in Frames, StartFrame(f)
        PROVE  ChanIInv' /\ [Channel!ChanNext]_(Channel!chanVars)
    <2>1. delivered' = delivered /\ offered' = Append(offered, CommandOf(f))
      BY <1>6 DEF StartFrame, dataVars
    <2>2. CommandOf(f) \in Nat
      BY CommandInNat
    <2>3. Flow(Append(o, CommandOf(f)))' /\ Append(o, CommandOf(f)) \in Seq(Nat)
      BY <1>1, <1>2, <1>6, <2>2, FlowStartFrame, AppendProperties
    <2>4. offered' = delivered' \o Append(o, CommandOf(f))
      <3>. DEFINE c == CommandOf(f)
      <3>1. c \in Nat /\ offered' = Append(delivered \o o, c)
        BY <1>2, <2>1, <2>2
      <3>. HIDE DEF c
      <3>2. Append(delivered \o o, c) = (delivered \o o) \o <<c>>
        BY <1>3, <3>1, ConcatProperties, AppendIsConcat
      <3>3. Append(o, c) = o \o <<c>> /\ <<c>> \in Seq(Nat)
        <4>1. Append(o, c) = o \o <<c>>
          BY <3>1, AppendIsConcat
        <4>2. <<c>> \in Seq(Nat)
          BY <3>1
        <4>. QED  BY <4>1, <4>2
      <3>4. (delivered \o o) \o <<c>> = delivered \o (o \o <<c>>)
        BY <1>3, <3>3, ConcatAssociative
      <3>. QED  BY <2>1, <3>1, <3>2, <3>3, <3>4 DEF c
    <2>5. Channel!Offer(CommandOf(f))
      BY <2>1 DEF Channel!Offer
    <2>. QED  BY <1>1, <2>3, <2>4, <2>5 DEF ChanIInv, Channel!ChanNext
  <1>7. CASE SysTick \/ SciQue
    <2>1. delivered' = delivered /\ offered' = offered
      BY <1>7 DEF SysTick, SciQue, dataVars
    <2>. QED  BY <1>1, <1>2, <1>4, <1>7, <2>1, FlowSysTick, FlowSciQue
  <1>8. ~(LoseByte \/ (\E b \in NoiseBytes : NoiseByte(b)) \/ Gap)
    BY DEF LoseByte, NoiseByte, Gap, Fault
  <1>9. CASE UNCHANGED vars
    BY <1>2, <1>4, <1>9, FlowStutter
  <1>. QED  BY <1>5, <1>6, <1>7, <1>8, <1>9 DEF Next

\* On a line without faults every step of the port and its peer is one of the
\* channel: SerialRxMachine loses, repeats, reorders and invents no command,
\* whatever its packets hold and however the ticks fall.
THEOREM ChannelSafety ==
  Faults = {} =>
     (Spec => Channel!ChanInit /\ [][Channel!ChanNext]_(Channel!chanVars))
  <1>1. SUFFICES ASSUME Faults = {}
                 PROVE  Spec => /\ Channel!ChanInit
                                /\ [][Channel!ChanNext]_(Channel!chanVars)
    OBVIOUS
  <1>2. Init => ChanIInv /\ Channel!ChanInit
    BY ChanStart
  <1>3. ChanIInv /\ [Next]_vars => ChanIInv' /\ [Channel!ChanNext]_(Channel!chanVars)
    BY <1>1, ChanStep
  <1>. QED  BY <1>2, <1>3, PTL DEF Spec

=============================================================================
