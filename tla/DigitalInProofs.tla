--------------------------- MODULE DigitalInProofs ---------------------------
(***************************************************************************)
(* What holds of DigitalIn for every number of inputs, every debounce and  *)
(* held count, every width of the tick count and every watchdog bound; and  *)
(* of the history of one input that MCDigitalIn keeps.                     *)
(***************************************************************************)
EXTENDS MCDigitalIn, TLAPS

\* The inductive invariant: no part is inductive without the others.  The
\* flag of a bounce back to the last held state follows from the held count,
\* the range of the held count from the state it is kept in, and the flags of
\* the inputs without a pin reader from their never leaving the first states.
IInv ==
    /\ TypeOK
    /\ FlagMatchesState
    /\ HeldCountMatchesState
    /\ NullReaderIsNeverCalled

\* The unsigned arithmetic of Elapsed and SetStart stays in the tick range.
LEMMA TickRange ==
    ASSUME NEW n \in Int
    PROVE  n % TICK_MODULUS \in 0 .. TICK_MODULUS - 1
  BY DigitalInAssumption DEF DigitalInAssumption

\* A callback changes the flag of its own input only, and to a Boolean.
LEMMA InvokeType ==
    ASSUME NEW n, NEW i \in Inputs, flag \in [Inputs -> BOOLEAN], Invoke(n, i)
    PROVE  flag' \in [Inputs -> BOOLEAN]
  BY DEF Invoke

\* What each callback of a wired input does to the flags.
LEMMA InvokeEffect ==
    ASSUME NEW n \in 1 .. 4, NEW i \in Inputs, flag \in [Inputs -> BOOLEAN],
           Invoke(n, i)
    PROVE  /\ \A j \in Inputs : j # i => flag'[j] = flag[j]
           /\ n = 1 /\ i \in Wired => ~flag'[i]
           /\ n = 2 /\ i \in UsbInputs => flag'[i]
           /\ n = 2 /\ i \in ResetInputs => flag'[i] = flag[i]
           /\ n = 3 /\ i \in ResetInputs => flag'[i]
           /\ n = 3 /\ i \in UsbInputs => flag'[i] = flag[i]
           /\ IsNull(4, i)
  <1>1. /\ \A j \in Inputs : j # i => flag'[j] = flag[j]
        /\ flag'[i] = ((flag[i] \/ Raises(n, i)) /\ ~Lowers(n, i))
    BY DEF Invoke
  <1>2. n = 1 /\ i \in Wired => Lowers(n, i)
    BY DEF Lowers
  <1>3. n = 2 => (Raises(n, i) <=> i \in UsbInputs) /\ ~Lowers(n, i)
    BY DEF Raises, Lowers
  <1>4. n = 3 => (Raises(n, i) <=> i \in ResetInputs) /\ ~Lowers(n, i)
    BY DEF Raises, Lowers
  <1>5. ~(i \in UsbInputs /\ i \in ResetInputs)
    BY DigitalInAssumption DEF DigitalInAssumption
  <1>6. IsNull(4, i)
    BY DEF IsNull, Raises, Lowers
  <1>7. flag[i] \in BOOLEAN
    OBVIOUS
  <1>. QED
    BY <1>1, <1>2, <1>3, <1>4, <1>5, <1>6, <1>7, Zenon

\* The board starts in the invariant.
LEMMA InitIInv == Init => IInv
  BY DigitalInAssumption
     DEF DigitalInAssumption, Init, IInv, TypeOK, FlagMatchesState,
         UnheldMeansNoFault, HeldMeansFault, HeldCountMatchesState,
         NullReaderIsNeverCalled, Inputs, SwitchStates, UnheldStates,
         LongHeldStates

\* What one call does to its own input, in the terms of the invariant.
Step(i) ==
    \/ Idle(i) \/ NormalNegated(i) \/ DebounceAsserting(i) \/ Asserted(i)
    \/ DebounceNegating(i) \/ HeldAsserted(i) \/ HeldAsserted2(i)
    \/ HeldAssertedNewRate(i) \/ DebounceReleasingHeld(i)

LEMMA StepType ==
    ASSUME IInv, NEW i \in Inputs, Step(i)
    PROVE  /\ machineState' \in [Inputs -> SwitchStates]
           /\ start' \in [Inputs -> 0 .. TICK_MODULUS - 1]
           /\ assertCounts' \in [Inputs -> 0 .. HELD_ASSERT_COUNTS + 1]
           /\ flag' \in [Inputs -> BOOLEAN]
  <1>. USE DigitalInAssumption DEF DigitalInAssumption, IInv, TypeOK, Goto,
       SetStart, SwitchStates
  <1>1. CASE Idle(i)
    BY <1>1 DEF Idle
  <1>2. CASE NormalNegated(i)
    BY <1>2 DEF NormalNegated
  <1>3. CASE DebounceAsserting(i)
    BY <1>3 DEF DebounceAsserting
  <1>4. CASE Asserted(i)
    BY <1>4, InvokeType DEF Asserted
  <1>5. CASE DebounceNegating(i)
    BY <1>5, InvokeType DEF DebounceNegating
  <1>6. CASE HeldAsserted(i)
    BY <1>6, InvokeType DEF HeldAsserted
  <1>7. CASE HeldAsserted2(i)
    BY <1>7, InvokeType DEF HeldAsserted2, HeldCountMatchesState
  <1>8. CASE HeldAssertedNewRate(i)
    BY <1>8, InvokeType DEF HeldAssertedNewRate
  <1>9. CASE DebounceReleasingHeld(i)
    <2>1. (start[i] + bounce) % TICK_MODULUS \in 0 .. TICK_MODULUS - 1
      BY TickRange DEF bounce
    <2>. QED  BY <1>9, <2>1, InvokeType DEF DebounceReleasingHeld
  <1>. QED
    BY <1>1, <1>2, <1>3, <1>4, <1>5, <1>6, <1>7, <1>8, <1>9 DEF Step

\* A call keeps the flag of every input in step with its machine.
LEMMA StepFlags ==
    ASSUME IInv, NEW i \in Inputs, Step(i)
    PROVE  FlagMatchesState'
  <1>. USE DigitalInAssumption DEF DigitalInAssumption, IInv, TypeOK, Goto,
       SetStart, FlagMatchesState, UnheldMeansNoFault, HeldMeansFault,
       UnheldStates, LongHeldStates, SwitchStates
  <1>0. machineState[i] \notin {"SWITCH_IDLE", "NORMAL_NEGATED"} => i \in Wired
    BY DEF NullReaderIsNeverCalled
  <1>1. CASE Idle(i)
    BY <1>1 DEF Idle
  <1>2. CASE NormalNegated(i)
    BY <1>2 DEF NormalNegated
  <1>3. CASE DebounceAsserting(i)
    BY <1>3 DEF DebounceAsserting
  <1>4. CASE Asserted(i)
    BY <1>4, InvokeEffect DEF Asserted, Wired
  <1>5. CASE DebounceNegating(i)
    BY <1>0, <1>5, InvokeEffect DEF DebounceNegating
  <1>6. CASE HeldAsserted(i)
    BY <1>6, InvokeEffect DEF HeldAsserted
  <1>7. CASE HeldAsserted2(i)
    BY <1>7, InvokeEffect DEF HeldAsserted2
  <1>8. CASE HeldAssertedNewRate(i)
    BY <1>8, InvokeEffect DEF HeldAssertedNewRate
  <1>9. CASE DebounceReleasingHeld(i)
    BY <1>0, <1>9, InvokeEffect DEF DebounceReleasingHeld, HeldCountMatchesState
  <1>. QED
    BY <1>1, <1>2, <1>3, <1>4, <1>5, <1>6, <1>7, <1>8, <1>9 DEF Step

\* A call keeps the held count of every input in step with its machine.
LEMMA StepCounts ==
    ASSUME IInv, NEW i \in Inputs, Step(i)
    PROVE  HeldCountMatchesState'
  BY DigitalInAssumption
     DEF DigitalInAssumption, IInv, TypeOK, Goto, SetStart, SwitchStates,
         HeldCountMatchesState, Step, Idle, NormalNegated, DebounceAsserting,
         Asserted, DebounceNegating, HeldAsserted, HeldAsserted2,
         HeldAssertedNewRate, DebounceReleasingHeld

\* A call takes no input without a pin reader out of its first two states.
LEMMA StepUnwired ==
    ASSUME IInv, NEW i \in Inputs, Step(i)
    PROVE  NullReaderIsNeverCalled'
  BY DEF IInv, TypeOK, Goto, SetStart, SwitchStates, NullReaderIsNeverCalled,
         Step, Idle, NormalNegated, DebounceAsserting, Asserted,
         DebounceNegating, HeldAsserted, HeldAsserted2, HeldAssertedNewRate,
         DebounceReleasingHeld

\* Every step of the system preserves the invariant: a call by the lemmas
\* above, a tick or a pin move because they touch no machine.
LEMMA NextIInv == IInv /\ [Next]_vars => IInv'
  <1> SUFFICES ASSUME IInv, [Next]_vars PROVE IInv'
    OBVIOUS
  <1>1. ASSUME NEW i \in Inputs, DigitalInMachine(i) PROVE IInv'
    <2>1. Step(i)
      BY <1>1 DEF DigitalInMachine, Step
    <2>2. turn' \in Inputs /\ lag' \in 0 .. MAX_LAG
      BY <1>1, DigitalInAssumption
         DEF DigitalInMachine, DigitalInAssumption, Inputs, IInv, TypeOK
    <2>3. TimerTicks' = TimerTicks /\ pin' = pin
      BY <1>1 DEF DigitalInMachine
    <2>. QED
      BY <2>1, <2>2, <2>3, StepType, StepFlags, StepCounts, StepUnwired
         DEF IInv, TypeOK
  <1>2. ASSUME SysTick PROVE IInv'
    BY <1>2, DigitalInAssumption
       DEF SysTick, DigitalInAssumption, IInv, TypeOK, FlagMatchesState,
           UnheldMeansNoFault, HeldMeansFault, HeldCountMatchesState,
           NullReaderIsNeverCalled
  <1>3. ASSUME NEW i \in Wired, PinMoves(i) PROVE IInv'
    BY <1>3, DigitalInAssumption
       DEF PinMoves, DigitalInAssumption, IInv, TypeOK, FlagMatchesState,
           UnheldMeansNoFault, HeldMeansFault, HeldCountMatchesState,
           NullReaderIsNeverCalled
  <1>4. CASE UNCHANGED vars
    BY <1>4 DEF vars, IInv, TypeOK, FlagMatchesState, UnheldMeansNoFault,
                HeldMeansFault, HeldCountMatchesState, NullReaderIsNeverCalled
  <1>. QED
    BY <1>1, <1>2, <1>3, <1>4 DEF Next

LEMMA AlwaysIInv == Spec => []IInv
  BY InitIInv, NextIInv, PTL DEF Spec

\* The six inputs keep their types through every call, tick and pin move; in
\* particular the 8-bit held count never passes HELD_ASSERT_COUNTS + 1.
THEOREM TypeCorrect == Spec => []TypeOK
  BY AlwaysIInv, PTL DEF IInv

\* DigitalInMachine never shows a fault on an input it holds for released, and
\* never hides one on an input it holds for stuck.
THEOREM FlagCorrect == Spec => []FlagMatchesState
  BY AlwaysIInv, PTL DEF IInv

\* The held count is full exactly where the two tests of it say it is.
THEOREM HeldCountCorrect == Spec => []HeldCountMatchesState
  BY AlwaysIInv, PTL DEF IInv

\* DigitalInMachine calls no NULL digInCallBackPtr.
THEOREM ReaderCorrect == Spec => []NullReaderIsNeverCalled
  BY AlwaysIInv, PTL DEF IInv

-----------------------------------------------------------------------------
(* The history of one input.  The machine's own estimate of the time,      *)
(* Elapsed, never exceeds the ticks the reading really lasted, and a state *)
(* past the debounce is reached only after a debounced reading.            *)

PastDebounce == SwitchStates \
    {"SWITCH_IDLE", "NORMAL_NEGATED", "DEBOUNCE_ASSERTING"}

NegatedStates == {"DEBOUNCE_NEGATING", "DEBOUNCE_RELEASING_HELD",
                  "DEBOUNCE_RELEASING_HELD2"}

HistType ==
    /\ watched \in Wired
    /\ lastRead \in BOOLEAN
    /\ streak \in 0 .. MAX_STREAK
    /\ debounced \in BOOLEAN

\* What the state of the machine says of what it has read.
HistMatchesState ==
    /\ machineState[watched] = "DEBOUNCE_ASSERTING" =>
          /\ lastRead
          /\ streak <= BOUNCE_COUNTS => Elapsed(watched) <= streak
    /\ machineState[watched] \in PastDebounce => debounced
    /\ machineState[watched] \in NegatedStates => ~lastRead

HistIInv == IInv /\ HistType /\ HistMatchesState

LEMMA WatchedIsInput == ASSUME HistType PROVE watched \in Inputs
  BY DigitalInAssumption DEF DigitalInAssumption, HistType, Wired

\* The unsigned difference of two tick counts, without the remainder.
LEMMA ModDifference ==
    ASSUME NEW M \in Nat \ {0}, NEW a \in 0 .. M - 1, NEW b \in 0 .. M - 1
    PROVE  (a - b) % M = IF a >= b THEN a - b ELSE a - b + M
  <1>1. CASE a >= b
    BY <1>1
  <1>2. CASE a < b
    BY <1>2
  <1>. QED  BY <1>1, <1>2

\* A tick ages the estimate by at most one, however the count wraps.
LEMMA ElapsedAges ==
    ASSUME TypeOK, NEW i \in Inputs, SysTick
    PROVE  /\ Elapsed(i) \in Nat
           /\ Elapsed(i)' <= Elapsed(i) + 1
  <1>1. /\ TICK_MODULUS \in Nat \ {0}
        /\ TimerTicks \in 0 .. TICK_MODULUS - 1
        /\ start[i] \in 0 .. TICK_MODULUS - 1
    BY DigitalInAssumption DEF DigitalInAssumption, TypeOK
  <1>2. /\ start' = start
        /\ TimerTicks' = IF TimerTicks = TICK_MODULUS - 1 THEN 0
                         ELSE TimerTicks + 1
        /\ TimerTicks' \in 0 .. TICK_MODULUS - 1
    BY <1>1 DEF SysTick
  <1>3. Elapsed(i) = IF TimerTicks >= start[i] THEN TimerTicks - start[i]
                     ELSE TimerTicks - start[i] + TICK_MODULUS
    BY <1>1, ModDifference DEF Elapsed
  <1>4. Elapsed(i)' = IF TimerTicks' >= start[i] THEN TimerTicks' - start[i]
                      ELSE TimerTicks' - start[i] + TICK_MODULUS
    BY <1>1, <1>2, ModDifference DEF Elapsed
  <1>. QED  BY <1>1, <1>2, <1>3, <1>4

LEMMA HistInit == MCInit => HistIInv
  <1> SUFFICES ASSUME MCInit PROVE HistIInv
    OBVIOUS
  <1>1. IInv
    BY InitIInv DEF MCInit
  <1>2. HistType
    <2>1. 0 \in 0 .. MAX_STREAK
      BY DigitalInAssumption DEF DigitalInAssumption, MAX_STREAK
    <2>. QED  BY <2>1 DEF MCInit, HistType
  <1>3. machineState[watched] = "SWITCH_IDLE"
    BY <1>2, WatchedIsInput DEF MCInit, Init
  <1>. QED
    BY <1>1, <1>2, <1>3 DEF HistIInv, HistMatchesState, PastDebounce,
                            NegatedStates, SwitchStates

\* Steps of the history are steps of the machine, and which step it was shows
\* in what moved.
LEMMA HistSteps ==
    ASSUME IInv, MCNext
    PROVE  /\ Next /\ watched' = watched
           /\ \/ /\ DigitalInMachine(turn) /\ turn \in Inputs
                 /\ \/ /\ turn = watched
                       /\ lastRead' = pin[watched]
                       /\ streak' = IF pin[watched] = lastRead THEN streak
                                    ELSE 0
                       /\ debounced' = (~Ended /\ (debounced \/
                            (pin[watched] /\ lastRead /\ streak > BOUNCE_COUNTS)))
                    \/ turn # watched /\ UNCHANGED histVars
              \/ /\ SysTick
                 /\ streak' = IF streak = MAX_STREAK THEN streak ELSE streak + 1
                 /\ UNCHANGED <<lastRead, debounced>>
              \/ /\ \E i \in Wired : PinMoves(i)
                 /\ UNCHANGED histVars
  <1>1. Next /\ watched' = watched
    BY DEF MCNext
  <1>2. CASE \E i \in Inputs : DigitalInMachine(i)
    <2>1. DigitalInMachine(turn) /\ turn \in Inputs
      BY <1>2 DEF DigitalInMachine
    <2>2. TimerTicks' = TimerTicks /\ pin' = pin
      BY <2>1 DEF DigitalInMachine
    <2>. QED  BY <1>1, <2>1, <2>2 DEF MCNext
  <1>3. CASE SysTick
    <2>1. turn' = turn /\ pin' = pin
      BY <1>3 DEF SysTick
    <2>. QED  BY <1>1, <1>3, <2>1 DEF MCNext
  <1>4. CASE \E i \in Wired : PinMoves(i)
    <2>1. turn' = turn /\ TimerTicks' = TimerTicks
      BY <1>4 DEF PinMoves
    <2>. QED  BY <1>1, <1>4, <2>1 DEF MCNext
  <1>. QED  BY <1>1, <1>2, <1>3, <1>4 DEF Next

\* A call of another input's machine leaves the watched one alone.
LEMMA OtherStep ==
    ASSUME TypeOK, NEW i \in Inputs, NEW w \in Inputs, i # w, Step(i)
    PROVE  /\ machineState'[w] = machineState[w]
           /\ start'[w] = start[w]
           /\ flag'[w] = flag[w]
  BY DEF TypeOK, Step, Idle, NormalNegated, DebounceAsserting, Asserted,
         DebounceNegating, HeldAsserted, HeldAsserted2, HeldAssertedNewRate,
         DebounceReleasingHeld, Goto, SetStart, Invoke

\* How a call of the watched machine moves its state: what it read, and what
\* the states it can then be in say of the time.
LEMMA WatchedStep ==
    ASSUME IInv, NEW w \in Inputs, Step(w), TimerTicks' = TimerTicks
    PROVE  /\ machineState[w] \in SwitchStates
           /\ machineState'[w] \in SwitchStates
           /\ machineState'[w] = "DEBOUNCE_ASSERTING" =>
                /\ pin[w]
                /\ \/ machineState[w] = "DEBOUNCE_ASSERTING"
                      /\ start'[w] = start[w]
                   \/ start'[w] = TimerTicks
           /\ machineState'[w] \in PastDebounce =>
                \/ machineState[w] \in PastDebounce
                \/ /\ machineState[w] = "DEBOUNCE_ASSERTING"
                   /\ pin[w] /\ Elapsed(w) > BOUNCE_COUNTS
           /\ machineState'[w] \in NegatedStates => ~pin[w]
  BY StepType
     DEF IInv, TypeOK, Step, Idle, NormalNegated, DebounceAsserting, Asserted,
         DebounceNegating, HeldAsserted, HeldAsserted2, HeldAssertedNewRate,
         DebounceReleasingHeld, Goto, SetStart, SwitchStates, PastDebounce,
         NegatedStates

\* A flag changes only where the machine is past the debounce; it goes down
\* only out of a state that has read the pin negated before.
LEMMA WatchedFlag ==
    ASSUME IInv, NEW w \in Inputs, Step(w), flag'[w] # flag[w]
    PROVE  /\ machineState[w] \in PastDebounce
           /\ flag[w] => machineState[w] \in NegatedStates
           /\ ~flag[w] => machineState'[w] # "NORMAL_NEGATED"
  <1>0. /\ flag[w] \in BOOLEAN /\ flag \in [Inputs -> BOOLEAN]
        /\ machineState \in [Inputs -> SwitchStates]
    BY DEF IInv, TypeOK
  <1>1. ASSUME NEW n \in {2, 3}, Invoke(n, w) PROVE ~flag[w]
    <2>1. flag'[w] = ((flag[w] \/ Raises(n, w)) /\ ~Lowers(n, w))
      BY <1>0, <1>1 DEF Invoke
    <2>2. ~Lowers(n, w)
      BY DEF Lowers
    <2>. QED  BY <1>0, <2>1, <2>2, Zenon
  <1>2. ASSUME NEW n, Invoke(n, w), ~flag[w] PROVE Raises(n, w)
    <2>1. flag'[w] = ((flag[w] \/ Raises(n, w)) /\ ~Lowers(n, w))
      BY <1>0, <1>2 DEF Invoke
    <2>. QED  BY <1>0, <1>2, <2>1, Zenon
  <1>3. flag' # flag
    OBVIOUS
  <1>4. ~Raises(1, w) /\ IsNull(4, w)
    BY DEF Raises, Lowers, IsNull
  <1>5. \/ /\ \E n \in {2, 3} : Invoke(n, w)
           /\ machineState[w] \in {"ASSERTED", "HELD_ASSERTED",
                  "HELD_ASSERTED2", "HELD_ASSERTED_NEW_RATE"}
           /\ machineState'[w] # "NORMAL_NEGATED"
        \/ Invoke(1, w) /\ machineState[w] \in NegatedStates
    BY <1>0, <1>3, <1>4
       DEF Step, Idle, NormalNegated, DebounceAsserting, Asserted,
           DebounceNegating, HeldAsserted, HeldAsserted2, HeldAssertedNewRate,
           DebounceReleasingHeld, Goto, NegatedStates
  <1>6. CASE \E n \in {2, 3} : Invoke(n, w)
             /\ machineState[w] \in {"ASSERTED", "HELD_ASSERTED",
                    "HELD_ASSERTED2", "HELD_ASSERTED_NEW_RATE"}
             /\ machineState'[w] # "NORMAL_NEGATED"
    BY <1>1, <1>6 DEF PastDebounce, SwitchStates
  <1>7. CASE Invoke(1, w) /\ machineState[w] \in NegatedStates
    <2>1. flag[w]
      BY <1>2, <1>4, <1>7
    <2>. QED  BY <1>7, <2>1 DEF PastDebounce, SwitchStates, NegatedStates
  <1>. QED  BY <1>5, <1>6, <1>7

\* Every step keeps the history in step with the machine.
LEMMA HistNext == HistIInv /\ [MCNext]_mcVars => HistIInv'
  <1> SUFFICES ASSUME HistIInv, [MCNext]_mcVars PROVE HistIInv'
    OBVIOUS
  <1>0. IInv /\ TypeOK /\ watched \in Inputs
    BY WatchedIsInput DEF HistIInv, IInv
  <1>n. BOUNCE_COUNTS \in Nat /\ streak \in 0 .. BOUNCE_COUNTS + 1
    BY DigitalInAssumption DEF DigitalInAssumption, HistIInv, HistType, MAX_STREAK
  <1>1. CASE MCNext
    <2>1. IInv' /\ watched' = watched
      BY <1>0, <1>1, HistSteps, NextIInv
    <2>2. ASSUME DigitalInMachine(turn), turn = watched,
                 lastRead' = pin[watched],
                 streak' = IF pin[watched] = lastRead THEN streak ELSE 0,
                 debounced' = (~Ended /\ (debounced \/
                     (pin[watched] /\ lastRead /\ streak > BOUNCE_COUNTS)))
          PROVE  HistType' /\ HistMatchesState'
      <3>1. Step(watched) /\ TimerTicks' = TimerTicks
        BY <2>2 DEF DigitalInMachine, Step
      <3>2. pin[watched] \in BOOLEAN
        BY <1>0 DEF TypeOK
      <3>3. streak' \in 0 .. MAX_STREAK
        BY <1>n, <2>2 DEF MAX_STREAK
      <3>4. HistType'
        BY <2>1, <2>2, <3>2, <3>3, Zenon DEF HistIInv, HistType
      <3>5. ASSUME machineState'[watched] = "DEBOUNCE_ASSERTING"
            PROVE  /\ lastRead'
                   /\ streak' <= BOUNCE_COUNTS => Elapsed(watched)' <= streak'
        <4>1. lastRead'
          BY <1>0, <2>2, <3>1, <3>5, WatchedStep
        <4>2. CASE start'[watched] = TimerTicks
          <5>1. Elapsed(watched)' = 0
            BY <1>0, <2>1, <3>1, <4>2, DigitalInAssumption
               DEF Elapsed, TypeOK, DigitalInAssumption
          <5>. QED  BY <1>n, <3>3, <4>1, <5>1 DEF MAX_STREAK
        <4>3. CASE /\ machineState[watched] = "DEBOUNCE_ASSERTING"
                   /\ start'[watched] = start[watched]
          <5>1. Elapsed(watched)' = Elapsed(watched)
            BY <2>1, <3>1, <4>3 DEF Elapsed
          <5>2. lastRead /\ (streak <= BOUNCE_COUNTS => Elapsed(watched) <= streak)
            BY <4>3 DEF HistIInv, HistMatchesState
          <5>3. streak' = streak
            BY <1>0, <2>2, <3>1, <3>2, <3>5, <5>2, WatchedStep, Zenon
               DEF HistIInv, HistType
          <5>. QED  BY <4>1, <5>1, <5>2, <5>3
        <4>. QED  BY <1>0, <3>1, <3>5, <4>2, <4>3, WatchedStep
      <3>6. ASSUME machineState'[watched] \in PastDebounce PROVE debounced'
        <4>1. ~Ended
          BY <3>6 DEF Ended, PastDebounce
        <4>2. CASE machineState[watched] \in PastDebounce
          BY <2>2, <4>1, <4>2, Zenon DEF HistIInv, HistMatchesState
        <4>3. CASE /\ machineState[watched] = "DEBOUNCE_ASSERTING"
                   /\ pin[watched] /\ Elapsed(watched) > BOUNCE_COUNTS
          <5>1. lastRead /\ (streak <= BOUNCE_COUNTS => Elapsed(watched) <= streak)
            BY <4>3 DEF HistIInv, HistMatchesState
          <5>2. Elapsed(watched) \in Int
            BY <1>0, DigitalInAssumption DEF Elapsed, TypeOK, DigitalInAssumption
          <5>3. streak > BOUNCE_COUNTS
            BY <1>n, <4>3, <5>1, <5>2
          <5>. QED  BY <2>2, <4>1, <4>3, <5>1, <5>3, Zenon
        <4>. QED  BY <1>0, <3>1, <3>6, <4>2, <4>3, WatchedStep
      <3>7. machineState'[watched] \in NegatedStates => ~lastRead'
        BY <1>0, <2>2, <3>1, WatchedStep
      <3>. QED  BY <2>1, <3>4, <3>5, <3>6, <3>7 DEF HistMatchesState
    <2>3. ASSUME DigitalInMachine(turn), turn \in Inputs, turn # watched,
                 UNCHANGED histVars
          PROVE  HistType' /\ HistMatchesState'
      <3>1. Step(turn) /\ TimerTicks' = TimerTicks
        BY <2>3 DEF DigitalInMachine, Step
      <3>2. /\ machineState'[watched] = machineState[watched]
            /\ start'[watched] = start[watched]
        BY <1>0, <2>3, <3>1, OtherStep
      <3>. QED
        BY <2>1, <2>3, <3>1, <3>2
           DEF HistIInv, HistType, HistMatchesState, histVars, Elapsed
    <2>4. ASSUME SysTick, UNCHANGED <<lastRead, debounced>>,
                 streak' = IF streak = MAX_STREAK THEN streak ELSE streak + 1
          PROVE  HistType' /\ HistMatchesState'
      <3>1. machineState' = machineState
        BY <2>4 DEF SysTick
      <3>2. streak' \in 0 .. MAX_STREAK
        BY <1>n, <2>4 DEF MAX_STREAK
      <3>3. HistType'
        BY <2>1, <2>4, <3>2, Zenon DEF HistIInv, HistType
      <3>4. /\ Elapsed(watched) \in Nat
            /\ Elapsed(watched)' <= Elapsed(watched) + 1
        BY <1>0, <2>1, <2>4, ElapsedAges DEF Elapsed
      <3>5. Elapsed(watched)' \in Int
        BY <1>0, <2>1, DigitalInAssumption
           DEF Elapsed, IInv, TypeOK, DigitalInAssumption
      <3>6. streak' <= BOUNCE_COUNTS => streak' = streak + 1
        BY <1>n, <2>4 DEF MAX_STREAK
      <3>7. ASSUME streak <= BOUNCE_COUNTS => Elapsed(watched) <= streak,
                   streak' <= BOUNCE_COUNTS
            PROVE  Elapsed(watched)' <= streak'
        BY <1>n, <3>4, <3>5, <3>6, <3>7
      <3>. QED
        BY <2>1, <2>4, <3>1, <3>3, <3>7 DEF HistIInv, HistMatchesState
    <2>5. ASSUME NEW i \in Wired, PinMoves(i), UNCHANGED histVars
          PROVE  HistType' /\ HistMatchesState'
      BY <2>1, <2>5
         DEF PinMoves, HistIInv, HistType, HistMatchesState, histVars, Elapsed
    <2>. QED
      BY <1>0, <1>1, <2>1, <2>2, <2>3, <2>4, <2>5, HistSteps DEF HistIInv
  <1>2. CASE UNCHANGED mcVars
    <2>1. IInv'
      BY <1>0, <1>2, NextIInv DEF mcVars, vars
    <2>. QED
      BY <1>2, <2>1 DEF mcVars, HistIInv, HistType, HistMatchesState, Elapsed
  <1>. QED  BY <1>1, <1>2

LEMMA AlwaysHistIInv == MCSpec => []HistIInv
  BY HistInit, HistNext, PTL DEF MCSpec

\* When a flag of the watched input changes, it is this input's machine that
\* was called.
LEMMA FlagStep ==
    ASSUME HistIInv, [MCNext]_mcVars, flag'[watched] # flag[watched]
    PROVE  /\ Step(watched) /\ turn = watched
           /\ debounced' = (~Ended /\ (debounced \/
                  (pin[watched] /\ lastRead /\ streak > BOUNCE_COUNTS)))
  <1>0. IInv /\ TypeOK /\ watched \in Inputs
    BY WatchedIsInput DEF HistIInv, IInv
  <1>1. MCNext
    BY DEF mcVars
  <1>2. ~SysTick /\ ~(\E i \in Wired : PinMoves(i))
    BY DEF SysTick, PinMoves
  <1>3. DigitalInMachine(turn) => Step(turn)
    BY DEF DigitalInMachine, Step
  <1>4. turn \in Inputs /\ Step(turn) /\ turn # watched
           => flag'[watched] = flag[watched]
    BY <1>0, OtherStep
  <1>. QED  BY <1>0, <1>1, <1>2, <1>3, <1>4, HistSteps

\* No glitch of a pin is ever reported: whatever the bounces, the calls of the
\* loop and the wraps of the count, a flag rises only after the input was read
\* asserted for more than BOUNCE_COUNTS real ticks.
THEOREM NoFlagOnTransientHolds == MCSpec => NoFlagOnTransient
  <1>1. ASSUME HistIInv, [MCNext]_mcVars, ~flag[watched], flag'[watched]
        PROVE  debounced'
    <2>0. IInv /\ watched \in Inputs
      BY <1>1, WatchedIsInput DEF HistIInv
    <2>1. /\ Step(watched)
          /\ debounced' = (~Ended /\ (debounced \/
                 (pin[watched] /\ lastRead /\ streak > BOUNCE_COUNTS)))
      BY <1>1, FlagStep
    <2>2. /\ machineState[watched] \in PastDebounce
          /\ machineState'[watched] # "NORMAL_NEGATED"
      BY <1>1, <2>0, <2>1, WatchedFlag
    <2>. QED  BY <1>1, <2>1, <2>2 DEF Ended, HistIInv, HistMatchesState
  <1>2. HistIInv /\ [MCNext]_mcVars
           => [~flag[watched] /\ flag'[watched] => debounced']_mcVars
    BY <1>1
  <1>. QED  BY <1>2, AlwaysHistIInv, PTL DEF MCSpec, NoFlagOnTransient

\* A reported fault outlives a single negated reading, in whichever of its
\* states the machine is.
THEOREM NoClearOnOneReadingHolds == MCSpec => NoClearOnOneReading
  <1>1. ASSUME HistIInv, [MCNext]_mcVars, flag[watched], ~flag'[watched]
        PROVE  ~lastRead
    <2>0. IInv /\ watched \in Inputs
      BY <1>1, WatchedIsInput DEF HistIInv
    <2>1. Step(watched)
      BY <1>1, FlagStep
    <2>2. machineState[watched] \in NegatedStates
      BY <1>1, <2>0, <2>1, WatchedFlag
    <2>. QED  BY <1>1, <2>2 DEF HistIInv, HistMatchesState
  <1>2. HistIInv /\ [MCNext]_mcVars
           => [flag[watched] /\ ~flag'[watched] => ~lastRead]_mcVars
    BY <1>1
  <1>. QED  BY <1>2, AlwaysHistIInv, PTL DEF MCSpec, NoClearOnOneReading

=============================================================================
