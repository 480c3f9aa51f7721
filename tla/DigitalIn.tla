------------------------------ MODULE DigitalIn ------------------------------
(***************************************************************************)
(* The six digital inputs of the remote download port and the debouncing   *)
(* state machine that turns each of them into a fault flag                 *)
(* (ApplicationDigIn.c), driven by the for loop of main().                 *)
(*                                                                         *)
(* The pin of an input moves at any time, the millisecond tick of SysTick  *)
(* counts at any time, and the main loop calls the machine of one input    *)
(* after the other.  A call reads its pin once and the tick count at most  *)
(* twice, so a call is one step: a tick that lands inside a call has the   *)
(* effect of one that lands before it.                                     *)
(***************************************************************************)
EXTENDS Integers

CONSTANTS
    MAX_NUM_DIG_IN,      \* number of inputs the loop serves (6)
    UsbInputs,           \* over-current inputs: callBackPtr2 raises the flag
    ResetInputs,         \* reset inputs: callBackPtr3 raises the flag
    BOUNCE_COUNTS,       \* debounce time in ticks (10)
    HELD_ASSERT_COUNTS,  \* held counts before the last state (5)
    TICK_MODULUS,        \* TimerTicks is an Int32U (2^32)
    MAX_LAG              \* bound: ticks the watchdog lets one pass take

Inputs == 0 .. MAX_NUM_DIG_IN - 1

ASSUME DigitalInAssumption ==
    /\ MAX_NUM_DIG_IN \in Nat \ {0}
    /\ UsbInputs \subseteq Inputs
    /\ ResetInputs \subseteq Inputs
    /\ UsbInputs \cap ResetInputs = {}
    /\ BOUNCE_COUNTS \in Nat
    /\ HELD_ASSERT_COUNTS \in Nat \ {0}
    /\ TICK_MODULUS \in Nat \ {0}
    /\ MAX_LAG \in Nat \ {0}

VARIABLES
    TimerTicks,    \* the SysTick count
    lag,           \* ticks since the loop last began a pass
    turn,          \* inputNbr of the for loop: the input served next
    pin,           \* pin[i]: the pin of i is at activeState
    machineState,  \* machineState[i], start[i], assertCounts[i]:
    start,         \*   the fields of DigitalInData[i] that change
    assertCounts,
    flag           \* flag[i]: Usb1OverCurrent ... FaultReg1RstFlag

clockVars == <<TimerTicks, lag>>
vars == <<TimerTicks, lag, turn, pin, machineState, start, assertCounts, flag>>

SwitchStates ==
    {"SWITCH_IDLE", "NORMAL_NEGATED", "DEBOUNCE_ASSERTING", "ASSERTED",
     "DEBOUNCE_NEGATING", "HELD_ASSERTED", "HELD_ASSERTED2",
     "HELD_ASSERTED_NEW_RATE", "DEBOUNCE_RELEASING_HELD",
     "DEBOUNCE_RELEASING_HELD2"}

-----------------------------------------------------------------------------
(* The configuration InitDigitalIn writes once.                            *)

\* digInCallBackPtr is set for the fault inputs only.
Wired == UsbInputs \cup ResetInputs

bounce == 0

\* What callBackPtr<n> of input i does to its flag; NULL leaves it alone.
Raises(n, i) ==
    \/ n = 2 /\ i \in UsbInputs
    \/ n = 3 /\ i \in ResetInputs

Lowers(n, i) == n = 1 /\ i \in Wired

IsNull(n, i) == ~Raises(n, i) /\ ~Lowers(n, i)

Invoke(n, i) ==
    flag' = [flag EXCEPT ![i] = (@ \/ Raises(n, i)) /\ ~Lowers(n, i)]

Init ==
    /\ TimerTicks = 0
    /\ lag = 0
    /\ turn = 0
    /\ pin \in [Inputs -> BOOLEAN]
    /\ machineState = [i \in Inputs |-> "SWITCH_IDLE"]
    /\ start = [i \in Inputs |-> 0]
    /\ assertCounts = [i \in Inputs |-> 0]
    /\ flag = [i \in Inputs |-> FALSE]

-----------------------------------------------------------------------------
(* DigitalInMachine, one operator per case of its switch.                  *)

\* Mutant: the difference is signed and does not survive the wrap.
ElapsedSigned(i) == TimerTicks - start[i]

\* TimerTicks - pDigIn->start, unsigned.
Elapsed(i) == (TimerTicks - start[i]) % TICK_MODULUS

Goto(i, s) == machineState' = [machineState EXCEPT ![i] = s]

SetStart(i, t) == start' = [start EXCEPT ![i] = t]

Idle(i) ==
    /\ machineState[i] = "SWITCH_IDLE"
    /\ Goto(i, "NORMAL_NEGATED")
    /\ UNCHANGED <<start, assertCounts, flag>>

\* Mutant: the debounce starts from an old "start".
NormalNegatedNoStart(i) ==
    /\ machineState[i] = "NORMAL_NEGATED"
    /\ IF i \in Wired /\ pin[i]
       THEN Goto(i, "DEBOUNCE_ASSERTING")
       ELSE UNCHANGED machineState
    /\ UNCHANGED <<start, assertCounts, flag>>

\* Mutant: the pin reader is not compared with NULL.
NormalNegatedUnguarded(i) ==
    /\ machineState[i] = "NORMAL_NEGATED"
    /\ IF pin[i]
       THEN SetStart(i, TimerTicks) /\ Goto(i, "DEBOUNCE_ASSERTING")
       ELSE UNCHANGED <<start, machineState>>
    /\ UNCHANGED <<assertCounts, flag>>

NormalNegated(i) ==
    /\ machineState[i] = "NORMAL_NEGATED"
    /\ IF i \in Wired /\ pin[i]
       THEN SetStart(i, TimerTicks) /\ Goto(i, "DEBOUNCE_ASSERTING")
       ELSE UNCHANGED <<start, machineState>>
    /\ UNCHANGED <<assertCounts, flag>>

DebounceAsserting(i) ==
    /\ machineState[i] = "DEBOUNCE_ASSERTING"
    /\ \/ ~pin[i] /\ Goto(i, "NORMAL_NEGATED") /\ UNCHANGED start
       \/ /\ pin[i] /\ Elapsed(i) > BOUNCE_COUNTS
          /\ SetStart(i, TimerTicks)
          /\ Goto(i, "ASSERTED")
       \/ /\ pin[i] /\ Elapsed(i) <= BOUNCE_COUNTS
          /\ UNCHANGED <<start, machineState>>
    /\ UNCHANGED <<assertCounts, flag>>

\* Mutant: a new press keeps the held count of the one before.
AssertedKeepsCount(i) ==
    /\ machineState[i] = "ASSERTED"
    /\ \/ /\ ~pin[i]
          /\ SetStart(i, 0)
          /\ Goto(i, "DEBOUNCE_NEGATING")
          /\ UNCHANGED flag
       \/ /\ pin[i] /\ Elapsed(i) > BOUNCE_COUNTS
          /\ Invoke(3, i)
          /\ SetStart(i, TimerTicks)
          /\ Goto(i, "HELD_ASSERTED")
       \/ /\ pin[i] /\ Elapsed(i) <= BOUNCE_COUNTS
          /\ UNCHANGED <<start, machineState, flag>>
    /\ UNCHANGED assertCounts

\* Mutant: becoming held calls no callback.
AssertedSilent(i) ==
    /\ machineState[i] = "ASSERTED"
    /\ \/ /\ ~pin[i]
          /\ SetStart(i, 0)
          /\ Goto(i, "DEBOUNCE_NEGATING")
          /\ UNCHANGED assertCounts
       \/ /\ pin[i] /\ Elapsed(i) > BOUNCE_COUNTS
          /\ SetStart(i, TimerTicks)
          /\ assertCounts' = [assertCounts EXCEPT ![i] = 0]
          /\ Goto(i, "HELD_ASSERTED")
       \/ /\ pin[i] /\ Elapsed(i) <= BOUNCE_COUNTS
          /\ UNCHANGED <<start, machineState, assertCounts>>
    /\ UNCHANGED flag

Asserted(i) ==
    /\ machineState[i] = "ASSERTED"
    /\ \/ /\ ~pin[i]
          /\ SetStart(i, 0)
          /\ Goto(i, "DEBOUNCE_NEGATING")
          /\ UNCHANGED <<assertCounts, flag>>
       \/ /\ pin[i] /\ Elapsed(i) > BOUNCE_COUNTS
          /\ Invoke(3, i)
          /\ SetStart(i, TimerTicks)
          /\ assertCounts' = [assertCounts EXCEPT ![i] = 0]
          /\ Goto(i, "HELD_ASSERTED")
       \/ /\ pin[i] /\ Elapsed(i) <= BOUNCE_COUNTS
          /\ UNCHANGED <<start, machineState, assertCounts, flag>>

DebounceNegating(i) ==
    /\ machineState[i] = "DEBOUNCE_NEGATING"
    /\ \/ pin[i] /\ SetStart(i, 0) /\ Goto(i, "ASSERTED") /\ UNCHANGED flag
       \/ /\ ~pin[i] /\ Elapsed(i) > BOUNCE_COUNTS
          /\ Invoke(1, i)
          /\ Goto(i, "NORMAL_NEGATED")
          /\ UNCHANGED start
       \/ /\ ~pin[i] /\ Elapsed(i) <= BOUNCE_COUNTS
          /\ UNCHANGED <<start, machineState, flag>>
    /\ UNCHANGED assertCounts

\* Mutant: the first negated reading ends the press.
HeldAssertedNoDebounce(i) ==
    /\ machineState[i] = "HELD_ASSERTED"
    /\ \/ /\ ~pin[i]
          /\ Invoke(1, i)
          /\ Goto(i, "NORMAL_NEGATED")
          /\ UNCHANGED start
       \/ /\ pin[i] /\ Elapsed(i) > bounce
          /\ Invoke(2, i)
          /\ SetStart(i, TimerTicks)
          /\ Goto(i, "HELD_ASSERTED2")
       \/ /\ pin[i] /\ Elapsed(i) <= bounce
          /\ UNCHANGED <<start, machineState, flag>>
    /\ UNCHANGED assertCounts

HeldAsserted(i) ==
    /\ machineState[i] = "HELD_ASSERTED"
    /\ \/ /\ ~pin[i]
          /\ SetStart(i, 0)
          /\ Goto(i, "DEBOUNCE_RELEASING_HELD")
          /\ UNCHANGED flag
       \/ /\ pin[i] /\ Elapsed(i) > bounce
          /\ Invoke(2, i)
          /\ SetStart(i, TimerTicks)
          /\ Goto(i, "HELD_ASSERTED2")
       \/ /\ pin[i] /\ Elapsed(i) <= bounce
          /\ UNCHANGED <<start, machineState, flag>>
    /\ UNCHANGED assertCounts

HeldAsserted2(i) ==
    /\ machineState[i] = "HELD_ASSERTED2"
    /\ \/ /\ ~pin[i]
          /\ SetStart(i, 0)
          /\ Goto(i, "DEBOUNCE_RELEASING_HELD2")
          /\ UNCHANGED <<assertCounts, flag>>
       \/ /\ pin[i] /\ Elapsed(i) > bounce
          /\ Invoke(2, i)
          /\ SetStart(i, TimerTicks)
          /\ assertCounts' = [assertCounts EXCEPT ![i] = @ + 1]
          /\ Goto(i, IF assertCounts[i] + 1 > HELD_ASSERT_COUNTS
                     THEN "HELD_ASSERTED_NEW_RATE" ELSE "HELD_ASSERTED2")
       \/ /\ pin[i] /\ Elapsed(i) <= bounce
          /\ UNCHANGED <<start, machineState, assertCounts, flag>>

HeldAssertedNewRate(i) ==
    /\ machineState[i] = "HELD_ASSERTED_NEW_RATE"
    /\ \/ /\ ~pin[i]
          /\ SetStart(i, 0)
          /\ Goto(i, "DEBOUNCE_RELEASING_HELD2")
          /\ UNCHANGED flag
       \/ /\ pin[i] /\ Elapsed(i) > bounce /\ ~IsNull(2, i)
          /\ Invoke(2, i)
          /\ SetStart(i, TimerTicks)
          /\ UNCHANGED machineState
       \/ /\ pin[i] /\ (Elapsed(i) <= bounce \/ IsNull(2, i))
          /\ UNCHANGED <<start, machineState, flag>>
    /\ UNCHANGED assertCounts

\* Mutant: the release of the first held state calls callBackPtr4 alone.
DebounceReleasingHeldNoElse(i) ==
    /\ machineState[i] \in
           {"DEBOUNCE_RELEASING_HELD", "DEBOUNCE_RELEASING_HELD2"}
    /\ \/ /\ pin[i]
          /\ Goto(i, IF assertCounts[i] >= HELD_ASSERT_COUNTS
                     THEN "HELD_ASSERTED_NEW_RATE" ELSE "HELD_ASSERTED")
          /\ UNCHANGED flag
       \/ /\ ~pin[i] /\ Elapsed(i) > BOUNCE_COUNTS
          /\ Invoke(IF machineState[i] = "DEBOUNCE_RELEASING_HELD"
                    THEN 4 ELSE 1, i)
          /\ Goto(i, "NORMAL_NEGATED")
       \/ /\ ~pin[i] /\ Elapsed(i) <= BOUNCE_COUNTS
          /\ UNCHANGED <<machineState, flag>>
    /\ UNCHANGED <<start, assertCounts>>

\* callBackPtr4 is NULL for every input, so both cases take callBackPtr1.
DebounceReleasingHeld(i) ==
    /\ machineState[i] \in
           {"DEBOUNCE_RELEASING_HELD", "DEBOUNCE_RELEASING_HELD2"}
    /\ \/ /\ pin[i]
          /\ Goto(i, IF assertCounts[i] >= HELD_ASSERT_COUNTS
                     THEN "HELD_ASSERTED_NEW_RATE" ELSE "HELD_ASSERTED")
          /\ SetStart(i, (start[i] + bounce) % TICK_MODULUS)
          /\ UNCHANGED flag
       \/ /\ ~pin[i] /\ Elapsed(i) > BOUNCE_COUNTS
          /\ Invoke(IF ~IsNull(4, i)
                       /\ machineState[i] = "DEBOUNCE_RELEASING_HELD"
                    THEN 4 ELSE 1, i)
          /\ Goto(i, "NORMAL_NEGATED")
          /\ UNCHANGED start
       \/ /\ ~pin[i] /\ Elapsed(i) <= BOUNCE_COUNTS
          /\ UNCHANGED <<start, machineState, flag>>
    /\ UNCHANGED assertCounts

-----------------------------------------------------------------------------
(* The main loop, the tick interrupt and the pins.                         *)

\* for( inputNbr =0; inputNbr<MAX_NUM_DIG_IN; inputNbr++ )
DigitalInMachine(i) ==
    /\ turn = i
    /\ turn' = IF i = MAX_NUM_DIG_IN - 1 THEN 0 ELSE i + 1
    /\ lag' = IF turn' = 0 THEN 0 ELSE lag
    /\ \/ Idle(i) \/ NormalNegated(i) \/ DebounceAsserting(i) \/ Asserted(i)
       \/ DebounceNegating(i) \/ HeldAsserted(i) \/ HeldAsserted2(i)
       \/ HeldAssertedNewRate(i) \/ DebounceReleasingHeld(i)
    /\ UNCHANGED <<TimerTicks, pin>>

\* Mutant: the count does not wrap.
SysTickNoWrap ==
    /\ lag < MAX_LAG
    /\ lag' = lag + 1
    /\ TimerTicks' = TimerTicks + 1
    /\ UNCHANGED <<turn, pin, machineState, start, assertCounts, flag>>

\* The independent watchdog resets the board when a pass takes too long, so a
\* running board sees at most MAX_LAG ticks in a pass.
SysTick ==
    /\ lag < MAX_LAG
    /\ lag' = lag + 1
    /\ TimerTicks' = IF TimerTicks = TICK_MODULUS - 1 THEN 0 ELSE TimerTicks + 1
    /\ UNCHANGED <<turn, pin, machineState, start, assertCounts, flag>>

PinMoves(i) ==
    /\ pin' = [pin EXCEPT ![i] = ~@]
    /\ UNCHANGED <<TimerTicks, lag, turn, machineState, start, assertCounts,
                   flag>>

Next ==
    \/ \E i \in Inputs : DigitalInMachine(i)
    \/ SysTick
    \/ \E i \in Wired : PinMoves(i)

\* The loop runs while the board does, and so does the tick.
Fairness ==
    /\ WF_vars(\E i \in Inputs : DigitalInMachine(i))
    /\ WF_vars(SysTick)

Spec == Init /\ [][Next]_vars /\ Fairness

-----------------------------------------------------------------------------
(* Properties.                                                             *)

TypeOK ==
    /\ TimerTicks \in 0 .. TICK_MODULUS - 1
    /\ lag \in 0 .. MAX_LAG
    /\ turn \in Inputs
    /\ pin \in [Inputs -> BOOLEAN]
    /\ machineState \in [Inputs -> SwitchStates]
    /\ start \in [Inputs -> 0 .. TICK_MODULUS - 1]
    /\ assertCounts \in [Inputs -> 0 .. HELD_ASSERT_COUNTS + 1]
    /\ flag \in [Inputs -> BOOLEAN]

UnheldStates == {"SWITCH_IDLE", "NORMAL_NEGATED", "DEBOUNCE_ASSERTING",
                 "ASSERTED", "DEBOUNCE_NEGATING"}

LongHeldStates == {"HELD_ASSERTED2", "HELD_ASSERTED_NEW_RATE",
                   "DEBOUNCE_RELEASING_HELD2"}

\* An input whose machine is in no held state shows no fault.
UnheldMeansNoFault ==
    \A i \in Inputs : machineState[i] \in UnheldStates => ~flag[i]

\* A held input shows its fault: a reset input from the moment it counts as
\* held, an over-current input from the second held state on, and a release
\* that bounces back never hides it.
HeldMeansFault ==
    /\ \A i \in ResetInputs : machineState[i] \notin UnheldStates => flag[i]
    /\ \A i \in UsbInputs : machineState[i] \in LongHeldStates => flag[i]

\* The flag an input shows and the state its machine is in never disagree,
\* whatever bounces the calls of DigitalInMachine happened to see.
FlagMatchesState == UnheldMeansNoFault /\ HeldMeansFault

\* The two tests of assertCounts (> at the count, >= at a bounce) agree on
\* when the input is long held: the first held state and its release are left
\* before the count is full, the last one is entered only when it is.
HeldCountMatchesState ==
    \A i \in Inputs :
        /\ machineState[i] \in {"HELD_ASSERTED", "DEBOUNCE_RELEASING_HELD"}
              => assertCounts[i] < HELD_ASSERT_COUNTS
        /\ machineState[i] = "HELD_ASSERTED2"
              => assertCounts[i] <= HELD_ASSERT_COUNTS
        /\ machineState[i] = "HELD_ASSERTED_NEW_RATE"
              => assertCounts[i] >= HELD_ASSERT_COUNTS

\* Only the first two states look before they call digInCallBackPtr; an input
\* that has none never reaches another.
NullReaderIsNeverCalled ==
    \A i \in Inputs \ Wired :
        machineState[i] \in {"SWITCH_IDLE", "NORMAL_NEGATED"}

\* A fault that stays on its pin is reported for good, through every state of
\* the machine and every value of the wrapping tick count.
StuckFaultIsReported ==
    \A i \in Wired : <>[]pin[i] => <>[]flag[i]

\* A fault that goes away is forgotten for good.
ClearedFaultIsForgotten ==
    \A i \in Wired : <>[]~pin[i] => <>[]~flag[i]

=============================================================================
