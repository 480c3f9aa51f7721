---------------------------- MODULE MCDigitalIn ------------------------------
(***************************************************************************)
(* DigitalIn for TLC, with history variables about one input: what its     *)
(* machine has read so far.  They let a property speak of how long the     *)
(* input really was asserted or released, which the machine itself only    *)
(* estimates from "start".                                                 *)
(***************************************************************************)
EXTENDS DigitalIn

VARIABLES
    watched,    \* the input the history is about
    lastRead,   \* what the last call of its machine read
    streak,     \* ticks since that reading last changed (bounded)
    debounced   \* this press was read asserted for over BOUNCE_COUNTS

histVars == <<lastRead, streak, debounced>>
mcVars == <<TimerTicks, lag, turn, pin, machineState, start, assertCounts,
            flag, watched, lastRead, streak, debounced>>

MAX_STREAK == BOUNCE_COUNTS + 1    \* bound of streak

\* The machine has left the press it was following.
Ended == machineState'[watched] = "NORMAL_NEGATED"

MCInit ==
    /\ Init
    /\ watched \in Wired
    /\ lastRead = FALSE
    /\ streak = 0
    /\ debounced = FALSE

MCNext ==
    /\ Next
    /\ UNCHANGED watched
    /\ \/ /\ turn' # turn
          /\ turn = watched
          /\ lastRead' = pin[watched]
          /\ streak' = IF pin[watched] = lastRead THEN streak ELSE 0
          /\ debounced' = (~Ended /\ (debounced \/
                                (pin[watched] /\ lastRead /\ streak > BOUNCE_COUNTS)))
       \/ /\ turn' # turn
          /\ turn # watched
          /\ UNCHANGED histVars
       \/ /\ TimerTicks' # TimerTicks
          /\ streak' = IF streak = MAX_STREAK THEN streak ELSE streak + 1
          /\ UNCHANGED <<lastRead, debounced>>
       \/ /\ pin' # pin
          /\ UNCHANGED histVars

\* Fairness of DigitalIn: a call of the machine passes the turn on, and the
\* other steps leave it.
MCFairness ==
    /\ WF_turn(turn' = IF turn = MAX_NUM_DIG_IN - 1 THEN 0 ELSE turn + 1)
    /\ WF_TimerTicks(SysTick)

MCSpec == MCInit /\ [][MCNext]_mcVars /\ MCFairness

-----------------------------------------------------------------------------

\* No fault is reported on a transient: when a flag goes up, the pin has been
\* read asserted, without a gap, for more than BOUNCE_COUNTS ticks of this
\* press, however the tick count wrapped meanwhile.
NoFlagOnTransient ==
    [][~flag[watched] /\ flag'[watched] => debounced']_mcVars

\* One negated reading never clears a reported fault: the flag goes down only
\* when two calls in a row have read the pin negated.
NoClearOnOneReading ==
    [][flag[watched] /\ ~flag'[watched] => ~lastRead]_mcVars

=============================================================================
