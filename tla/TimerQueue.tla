----------------------------- MODULE TimerQueue -----------------------------
(***************************************************************************)
(* What the timeouts of src/src/eloop.c promise their users: a timeout set *)
(* for a delay is called back once, not before the delay has passed, and   *)
(* timeouts are called back in the order they fall due, those that fall    *)
(* due together in the order they were set.  Setting one again replaces    *)
(* it.  The specification knows absolute deadlines; eloop does not keep    *)
(* any, see Eloop.                                                         *)
(***************************************************************************)
EXTENDS Timespec

CONSTANTS
    Timeout,   \* what identifies a timeout: its callback and argument
    Delays,    \* the delays timeouts are set for
    Loop,      \* no callback is running
    Other      \* code that is not a timeout's callback is running

VARIABLES
    clock,     \* CLOCK_MONOTONIC
    pending,   \* the timeouts that are set
    due,       \* when each is due
    turn,      \* the order they were set in
    turns,     \* how many have been set
    running    \* what is running: a timeout's callback, Loop or Other

qvars == <<clock, pending, due, turn, turns, running>>

\* x is called back before y.
Sooner(x, y) == Less(due[x], due[y]) \/ (due[x] = due[y] /\ turn[x] < turn[y])

QInit ==
    /\ clock = Zero /\ pending = {} /\ turns = 0
    /\ due = [x \in Timeout |-> Zero] /\ turn = [x \in Timeout |-> 0]
    /\ running = Other

QTick ==
    /\ clock' \in Timespec /\ Less(clock, clock')
    /\ UNCHANGED <<pending, due, turn, turns, running>>

QSet(x, d) ==
    /\ running # Loop
    /\ pending' = pending \cup {x}
    /\ due' = [due EXCEPT ![x] = Plus(clock, d)]
    /\ turn' = [turn EXCEPT ![x] = turns]
    /\ turns' = turns + 1
    /\ UNCHANGED <<clock, running>>

QDelete ==
    /\ running # Loop /\ pending' \subseteq pending
    /\ UNCHANGED <<clock, due, turn, turns, running>>

QCall(x) ==
    /\ running = Loop /\ running' = x
    /\ x \in pending /\ ~Less(clock, due[x])
    /\ \A y \in pending \ {x} : Sooner(x, y)
    /\ pending' = pending \ {x}
    /\ UNCHANGED <<clock, due, turn, turns>>

QOther ==
    /\ running = Loop /\ running' = Other
    /\ UNCHANGED <<clock, pending, due, turn, turns>>

QReturn ==
    /\ running # Loop /\ running' = Loop
    /\ UNCHANGED <<clock, pending, due, turn, turns>>

QNext ==
    \/ QTick \/ QDelete \/ QOther \/ QReturn
    \/ \E x \in Timeout : QCall(x) \/ \E d \in Delays : QSet(x, d)

QSpec == QInit /\ [][QNext]_qvars
=============================================================================
