------------------------------- MODULE Eloop -------------------------------
(***************************************************************************)
(* The timeouts of the event loop: src/src/eloop.c.                        *)
(*                                                                         *)
(* eloop keeps no deadlines.  Every pending timeout holds the time it has  *)
(* left, all of them relative to eloop->now, and eloop_reduce_timers       *)
(* charges what has passed since to every one of them, in seconds and      *)
(* nanoseconds and never below zero.  The list is ordered when a timeout   *)
(* is inserted and never sorted again.  due and turn are history: the      *)
(* deadline and the insertion count the code does not have, by which       *)
(* TimerQueue says what the list must do.                                  *)
(*                                                                         *)
(* The list is the strict order "before" on the pending timeouts.  Time    *)
(* passes between any two steps; the clock does not wrap.                  *)
(***************************************************************************)
EXTENDS Timespec

CONSTANTS
    Timeout,   \* callback and argument of a timeout
    ArgOf,     \* the argument in it
    Queue,     \* the queues of ELOOP_QUEUE, numbered from 1
    Delays,    \* the delays timeouts are added with
    Loop, Other,
    MaxSec,    \* bound on the clock
    MaxAdds    \* bound on the timeouts added

ASSUME EloopAssumption ==
    /\ Loop \notin Timeout /\ Other \notin Timeout /\ Loop # Other
    /\ Delays \subseteq Timespec
    /\ Queue \subseteq Nat \ {0}
    /\ Queue # {}
    /\ MaxSec \in Nat /\ MaxAdds \in Nat

VARIABLES
    clock,     \* CLOCK_MONOTONIC
    now,       \* eloop->now
    pending,   \* the timeouts on eloop->timeouts
    before,    \* their order on it
    left,      \* t->seconds, t->nseconds
    queue,     \* t->queue
    running,   \* the callback that is running, Loop or Other
    due, turn, turns   \* history

vars == <<clock, now, pending, before, left, queue, running, due, turn, turns>>

----------------------------------------------------------------------------

\* eloop_timespec_diff(t, u), for t not before u.
eloop_timespec_diff(t, u) ==
    LET secs == t.sec - u.sec
        nsecs == t.nsec - u.nsec
    IN IF nsecs >= 0 THEN [sec |-> secs, nsec |-> nsecs]
       ELSE IF secs = 0 THEN Zero
            ELSE [sec |-> secs - 1, nsec |-> nsecs + NSEC_PER_SEC]

\* Wrong: does not borrow from the seconds.
BugNoBorrow(l, d) ==
    IF d.sec > l.sec THEN Zero
    ELSE [sec |-> l.sec - d.sec, nsec |-> l.nsec - d.nsec]

\* Wrong: drops the fraction of a second that has passed.
BugWholeSeconds(l, d) ==
    IF d.sec > l.sec THEN Zero ELSE [sec |-> l.sec - d.sec, nsec |-> l.nsec]

\* eloop_reduce_timers for one timeout with l left, when d has passed.
reduced(l, d) ==
    IF d.sec > l.sec THEN Zero
    ELSE LET secs == l.sec - d.sec
         IN IF d.nsec <= l.nsec THEN [sec |-> secs, nsec |-> l.nsec - d.nsec]
            ELSE IF secs = 0 THEN Zero
                 ELSE [sec |-> secs - 1,
                       nsec |-> NSEC_PER_SEC - (d.nsec - l.nsec)]

\* eloop_reduce_timers: the new eloop->now is the clock.
eloop_reduce_timers(ids) ==
    [x \in Timeout |->
        IF x \in ids THEN reduced(left[x], eloop_timespec_diff(clock, now))
        ELSE left[x]]

\* The list without some timeouts.
Unlinked(ids) == {p \in before : p[1] \notin ids /\ p[2] \notin ids}

\* Wrong: goes before a timeout that is due at the same time.
BugInsertsEarly(x, d, ids, lefts) ==
    LET after == {y \in ids : \E f \in ids :
                     ~Less(lefts[f], d) /\ (f = y \/ <<f, y>> \in before)}
    IN Unlinked({x}) \cup {<<x, y>> : y \in after}
                     \cup {<<y, x>> : y \in ids \ after}

\* TAILQ_INSERT_BEFORE the first of ids with more than d left, else at the tail.
Insert(x, d, ids, lefts) ==
    LET after == {y \in ids : \E f \in ids :
                     Less(d, lefts[f]) /\ (f = y \/ <<f, y>> \in before)}
    IN Unlinked({x}) \cup {<<x, y>> : y \in after}
                     \cup {<<y, x>> : y \in ids \ after}

TAILQ_FIRST(x) == x \in pending /\ \A y \in pending \ {x} : <<x, y>> \in before

----------------------------------------------------------------------------

Init ==
    /\ clock = Zero /\ now = Zero /\ pending = {} /\ before = {}
    /\ left = [x \in Timeout |-> Zero] /\ due = left
    /\ queue = [x \in Timeout |-> CHOOSE q \in Queue : TRUE]
    /\ turn = [x \in Timeout |-> 0] /\ turns = 0
    /\ running = Other   \* main sets timeouts before it calls eloop_start

Tick ==
    /\ clock' \in [sec : 0..MaxSec, nsec : 0..(NSEC_PER_SEC - 1)]
    /\ Less(clock, clock')
    /\ UNCHANGED <<now, pending, before, left, queue, running, due, turn, turns>>

\* A callback, or main, adds a timeout; one that is pending is moved.
eloop_q_timeout_add(x, d, q) ==
    LET rest == pending \ {x}
        lefts == eloop_reduce_timers(rest)
    IN /\ running # Loop /\ turns < MaxAdds /\ Plus(clock, d).sec <= MaxSec
       /\ now' = clock
       /\ pending' = pending \cup {x}
       /\ left' = [lefts EXCEPT ![x] = d]
       /\ queue' = [queue EXCEPT ![x] = q]
       /\ before' = Insert(x, d, rest, lefts)
       /\ due' = [due EXCEPT ![x] = Plus(clock, d)]
       /\ turn' = [turn EXCEPT ![x] = turns] /\ turns' = turns + 1
       /\ UNCHANGED <<clock, running>>

\* One timeout, or (callback NULL) every one with the same argument, of a
\* queue or (0) of every queue.
eloop_q_timeout_delete(x, all, q) ==
    LET gone == {y \in pending : /\ q = 0 \/ queue[y] = q
                                 /\ y = x \/ (all /\ ArgOf[y] = ArgOf[x])}
    IN /\ running # Loop
       /\ pending' = pending \ gone /\ before' = Unlinked(gone)
       /\ UNCHANGED <<clock, now, left, queue, running, due, turn, turns>>

\* Wrong: calls back when only the nanoseconds are left.
BugCallsEarly(x) ==
    /\ running = Loop /\ TAILQ_FIRST(x)
    /\ left' = eloop_reduce_timers(pending) /\ left'[x].sec = 0
    /\ now' = clock
    /\ pending' = pending \ {x} /\ before' = Unlinked({x}) /\ running' = x
    /\ UNCHANGED <<clock, queue, due, turn, turns>>

\* eloop_start: the head of the list has nothing left and is called back.
Call(x) ==
    /\ running = Loop /\ TAILQ_FIRST(x)
    /\ left' = eloop_reduce_timers(pending) /\ left'[x] = Zero
    /\ now' = clock
    /\ pending' = pending \ {x} /\ before' = Unlinked({x}) /\ running' = x
    /\ UNCHANGED <<clock, queue, due, turn, turns>>

\* eloop_start: nothing is due, so wait in ppoll, until a descriptor is ready
\* (its callback runs) or not.
Poll ==
    /\ running = Loop /\ running' \in {Loop, Other}
    /\ \/ pending = {} /\ UNCHANGED <<now, left>>
       \/ /\ now' = clock /\ left' = eloop_reduce_timers(pending)
          /\ \E x \in pending : TAILQ_FIRST(x) /\ left'[x] # Zero
    /\ UNCHANGED <<clock, pending, before, queue, due, turn, turns>>

\* eloop_start: a signal is handled before any timeout.
Signal ==
    /\ running = Loop /\ running' = Other
    /\ UNCHANGED <<clock, now, pending, before, left, queue, due, turn, turns>>

Return ==
    /\ running # Loop /\ running' = Loop
    /\ UNCHANGED <<clock, now, pending, before, left, queue, due, turn, turns>>

Next ==
    \/ Tick \/ Poll \/ Signal \/ Return
    \/ \E x \in Timeout :
          \/ Call(x)
          \/ \E d \in Delays, q \in Queue : eloop_q_timeout_add(x, d, q)
          \/ \E all \in BOOLEAN, q \in Queue \cup {0} :
                eloop_q_timeout_delete(x, all, q)

Spec == Init /\ [][Next]_vars

\* Time passes and callbacks return.  Signals are blocked outside ppoll, so
\* they do not come at every turn of the loop.
Fairness ==
    WF_vars(Tick) /\ WF_vars(Return) /\ SF_vars(\E x \in Timeout : Call(x))

FairSpec == Spec /\ Fairness

----------------------------------------------------------------------------

\* Type invariant of the loop.
TypeOK ==
    /\ clock \in Timespec /\ now \in Timespec
    /\ pending \subseteq Timeout /\ before \subseteq pending \X pending
    /\ left \in [Timeout -> Timespec] /\ due \in [Timeout -> Timespec]
    /\ queue \in [Timeout -> Queue] /\ running \in Timeout \cup {Loop, Other}
    /\ turn \in [Timeout -> Nat] /\ turns \in Nat

A == INSTANCE TimerQueue

\* The list of eloop_q_timeout_add is "in chronological order, soonest first"
\* at all times, by deadlines nobody stores and through every reduction: those
\* that fall due together keep the order they were added in.
Chronological ==
    \A x, y \in pending : x # y => (<<x, y>> \in before <=> A!Sooner(x, y))

\* What a timeout has left is exactly the time from eloop->now to its deadline:
\* however often and in whatever fractions of a second eloop_reduce_timers
\* charges it, it loses and gains nothing.
NoDrift ==
    ~Less(clock, now) /\ \A x \in pending : left[x] = Until(now, due[x])

\* The loop implements TimerQueue: it calls back in order of deadlines, in order
\* of insertion for equal ones, never early and once.
ImplementsTimerQueue == A!QSpec

\* Every timeout is called back unless it is deleted: no amount of shorter
\* timeouts keeps eloop_start from it.
EveryTimeoutCalled == \A x \in Timeout : x \in pending ~> x \notin pending

\* Relative timeouts keep time: however often eloop_reduce_timers is called, each has
\* exactly the time to its deadline left, and the list is in the order of deadlines.
TimersKeepTime == NoDrift /\ Chronological
=============================================================================
