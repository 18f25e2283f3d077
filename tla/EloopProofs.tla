---------------------------- MODULE EloopProofs ----------------------------
(***************************************************************************)
(* Proofs about the timeouts of the event loop, for any timeouts, delays   *)
(* and length of the second.  The loop implements TimerQueue because what  *)
(* a timeout has left is always the time from eloop->now to its deadline   *)
(* (NoDrift), so that the comparison eloop_q_timeout_add makes between     *)
(* remaining times is one between deadlines.                               *)
(***************************************************************************)
EXTENDS Eloop, TLAPS

----------------------------------------------------------------------------
(* Arithmetic of seconds and nanoseconds. *)

\* Points in time are totally ordered by Less.
LEMMA LessOrder ==
    ASSUME NEW a \in Timespec, NEW b \in Timespec, NEW c \in Timespec
    PROVE  /\ ~Less(a, a)
           /\ Less(a, b) => ~Less(b, a)
           /\ Less(a, b) /\ Less(b, c) => Less(a, c)
           /\ Less(a, b) \/ a = b \/ Less(b, a)
BY NsecAssumption DEF Timespec, Less

\* A point and a span make a point, and two points a span.
LEMMA TimespecClosed ==
    ASSUME NEW a \in Timespec, NEW b \in Timespec
    PROVE  Plus(a, b) \in Timespec /\ Until(a, b) \in Timespec
<1>1. Plus(a, b) \in Timespec   BY NsecAssumption DEF Timespec, Plus
<1>2. Until(a, b) \in Timespec   BY NsecAssumption DEF Timespec, Until, Less, Zero
<1> QED  BY <1>1, <1>2

\* A delay counts from the moment it is set.
LEMMA UntilPlus ==
    ASSUME NEW a \in Timespec, NEW d \in Timespec
    PROVE  Until(a, Plus(a, d)) = d /\ ~Less(Plus(a, d), a)
BY NsecAssumption DEF Timespec, Plus, Until, Less, Zero

\* Comparing a delay with what is left compares the deadlines.
LEMMA LessUntil ==
    ASSUME NEW a \in Timespec, NEW d \in Timespec, NEW u \in Timespec
    PROVE  Less(d, Until(a, u)) <=> Less(Plus(a, d), u)
BY NsecAssumption DEF Timespec, Plus, Until, Less, Zero

\* Nothing is left exactly when the deadline has passed.
LEMMA UntilZero ==
    ASSUME NEW a \in Timespec, NEW u \in Timespec
    PROVE  Until(a, u) = Zero <=> ~Less(a, u)
BY NsecAssumption DEF Timespec, Until, Less, Zero

\* eloop_reduce_timers moves the origin from eloop->now to the clock.
LEMMA ReducedUntil ==
    ASSUME NEW a \in Timespec, NEW b \in Timespec, NEW u \in Timespec,
           ~Less(b, a)
    PROVE  reduced(Until(a, u), eloop_timespec_diff(b, a)) = Until(b, u)
<1> DEFINE l == Until(a, u)
           d == eloop_timespec_diff(b, a)
<1>1. d = IF b.nsec >= a.nsec
          THEN [sec |-> b.sec - a.sec, nsec |-> b.nsec - a.nsec]
          ELSE [sec |-> b.sec - a.sec - 1,
                nsec |-> b.nsec - a.nsec + NSEC_PER_SEC]
  BY NsecAssumption DEF Timespec, Less, Zero, eloop_timespec_diff
<1>2. /\ a.sec \in Nat /\ b.sec \in Nat /\ u.sec \in Nat
      /\ a.nsec \in Nat /\ b.nsec \in Nat /\ u.nsec \in Nat
      /\ a.nsec < NSEC_PER_SEC /\ b.nsec < NSEC_PER_SEC /\ u.nsec < NSEC_PER_SEC
  BY NsecAssumption DEF Timespec
<1>3. b.sec >= a.sec /\ (b.nsec < a.nsec => b.sec > a.sec)
  BY <1>2 DEF Less
<1> HIDE DEF d
<1>4. CASE Less(u, a)
  <2>1. l = Zero /\ Until(b, u) = Zero   BY <1>2, <1>4 DEF Until, Less
  <2>2. reduced(Zero, d) = Zero
    BY <1>1, <1>2, <1>3, NsecAssumption DEF reduced, Zero
  <2> QED  BY <2>1, <2>2 DEF d
<1>5. CASE ~Less(u, a) /\ u.nsec < a.nsec
  <2>1. l = [sec |-> u.sec - a.sec - 1,
             nsec |-> u.nsec - a.nsec + NSEC_PER_SEC]
    BY <1>5 DEF Until
  <2> HIDE DEF l
  <2>2. CASE b.nsec >= a.nsec
    BY <1>1, <1>2, <1>5, <2>1, <2>2, NsecAssumption
       DEF reduced, Until, Less, Zero, l, d
  <2>3. CASE b.nsec < a.nsec
    BY <1>1, <1>2, <1>3, <1>5, <2>1, <2>3, NsecAssumption
       DEF reduced, Until, Less, Zero, l, d
  <2> QED  BY <1>2, <2>2, <2>3
<1>6. CASE ~Less(u, a) /\ u.nsec >= a.nsec
  <2>1. l = [sec |-> u.sec - a.sec, nsec |-> u.nsec - a.nsec]
    BY <1>2, <1>6 DEF Until
  <2> HIDE DEF l
  <2>2. CASE b.nsec >= a.nsec
    BY <1>1, <1>2, <1>6, <2>1, <2>2, NsecAssumption
       DEF reduced, Until, Less, Zero, l, d
  <2>3. CASE b.nsec < a.nsec
    BY <1>1, <1>2, <1>3, <1>6, <2>1, <2>3, NsecAssumption
       DEF reduced, Until, Less, Zero, l, d
  <2> QED  BY <1>2, <2>2, <2>3
<1> QED  BY <1>2, <1>4, <1>5, <1>6

----------------------------------------------------------------------------
(* The inductive invariant. *)

\* Later additions have later turns.
Turns == \A x \in pending : turn[x] < turns

Inv == TypeOK /\ NoDrift /\ Chronological /\ Turns

\* TimerQueue compares times as the loop does.
LEMMA SameLess ==
    ASSUME NEW a, NEW b
    PROVE  A!Less(a, b) <=> Less(a, b)
BY DEF A!Less, Less

\* After a reduction, what is left counts from the clock.
LEMMA Reduction ==
    ASSUME TypeOK, NoDrift, NEW ids \in SUBSET pending
    PROVE  /\ eloop_reduce_timers(ids) \in [Timeout -> Timespec]
           /\ \A x \in ids : eloop_reduce_timers(ids)[x] = Until(clock, due[x])
<1>1. \A x \in ids : reduced(left[x], eloop_timespec_diff(clock, now)) =
                     Until(clock, due[x])
  BY ReducedUntil DEF TypeOK, NoDrift
<1>2. \A x \in ids : Until(clock, due[x]) \in Timespec
  BY TimespecClosed DEF TypeOK
<1> QED  BY <1>1, <1>2 DEF TypeOK, eloop_reduce_timers

\* The clock moves on: what is left still counts from eloop->now.
LEMMA TickInv ==
    ASSUME Inv, Tick
    PROVE  Inv'
<1>1. clock' \in Timespec   BY NsecAssumption, EloopAssumption DEF Tick, Timespec
<1>2. TypeOK'   BY <1>1 DEF Inv, TypeOK, Tick
<1>3. NoDrift'
  BY <1>1, LessOrder DEF Inv, TypeOK, NoDrift, Tick
<1>4. Chronological' /\ Turns'
  BY DEF Inv, Tick, Chronological, Turns, A!Sooner
<1> QED  BY <1>2, <1>3, <1>4 DEF Inv

\* The list stays in order when a timeout is added or moved.
LEMMA AddInv ==
    ASSUME Inv, NEW x \in Timeout, NEW d \in Delays, NEW q \in Queue,
           eloop_q_timeout_add(x, d, q)
    PROVE  Inv'
<1> DEFINE rest == pending \ {x}
           lefts == eloop_reduce_timers(rest)
           p == Plus(clock, d)
           after == {y \in rest : \E f \in rest :
                        Less(d, lefts[f]) /\ (f = y \/ <<f, y>> \in before)}
<1>1. d \in Timespec /\ p \in Timespec
  BY TimespecClosed, EloopAssumption DEF Inv, TypeOK
<1>2. /\ now' = clock /\ clock' = clock /\ pending' = rest \cup {x}
      /\ left' = [lefts EXCEPT ![x] = d] /\ due' = [due EXCEPT ![x] = p]
      /\ turn' = [turn EXCEPT ![x] = turns] /\ turns' = turns + 1
      /\ queue' = [queue EXCEPT ![x] = q] /\ running' = running
      /\ before' = Insert(x, d, rest, lefts)
  BY DEF eloop_q_timeout_add
<1>3. /\ lefts \in [Timeout -> Timespec]
      /\ \A y \in rest : lefts[y] = Until(clock, due[y])
  BY Reduction DEF Inv
<1>4. \A y \in rest : Less(d, lefts[y]) <=> Less(p, due[y])
  <2> HIDE DEF lefts
  <2> SUFFICES ASSUME NEW y \in rest
               PROVE  Less(d, lefts[y]) <=> Less(p, due[y])
    OBVIOUS
  <2>1. clock \in Timespec /\ due[y] \in Timespec   BY DEF Inv, TypeOK
  <2>2. lefts[y] = Until(clock, due[y])   BY <1>3
  <2> QED  BY <1>1, <2>1, <2>2, LessUntil
<1>5. before' = Unlinked({x}) \cup {<<x, y>> : y \in after}
                              \cup {<<y, x>> : y \in rest \ after}
  <2>1. Insert(x, d, rest, lefts) =
          Unlinked({x}) \cup {<<x, y>> : y \in after}
                        \cup {<<y, x>> : y \in rest \ after}
    BY DEF Insert
  <2> QED  BY <1>2, <2>1
<1> HIDE DEF lefts, p
<1>6. \A y \in rest : y \in after <=> Less(p, due[y])
  <2> SUFFICES ASSUME NEW y \in rest PROVE y \in after <=> Less(p, due[y])
    OBVIOUS
  <2>1. ASSUME NEW f \in rest, Less(p, due[f]), <<f, y>> \in before
        PROVE  Less(p, due[y])
    <3>1. CASE f = y   BY <2>1, <3>1
    <3>2. CASE f # y
      <4>1. Less(due[f], due[y]) \/ due[f] = due[y]
        BY <2>1, <3>2, SameLess DEF Inv, Chronological, A!Sooner
      <4>2. due[f] \in Timespec /\ due[y] \in Timespec   BY DEF Inv, TypeOK
      <4> QED  BY <1>1, <2>1, <4>1, <4>2, LessOrder
    <3> QED  BY <3>1, <3>2
  <2>2. Less(p, due[y]) => y \in after   BY <1>4
  <2>3. y \in after => Less(p, due[y])   BY <1>4, <2>1
  <2> QED  BY <2>2, <2>3
<1> HIDE DEF after
<1>7. after \subseteq rest   BY DEF after
<1>8. TypeOK'
  <2>1. before' \subseteq pending' \X pending'
    <3>1. Unlinked({x}) \subseteq rest \X rest   BY DEF Inv, TypeOK, Unlinked
    <3>2. {<<x, y>> : y \in after} \subseteq pending' \X pending'   BY <1>2, <1>7
    <3>3. {<<y, x>> : y \in rest \ after} \subseteq pending' \X pending'
      BY <1>2
    <3>4. rest \X rest \subseteq pending' \X pending'   BY <1>2
    <3> QED  BY <1>5, <3>1, <3>2, <3>3, <3>4
  <2>2. left' \in [Timeout -> Timespec] /\ due' \in [Timeout -> Timespec]
    BY <1>1, <1>2, <1>3 DEF Inv, TypeOK
  <2>3. turn' \in [Timeout -> Nat] /\ turns' \in Nat /\ queue' \in [Timeout -> Queue]
    BY <1>2 DEF Inv, TypeOK
  <2> QED  BY <1>2, <2>1, <2>2, <2>3 DEF Inv, TypeOK
<1>9. NoDrift'
  <2>1. ~Less(clock', now')   BY <1>2, LessOrder DEF Inv, TypeOK
  <2>2. \A y \in rest : left'[y] = Until(now', due'[y])
    BY <1>2, <1>3 DEF Inv, TypeOK
  <2>3. left'[x] = Until(now', due'[x])
    BY <1>1, <1>2, <1>3, UntilPlus DEF Inv, TypeOK, p
  <2> QED  BY <1>2, <2>1, <2>2, <2>3 DEF NoDrift
<1>10. Turns'   BY <1>2 DEF Inv, TypeOK, Turns
<1>11. Chronological'
  <2>1. \A y \in rest : /\ due'[y] = due[y] /\ turn'[y] = turn[y]
                        /\ due[y] \in Timespec /\ turn[y] < turns /\ y # x
    BY <1>2 DEF Inv, TypeOK, Turns
  <2>2. due'[x] = p /\ turn'[x] = turns /\ turns \in Nat
    BY <1>2 DEF Inv, TypeOK
  <2>3. \A y, z \in rest : y # z => (<<y, z>> \in before' <=> A!Sooner(y, z)')
    BY <1>5, <2>1 DEF Inv, Chronological, Unlinked, A!Sooner
  <2>4. \A y \in rest : <<x, y>> \in before' <=> A!Sooner(x, y)'
    <3> SUFFICES ASSUME NEW y \in rest
                 PROVE  <<x, y>> \in before' <=> A!Sooner(x, y)'
      OBVIOUS
    <3>1. <<x, y>> \in before' <=> Less(p, due[y])
      BY <1>5, <1>6, <1>7, <2>1 DEF Unlinked
    <3>2. ~(turns < turn[y])   BY <2>1, <2>2 DEF Inv, TypeOK
    <3> QED  BY <2>1, <2>2, <3>1, <3>2, SameLess DEF A!Sooner
  <2>5. \A y \in rest : <<y, x>> \in before' <=> A!Sooner(y, x)'
    <3> SUFFICES ASSUME NEW y \in rest
                 PROVE  <<y, x>> \in before' <=> A!Sooner(y, x)'
      OBVIOUS
    <3>1. <<y, x>> \in before' <=> ~Less(p, due[y])
      BY <1>5, <1>6, <1>7, <2>1 DEF Unlinked
    <3>2. ~Less(p, due[y]) <=> Less(due[y], p) \/ due[y] = p
      BY <1>1, <2>1, LessOrder
    <3> QED  BY <2>1, <2>2, <3>1, <3>2, SameLess DEF A!Sooner
  <2> QED  BY <1>2, <2>3, <2>4, <2>5 DEF Chronological
<1> QED  BY <1>8, <1>9, <1>10, <1>11 DEF Inv

\* Taking timeouts off the list leaves the others in order.
LEMMA Removal ==
    ASSUME Inv, NEW gone \in SUBSET pending,
           pending' = pending \ gone, before' = Unlinked(gone),
           UNCHANGED <<due, turn, turns>>
    PROVE  /\ pending' \subseteq Timeout /\ before' \subseteq pending' \X pending'
           /\ Chronological' /\ Turns'
<1>1. pending' \subseteq Timeout   BY DEF Inv, TypeOK
<1>2. before' \subseteq pending' \X pending'   BY DEF Inv, TypeOK, Unlinked
<1>3. \A x, y \in pending' : <<x, y>> \in before' <=> <<x, y>> \in before
  BY DEF Unlinked
<1>4. Chronological'   BY <1>3 DEF Inv, Chronological, A!Sooner
<1>5. Turns'   BY DEF Inv, Turns
<1> QED  BY <1>1, <1>2, <1>4, <1>5

\* eloop_q_timeout_delete keeps the invariant.
LEMMA DeleteInv ==
    ASSUME Inv, NEW x \in Timeout, NEW all \in BOOLEAN, NEW q \in Queue \cup {0},
           eloop_q_timeout_delete(x, all, q)
    PROVE  Inv'
<1> DEFINE gone == {y \in pending : /\ q = 0 \/ queue[y] = q
                                    /\ y = x \/ (all /\ ArgOf[y] = ArgOf[x])}
<1>1. /\ pending' = pending \ gone /\ before' = Unlinked(gone)
      /\ UNCHANGED <<clock, now, left, queue, running, due, turn, turns>>
  BY DEF eloop_q_timeout_delete
<1>2. gone \in SUBSET pending   OBVIOUS
<1> HIDE DEF gone
<1>3. /\ pending' \subseteq Timeout /\ before' \subseteq pending' \X pending'
      /\ Chronological' /\ Turns'
  BY <1>1, <1>2, Removal
<1>4. TypeOK'   BY <1>1, <1>3 DEF Inv, TypeOK
<1>5. NoDrift'   BY <1>1 DEF Inv, NoDrift
<1> QED  BY <1>3, <1>4, <1>5 DEF Inv

\* A reduction of the whole list keeps NoDrift for what stays on it.
LEMMA ReductionInv ==
    ASSUME Inv, now' = clock, left' = eloop_reduce_timers(pending),
           pending' \subseteq pending, UNCHANGED <<clock, due>>
    PROVE  left' \in [Timeout -> Timespec] /\ NoDrift'
<1>1. /\ left' \in [Timeout -> Timespec]
      /\ \A x \in pending : left'[x] = Until(clock, due[x])
  BY Reduction DEF Inv
<1>2. ~Less(clock, clock)   BY LessOrder DEF Inv, TypeOK
<1> QED  BY <1>1, <1>2 DEF NoDrift

\* eloop_start keeps the invariant when it calls back.
LEMMA CallInv ==
    ASSUME Inv, NEW x \in Timeout, Call(x)
    PROVE  Inv'
<1>1. {x} \in SUBSET pending   BY DEF Call, TAILQ_FIRST
<1>2. /\ pending' \subseteq Timeout /\ before' \subseteq pending' \X pending'
      /\ Chronological' /\ Turns'
  BY <1>1, Removal DEF Call
<1>3. left' \in [Timeout -> Timespec] /\ NoDrift'   BY ReductionInv DEF Call
<1>4. TypeOK'   BY <1>2, <1>3 DEF Inv, TypeOK, Call
<1> QED  BY <1>2, <1>3, <1>4 DEF Inv

\* eloop_start keeps the invariant when it waits.
LEMMA PollInv ==
    ASSUME Inv, Poll
    PROVE  Inv'
<1>1. Chronological' /\ Turns'   BY DEF Inv, Poll, Chronological, Turns, A!Sooner
<1>2. CASE UNCHANGED <<now, left>>
  BY <1>1, <1>2 DEF Inv, TypeOK, NoDrift, Poll
<1>3. CASE now' = clock /\ left' = eloop_reduce_timers(pending)
  <2>1. left' \in [Timeout -> Timespec] /\ NoDrift'
    BY <1>3, ReductionInv DEF Poll
  <2>2. TypeOK'   BY <1>3, <2>1 DEF Inv, TypeOK, Poll
  <2> QED  BY <1>1, <2>1, <2>2 DEF Inv
<1> QED  BY <1>2, <1>3 DEF Poll

\* Every step keeps the invariant.
LEMMA NextInv ==
    ASSUME Inv, [Next]_vars
    PROVE  Inv'
<1>1. CASE Tick   BY <1>1, TickInv
<1>2. CASE Poll   BY <1>2, PollInv
<1>3. CASE Signal \/ Return \/ UNCHANGED vars
  BY <1>3 DEF Signal, Return, vars, Inv, TypeOK, NoDrift, Chronological, Turns,
              A!Sooner
<1>4. ASSUME NEW x \in Timeout, Call(x) PROVE Inv'   BY <1>4, CallInv
<1>5. ASSUME NEW x \in Timeout, NEW d \in Delays, NEW q \in Queue,
             eloop_q_timeout_add(x, d, q)
      PROVE  Inv'
  BY <1>5, AddInv
<1>6. ASSUME NEW x \in Timeout, NEW all \in BOOLEAN, NEW q \in Queue \cup {0},
             eloop_q_timeout_delete(x, all, q)
      PROVE  Inv'
  BY <1>6, DeleteInv
<1> QED  BY <1>1, <1>2, <1>3, <1>4, <1>5, <1>6 DEF Next

\* The loop starts with an empty list.
LEMMA InitInv == Init => Inv
<1> SUFFICES ASSUME Init PROVE Inv   OBVIOUS
<1>1. Zero \in Timespec   BY NsecAssumption DEF Timespec, Zero
<1>2. (CHOOSE q \in Queue : TRUE) \in Queue   BY EloopAssumption
<1>3. TypeOK   BY <1>1, <1>2 DEF Init, TypeOK
<1>4. NoDrift   BY <1>1, LessOrder DEF Init, NoDrift
<1>5. Chronological /\ Turns   BY DEF Init, Chronological, Turns
<1> QED  BY <1>3, <1>4, <1>5 DEF Inv

\* So the invariant always holds.
LEMMA SpecInv == Spec => []Inv
<1>1. Inv /\ [Next]_vars => Inv'   BY NextInv
<1> QED  BY <1>1, InitInv, PTL DEF Spec

\* What eloop_reduce_timers leaves of a timeout is exactly the time to its
\* deadline, for any delays, clock readings and length of the second.
THEOREM TimersDoNotDrift == Spec => []NoDrift
<1>1. Inv => NoDrift   BY DEF Inv
<1> QED  BY <1>1, SpecInv, PTL

\* eloop->timeouts is always in order of deadlines, ties in order of insertion,
\* although eloop_q_timeout_add only ever compares what is left.
THEOREM TimersAreChronological == Spec => []Chronological
<1>1. Inv => Chronological   BY DEF Inv
<1> QED  BY <1>1, SpecInv, PTL

\* Timeouts are relative and reduced at every wake-up, and still keep time: for every
\* number of timeouts, resolution and delay (eloop_reduce_timers, eloop_q_timeout_add).
THEOREM TimersAlwaysKeepTime == Spec => []TimersKeepTime
<1>1. NoDrift /\ Chronological => TimersKeepTime   BY DEF TimersKeepTime
<1> QED  BY <1>1, TimersDoNotDrift, TimersAreChronological, PTL

----------------------------------------------------------------------------
(* Refinement of TimerQueue. *)

\* TimerQueue reckons time as the loop does.
LEMMA SameTimes ==
    /\ A!Timespec = Timespec /\ A!Zero = Zero
    /\ \A a, d : A!Plus(a, d) = Plus(a, d)
BY DEF A!Timespec, Timespec, A!Zero, Zero, A!Plus, Plus

\* The callback eloop_start makes is the one TimerQueue asks for: the head of
\* the list is the soonest, and has nothing left once it is due.
LEMMA CallRefines ==
    ASSUME Inv, NEW x \in Timeout, Call(x)
    PROVE  A!QCall(x)
<1>1. x \in pending /\ \A y \in pending \ {x} : A!Sooner(x, y)
  BY DEF Call, TAILQ_FIRST, Inv, Chronological
<1>2. left'[x] = Until(clock, due[x])   BY <1>1, Reduction DEF Call, Inv
<1>3. ~Less(clock, due[x])
  BY <1>1, <1>2, UntilZero DEF Call, Inv, TypeOK
<1> QED  BY <1>1, <1>3, SameLess DEF Call, A!QCall

\* Every step of the loop is a step of TimerQueue or leaves it unchanged.
LEMMA StepRefines ==
    ASSUME Inv, [Next]_vars
    PROVE  [A!QNext]_(A!qvars)
<1>1. CASE Tick
  <2>1. clock' \in Timespec
    BY <1>1, NsecAssumption, EloopAssumption DEF Tick, Timespec
  <2>2. A!QTick   BY <1>1, <2>1, SameTimes, SameLess DEF Tick, A!QTick
  <2> QED  BY <2>2 DEF A!QNext
<1>2. CASE Poll
  <2>1. A!QOther \/ UNCHANGED A!qvars   BY <1>2 DEF Poll, A!QOther, A!qvars
  <2> QED  BY <2>1 DEF A!QNext
<1>3. CASE Signal
  <2>1. A!QOther   BY <1>3 DEF Signal, A!QOther
  <2> QED  BY <2>1 DEF A!QNext
<1>4. CASE Return
  <2>1. A!QReturn   BY <1>4 DEF Return, A!QReturn
  <2> QED  BY <2>1 DEF A!QNext
<1>5. CASE UNCHANGED vars   BY <1>5 DEF vars, A!qvars
<1>6. ASSUME NEW x \in Timeout, Call(x) PROVE A!QNext
  BY <1>6, CallRefines DEF A!QNext
<1>7. ASSUME NEW x \in Timeout, NEW d \in Delays, NEW q \in Queue,
             eloop_q_timeout_add(x, d, q)
      PROVE  A!QNext
  <2>1. A!QSet(x, d)
    BY <1>7, SameTimes DEF eloop_q_timeout_add, A!QSet
  <2> QED  BY <2>1 DEF A!QNext
<1>8. ASSUME NEW x \in Timeout, NEW all \in BOOLEAN, NEW q \in Queue \cup {0},
             eloop_q_timeout_delete(x, all, q)
      PROVE  A!QNext
  <2>1. A!QDelete   BY <1>8 DEF eloop_q_timeout_delete, A!QDelete
  <2> QED  BY <2>1 DEF A!QNext
<1> QED  BY <1>1, <1>2, <1>3, <1>4, <1>5, <1>6, <1>7, <1>8 DEF Next

\* The event loop implements its promise: timeouts are called back in order of
\* their deadlines, those due together in order of insertion, never early, and
\* once for each time they are added.
THEOREM LoopImplementsTimerQueue == Spec => ImplementsTimerQueue
<1>1. Init => A!QInit   BY SameTimes DEF Init, A!QInit
<1>2. Inv /\ [Next]_vars => [A!QNext]_(A!qvars)   BY StepRefines
<1> QED  BY <1>1, <1>2, SpecInv, PTL DEF Spec, ImplementsTimerQueue, A!QSpec
=============================================================================
