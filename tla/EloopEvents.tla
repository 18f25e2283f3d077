---------------------------- MODULE EloopEvents ----------------------------
(***************************************************************************)
(* The other half of the event loop, src/src/eloop.c as it is built for    *)
(* Linux, with ppoll: descriptors and signals.                             *)
(*                                                                         *)
(* The events are a list the callbacks change while eloop_run_ppoll walks  *)
(* over it, and the array of descriptors is only made anew before the next *)
(* ppoll.  Signals are blocked outside ppoll and kept on a small stack     *)
(* until the loop comes round.  Timeouts are in Eloop.                     *)
(***************************************************************************)
EXTENDS Naturals, Sequences, FiniteSets, SequencesExt

CONSTANTS
    Fds, Sigs,
    ELOOP_NSIGNALS,   \* room on the stack of signals
    Interests,        \* what events are added for: ELE_READ is IN, ELE_WRITE is OUT
    Conditions,       \* states of a descriptor among IN, OUT and HUP
    MaxOps,           \* bound: calls of callbacks into eloop
    MaxNews,          \* bound: descriptors that become ready, and signals
    NoFd              \* -1

VARIABLE l

Init ==
    l = [pc |-> "main",          \* main() adds events before it calls eloop_start
         events |-> <<>>,        \* eloop->events: fd, what for, index of its pollfd or 0
         fds |-> <<>>,           \* eloop->fds: fd, events, revents
         nevents |-> 0,
         setup |-> FALSE,        \* events_need_setup
         cleared |-> FALSE, exitnow |-> FALSE,
         sigs |-> <<>>,          \* _eloop_sig
         at |-> 0,               \* events eloop_run_ppoll has still to look at
         nn |-> 0,               \* ... and how many of them are ready
         ready |-> [f \in Fds |-> {}],   \* the kernel: state of the descriptors
         blocked |-> {},                 \* ... and signals that are pending
         ops |-> 0, news |-> 0,
         sig |-> 0,              \* history: the signal that is handled
         called |-> {},          \* history: what was called in this walk
         lost |-> {}]            \* history: signals that were discarded

Registered == {n \in DOMAIN l.events : l.events[n].fd # NoFd}
Running == l.pc \in {"main", "signal", "event"}
----------------------------------------------------------------------------
(* What callbacks call                                                      *)

\* eloop_event_add: changes the event of the descriptor, or a new one goes to the
\* head of the list.  It has no pollfd until the next ppoll.
eloop_event_add(f, ev) ==
    LET old == {n \in Registered : l.events[n].fd = f}
        new == [fd |-> f, ev |-> ev, pfd |-> 0]
    IN  [l EXCEPT !.setup = TRUE,
                  !.nevents = IF old = {} THEN @ + 1 ELSE @,
                  !.events = IF old = {} THEN <<new>> \o @
                             ELSE [n \in DOMAIN @ |-> IF n \in old THEN new ELSE @[n]]]

\* Wrong: does not ask for the array to be made anew.
BugDelete(f) ==
    LET old == {n \in Registered : l.events[n].fd = f}
    IN  IF old = {} THEN l
        ELSE [l EXCEPT !.nevents = @ - 1,
                       !.events = [n \in DOMAIN @ |->
                           IF n \in old THEN [@[n] EXCEPT !.fd = NoFd] ELSE @[n]]]

\* eloop_event_delete: the event stays on the list, with its pollfd.
eloop_event_delete(f) ==
    LET old == {n \in Registered : l.events[n].fd = f}
    IN  IF old = {} THEN l
        ELSE [l EXCEPT !.setup = TRUE, !.nevents = @ - 1,
                       !.events = [n \in DOMAIN @ |->
                           IF n \in old THEN [@[n] EXCEPT !.fd = NoFd] ELSE @[n]]]

\* eloop_clear, in a process that was forked: all but some events are freed.
eloop_clear(keep) ==
    LET kept == SelectSeq(l.events, LAMBDA e : e.fd \in keep)
    IN  [l EXCEPT !.events = kept, !.nevents = Len(kept), !.fds = <<>>,
                  !.setup = TRUE, !.cleared = TRUE]

eloop_exit == [l EXCEPT !.exitnow = TRUE]

Op(t) == Running /\ l.ops < MaxOps /\ l' = [t EXCEPT !.ops = @ + 1]

\* A callback, or main(), returns.
Return ==
    /\ Running
    /\ l' = [l EXCEPT !.pc = IF l.pc = "event" THEN "walk" ELSE "loop",
                    !.sig = 0]
----------------------------------------------------------------------------
(* eloop_start                                                              *)

\* eloop_event_setup_fds: forgets the events that were deleted, and gives the others
\* their place in the array.
eloop_event_setup_fds ==
    LET left == SelectSeq(l.events, LAMBDA e : e.fd # NoFd)
    IN  IF ~l.setup THEN l
        ELSE [l EXCEPT !.setup = FALSE,
                       !.events = [n \in DOMAIN left |-> [left[n] EXCEPT !.pfd = n]],
                       !.fds = [n \in DOMAIN left |->
                                  [fd |-> left[n].fd, ev |-> left[n].ev, revents |-> {}]]]

\* eloop_signal3: a signal handler, called for each signal that ppoll lets through.
eloop_signal3(t, sig) ==
    IF Len(t.sigs) = ELOOP_NSIGNALS THEN [t EXCEPT !.lost = @ \cup {sig}]
    ELSE [t EXCEPT !.sigs = Append(@, sig)]

\* The loop ends when it is told to, or (with no timeout) when nothing is registered.
End ==
    /\ l.pc = "loop" /\ (l.exitnow \/ (l.sigs = <<>> /\ l.nevents = 0))
    /\ l' = [l EXCEPT !.pc = "end"]

\* Wrong: only the last signal is handled.
BugSignal ==
    /\ l.pc = "loop" /\ ~l.exitnow /\ l.sigs # <<>>
    /\ l' = [l EXCEPT !.pc = "signal", !.sigs = <<>>, !.sig = Last(l.sigs)]

\* The loop calls back for the signal that came last.
Signal ==
    /\ l.pc = "loop" /\ ~l.exitnow /\ l.sigs # <<>>
    /\ l' = [l EXCEPT !.pc = "signal", !.sigs = Front(@), !.sig = Last(l.sigs)]

\* eloop_run_ppoll: ppoll looks at the first nevents of the array.  When none is ready
\* it lets the signals through; otherwise the walk begins.
Poll ==
    LET t == eloop_event_setup_fds
        Revents(p) == l.ready[p.fd] \cap (p.ev \cup {"HUP"})
        fds == [n \in DOMAIN t.fds |->
                  [t.fds[n] EXCEPT !.revents = IF n <= t.nevents THEN Revents(t.fds[n])
                                               ELSE @]]
        n == Cardinality({i \in DOMAIN fds : i <= t.nevents /\ fds[i].revents # {}})
    IN  /\ l.pc = "loop" /\ ~l.exitnow /\ l.sigs = <<>>
        /\ \/ /\ n > 0
              /\ l' = [t EXCEPT !.pc = "walk", !.fds = fds, !.nn = n, !.cleared = FALSE,
                                !.at = Len(t.events), !.called = {}]
           \/ /\ n = 0 /\ l.blocked # {}
              /\ \E order \in SetToSeqs(l.blocked) :
                    l' = [FoldLeft(eloop_signal3, t, order)
                             EXCEPT !.blocked = {}, !.fds = fds, !.cleared = FALSE]

\* Where the walk is: new events only ever come before it.
Here == l.events[Len(l.events) + 1 - l.at]
Over == l.at = 0 \/ l.nn = 0 \/ l.cleared \/ l.exitnow

\* Wrong: counts events that are not ready.
BugWalk ==
    /\ l.pc = "walk"
    /\ IF Over THEN l' = [l EXCEPT !.pc = "loop"]
       ELSE IF Here.pfd = 0 \/ l.fds[Here.pfd].revents = {}
       THEN l' = [l EXCEPT !.at = @ - 1, !.nn = @ - 1]
       ELSE l' = [l EXCEPT !.at = @ - 1, !.nn = @ - 1, !.pc = "event",
                           !.called = @ \cup {Here.pfd},
                           !.ready[l.fds[Here.pfd].fd] = @ \ l.fds[Here.pfd].revents]

\* eloop_run_ppoll, one event of the list: an event that has come meanwhile is
\* skipped, one that was deleted is not.  The callback reads, writes or closes.
Walk ==
    /\ l.pc = "walk"
    /\ IF Over THEN l' = [l EXCEPT !.pc = "loop"]
       ELSE IF Here.pfd = 0 \/ l.fds[Here.pfd].revents = {} THEN l' = [l EXCEPT !.at = @ - 1]
       ELSE l' = [l EXCEPT !.at = @ - 1, !.nn = @ - 1, !.pc = "event",
                           !.called = @ \cup {Here.pfd},
                           !.ready[l.fds[Here.pfd].fd] = @ \ l.fds[Here.pfd].revents]
----------------------------------------------------------------------------
(* The kernel                                                               *)

BecomesReady(f, what) ==
    /\ l.news < MaxNews /\ what \notin l.ready[f]
    /\ l' = [l EXCEPT !.ready[f] = @ \cup {what}, !.news = @ + 1]

Kill(sig) ==
    /\ l.news < MaxNews /\ sig \notin l.blocked
    /\ l' = [l EXCEPT !.blocked = @ \cup {sig}, !.news = @ + 1]

Next ==
    \/ End \/ Signal \/ Poll \/ Walk \/ Return
    \/ \E f \in Fds : \/ \E ev \in Interests : Op(eloop_event_add(f, ev))
                      \/ Op(eloop_event_delete(f))
                      \/ \E what \in Conditions : BecomesReady(f, what)
    \/ \E keep \in {{}} \cup {{f} : f \in Fds} : Op(eloop_clear(keep))
    \/ Op(eloop_exit)
    \/ \E sig \in Sigs : Kill(sig)

Spec == Init /\ [][Next]_l
----------------------------------------------------------------------------
(* Properties                                                               *)

\* What ppoll is given, and what it says, is about the events that are registered:
\* unless the array is to be made anew, its entries are those of the list one by one,
\* and an event never refers to the entry of another descriptor (eloop_event_add,
\* eloop_event_delete, eloop_clear, eloop_event_setup_fds).
PollsWhatIsRegistered ==
    /\ ~l.setup => /\ l.nevents = Len(l.fds)
                   /\ {[fd |-> e.fd, ev |-> e.ev] : e \in ToSet(l.events)} =
                      {[fd |-> p.fd, ev |-> p.ev] : p \in ToSet(l.fds)}
    /\ ~l.cleared => \A e \in ToSet(l.events) :
                         e.pfd # 0 => l.fds[e.pfd].fd = e.fd \/ (e.fd = NoFd /\ l.setup)

\* When the walk of eloop_run_ppoll is over, every event that was ready has been called
\* back, unless it was changed meanwhile: counting down the ready ones never ends the
\* walk too early, however the callbacks change the list.
NoneSkipped ==
    l.pc = "loop" /\ ~l.exitnow /\ ~l.cleared => \A e \in ToSet(l.events) :
        e.pfd # 0 /\ l.fds[e.pfd].revents # {} => e.pfd \in l.called

\* A signal is handled, unless the loop ends or so many come in one ppoll that it is
\* discarded: the descriptors cannot keep it waiting for ever.
SignalIsHandled(sig) ==
    sig \in l.blocked \cup ToSet(l.sigs) ~>
    l.pc = "end" \/ sig \in l.lost \/ (l.pc = "signal" /\ l.sig = sig)

\* Whatever the callbacks of the walk add, delete and clear, ppoll is asked about what
\* is registered, and what it finds ready is called back.  (SignalIsHandled above is of
\* the same loop.)
EventsAreServed == PollsWhatIsRegistered /\ NoneSkipped
=============================================================================
