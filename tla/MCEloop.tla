------------------------------ MODULE MCEloop ------------------------------
(***************************************************************************)
(* Instances of Eloop and EloopEvents for TLC, one or the other from the   *)
(* start: two timeouts that share their argument, on two queues, and       *)
(* seconds of two nanoseconds; two descriptors, and more signals than      *)
(* there is room for.                                                      *)
(***************************************************************************)
EXTENDS Eloop, TLC

CONSTANTS x1, x2, a1, Fds, Sigs, ELOOP_NSIGNALS, Conditions, MaxOps, MaxNews, NoFd

VARIABLES part, l

E == INSTANCE EloopEvents WITH Interests <- {{"IN"}, {"IN", "OUT"}}

TwoTimeouts == {x1, x2}
SharedArg == x1 :> a1 @@ x2 :> a1
TwoQueues == {1, 2}
Span(s, n) == [sec |-> s, nsec |-> n]
FewDelays == {Zero, Span(0, 1), Span(1, 0)}

MCInit == Init /\ E!Init /\ part \in {"timeouts", "events"}
Timeouts(A1) == part = "timeouts" /\ A1 /\ UNCHANGED <<part, l>>
Events(A1) == part = "events" /\ A1 /\ UNCHANGED <<part, vars>>
MCNext == Timeouts(Next) \/ Events(E!Next)
all == <<part, l, vars>>
FairBoth ==
    /\ MCInit /\ [][MCNext]_all
    /\ WF_all(Timeouts(Tick)) /\ WF_all(Timeouts(Return))
    /\ SF_all(Timeouts(\E x \in Timeout : Call(x)))
    /\ WF_all(Events(E!End \/ E!Signal \/ E!Poll \/ E!Walk \/ E!Return))

\* EloopEvents: ppoll is asked about what is registered, and the walk of
\* eloop_run_ppoll calls back every event that is ready.
EventsAreServed == E!EventsAreServed

\* EloopEvents: a signal is handled, or discarded when too many come at once (all
\* signals are treated alike, so one of them will do).
SignalIsHandled == E!SignalIsHandled("TERM")
=============================================================================
