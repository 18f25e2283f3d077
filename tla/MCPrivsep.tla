----------------------------- MODULE MCPrivsep -----------------------------
(***************************************************************************)
(* Instances for TLC of Privsep (two helpers, and each thing that can go   *)
(* wrong on its own) and of Control (two clients, with and without         *)
(* privilege separation), one or the other from the start.                 *)
(***************************************************************************)
EXTENDS Privsep

CONSTANTS k1, k2, None

VARIABLES part, c

SomeSetups ==
    {{"TERM", "sends", "daemonise", "a"},
     {"TERM", "USR2", "slow", "stuck"},
     {"TERM", "USR2", "noinet"},
     {"TERM", "test", "slow"},
     {"TERM", "daemonise", "inet"},
     {"TERM", "root"},
     {"TERM", "forkfails", "slow"}}

Dumps == <<"dump", "dump">>
Acts == <<"act", "version">>
Listens == <<"listen", "dump">>

C == INSTANCE Control WITH
    Clients <- {k1, k2}, Modes <- {"privsep", "single"}, Wire <- 1, MaxEvents <- 2,
    CONTROL_QUEUE_MAX <- 100,
    Plans <- {Dumps, Acts, Listens}

\* The clients differ in what they want, one of two things each.
PlansOf(k) == IF k = k1 THEN {Dumps, Acts} ELSE {Dumps, Listens}
Planned ==
    \A k \in {k1, k2} : c.client[k].st = "new" /\ c'.client[k].st # "new" =>
        c'.client[k].plan \in PlansOf(k)

all == <<part, c, vars>>
AnySetup == CHOOSE x \in SomeSetups : TRUE
MCInit ==
    /\ part \in {"processes", "control"} /\ Init
    /\ IF part = "control" THEN C!Init /\ setup = AnySetup ELSE c = <<>>
Separated(A) == part = "processes" /\ A /\ UNCHANGED <<part, c>>
Controlling(A) == part = "control" /\ A /\ Planned /\ UNCHANGED <<part, vars>>
MCNext == Separated(Next) \/ Controlling(C!Next)
MCSpec ==
    /\ MCInit /\ [][MCNext]_all
    /\ WF_all(Separated(Manager)) /\ WF_all(Separated(Root))
    /\ \A p \in Pids : WF_all(Separated(ChildExits(p)))
    /\ \A p \in {"inet", "ctl"} : WF_all(Separated(ProxyRecv(p)))

\* Control: every client gets its own answers and events (control.c, privsep-control.c).
ClientsAreServed == part = "control" => C!ClientsAreServed
=============================================================================
