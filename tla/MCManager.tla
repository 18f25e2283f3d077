----------------------------- MODULE MCManager -----------------------------
(***************************************************************************)
(* Instances for TLC of Manager (two interfaces, and the options and       *)
(* troubles that meet in a question), of Pidfile (three invocations) and   *)
(* of Duid, one of the three from the start.                               *)
(***************************************************************************)
EXTENDS Manager

CONSTANTS None, EmptyDuid, BigDuid

VARIABLES part, p, u

SomeSetups ==
    {{"noipv6", "link", "departs", "wireless"},
     {"noipv6", "link", "departs", "control", "delegate", "inactive"},
     {"noipv6", "departs", "single", "daemonise", "timeout", "HUP"},
     {"calm", "link", "single", "daemonise", "timeout", "relay", "kill"},
     {"calm", "noipv6", "link", "single", "daemonise", "timeout", "background"},
     {"calm", "link", "daemonise", "timeout", "waitip46", "expire", "TERM"},
     {"calm", "link", "daemonise", "timeout", "ifwaitip", "INT"},
     {"calm", "link", "daemonise", "timeout", "oneshot", "waitip", "HUP"}}

P == INSTANCE Pidfile WITH
    Invocations <- 1..3,
    Plans <- {<<"start", "start", c>> : c \in {"start", "exit", "rebind"}}

Value(type, hw) == [type |-> type, hw |-> hw, time |-> 0, torn |-> FALSE]
U == INSTANCE Duid WITH
    Interfaces <- {"e0", "e1", "tun"}, Hardware <- {"e0", "e1"},
    Files <- {None, BigDuid, Value("LLT", "e9")}, Types <- {"LL", "LLT"},
    Values <- {None, Value("value", "x")}, MaxStarts <- 3,
    Empty <- EmptyDuid, Big <- BigDuid

all == <<part, p, u, vars>>

\* A part that is not looked at stays as it is.
MCInit ==
    /\ part \in {"manager", "pidfile", "duid"} /\ Init
    /\ part # "manager" => /\ setup = CHOOSE x \in SomeSetups : "timeout" \notin x
                           /\ \A i \in Ifaces : s.kern[i].link = "up"
    /\ IF part = "pidfile" THEN P!Init ELSE p = <<>>
    /\ IF part = "duid" THEN U!Init ELSE u = <<>>

Managing(A) == part = "manager" /\ A /\ UNCHANGED <<part, p, u>>
Invoking(A) == part = "pidfile" /\ A /\ UNCHANGED <<part, u, vars>>
Identifying(A) == part = "duid" /\ A /\ UNCHANGED <<part, p, vars>>
MCNext == Managing(Next) \/ Invoking(P!Next) \/ Identifying(U!Next)
MCSpec ==
    /\ MCInit /\ [][MCNext]_all
    /\ WF_all(Managing(Start)) /\ WF_all(Managing(ZeroTimeout))
    /\ WF_all(Managing(ExitTimeout)) /\ WF_all(Managing(dhcpcd_handlelink))
    /\ WF_all(Managing(Exit)) /\ WF_all(Managing(Launcher))

\* Pidfile: one manager runs, the file has its pid, and dhcpcd -x tells the truth.
PidfileHolds == part = "pidfile" => P!PidfileHolds

\* Duid: an identifier that was stored is the one that is used ever after (duid_get), and
\* a process uses one (duid_init).
DuidIsKept ==
    [](part = "duid" => U!DuidIsKept) /\ [][part = "duid" => U!KeepsOne]_u
=============================================================================
