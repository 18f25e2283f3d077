------------------------------ MODULE MCDhcp6 ------------------------------
EXTENDS Dhcp6

SubAddress == [p \in PDs |-> CASE p = "P" -> "DP" [] p = "Q" -> "DQ"]

Ia(type, gives) == [type |-> type, status |-> "ok", gives |-> gives, t1 |-> 0, t2 |-> 0]
BadIa(type, st) == [Ia(type, <<>>) EXCEPT !.status = st]
Msg(type, ias) == [type |-> type, status |-> "none", rapid |-> FALSE, pref |-> Off, msg |-> "none", ias |-> ias]

A(vl) == Ia("NA", <<<<"A", vl>>>>)
B(vl) == Ia("NA", <<<<"B", vl>>>>)
P(vl) == Ia("PD", <<<<"P", vl>>>>)
Q(vl) == Ia("PD", <<<<"Q", vl>>>>)

AdvA == Msg("ADVERTISE", <<A(3)>>)
AdvB == [Msg("ADVERTISE", <<B(3)>>) EXCEPT !.pref = 255]
RepA == Msg("REPLY", <<A(3)>>)
RepAB == Msg("REPLY", <<B(3), A(0)>>)
RepB == Msg("REPLY", <<B(3)>>)
NoBind == Msg("REPLY", <<BadIa("NA", "NoBinding")>>)
Refuse == [Msg("REPLY", <<>>) EXCEPT !.status = "bad"]
Success == [Msg("REPLY", <<>>) EXCEPT !.status = "ok"]
AdvP == Msg("ADVERTISE", <<P(3)>>)
RepP == Msg("REPLY", <<P(3)>>)
RepQ == Msg("REPLY", <<Q(3)>>)
RepPQ == Msg("REPLY", <<P(0), Q(3)>>)
NoBindP == Msg("REPLY", <<BadIa("PD", "NoBinding")>>)
RapidA == [RepA EXCEPT !.rapid = TRUE]
Reconf(x) == [Msg("RECONFIGURE", <<>>) EXCEPT !.msg = x]

\* The release command, for one address.
ReleaseSetups == {<<{"NA", "IA_FORCED", "RELEASE"}, {"stop"}, {AdvA, RepA}>>}

SomeSetups ==
    { <<{"NA", "IA_FORCED", "INITIAL_DELAY"}, {"carrier", "duplicated"}, {AdvA, AdvB, RepA, RepAB, Refuse}>>,
      <<{"NA", "RAPID_COMMIT"}, {"M", "O"}, {RapidA, Success}>>,
      <<{"NA", "IA_FORCED", "ROAMING"}, {"carrier"}, {AdvA, RepA, NoBind}>>,
      <<{"NA", "IA_FORCED"}, {"killed", "carrier"}, {AdvA, RepA, Success, NoBind}>>,
      <<{"NA", "INITIAL_DELAY"}, {"carrier", "M", "O"}, {RepA, AdvA}>>,
      <<{"NA", "IA_FORCED", "RAPID_COMMIT", "ASK"}, {"deleted", "renew", "nolinklocal"}, {RapidA, Refuse}>>,
      <<{"PD", "IA_FORCED"}, {"dlink", "down", "reboot"}, {AdvP, RepP, RepQ}>>,
      <<{"PD", "IA_FORCED"}, {"dlink", "killed"}, {AdvP, RepP, RepPQ}>>,
      <<{"NA", "PD", "IA_FORCED", "RELEASE"}, {"dlink", "stop"}, {AdvA, Msg("REPLY", <<A(3), P(3)>>), NoBindP}>>,
      <<{"INFORM6"}, {"stop", "carrier"}, {Success, Reconf("INFORM"), Reconf("RENEW")}>> }
=============================================================================
