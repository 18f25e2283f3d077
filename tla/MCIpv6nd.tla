------------------------------ MODULE MCIpv6nd ------------------------------
(***************************************************************************)
(* Ipv6nd on two routers, one or two prefixes and short lifetimes.         *)
(***************************************************************************)
EXTENDS Ipv6nd

CONSTANTS r1, r2, p1

PI(vl, on, auto) == [p |-> p1, vl |-> vl, on |-> on, auto |-> auto]

RA(life, pref, mo, pi, ri, dns, reject) ==
    [life |-> life, pref |-> pref, mo |-> mo, pi |-> pi, ri |-> ri, dns |-> dns,
     reject |-> reject]

Plain == RA(2, 1, "none", <<PI(2, TRUE, TRUE)>>, -1, 0, FALSE)
Managed == RA(0, 1, "REQUEST", <<PI(Inf, TRUE, TRUE)>>, 1, 1, FALSE)
Other == RA(1, 2, "INFORM", <<>>, -1, 0, FALSE)

Base == {"CONFIGURE", "IPV6RS", "AUTOCONF", "DHCP6"}

Bare == RA(2, 1, "none", <<PI(2, FALSE, FALSE)>>, -1, 0, FALSE)
Bad == RA(2, 1, "none", <<>>, -1, 0, TRUE)
Gone == RA(0, 1, "none", <<PI(0, TRUE, TRUE)>>, -1, 0, FALSE)

Private == Base \cup {"SLAACPRIVATE"}

SomeSetups ==
    {<<Base, {"carrier"}, {<<r1, Plain>>, <<r2, Other>>}>>,
     <<Base, {"neighbours"}, {<<r1, Plain>>, <<r2, Managed>>}>>,
     <<Private, {"duplicates"}, {<<r1, Plain>>}>>,
     <<Private, {"duplicates"}, {<<r1, Managed>>, <<r2, Plain>>}>>,
     <<Base \cup {"INITIAL_DELAY"}, {"stop", "overflow", "deletes"}, {<<r1, Plain>>}>>,
     <<Base \cup {"STATIC"}, {"refuses", "duplicates", "overflow"}, {<<r1, Plain>>}>>,
     <<Base \cup {"INITIAL_DELAY"}, {"deletes"}, {<<r1, Plain>>, <<r1, Gone>>}>>,
     <<Base, {"neighbours"}, {<<r1, Plain>>, <<r2, Bare>>}>>,
     <<Base, {"carrier"}, {<<r1, Plain>>, <<r1, Bad>>, <<r2, Plain>>}>>}
=============================================================================
