--------------------------- MODULE MCLeaseTimes ---------------------------
(***************************************************************************)
(* The arithmetic of leases for TLC, one of two from the start.            *)
(*                                                                         *)
(* LeaseTimes: the least lease of the code, leases below, at and above it, *)
(* and renewal and rebinding times that are absent, early, swapped, and at *)
(* the end of the lease.                                                   *)
(*                                                                         *)
(* Delegation: octets of 3 bits and addresses of two halves of 12, so that *)
(* a prefix ends before, at and after the middle, and in an octet.         *)
(***************************************************************************)
EXTENDS LeaseTimes, TLC

VARIABLES part, d

SomeOffers ==
    [leasetime : {5, 22, DHCP_INFINITE_LIFETIME},
     renewaltime : {0, 12}, rebindtime : {0, 3, 22}]

Prefix(n, len, exclude) == [net |-> n * 2^(24 - len), len |-> len, exclude |-> exclude]
SomePrefixes ==
    {Prefix(1, 5, -1), Prefix(3, 9, -1), Prefix(1, 10, 2^14 + 2^12), Prefix(5, 13, -1)}
Fixed(n, len) == [sla_set |-> TRUE, sla |-> n, len |-> len]
SomeSlas ==
    {<<>>} \cup {1 :> Fixed(m, len) @@ 2 :> Fixed(n, len) :
                    m \in {0, 1}, n \in {1, 2}, len \in {0, 11}}

D == INSTANCE Delegation WITH
    NBBY <- 3, H <- 12, WORD <- 6, ROUND <- 2, Indexes <- {1, 2, 5},
    Delegated <- SomePrefixes, Slas <- SomeSlas, Tokens <- {0, 5, 2^12 - 1}

all == <<part, d, vars>>
MCInit ==
    /\ part \in {"times", "delegation"} /\ Init
    /\ IF part = "delegation" THEN D!Init ELSE d = <<>>
DuringLease(A) == part = "times" /\ A /\ UNCHANGED <<part, d>>
Delegating(A) == part = "delegation" /\ A /\ UNCHANGED <<part, vars>>
MCNext == DuringLease(Next) \/ Delegating(D!Next)
MCSpec == MCInit /\ [][MCNext]_all

\* Delegation: masks and lengths are inverse, in all the ways the code has to make
\* them (ipv6_mask, ipv6_prefixlen and those of sa.c and ipv4.c).
MasksAgree == part = "delegation" => D!MasksAgree

\* Delegation: every interface is given a net of its own in the prefix, and its
\* addresses are in that net (dhcp6_delegateaddr, ipv6_userprefix, ipv6_makeaddr).
DelegatesAreOwn == part = "delegation" => D!DelegatesAreOwn

\* Delegation: "sla_id ... is added to the prefix" (dhcpcd.conf.5).
SlaIsAdded == part = "delegation" => D!SlaIsAdded
=============================================================================
