---------------------------- MODULE Dhcp4Proofs ----------------------------
(***************************************************************************)
(* Proofs about Dhcp4.                                                     *)
(***************************************************************************)
EXTENDS Dhcp4, TLAPS

\* dhcp_bind arms renew, rebind and expire together, expire comes last, and
\* whatever deletes it deletes the other two.
Chained(t) ==
    "startrenew" \in t.timers \/ "rebind" \in t.timers => "expire" \in t.timers

\* No arping profile is configured, and an ARP state can always be opened (no
\* shortage of memory or descriptors).  Otherwise dhcp_arp_found restarts the
\* interface, and dhcp_arp_address gives up, with every timeout deleted.
SteadyArp == Arping = <<>> /\ \A e \in Outcomes : e.arp

\* The inductive invariant, of one state record.
Good(t) == t \in State /\ (SteadyArp => Chained(t) /\ LeaseTimed(t))

\* Without a lease in use only the chain of timeouts is asked for.
LEMMA NotLeased ==
    ASSUME NEW t \in State, t.st \notin {"BOUND", "RENEW", "REBIND"}, Chained(t)
    PROVE  Good(t)
BY DEF Good, LeaseTimed, LeaseInUse

\* The functions that touch neither the DHCP state nor its timeouts.
Quiet(t, u) ==
    /\ u \in State /\ u.st = t.st /\ u.timers = t.timers /\ u.new = t.new
    /\ u.offer = t.offer /\ u.lease.addr = t.lease.addr

\* A quiet function preserves the invariant.
LEMMA QuietGood ==
    ASSUME NEW t, Good(t), NEW u, Quiet(t, u)
    PROVE  Good(u)
BY DEF Good, Quiet, Chained, LeaseTimed, LeaseInUse

\* The functions on one ARP state are quiet.
LEMMA ArpQuiet ==
    ASSUME NEW t \in State, NEW a \in Addr \cup {NoAddr}, NEW ok \in BOOLEAN
    PROVE  /\ Quiet(t, arp_freeaddr(t, a))
           /\ Quiet(t, dhcp_arp_new(t, a, ok))
           /\ Quiet(t, arp_probe(t, a))
<1>1. Quiet(t, arp_freeaddr(t, a))   BY DEF Quiet, arp_freeaddr, State
<1>3. Quiet(t, dhcp_arp_new(t, a, ok))   BY DEF Quiet, dhcp_arp_new, State
<1>4. Quiet(t, arp_probe(t, a))   BY DEF Quiet, arp_probe, State
<1> QED  BY <1>1, <1>3, <1>4

\* So are those of arp_drop, IPv4LL, the lease file and the transaction id.
LEMMA PrimQuiet ==
    ASSUME NEW t \in State
    PROVE  /\ Quiet(t, arp_drop(t))
           /\ Quiet(t, ipv4ll_start(t))
           /\ Quiet(t, ipv4ll_drop(t))
           /\ Quiet(t, dhcp_unlink(t))
           /\ Quiet(t, dhcp_new_xid(t))
<1>2. Quiet(t, arp_drop(t))   BY DEF Quiet, arp_drop, State
<1>5. Quiet(t, ipv4ll_start(t))   BY ZenonT(60) DEF Quiet, ipv4ll_start, State
<1>6. Quiet(t, ipv4ll_drop(t))   BY ZenonT(60) DEF Quiet, ipv4ll_drop, State
<1>7. Quiet(t, dhcp_unlink(t))   BY DEF Quiet, dhcp_unlink, State
<1>8. Quiet(t, dhcp_new_xid(t))   BY DEF Quiet, dhcp_new_xid, State
<1> QED  BY <1>2, <1>5, <1>6, <1>7, <1>8

\* ipv4_deladdr is quiet, even when it kills the process.
LEMMA DelAddrQuiet ==
    ASSUME NEW t \in State, NEW a \in Addr \cup {NoAddr}
    PROVE  Quiet(t, ipv4_deladdr(t, a))
<1>1. CASE a = NoAddr   BY <1>1 DEF Quiet, ipv4_deladdr, State
<1>2. CASE a # NoAddr /\ t.addr = a
  <2> DEFINE u == [t EXCEPT !.addrs = @ \ {a}, !.arp[a] = "none",
                            !.added = {}, !.addr = NoAddr]
  <2>1. ipv4_deladdr(t, a) = u   BY <1>2 DEF ipv4_deladdr, State
  <2>2. Quiet(t, u)   BY <1>2, ZenonT(60) DEF Quiet, State
  <2> QED  BY <2>1, <2>2
<1>3. CASE a # NoAddr /\ t.addr # a   BY <1>3, ZenonT(60) DEF Quiet, ipv4_deladdr, State
<1> QED  BY <1>1, <1>2, <1>3

\* ipv4_applyaddr is quiet, with a lease and without.
LEMMA ApplyQuiet ==
    ASSUME NEW t \in State, NEW ok \in BOOLEAN
    PROVE  Quiet(t, ipv4_unapplyaddr(t)) /\ Quiet(t, ipv4_applyaddr(t, ok))
<1>0. t.addr \in Addr \cup {NoAddr} /\ t.lease.addr \in Addr \cup {NoAddr}
  BY DEF State
<1>1. Quiet(t, ipv4_unapplyaddr(t))
  BY <1>0, DelAddrQuiet DEF ipv4_unapplyaddr, Quiet
<1>2. Quiet(t, ipv4_applyaddr(t, ok))
  <2> DEFINE a == t.lease.addr
             t1 == [t EXCEPT !.addrs = @ \cup {a}, !.addr = a,
                             !.added = {"ADDED"}]
  <2>1. CASE ~ok \/ a = NoAddr   BY <2>1 DEF ipv4_applyaddr, Quiet
  <2>2. CASE ~(~ok \/ a = NoAddr)
    <3>1. Quiet(t, t1)
      <4>1. a \in Addr   BY <1>0, <2>2
      <4> DEFINE x == [t EXCEPT !.addrs = @ \cup {a}]
                 y == [x EXCEPT !.addr = a]
                 z == [y EXCEPT !.added = {"ADDED"}]
      <4>2. x \in State /\ Quiet(t, x)   BY <4>1 DEF State, Quiet
      <4>3. t1 = z   OBVIOUS
      <4> HIDE DEF x
      <4>4. y \in State /\ Quiet(x, y)   BY <4>1, <4>2 DEF State, Quiet
      <4> HIDE DEF y
      <4>5. z \in State /\ Quiet(y, z)   BY <4>4, SMTT(40) DEF State, Quiet
      <4> HIDE DEF z
      <4> QED  BY <4>2, <4>3, <4>4, <4>5 DEF Quiet
    <3>2. Quiet(t1, ipv4_deladdr(t1, t.addr))   BY <1>0, <3>1, DelAddrQuiet, Zenon DEF Quiet
    <3>3. Quiet(t, ipv4_deladdr(t1, t.addr))   BY <3>1, <3>2 DEF Quiet
    <3>4. \/ ipv4_applyaddr(t, ok) = t1
          \/ ipv4_applyaddr(t, ok) = ipv4_deladdr(t1, t.addr)
      BY <2>2 DEF ipv4_applyaddr
    <3> QED  BY <3>1, <3>3, <3>4
  <2> QED  BY <2>1, <2>2
<1> QED  BY <1>1, <1>2

\* dhcp_drop leaves no state and no timeout behind.
Dropped(t) == t \in State /\ t.st = "NONE" /\ t.timers = {}

\* dhcp_drop leaves no lease, and no timeout behind.
LEMMA DropDropped ==
    ASSUME NEW t \in State, NEW rel \in BOOLEAN, NEW persist \in BOOLEAN
    PROVE  Dropped(dhcp_drop_opts(t, rel, persist)) /\ Dropped(dhcp_drop(t))
<1> SUFFICES ASSUME NEW r \in BOOLEAN, NEW p \in BOOLEAN
             PROVE  Dropped(dhcp_drop_opts(t, r, p))
  <2>1. Has("RELEASE") \in BOOLEAN   BY DEF Has
  <2> QED  BY <2>1, Zenon DEF dhcp_drop
<1>1. CASE t.st = "NONE"
  BY <1>1 DEF dhcp_drop_opts, Dropped, State
<1>2. CASE t.st # "NONE"
  <2> DEFINE t1 == IF t.addr # NoAddr THEN arp_freeaddr(t, t.addr) ELSE t
             u == dhcp_unlink(t1)
             t2 == IF r /\ ~Has("INFORM")
                   THEN IF u.link = "up" /\ u.new # NoMsg /\ u.lease.server
                        THEN dhcp_new_xid(u) ELSE u
                   ELSE t1
             t3 == [t2 EXCEPT !.arping = -1, !.timers = {}, !.st = "NONE",
                              !.offer = NoMsg, !.new = NoMsg]
             t4 == IF ~Has("CONFIGURE")
                   THEN [t3 EXCEPT !.addr = NoAddr, !.added = {}]
                   ELSE IF p THEN t3 ELSE ipv4_unapplyaddr(t3)
             t5 == [t4 EXCEPT !.lease.addr = NoAddr, !.bpf = FALSE, !.udp = FALSE]
  <2>1. t1 \in State
    <3>1. t.addr \in Addr \cup {NoAddr}   BY DEF State
    <3> QED  BY <3>1, ArpQuiet DEF Quiet
  <2>2. u \in State /\ dhcp_new_xid(u) \in State
    <3> HIDE DEF t1
    <3>1. u \in State   BY <2>1, PrimQuiet DEF Quiet
    <3> HIDE DEF u
    <3> QED  BY <3>1, PrimQuiet DEF Quiet
  <2> HIDE DEF t1, u
  <2>3. t2 \in State   BY <2>1, <2>2
  <2> HIDE DEF t2
  <2>4. Dropped(t3)
    <3> DEFINE x == [t2 EXCEPT !.arping = -1]
               y == [x EXCEPT !.timers = {}, !.st = "NONE", !.offer = NoMsg,
                              !.new = NoMsg]
    <3>1. x \in State   BY <2>3 DEF State
    <3>2. t3 = y   OBVIOUS
    <3> HIDE DEF x
    <3>3. y \in State   BY <3>1, ZenonT(60) DEF State, States
    <3>4. y.st = "NONE" /\ y.timers = {}   BY <3>1 DEF State
    <3> QED  BY <3>2, <3>3, <3>4 DEF Dropped
  <2> HIDE DEF t3
  <2>5. Dropped([t3 EXCEPT !.addr = NoAddr, !.added = {}])
    BY <2>4, ZenonT(60) DEF Dropped, State
  <2>6. Dropped(ipv4_unapplyaddr(t3))
    BY <2>4, ApplyQuiet DEF Dropped, Quiet
  <2>7. Dropped(t4)   BY <2>4, <2>5, <2>6
  <2> HIDE DEF t4
  <2>8. Dropped(t5)
    <3> DEFINE x == [t4 EXCEPT !.lease.addr = NoAddr]
    <3>1. Dropped(x)   BY <2>7, SMTT(40) DEF Dropped, State
    <3> DEFINE y == [x EXCEPT !.bpf = FALSE, !.udp = FALSE]
    <3>2. t5 = y   OBVIOUS
    <3> HIDE DEF x
    <3>3. y \in State   BY <3>1, ZenonT(60) DEF Dropped, State
    <3>4. y.st = "NONE" /\ y.timers = {}   BY <3>1 DEF Dropped, State
    <3> QED  BY <3>2, <3>3, <3>4, Zenon DEF Dropped
  <2>9. dhcp_drop_opts(t, r, p) = t5
    BY <1>2 DEF dhcp_drop_opts, t1, u, t2, t3, t4
  <2> QED  BY <2>8, <2>9
<1> QED  BY <1>1, <1>2

----------------------------------------------------------------------------
(* Sending. *)

\* A dropped interface is good.
LEMMA DroppedGood == ASSUME NEW t, Dropped(t) PROVE Good(t)
BY NotLeased DEF Dropped, Chained

Retransmits ==
    {"send_discover", "send_request", "send_renew", "send_rebind", "send_inform"}

\* Arming a retransmission or the start touches no timeout of a lease.
LEMMA ArmGood ==
    ASSUME NEW t, Good(t), NEW timer \in Retransmits \cup {"start1"}
    PROVE  Good([t EXCEPT !.timers = @ \cup {timer}])
<1> DEFINE u == [t EXCEPT !.timers = @ \cup {timer}]
<1>1. u \in State   BY DEF Good, State, Timers, Retransmits
<1>2. /\ u.st = t.st /\ u.new = t.new
      /\ \A x \in {"startrenew", "rebind", "expire", "discover"} :
            x \in u.timers <=> x \in t.timers
  BY DEF Good, State, Retransmits
<1> HIDE DEF u
<1>3. Chained(t) => Chained(u)   BY <1>2 DEF Chained
<1>4. LeaseInUse(u) => LeaseInUse(t)   BY <1>2 DEF LeaseInUse
<1>5. LeaseTimed(t) => LeaseTimed(u)   BY <1>2, <1>4 DEF LeaseTimed
<1>6. Good(u)   BY <1>1, <1>3, <1>5 DEF Good
<1> QED  BY <1>6 DEF u

\* send_message: armed, sent, or the lease is dropped with its timeouts.
LEMMA SendGood ==
    ASSUME NEW t, Good(t), NEW type \in {"DISCOVER", "REQUEST", "INFORM"},
           NEW callback \in Retransmits, NEW how
    PROVE  Good(send_message(t, type, callback, how))
<1> DEFINE a == [t EXCEPT !.timers = @ \cup {callback}]
           d == [dhcp_drop(t) EXCEPT !.timers = {}]
           u == [t EXCEPT
                   !.timers = @ \cup {callback},
                   !.bpf = @ \/ how = "bpf" \/ ~Unicasts(t),
                   !.asked = @ \cup {[type |-> type, addr |-> t.lease.addr]}]
<1>1. Good(a)   BY ArmGood
<1>2. Good(d)
  <2>1. Dropped(dhcp_drop(t))   BY DropDropped, Zenon DEF Good
  <2>2. Dropped(d)   BY <2>1 DEF Dropped, State
  <2> QED  BY <2>2, DroppedGood
<1>3. Good(u)
  <2> DEFINE b == t.bpf \/ how = "bpf" \/ ~Unicasts(t)
             q == [type |-> type, addr |-> t.lease.addr]
  <2>1. b \in BOOLEAN   BY DEF Good, State
  <2>2. q \in Question   BY DEF Good, State, Question
  <2>3. u = [a EXCEPT !.bpf = b, !.asked = t.asked \cup {q}]
    BY DEF Good, State
  <2>4. t.asked \cup {q} \subseteq Question   BY <2>2 DEF Good, State
  <2> HIDE DEF a, b, q
  <2> DEFINE v == [a EXCEPT !.bpf = b, !.asked = t.asked \cup {q}]
  <2>5. v \in State   BY <1>1, <2>1, <2>4, ZenonT(60) DEF Good, State
  <2>6. Quiet(a, v)   BY <1>1, <2>5 DEF Quiet, Good, State
  <2> QED  BY <1>1, <2>3, <2>6, QuietGood
<1>4. Good([t EXCEPT !.timers = @ \cup {callback}, !.bpf = TRUE])
  <2> DEFINE v == [a EXCEPT !.bpf = TRUE]
  <2>1. v = [t EXCEPT !.timers = @ \cup {callback}, !.bpf = TRUE]   OBVIOUS
  <2> HIDE DEF a
  <2>2. Quiet(a, v)   BY <1>1, ZenonT(60) DEF Quiet, Good, State
  <2> QED  BY <1>1, <2>1, <2>2, QuietGood
<1>5. send_message(t, type, callback, how)
        \in {a, d, u, [t EXCEPT !.timers = @ \cup {callback}, !.bpf = TRUE]}
  BY Zenon DEF send_message
<1> QED  BY <1>1, <1>2, <1>3, <1>4, <1>5, Zenon

\* dhcp_decline leaves the timeouts alone, or drops the lease.
LEMMA DeclineGood ==
    ASSUME NEW t, Good(t), NEW how
    PROVE  Good(dhcp_decline(t, how))
<1> DEFINE t1 == [t EXCEPT !.added = @ \cup {"EXPIRED"}]
           d == [dhcp_drop(t1) EXCEPT !.timers = {}]
           u == [t1 EXCEPT !.bpf = TRUE]
<1>1. Good(t1)
  <2>1. Quiet(t, t1)   BY DEF Quiet, Good, State
  <2> QED  BY <2>1, QuietGood
<1>2. dhcp_decline(t, how) \in {t1, d, u}   BY DEF dhcp_decline
<1> HIDE DEF t1
<1>3. Good(d)
  <2>1. Dropped(dhcp_drop(t1))   BY <1>1, DropDropped, Zenon DEF Good
  <2>2. Dropped(d)   BY <2>1 DEF Dropped, State
  <2> QED  BY <2>2, DroppedGood
<1>4. Good(u)
  <2>1. Quiet(t1, u)   BY <1>1, ZenonT(60) DEF Quiet, Good, State
  <2> QED  BY <1>1, <2>1, QuietGood
<1> QED  BY <1>1, <1>2, <1>3, <1>4, Zenon

\* A discovering client has no lease, so nothing is asked of the timeouts.
LEMMA DiscoverGood ==
    ASSUME NEW t \in State, NEW e, t.crash # "none" => Good(t)
    PROVE  Good(dhcp_discover(t, e))
<1>1. CASE t.crash # "none"   BY <1>1 DEF dhcp_discover
<1>2. CASE t.crash = "none"
  <2> DEFINE x == [t EXCEPT !.st = "DISCOVER"]
             t1 == dhcp_new_xid(x)
             l == IF Has("IPV4LL") /\ "EXPIRED" \notin t.added
                  THEN {"ipv4ll_start"} ELSE {}
             t2 == [t1 EXCEPT !.timers = l]
  <2>1. x \in State /\ x.st = "DISCOVER"   BY DEF State, States
  <2>2. dhcp_discover(t, e) = send_message(t2, "DISCOVER", "send_discover", e.send)
    BY <1>2 DEF dhcp_discover
  <2> HIDE DEF x
  <2>3. t1 \in State /\ t1.st = "DISCOVER"   BY <2>1, PrimQuiet DEF Quiet
  <2>4. l \subseteq {"ipv4ll_start"}   OBVIOUS
  <2> HIDE DEF t1, l
  <2>5. t2 \in State /\ t2.st = "DISCOVER" /\ t2.timers = l
    BY <2>3, <2>4 DEF State, Timers
  <2> HIDE DEF t2
  <2>6. Chained(t2)   BY <2>4, <2>5 DEF Chained
  <2>7. Good(t2)   BY <2>5, <2>6, NotLeased
  <2> QED  BY <2>2, <2>7, SendGood DEF Retransmits
<1> QED  BY <1>1, <1>2

\* dhcp_requestfailed: the offer is forgotten and discovery starts over.
LEMMA RequestFailedGood ==
    ASSUME NEW t, Good(t), NEW e
    PROVE  Good(dhcp_requestfailed(t, e))
<1> DEFINE u == [t EXCEPT !.offer = NoMsg]
<1>1. u \in State /\ u.st = t.st /\ u.timers = t.timers /\ u.new = t.new
  BY DEF Good, State
<1>2. Good(u)   BY <1>1 DEF Good, Chained, LeaseTimed, LeaseInUse
<1>3. Good(dhcp_discover(u, e))   BY <1>2, DiscoverGood DEF Good
<1> QED  BY <1>3 DEF dhcp_requestfailed

\* dhcp_request keeps whatever timeouts there are.
LEMMA RequestGood ==
    ASSUME NEW t, Good(t), NEW e
    PROVE  Good(dhcp_request(t, e))
<1> DEFINE r == IF Has("REQUEST_TIME") THEN t.timers \cup {"requestfailed"}
                ELSE t.timers
           u == [t EXCEPT !.st = "REQUEST", !.timers = r]
<1>1. /\ r \subseteq Timers
      /\ SteadyArp => ("startrenew" \in r \/ "rebind" \in r => "expire" \in r)
  BY DEF Good, State, Timers, Chained
<1>2. dhcp_request(t, e) = send_message(u, "REQUEST", "send_request", e.send)
  BY DEF dhcp_request, Good, State
<1> HIDE DEF r
<1>3. u \in State /\ u.st = "REQUEST" /\ u.timers = r
  BY <1>1, ZenonT(60) DEF Good, State, States
<1> HIDE DEF u
<1>4. Good(u)   BY <1>1, <1>3 DEF Good, Chained, LeaseTimed, LeaseInUse
<1> QED  BY <1>2, <1>4, SendGood DEF Retransmits

\* dhcp_expire: afterwards the client discovers, whatever was pending.
LEMMA ExpireGood ==
    ASSUME NEW t \in State, t.crash = "none", NEW e
    PROVE  Good(dhcp_expire(t, e))
<1> DEFINE x == [t EXCEPT !.added = @ \cup {"EXPIRED"}]
           y == dhcp_unlink(dhcp_drop(t))
<1>1. Good(dhcp_discover(x, e))
  <2>1. x \in State /\ x.crash = "none"   BY DEF State
  <2> QED  BY <2>1, DiscoverGood, Zenon
<1>2. Good(dhcp_discover(y, e))
  <2>1. Dropped(dhcp_drop(t))   BY DropDropped, Zenon
  <2>2. Dropped(y)   BY <2>1, PrimQuiet DEF Dropped, Quiet
  <2>3. Good(y)   BY <2>2, DroppedGood
  <2> QED  BY <2>3, DiscoverGood DEF Good
<1> QED  BY <1>1, <1>2 DEF dhcp_expire

\* What is left of Good once the renew timeout has fired.
Renewable(t) ==
    /\ t \in State
    /\ SteadyArp =>
          /\ Chained(t)
          /\ LeaseInUse(t) /\ ~t.new.inf =>
                "expire" \in t.timers /\ (t.st # "REBIND" => "rebind" \in t.timers)

\* dhcp_startrenew deletes renew only; rebind and expire stay.
LEMMA StartRenewGood ==
    ASSUME NEW t, Renewable(t), NEW e
    PROVE  Good(dhcp_startrenew(t, e))
<1>1. CASE t.st \notin {"BOUND", "RENEW"}
  BY <1>1 DEF dhcp_startrenew, Renewable, Good, LeaseTimed
<1>2. CASE t.st \in {"BOUND", "RENEW"}
  <2> DEFINE x == [t EXCEPT !.timers = @ \ {"startrenew"}, !.st = "RENEW"]
  <2>1. /\ x \in State /\ x.st = "RENEW" /\ x.new = t.new
        /\ x.timers = t.timers \ {"startrenew"}
    BY ZenonT(60) DEF Renewable, State, States
  <2>2. dhcp_startrenew(t, e) =
          send_message(dhcp_new_xid(x), "REQUEST", "send_renew", e.send)
    BY <1>2 DEF dhcp_startrenew
  <2> HIDE DEF x
  <2>3. SteadyArp => Chained(x)   BY <2>1 DEF Renewable, Chained
  <2>4. LeaseInUse(x) => LeaseInUse(t)   BY <1>2, <2>1 DEF LeaseInUse
  <2>5. SteadyArp => LeaseTimed(x)
    BY <1>2, <2>1, <2>4 DEF Renewable, LeaseTimed
  <2>6. Good(x)   BY <2>1, <2>3, <2>5 DEF Good
  <2>7. Good(dhcp_new_xid(x))   BY <2>1, <2>6, PrimQuiet, QuietGood
  <2> QED  BY <2>2, <2>7, SendGood DEF Retransmits
<1> QED  BY <1>1, <1>2

\* dhcp_rebind: from here on only expire has to be pending.
LEMMA RebindGood ==
    ASSUME NEW t \in State, NEW e, SteadyArp => Chained(t) /\ "expire" \in t.timers
    PROVE  Good(dhcp_rebind(t, e))
<1> DEFINE x == [t EXCEPT !.st = "REBIND", !.timers = @ \ {"send_renew"}]
           y == [x EXCEPT !.lease.server = FALSE]
<1>1. /\ x \in State /\ x.st = "REBIND" /\ x.timers = t.timers \ {"send_renew"}
  BY ZenonT(60) DEF State, States
<1>2. dhcp_rebind(t, e) = send_message(y, "REQUEST", "send_rebind", e.send)
  BY DEF dhcp_rebind
<1> HIDE DEF x
<1>3. y \in State /\ y.st = x.st /\ y.timers = x.timers
  <2> DEFINE l == [x.lease EXCEPT !.server = FALSE]
  <2>0. l \in [addr : Addr \cup {NoAddr}, server : BOOLEAN, frominfo : BOOLEAN]
    BY <1>1, Zenon DEF State
  <2>a. y = [x EXCEPT !.lease = l]   OBVIOUS
  <2> HIDE DEF l, y
  <2>1. y \in State   BY <1>1, <2>0, <2>a DEF State
  <2>2. y.st = x.st /\ y.timers = x.timers   BY <1>1, <2>a DEF State
  <2> QED  BY <2>1, <2>2
<1> HIDE DEF y
<1>4. Good(y)
  BY <1>1, <1>3 DEF Good, Chained, LeaseTimed, LeaseInUse
<1> QED  BY <1>2, <1>4, SendGood DEF Retransmits

----------------------------------------------------------------------------
(* Binding. *)

\* lease.frominfo plays no part in the invariant.
LEMMA SetFromInfo ==
    ASSUME NEW t \in State, NEW v \in BOOLEAN
    PROVE  LET u == [t EXCEPT !.lease.frominfo = v]
           IN  u \in State /\ u.st = t.st /\ u.timers = t.timers
<1> DEFINE l == [t.lease EXCEPT !.frominfo = v]
           u == [t EXCEPT !.lease = l]
<1>1. l \in [addr : Addr \cup {NoAddr}, server : BOOLEAN, frominfo : BOOLEAN]
  BY DEF State
<1>2. [t EXCEPT !.lease.frominfo = v] = u   OBVIOUS
<1> HIDE DEF l
<1>3. u \in State   BY <1>1 DEF State
<1>4. u.st = t.st /\ u.timers = t.timers   BY DEF State
<1> QED  BY <1>2, <1>3, <1>4

\* get_lease changes nothing but the lease.
LEMMA GetLease ==
    ASSUME NEW t \in State, NEW m \in Msg \cup {NoMsg}
    PROVE  LET u == get_lease(t, m)
           IN  u \in State /\ u.st = t.st /\ u.timers = t.timers /\ u.new = t.new
               /\ u.offer = t.offer /\ u.lease.addr = m.addr
<1> DEFINE v == m.kind \in {"OFFER", "ACK"}
           x == [t EXCEPT !.lease.addr = m.addr]
           y == [x EXCEPT !.lease.server = v]
<1>1. m.addr \in Addr \cup {NoAddr}   BY DEF Msg, NoMsg
<1>2. v \in BOOLEAN   OBVIOUS
<1>3. /\ x \in State /\ x.st = t.st /\ x.timers = t.timers /\ x.new = t.new
      /\ x.offer = t.offer /\ x.lease.addr = m.addr
  BY <1>1 DEF State
<1>4. get_lease(t, m) = y   BY DEF get_lease, State
<1> HIDE DEF x, v
<1>5. /\ y \in State /\ y.st = x.st /\ y.timers = x.timers /\ y.new = x.new
      /\ y.offer = x.offer /\ y.lease.addr = x.lease.addr
  BY <1>2, <1>3, SMTT(40) DEF State
<1> QED  BY <1>3, <1>4, <1>5

\* The socket dhcp_bind opens is no part of the invariant.
LEMMA OpenUdpQuiet ==
    ASSUME NEW t \in State, NEW before, NEW ok \in BOOLEAN
    PROVE  Quiet(t, openudp(t, before, ok))
<1> DEFINE v == ~ok /\ ~Has("PRIVSEP")
           x == [t EXCEPT !.udp = ok, !.bpf = v]
<1>1. v \in BOOLEAN   OBVIOUS
<1>2. openudp(t, before, ok) \in {t, x}   BY DEF openudp
<1> HIDE DEF v
<1>3. Quiet(t, x)   BY <1>1, ZenonT(60) DEF Quiet, State
<1>4. Quiet(t, t)   BY DEF Quiet
<1> QED  BY <1>2, <1>3, <1>4

\* Whatever the client did before, a lease it binds is timed.
LEMMA BindGood ==
    ASSUME NEW t \in State, SteadyArp => Chained(t), NEW e \in Outcomes
    PROVE  Good(dhcp_bind(t, e))
<1> DEFINE t1 == IF t.offer = NoMsg THEN t
                 ELSE [t EXCEPT !.new = t.offer, !.offer = NoMsg]
           t2 == get_lease(t1, t1.new)
           w == IF Infinite(t2.new) THEN t2.timers
                ELSE t2.timers \cup {"startrenew", "rebind", "expire"}
           d == IF t2.lease.frominfo \/ Has("INFORM") \/ Has("STATIC")
                THEN t2.disk ELSE t2.new
           t3 == [t2 EXCEPT !.timers = w, !.st = "BOUND", !.disk = d]
<1>0. /\ e.add \in BOOLEAN /\ e.udp \in BOOLEAN
  BY OptionAssumption DEF Outcome
<1>1. t1 \in State /\ t1.timers = t.timers
  <2> DEFINE x == [t EXCEPT !.new = t.offer, !.offer = NoMsg]
  <2>1. x \in State   BY Zenon DEF State
  <2>2. x.timers = t.timers   BY DEF State
  <2> QED  BY <2>1, <2>2
<1> HIDE DEF t1
<1>2. t2 \in State /\ t2.timers = t.timers
  <2>1. t1.new \in Msg \cup {NoMsg}   BY <1>1 DEF State
  <2> QED  BY <1>1, <2>1, GetLease
<1> HIDE DEF t2
<1>3. /\ w \subseteq Timers
      /\ SteadyArp => ("startrenew" \in w \/ "rebind" \in w => "expire" \in w)
      /\ ~Infinite(t2.new) => {"startrenew", "rebind", "expire"} \subseteq w
  BY <1>2 DEF State, Timers, Chained
<1>4. d \in Msg \cup {NoMsg}   BY <1>2 DEF State
<1> HIDE DEF w, d
<1>5. t3 \in State   BY <1>2, <1>3, <1>4, ZenonT(60) DEF State, States
<1>6. t3.timers = w /\ t3.st = "BOUND" /\ t3.new = t2.new   BY <1>2 DEF State
<1> HIDE DEF t3
<1>7. Good(t3)
  <2>1. Plain /\ ~t3.new.inf => ~Infinite(t2.new)   BY <1>6 DEF Plain, Infinite
  <2>2. SteadyArp => Chained(t3)   BY <1>3, <1>6 DEF Chained
  <2>3. LeaseTimed(t3)   BY <1>3, <1>6, <2>1 DEF LeaseTimed, LeaseInUse
  <2> QED  BY <1>5, <2>2, <2>3 DEF Good
<1>8. Good(openudp([ipv4_applyaddr(t3, TRUE) EXCEPT !.bpf = FALSE], t, e.udp))
  <2> DEFINE x == ipv4_applyaddr(t3, TRUE)
             y == [x EXCEPT !.bpf = FALSE]
  <2>1. Good(x)   BY <1>5, <1>7, ApplyQuiet, QuietGood, Zenon
  <2> HIDE DEF x
  <2>2. Quiet(x, y)
    <3>1. x \in State   BY <2>1 DEF Good
    <3>2. y \in State   BY <3>1, ZenonT(60) DEF State
    <3> QED  BY <3>1, <3>2 DEF Quiet, State
  <2>3. Good(y)   BY <2>1, <2>2, QuietGood
  <2> HIDE DEF y
  <2>4. Quiet(y, openudp(y, t, e.udp))   BY <1>0, <2>3, OpenUdpQuiet DEF Good
  <2>5. Good(openudp(y, t, e.udp))   BY <2>3, <2>4, QuietGood
  <2> QED  BY <2>5 DEF x, y
<1>9. ASSUME t3.lease.addr \in t3.addrs
      PROVE  Good(openudp([t3 EXCEPT !.addr = t3.lease.addr,
                                     !.added = {"ADDED"}, !.bpf = FALSE],
                          t, e.udp))
  <2> DEFINE y == [t3 EXCEPT !.addr = t3.lease.addr, !.added = {"ADDED"},
                             !.bpf = FALSE]
  <2>1. y \in State
    <3> DEFINE z == [t3 EXCEPT !.addr = t3.lease.addr]
    <3>1. z \in State   BY <1>5 DEF State
    <3>2. y = [z EXCEPT !.added = {"ADDED"}, !.bpf = FALSE]   OBVIOUS
    <3> HIDE DEF z
    <3>3. [z EXCEPT !.added = {"ADDED"}, !.bpf = FALSE] \in State
      BY <3>1, ZenonT(60) DEF State
    <3> QED  BY <3>2, <3>3
  <2>2. Quiet(t3, y)   BY <1>5, <2>1 DEF Quiet, State
  <2>3. Good(y)   BY <1>7, <2>2, QuietGood
  <2> HIDE DEF y
  <2>4. Quiet(y, openudp(y, t, e.udp))   BY <1>0, <2>3, OpenUdpQuiet DEF Good
  <2>5. Good(openudp(y, t, e.udp))   BY <2>3, <2>4, QuietGood
  <2> QED  BY <2>5 DEF y
<1> QED
  BY <1>7, <1>8, <1>9, Zenon DEF dhcp_bind, t1, t2, t3, w, d

\* Probing deletes the timeouts, and moves on to PROBE; or there is no need to.
LEMMA ArpAddress ==
    ASSUME NEW t \in State, NEW ok \in BOOLEAN
    PROVE  LET u == dhcp_arp_address(t, ok)
           IN  /\ u \in State /\ u.timers = {}
               /\ ok /\ ~UseAtOnce(t, ok) => u.st = "PROBE"
<1> DEFINE t1 == [t EXCEPT !.timers = {}]
           a == t.offer.addr
           t2 == IF ArpOn THEN dhcp_arp_new(t1, a, ok) ELSE t1
           x == [t2 EXCEPT !.st = "PROBE"]
           t3 == arp_probe(x, a)
<1>1. t1 \in State /\ t1.timers = {}   BY DEF State
<1>2. a \in Addr \cup {NoAddr}   BY DEF State, Msg, NoMsg
<1>3. dhcp_arp_address(t, ok) =
        IF UseAtOnce(t, ok) \/ ~ArpUsable(t, a, ok) THEN t2 ELSE t3
  BY DEF dhcp_arp_address
<1>4. ok => ArpUsable(t, a, ok)   BY DEF ArpUsable
<1> HIDE DEF t1, a
<1>5. t2 \in State /\ t2.timers = {}   BY <1>1, <1>2, ArpQuiet DEF Quiet
<1> HIDE DEF t2
<1>6. x \in State /\ x.timers = {} /\ x.st = "PROBE"   BY <1>5 DEF State, States
<1> HIDE DEF x
<1>7. t3 \in State /\ t3.timers = {} /\ t3.st = "PROBE"
  BY <1>2, <1>6, ArpQuiet DEF Quiet
<1> QED  BY <1>3, <1>4, <1>5, <1>7

\* dhcp_arp_bind: the lease is timed when it is bound at once.
LEMMA ArpBindGood ==
    ASSUME NEW t \in State, NEW e \in Outcomes
    PROVE  Good(dhcp_arp_bind(t, e))
<1> DEFINE t1 == dhcp_arp_address(t, e.arp)
<1>1. e.arp \in BOOLEAN   BY OptionAssumption DEF Outcome
<1>2. /\ t1 \in State /\ t1.timers = {}
      /\ e.arp /\ ~UseAtOnce(t, e.arp) => t1.st = "PROBE"
  BY <1>1, ArpAddress
<1>3. dhcp_arp_bind(t, e) = IF UseAtOnce(t, e.arp) THEN dhcp_bind(t1, e) ELSE t1
  BY DEF dhcp_arp_bind
<1> HIDE DEF t1
<1>4. Chained(t1)   BY <1>2 DEF Chained
<1>5. Good(dhcp_bind(t1, e))   BY <1>2, <1>4, BindGood
<1>6. ASSUME ~UseAtOnce(t, e.arp) PROVE Good(t1)
  <2>1. SteadyArp => t1.st = "PROBE"   BY <1>2, <1>6 DEF SteadyArp
  <2>2. t1.st = "PROBE" => LeaseTimed(t1)   BY DEF LeaseTimed, LeaseInUse
  <2> QED  BY <1>2, <1>4, <2>1, <2>2 DEF Good
<1> QED  BY <1>3, <1>5, <1>6

\* dhcp_lastlease: the lease is in use while the client discovers.
LEMMA LastLeaseGood ==
    ASSUME NEW t \in State, NEW e \in Outcomes
    PROVE  Good(dhcp_lastlease(t, e))
<1> DEFINE x == dhcp_arp_bind(t, e)
           y == [x EXCEPT !.added = @ \cup {"EXPIRED"}]
<1>1. Good(x)   BY ArpBindGood
<1> HIDE DEF x
<1>2. Quiet(x, y)   BY <1>1 DEF Good, Quiet, State
<1>3. Good(y)   BY <1>1, <1>2, QuietGood
<1>4. Good(dhcp_discover(y, e))   BY <1>3, DiscoverGood DEF Good
<1> QED  BY <1>4 DEF dhcp_lastlease, x

----------------------------------------------------------------------------
(* Starting. *)

\* A record that agrees with a good one on the state, the timeouts and the lease.
LEMMA OfferGood ==
    ASSUME NEW t, Good(t), NEW m \in Msg \cup {NoMsg}
    PROVE  Good([t EXCEPT !.offer = m])
<1> DEFINE u == [t EXCEPT !.offer = m]
<1>1. u \in State /\ u.st = t.st /\ u.timers = t.timers /\ u.new = t.new
  BY DEF Good, State
<1> HIDE DEF u
<1>2. Good(u)   BY <1>1 DEF Good, Chained, LeaseTimed, LeaseInUse
<1> QED  BY <1>2 DEF u

\* dhcp_message_new makes a message.
LEMMA StaticMsg ==
    ASSUME NEW a \in Addr PROVE dhcp_message_new(a) \in Msg
BY DEF dhcp_message_new, Msg

\* dhcp_static preserves the invariant.
LEMMA StaticGood ==
    ASSUME NEW t, Good(t), NEW e \in Outcomes
    PROVE  Good(dhcp_static(t, e))
<1>1. CASE ~Has("REQADDR") /\ t.addrs = {}   BY <1>1 DEF dhcp_static
<1>2. CASE ~(~Has("REQADDR") /\ t.addrs = {})
  <2> DEFINE a == IF Has("REQADDR") THEN ReqAddr ELSE CHOOSE x \in t.addrs : TRUE
             u == [t EXCEPT !.offer = dhcp_message_new(a)]
  <2>1. t.addrs \subseteq Addr   BY DEF Good, State
  <2>2. a \in Addr   BY <1>2, <2>1, AddrAssumption
  <2>3. dhcp_static(t, e) = dhcp_arp_bind(u, e)   BY <1>2 DEF dhcp_static
  <2> HIDE DEF a
  <2>4. u \in State   BY <2>2, StaticMsg, OfferGood DEF Good
  <2> QED  BY <2>3, <2>4, ArpBindGood
<1> QED  BY <1>1, <1>2

\* dhcp_inform from an address the interface has preserves it.
LEMMA InformFromGood ==
    ASSUME NEW t, Good(t), NEW a \in Addr, NEW e
    PROVE  Good(inform_from(t, a, e))
<1> DEFINE m == dhcp_message_new(a)
           x == [t EXCEPT !.st = "INFORM", !.addr = a, !.offer = m]
           y == dhcp_new_xid(x)
           z == get_lease(y, m)
<1>1. m \in Msg   BY StaticMsg
<1>2. inform_from(t, a, e) = send_message(z, "INFORM", "send_inform", e.send)
  BY DEF inform_from
<1> HIDE DEF m
<1>3. x \in State /\ x.st = "INFORM" /\ x.timers = t.timers
  <2>1. x \in State   BY <1>1, ZenonT(60) DEF Good, State, States
  <2>2. x.st = "INFORM" /\ x.timers = t.timers   BY DEF Good, State
  <2> QED  BY <2>1, <2>2
<1> HIDE DEF x
<1>4. y \in State /\ y.st = "INFORM" /\ y.timers = t.timers
  BY <1>3, PrimQuiet DEF Quiet
<1> HIDE DEF y
<1>5. z \in State /\ z.st = "INFORM" /\ z.timers = t.timers
  BY <1>1, <1>4, GetLease
<1> HIDE DEF z
<1>6. Good(z)   BY <1>5 DEF Good, Chained, LeaseTimed, LeaseInUse
<1> QED  BY <1>2, <1>6, SendGood DEF Retransmits

\* dhcp_inform preserves the invariant, also where its assertion fails.
LEMMA InformGood ==
    ASSUME NEW t, Good(t), NEW e \in Outcomes
    PROVE  Good(dhcp_inform(t, e))
<1> DEFINE t1 == [t EXCEPT !.offer = NoMsg]
           t2 == [t1 EXCEPT !.offer = dhcp_message_new(ReqAddr)]
           c == [t2 EXCEPT !.crash = "inform"]
<1>1. Good(t1)   BY OfferGood
<1>2. t.addrs \subseteq Addr   BY DEF Good, State
<1>3. dhcp_inform(t, e) =
        IF Has("REQADDR")
        THEN IF ReqAddr \in t.addrs THEN inform_from(t1, ReqAddr, e)
             ELSE IF UseAtOnce(t2, e.arp) THEN c ELSE dhcp_arp_address(t2, e.arp)
        ELSE IF t.addrs = {} THEN t1
             ELSE inform_from(t1, CHOOSE x \in t.addrs : TRUE, e)
  BY DEF dhcp_inform
<1> HIDE DEF t1
<1>4. Good(t2)   BY <1>1, AddrAssumption, StaticMsg, OfferGood
<1> HIDE DEF t2
<1>5. Good(c)
  <2>1. t2 \in State   BY <1>4 DEF Good
  <2>2. Quiet(t2, c)   BY <2>1 DEF Quiet, State
  <2> QED  BY <1>4, <2>2, QuietGood
<1> HIDE DEF c
<1>6. Good(inform_from(t1, ReqAddr, e))
  BY <1>1, AddrAssumption, InformFromGood
<1>7. t.addrs # {} => Good(inform_from(t1, CHOOSE x \in t.addrs : TRUE, e))
  <2>1. t.addrs # {} => (CHOOSE x \in t.addrs : TRUE) \in Addr   BY <1>2
  <2> QED  BY <1>1, <2>1, InformFromGood
<1>8. ASSUME ~UseAtOnce(t2, e.arp) PROVE Good(dhcp_arp_address(t2, e.arp))
  <2> DEFINE u == dhcp_arp_address(t2, e.arp)
  <2>1. e.arp \in BOOLEAN   BY OptionAssumption DEF Outcome
  <2>2. u \in State /\ u.timers = {} /\ (e.arp => u.st = "PROBE")
    BY <1>4, <1>8, <2>1, ArpAddress DEF Good
  <2> HIDE DEF u
  <2>3. Chained(u)   BY <2>2 DEF Chained
  <2>4. u.st = "PROBE" => LeaseTimed(u)   BY DEF LeaseTimed, LeaseInUse
  <2>5. Good(u)   BY <2>2, <2>3, <2>4 DEF Good, SteadyArp
  <2> QED  BY <2>5 DEF u
<1> QED  BY <1>1, <1>3, <1>5, <1>6, <1>7, <1>8

\* dhcp_reboot replaces the timeouts; expire is one of the new ones, or no
\* other timeout of a lease is.
LEMMA RebootGood ==
    ASSUME NEW t, Good(t), NEW e \in Outcomes
    PROVE  Good(dhcp_reboot(t, e))
<1> DEFINE t1 == [t EXCEPT !.st = "REBOOT"]
           x == dhcp_arp_new(t1, t1.lease.addr, e.arp)
           t2 == dhcp_new_xid(x)
           w == (IF Has("IPV4LL") THEN {"ipv4ll_start"} ELSE {})
                \cup {IF Has("LASTLEASE") /\ t.lease.frominfo
                      THEN "lastlease" ELSE "expire"}
           y == [t2 EXCEPT !.lease.server = FALSE]
           t3 == [y EXCEPT !.timers = w]
<1>1. t1 \in State /\ t1.st = "REBOOT" /\ t1.timers = t.timers
  BY DEF Good, State, States
<1>2. dhcp_reboot(t, e) =
        IF t.link # "up" THEN t1
        ELSE IF ~Has("REBOOT") THEN dhcp_discover(t1, e)
             ELSE send_message(t3, "REQUEST", "send_request", e.send)
  BY DEF dhcp_reboot
<1>3. w \subseteq {"ipv4ll_start", "lastlease", "expire"}   OBVIOUS
<1> HIDE DEF t1, w
<1>4. Good(t1)   BY <1>1 DEF Good, Chained, LeaseTimed, LeaseInUse
<1>5. Good(dhcp_discover(t1, e))   BY <1>1, <1>4, DiscoverGood
<1>6. Good(t3)
  <2>1. e.arp \in BOOLEAN   BY OptionAssumption DEF Outcome
  <2>2. t1.lease.addr \in Addr \cup {NoAddr}   BY <1>1 DEF State
  <2>3. x \in State /\ x.st = "REBOOT"   BY <1>1, <2>1, <2>2, ArpQuiet DEF Quiet
  <2> HIDE DEF x
  <2>4. t2 \in State /\ t2.st = "REBOOT"   BY <2>3, PrimQuiet DEF Quiet
  <2> HIDE DEF t2
  <2>5. y \in State /\ y.st = "REBOOT"
    <3>1. y \in State   BY <2>4, ZenonT(60) DEF State
    <3> QED  BY <2>4, <3>1, Zenon DEF State
  <2> HIDE DEF y
  <2>6. t3 \in State   BY <1>3, <2>5 DEF State, Timers
  <2>7. t3.st = "REBOOT" /\ t3.timers = w   BY <2>5 DEF State
  <2> HIDE DEF t3
  <2>8. Chained(t3)   BY <1>3, <2>7 DEF Chained
  <2> QED  BY <2>6, <2>7, <2>8, NotLeased
<1>7. Good(send_message(t3, "REQUEST", "send_request", e.send))
  BY <1>6, SendGood DEF Retransmits
<1> QED  BY <1>2, <1>4, <1>5, <1>7

\* The client is starting: no lease, whatever the timeouts.
Starting(t) == t \in State /\ t.st = "INIT" /\ (SteadyArp => Chained(t))

\* A client that is starting is good.
LEMMA StartingGood == ASSUME NEW t, Starting(t) PROVE Good(t)
BY DEF Starting, Good, LeaseTimed, LeaseInUse

\* Reading the lease file does not bind a lease.
LEMMA FromDiskStarting ==
    ASSUME NEW t, Starting(t), NEW e \in Outcomes
    PROVE  Starting(start_from_disk(t, e))
<1> DEFINE m == t.disk
           x == get_lease(t, m)
           t1 == [x EXCEPT !.lease.frominfo = TRUE]
           n == [t1 EXCEPT !.new = m, !.addr = m.addr,
                           !.added = @ \cup {"ADDED", "FAKE"}]
           t2 == IF t1.new = NoMsg /\ m.addr \in t1.addrs THEN n ELSE t1
           u == [t2 EXCEPT !.lease.addr = NoAddr]
           v == [t2 EXCEPT !.offer = m]
<1>1. m \in Msg \cup {NoMsg}   BY DEF Starting, State
<1>2. start_from_disk(t, e) \in {t, t2, u, v}   BY DEF start_from_disk
<1> HIDE DEF m
<1>3. x \in State /\ x.st = t.st /\ x.timers = t.timers
  BY <1>1, GetLease DEF Starting
<1> HIDE DEF x
<1>4. t1 \in State /\ t1.st = t.st /\ t1.timers = t.timers
  <2>1. t1 \in State   BY <1>3, Zenon DEF State
  <2> QED  BY <1>3, <2>1, Zenon DEF State
<1> HIDE DEF t1
<1>5. ASSUME m.addr \in t1.addrs
      PROVE  n \in State /\ n.st = t.st /\ n.timers = t.timers
  <2>1. m.addr \in Addr   BY <1>4, <1>5 DEF State
  <2>2. n \in State   BY <1>1, <1>4, <2>1, ZenonT(60) DEF State
  <2> QED  BY <1>4, <2>2 DEF State
<1> HIDE DEF n
<1>6. t2 \in State /\ t2.st = t.st /\ t2.timers = t.timers   BY <1>4, <1>5
<1> HIDE DEF t2
<1>7. u \in State /\ u.st = t.st /\ u.timers = t.timers   BY <1>6 DEF State
<1>8. v \in State /\ v.st = t.st /\ v.timers = t.timers   BY <1>1, <1>6 DEF State
<1> QED  BY <1>2, <1>6, <1>7, <1>8, Zenon DEF Starting, Chained

\* dhcp_start1 after the arping check preserves the invariant.
LEMMA Start2Good ==
    ASSUME NEW t, Starting(t), NEW e \in Outcomes
    PROVE  Good(dhcp_start2(t, e))
<1> DEFINE t1 == start_from_disk(t, e)
<1>1. Good(t)   BY StartingGood
<1>2. Good(t1)   BY FromDiskStarting, StartingGood
<1> HIDE DEF t1
<1>3. Good(dhcp_static(t, e)) /\ Good(dhcp_inform(t, e))
  BY <1>1, StaticGood, InformGood
<1>4. Good(ipv4ll_start(t))   BY <1>1, PrimQuiet, QuietGood DEF Good
<1>5. Good(dhcp_discover(t1, e)) /\ Good(dhcp_reboot(t1, e))
  BY <1>2, DiscoverGood, RebootGood DEF Good
<1> QED  BY <1>1, <1>3, <1>4, <1>5 DEF dhcp_start2, t1

\* dhcp_init leaves the client in INIT.
LEMMA InitStarting ==
    ASSUME NEW t, Good(t) PROVE Starting(dhcp_init(t))
<1> DEFINE d == IF Has("REQUEST") THEN NoMsg ELSE t.disk
           u == [t EXCEPT !.st = "INIT", !.offer = NoMsg, !.disk = d]
<1>1. d \in Msg \cup {NoMsg}   BY DEF Good, State
<1>2. dhcp_init(t) = u   BY DEF dhcp_init, Good, State
<1> HIDE DEF d
<1>3. u \in State   BY <1>1, ZenonT(60) DEF Good, State, States
<1>4. u.st = "INIT" /\ u.timers = t.timers   BY DEF Good, State
<1> QED  BY <1>2, <1>3, <1>4 DEF Starting, Good, Chained

\* The index stays within what ifo->arping allows, and one past it.
LEMMA ArpingAddr ==
    ASSUME NEW t \in State, ArpingTakes(t), NEW e \in Outcomes
    PROVE  /\ ArpingNext(t, e) \in Addr
           /\ t.arping + 1 \in -1..(Len(Arping) + 1)
<1>1. Len(Arping) \in Nat   BY AddrAssumption
<1>2. t.arping \in Int /\ t.arping >= -1 /\ t.alen \in {0, Len(Arping)}
  BY <1>1 DEF State
<1>3. t.alen = Len(Arping) /\ t.arping <= Len(Arping)
  BY <1>2 DEF ArpingTakes
<1>4. e.junk \in Addr   BY OptionAssumption DEF Outcome
<1>5. ASSUME t.arping + 1 < t.alen PROVE Arping[t.arping + 2] \in Addr
  <2>1. t.arping + 2 \in 1..Len(Arping)   BY <1>1, <1>2, <1>3, <1>5
  <2> QED  BY <2>1, AddrAssumption
<1>6. ArpingNext(t, e) \in Addr   BY <1>4, <1>5 DEF ArpingNext
<1>7. t.arping + 1 \in -1..(Len(Arping) + 1)   BY <1>1, <1>2, <1>3
<1> QED  BY <1>6, <1>7

\* dhcp_arping preserves the invariant.
LEMMA ArpingGood ==
    ASSUME NEW t, Good(t), NEW e \in Outcomes
    PROVE  Good(dhcp_arping(t, e))
<1>1. CASE ~ArpingTakes(t)   BY <1>1 DEF dhcp_arping
<1>2. CASE ArpingTakes(t)
  <2> DEFINE a == ArpingNext(t, e)
             t1 == [t EXCEPT !.arping = @ + 1]
             x == dhcp_arp_new(t1, a, e.arp)
  <2>1. t \in State   BY DEF Good
  <2>2. a \in Addr /\ t.arping + 1 \in -1..(Len(Arping) + 1)
    BY <1>2, <2>1, ArpingAddr
  <2>3. dhcp_arping(t, e) \in {t1, dhcp_start2(dhcp_init(t1), e), arp_probe(x, a)}
    BY <1>2 DEF dhcp_arping
  <2>4. Quiet(t, t1)
    <3> DEFINE i == t.arping + 1
    <3>1. t1 = [t EXCEPT !.arping = i]   BY <2>1 DEF State
    <3> HIDE DEF i
    <3>2. [t EXCEPT !.arping = i] \in State   BY <2>1, <2>2 DEF State, i
    <3>3. Quiet(t, [t EXCEPT !.arping = i])   BY <2>1, <3>2 DEF Quiet, State
    <3> QED  BY <3>1, <3>3
  <2>5. Good(t1)   BY <2>4, QuietGood
  <2> HIDE DEF a, t1
  <2>6. Good(dhcp_start2(dhcp_init(t1), e))   BY <2>5, InitStarting, Start2Good
  <2>7. e.arp \in BOOLEAN   BY OptionAssumption DEF Outcome
  <2>8. Good(x)   BY <2>2, <2>5, <2>7, ArpQuiet, QuietGood DEF Good
  <2> HIDE DEF x
  <2>9. Good(arp_probe(x, a))   BY <2>2, <2>8, ArpQuiet, QuietGood, Zenon DEF Good
  <2> QED  BY <2>3, <2>5, <2>6, <2>9
<1> QED  BY <1>1, <1>2

\* So does starting the interface, at once or after a delay.
LEMMA StartGood ==
    ASSUME NEW t, Good(t), NEW e \in Outcomes
    PROVE  /\ Good(dhcp_start1(t, e))
           /\ Good(dhcpcd_startinterface(t, e))
<1>1. Good(dhcp_start1(t, e))
  <2> DEFINE t1 == dhcp_init(t)
  <2>1. Starting(t1)   BY InitStarting
  <2>2. dhcp_start1(t, e) \in {t, dhcp_arping(t1, e), dhcp_start2(t1, e)}
    BY DEF dhcp_start1
  <2> HIDE DEF t1
  <2>3. Good(t1)   BY <2>1, StartingGood
  <2> QED  BY <2>1, <2>2, <2>3, ArpingGood, Start2Good
<1>2. Good([t EXCEPT !.timers = @ \cup {"start1"}])   BY ArmGood
<1>3. Good(dhcp_start(t, e))   BY <1>1, <1>2 DEF dhcp_start
<1> QED  BY <1>1, <1>3 DEF dhcpcd_startinterface

----------------------------------------------------------------------------
(* Duplicate address detection. *)

\* dhcp_finish_dad: the lease is timed when its probe is over.
LEMMA FinishDadGood ==
    ASSUME NEW t, Good(t), NEW a \in Addr, NEW e \in Outcomes
    PROVE  Good(dhcp_finish_dad(t, a, e))
<1> DEFINE b == dhcp_bind(t, e)
           t1 == get_lease(t, t.offer)
           t2 == ipv4_applyaddr(t1, e.add)
           t3 == ipv4ll_drop(t2)
<1>0. t \in State /\ t.offer \in Msg \cup {NoMsg}   BY DEF Good, State
<1>1. Good(b)   BY <1>0, BindGood DEF Good
<1>2. Good(ipv4ll_drop(b))   BY <1>1, PrimQuiet, QuietGood DEF Good
<1>3. Good(t1)   BY <1>0, GetLease DEF Good, Chained, LeaseTimed, LeaseInUse
<1>4. e.add \in BOOLEAN   BY OptionAssumption DEF Outcome
<1>5. Good(t2)
  <2> HIDE DEF t1
  <2> QED  BY <1>3, <1>4, ApplyQuiet, QuietGood DEF Good
<1>6. Good(t3)
  <2> HIDE DEF t2
  <2> QED  BY <1>5, PrimQuiet, QuietGood DEF Good
<1>7. Good(dhcp_inform(t3, e))   BY <1>6, InformGood
<1> QED  BY <1>2, <1>7 DEF dhcp_finish_dad

\* dhcp_addr_duplicated: discovery is pending, so the lease is not in use.
LEMMA DuplicatedGood ==
    ASSUME NEW t, Good(t), NEW a \in Addr, NEW e \in Outcomes
    PROVE  Good(dhcp_addr_duplicated(t, a, e))
<1>1. CASE t.offer.addr # a /\ t.lease.addr # a
  BY <1>1 DEF dhcp_addr_duplicated
<1>2. CASE ~(t.offer.addr # a /\ t.lease.addr # a)
  <2> DEFINE t1 == dhcp_unlink(t)
             t2 == IF Has("STATIC") \/ t.lease.frominfo THEN t1
                   ELSE dhcp_decline(t1, e.note)
             w == IF Has("STATIC") \/ Has("INFORM") THEN {} ELSE {"discover"}
             u == [t2 EXCEPT !.timers = w]
  <2>1. dhcp_addr_duplicated(t, a, e) = u   BY <1>2 DEF dhcp_addr_duplicated
  <2>2. Good(t1)   BY PrimQuiet, QuietGood DEF Good
  <2> HIDE DEF t1
  <2>3. Good(t2)   BY <2>2, DeclineGood
  <2> HIDE DEF t2
  <2>4. w \subseteq {"discover"} /\ (Plain => w = {"discover"})   BY DEF Plain
  <2> HIDE DEF w
  <2>5. u \in State /\ u.timers = w   BY <2>3, <2>4, SMTT(40) DEF Good, State, Timers
  <2> HIDE DEF u
  <2>6. Chained(u)   BY <2>4, <2>5 DEF Chained
  <2>7. LeaseTimed(u)   BY <2>4, <2>5 DEF LeaseTimed, LeaseInUse
  <2> QED  BY <2>1, <2>5, <2>6, <2>7 DEF Good
<1> QED  BY <1>1, <1>2

\* dhcp_arp_not_found preserves the invariant.
LEMMA NotFoundGood ==
    ASSUME NEW t, Good(t), NEW a \in Addr, NEW e \in Outcomes
    PROVE  Good(dhcp_arp_not_found(t, a, e))
<1> DEFINE t1 == dhcp_arping(t, e)
<1>1. Good(t1)   BY ArpingGood
<1> HIDE DEF t1
<1>2. Good(arp_freeaddr(t1, a))
  <2>1. Quiet(t1, arp_freeaddr(t1, a))   BY <1>1, ArpQuiet, Zenon DEF Good
  <2> QED  BY <1>1, <2>1, QuietGood
<1>3. Good(dhcp_finish_dad(t1, a, e))   BY <1>1, FinishDadGood
<1> QED  BY <1>2, <1>3 DEF dhcp_arp_not_found, t1

\* dhcp_arp_defend_failed preserves the invariant.
LEMMA DefendFailedGood ==
    ASSUME NEW t, Good(t), NEW e \in Outcomes
    PROVE  Good(dhcp_arp_defend_failed(t, e))
<1> DEFINE t1 == IF Has("INFORM") \/ Has("STATIC") THEN t
                 ELSE dhcp_decline(t, e.note)
           t2 == IF t1.crash = "none" THEN dhcp_drop(t1) ELSE t1
           t3 == dhcp_unlink(t2)
<1>1. Good(t1)   BY DeclineGood
<1> HIDE DEF t1
<1>2. Good(t2)   BY <1>1, DropDropped, DroppedGood, Zenon DEF Good
<1> HIDE DEF t2
<1>3. Good(t3)   BY <1>2, PrimQuiet, QuietGood DEF Good
<1> HIDE DEF t3
<1>4. Good(dhcp_start1(t3, e))   BY <1>3, StartGood
<1> QED  BY <1>4 DEF dhcp_arp_defend_failed, t1, t2, t3

----------------------------------------------------------------------------
(* The actions. *)

\* A handler that ends in a good record preserves the invariant.
LEMMA BecomesGood ==
    ASSUME NEW t, Good(t), Becomes(t)
    PROVE  Good(s)' /\ opt' = opt
<1>1. s' = t /\ opt' = opt   BY DEF Becomes
<1>2. LeaseTimed(s)' <=> LeaseTimed(t)
  BY <1>1 DEF LeaseTimed, LeaseInUse, Plain, Has
<1>3. Chained(s)' <=> Chained(t)   BY <1>1 DEF Chained
<1> QED  BY <1>1, <1>2, <1>3 DEF Good, SteadyArp

\* A timeout that is no part of the chain may expire.
LEMMA WithoutGood ==
    ASSUME Good(s), NEW x,
           x \notin {"startrenew", "rebind", "expire", "discover"}
    PROVE  Good(Without(x))
<1> DEFINE u == Without(x)
<1>1. /\ u \in State /\ u.st = s.st /\ u.new = s.new
      /\ u.timers = s.timers \ {x}
  BY DEF Good, State, Without
<1> HIDE DEF u
<1>2. Chained(s) => Chained(u)   BY <1>1 DEF Chained
<1>3. LeaseTimed(s) => LeaseTimed(u)
  <2>1. LeaseInUse(u) => LeaseInUse(s)   BY <1>1 DEF LeaseInUse
  <2> QED  BY <1>1, <2>1 DEF LeaseTimed
<1>4. Good(u)   BY <1>1, <1>2, <1>3 DEF Good
<1> QED  BY <1>4 DEF u

\* Every timeout callback preserves the invariant.
LEMMA FireTimerGood ==
    ASSUME Good(s), FireTimer PROVE Good(s)' /\ opt' = opt
<1>0. \A x : Without(x) \in State /\ Without(x).crash = s.crash
             /\ Without(x).timers = s.timers \ {x} /\ Without(x).st = s.st
             /\ Without(x).new = s.new
  BY DEF Good, State, Without
<1>1. CASE FireStart1
  <2>1. Good(Without("start1"))   BY WithoutGood
  <2> QED  BY <1>1, <2>1, StartGood, BecomesGood DEF FireStart1
<1>2. CASE FireDiscover
  <2>1. PICK e \in Outcomes : Running /\ Becomes(dhcp_discover(Without("discover"), e))
    BY <1>2 DEF FireDiscover
  <2>2. Good(dhcp_discover(Without("discover"), e))
    BY <1>0, <2>1, DiscoverGood DEF Running
  <2> QED  BY <2>1, <2>2, BecomesGood
<1>3. CASE FireRequestFailed
  <2>1. Good(Without("requestfailed"))   BY WithoutGood
  <2> QED  BY <1>3, <2>1, RequestFailedGood, BecomesGood DEF FireRequestFailed
<1>4. CASE FireStartRenew
  <2> DEFINE u == Without("startrenew")
  <2>1. u.timers = s.timers \ {"startrenew"} /\ u.st = s.st /\ u.new = s.new /\ u \in State
    BY <1>0
  <2> HIDE DEF u
  <2>2. LeaseInUse(u) => LeaseInUse(s)   BY <2>1 DEF LeaseInUse
  <2>3. SteadyArp => Chained(u)   BY <2>1 DEF Good, Chained
  <2>4. Renewable(u)   BY <2>1, <2>2, <2>3 DEF Good, Renewable, LeaseTimed
  <2>5. \A e : Good(dhcp_startrenew(u, e))   BY <2>4, StartRenewGood
  <2> QED  BY <1>4, <2>5, BecomesGood DEF FireStartRenew, u
<1>5. CASE FireRebind
  <2> DEFINE u == Without("rebind")
  <2>1. u.timers = s.timers \ {"rebind"} /\ u \in State   BY <1>0
  <2>2. "rebind" \in s.timers   BY <1>5 DEF FireRebind, Due
  <2> HIDE DEF u
  <2>3. SteadyArp => Chained(u) /\ "expire" \in u.timers
    BY <2>1, <2>2 DEF Good, Chained
  <2>4. \A e : Good(dhcp_rebind(u, e))   BY <2>1, <2>3, RebindGood
  <2> QED  BY <1>5, <2>4, BecomesGood DEF FireRebind, u
<1>6. CASE FireExpire
  <2>1. PICK e \in Outcomes : Running /\ Becomes(dhcp_expire(Without("expire"), e))
    BY <1>6 DEF FireExpire
  <2>2. Good(dhcp_expire(Without("expire"), e))
    BY <1>0, <2>1, ExpireGood DEF Running
  <2> QED  BY <2>1, <2>2, BecomesGood
<1>7. CASE FireLastLease
  <2>1. \A e \in Outcomes : Good(dhcp_lastlease(Without("lastlease"), e))
    BY <1>0, LastLeaseGood
  <2> QED  BY <1>7, <2>1, BecomesGood DEF FireLastLease
<1>8. CASE FireIpv4LLStart
  <2>1. Good(Without("ipv4ll_start"))   BY WithoutGood
  <2>2. Good(ipv4ll_start(Without("ipv4ll_start")))
    BY <1>0, <2>1, PrimQuiet, QuietGood
  <2> QED  BY <1>8, <2>2, BecomesGood DEF FireIpv4LLStart
<1>9. ASSUME NEW x \in Retransmits, NEW y \in {"DISCOVER", "REQUEST", "INFORM"},
             FireSend(x, y)
      PROVE  Good(s)' /\ opt' = opt
  <2>1. Good(Without(x))   BY WithoutGood DEF Retransmits
  <2>2. \A h : Good(send_message(Without(x), y, x, h))   BY <2>1, SendGood
  <2> QED  BY <1>9, <2>2, BecomesGood DEF FireSend
<1> QED
  BY <1>1, <1>2, <1>3, <1>4, <1>5, <1>6, <1>7, <1>8, <1>9
  DEF FireTimer, Retransmits

\* Every lease is bound through here: nothing is assumed of the timeouts.
LEMMA AcceptGood ==
    ASSUME NEW t \in State, NEW m \in Msg, NEW e \in Outcomes
    PROVE  Good(Accept(t, m, e))
<1> DEFINE x == [t EXCEPT !.offer = m]
           y == [x EXCEPT !.lease.frominfo = FALSE]
           z == [y EXCEPT !.timers = {}]
<1>1. x \in State   BY DEF State
<1>2. Accept(t, m, e) = dhcp_arp_bind(z, e)   BY DEF Accept
<1> HIDE DEF x
<1>3. y \in State   BY <1>1, SetFromInfo, Zenon
<1> HIDE DEF y
<1>4. z \in State   BY <1>3 DEF State
<1> HIDE DEF z
<1> QED  BY <1>2, <1>4, ArpBindGood

\* The client gives its lease up, and starts again later.
LEMMA RestartLaterGood ==
    ASSUME NEW t \in State, NEW w, w \subseteq {"discover"}
    PROVE  LET u == dhcp_unlink(dhcp_drop(t))
           IN  Good(u) /\ Good([u EXCEPT !.timers = @ \cup w])
                       /\ Good([u EXCEPT !.timers = w])
<1> DEFINE u == dhcp_unlink(dhcp_drop(t))
           v == [u EXCEPT !.timers = w]
<1>1. Dropped(u)
  <2>1. Dropped(dhcp_drop(t))   BY DropDropped, Zenon
  <2> QED  BY <2>1, PrimQuiet DEF Dropped, Quiet
<1> HIDE DEF u
<1>2. [u EXCEPT !.timers = @ \cup w] = v   BY <1>1 DEF Dropped, State
<1>3. v \in State /\ v.st = "NONE" /\ v.timers = w
  <2>1. w \in SUBSET Timers   BY DEF Timers
  <2>2. u \in State /\ u.st = "NONE"   BY <1>1 DEF Dropped
  <2>3. v \in State   BY <2>1, <2>2 DEF State
  <2> QED  BY <2>2, <2>3 DEF State
<1> HIDE DEF v
<1>4. Good(v)
  <2>1. Chained(v)   BY <1>3 DEF Chained
  <2> QED  BY <1>3, <2>1, NotLeased
<1>5. Good(u)   BY <1>1, DroppedGood
<1> QED  BY <1>2, <1>4, <1>5 DEF u, v

\* Every DHCP message does.
LEMMA RecvGood ==
    ASSUME Good(s), Recv PROVE Good(s)' /\ opt' = opt
<1>0. s \in State   BY DEF Good
<1>a. Pool \subseteq Addr   BY AddrAssumption
<1>1. CASE RecvOffer
  <2>1. PICK a \in Pool, i \in BOOLEAN, e \in Outcomes :
          LET m == [kind |-> "OFFER", addr |-> a, inf |-> i]
              t1 == get_lease([s EXCEPT !.offer = m], m)
          IN s.st = "DISCOVER" /\ Becomes(dhcp_request(
                [t1 EXCEPT !.lease.frominfo = FALSE,
                           !.timers = @ \ {"send_discover"}], e))
    BY <1>1, ZenonT(60) DEF RecvOffer
  <2> DEFINE m == [kind |-> "OFFER", addr |-> a, inf |-> i]
             x == [s EXCEPT !.offer = m]
             t1 == get_lease(x, m)
             y == [t1 EXCEPT !.lease.frominfo = FALSE]
             z == [y EXCEPT !.timers = @ \ {"send_discover"}]
  <2>2. m \in Msg   BY <1>a DEF Msg
  <2>3. [t1 EXCEPT !.lease.frominfo = FALSE,
                   !.timers = @ \ {"send_discover"}] = z
    <3> HIDE DEF t1
    <3> QED  OBVIOUS
  <2>b. Becomes(dhcp_request(z, e))   BY <2>1, <2>3
  <2> HIDE DEF m
  <2>4. x \in State /\ x.st = "DISCOVER" /\ x.timers = s.timers
    BY <1>0, <2>1, <2>2 DEF State
  <2> HIDE DEF x
  <2>5. t1 \in State /\ t1.st = "DISCOVER" /\ t1.timers = s.timers
    BY <2>2, <2>4, GetLease
  <2> HIDE DEF t1
  <2>6. y \in State /\ y.st = "DISCOVER" /\ y.timers = s.timers
    BY <2>5, SetFromInfo, Zenon
  <2> HIDE DEF y
  <2>7. z \in State /\ z.st = "DISCOVER" /\ z.timers = s.timers \ {"send_discover"}
    BY <2>6 DEF State
  <2> HIDE DEF z
  <2>8. Good(z)   BY <2>7 DEF Good, Chained, LeaseTimed, LeaseInUse
  <2> QED  BY <2>8, <2>b, RequestGood, BecomesGood, SMTT(40)
<1>2. CASE RecvAck
  <2>1. PICK q \in Asked({"REQUEST", "INFORM"}), i \in BOOLEAN, e \in Outcomes :
          /\ q.addr # NoAddr
          /\ Becomes(Accept(s, [kind |-> "ACK", addr |-> q.addr, inf |-> i], e))
    BY <1>2 DEF RecvAck
  <2>2. q.addr \in Addr   BY <1>0, <2>1 DEF Asked, State, Question
  <2>3. [kind |-> "ACK", addr |-> q.addr, inf |-> i] \in Msg   BY <2>2 DEF Msg
  <2> QED  BY <1>0, <2>1, <2>3, AcceptGood, BecomesGood
<1>3. CASE RecvRapidCommit
  <2>1. PICK a \in Pool, i \in BOOLEAN, isoffer \in BOOLEAN, e \in Outcomes :
          LET m == [kind |-> "ACK", addr |-> a, inf |-> i]
              t == [s EXCEPT !.st = "REQUEST"]
          IN Becomes(Accept(IF isoffer THEN get_lease(t, m) ELSE t, m, e))
    BY <1>3 DEF RecvRapidCommit
  <2> DEFINE m == [kind |-> "ACK", addr |-> a, inf |-> i]
             t == [s EXCEPT !.st = "REQUEST"]
             u == IF isoffer THEN get_lease(t, m) ELSE t
  <2>2. m \in Msg   BY <1>a DEF Msg
  <2>3. t \in State   BY <1>0 DEF State, States
  <2>4. Becomes(Accept(u, m, e))   BY <2>1
  <2> HIDE DEF m, t
  <2>5. u \in State   BY <2>2, <2>3, GetLease
  <2> HIDE DEF u
  <2> QED  BY <2>2, <2>4, <2>5, AcceptGood, BecomesGood
<1>4. CASE RecvBootp
  <2>1. PICK a \in Pool, e \in Outcomes :
          LET m == [kind |-> "BOOTP", addr |-> a, inf |-> TRUE]
          IN Becomes(Accept(IF s.st = "DISCOVER" THEN get_lease(s, m) ELSE s, m, e))
    BY <1>4, Zenon DEF RecvBootp
  <2> DEFINE m == [kind |-> "BOOTP", addr |-> a, inf |-> TRUE]
             u == IF s.st = "DISCOVER" THEN get_lease(s, m) ELSE s
  <2>2. m \in Msg   BY <1>a DEF Msg
  <2>3. Becomes(Accept(u, m, e))   BY <2>1
  <2> HIDE DEF m
  <2>4. u \in State   BY <1>0, <2>2, GetLease
  <2> HIDE DEF u
  <2> QED  BY <2>2, <2>3, <2>4, AcceptGood, BecomesGood, SMTT(40)
<1>b. \A value : /\ Good(auto_configure(s, value))
                 /\ auto_configure(s, value).st = s.st
  <2>1. Quiet(s, ipv4ll_start(s)) /\ Quiet(s, ipv4ll_drop(s))
    BY <1>0, PrimQuiet, Zenon
  <2>2. Good(ipv4ll_start(s)) /\ Good(ipv4ll_drop(s))
    BY <1>0, <2>1, QuietGood
  <2>3. Quiet(ipv4ll_drop(s), arp_drop(ipv4ll_drop(s)))
    BY <2>2, PrimQuiet, Zenon DEF Good
  <2>4. Good(arp_drop(ipv4ll_drop(s)))   BY <2>2, <2>3, QuietGood
  <2> QED  BY <2>1, <2>2, <2>3, <2>4 DEF auto_configure, Quiet
<1>5. CASE RecvNak \/ RecvV6Only
  <2>1. PICK x : Good(x) /\ LET t == dhcp_unlink(dhcp_drop(x))
                            IN \/ Becomes(t)
                               \/ Becomes([t EXCEPT !.timers = @ \cup {"discover"}])
                               \/ Becomes([t EXCEPT !.timers = {"discover"}])
    <3>1. CASE RecvNak   BY <3>1 DEF RecvNak
    <3>2. CASE RecvV6Only   BY <3>2, <1>b DEF RecvV6Only
    <3> QED  BY <1>5, <3>1, <3>2
  <2> DEFINE t == dhcp_unlink(dhcp_drop(x))
             u == [t EXCEPT !.timers = @ \cup {"discover"}]
             v == [t EXCEPT !.timers = {"discover"}]
  <2>2. Good(t) /\ Good(u) /\ Good(v)   BY <2>1, RestartLaterGood, Zenon DEF Good
  <2>3. Becomes(t) \/ Becomes(u) \/ Becomes(v)   BY <2>1
  <2> HIDE DEF t, u, v
  <2> QED  BY <2>2, <2>3, BecomesGood
<1>6. CASE RecvAutoConf
  <2>1. PICK value :
          /\ s.st = "DISCOVER"
          /\ Becomes([auto_configure(s, value) EXCEPT !.timers = {"discover"}])
    BY <1>6, Zenon DEF RecvAutoConf
  <2> DEFINE t == auto_configure(s, value)
             u == [t EXCEPT !.timers = {"discover"}]
  <2>2. t \in State /\ t.st = "DISCOVER"   BY <1>b, <2>1 DEF Good
  <2>3. Becomes(u)   BY <2>1
  <2> HIDE DEF t
  <2>4. u \in State /\ u.st = "DISCOVER" /\ u.timers = {"discover"}
    BY <2>2 DEF State, Timers
  <2> HIDE DEF u
  <2>5. Good(u)   BY <2>4, NotLeased DEF Chained
  <2> QED  BY <2>3, <2>5, BecomesGood
<1>7. CASE RecvForceRenew
  <2>1. Renewable(s)   BY DEF Good, Renewable, LeaseTimed
  <2>2. Good(Without("send_inform"))   BY WithoutGood
  <2>3. \A e \in Outcomes : /\ Good(dhcp_startrenew(s, e))
                            /\ Good(dhcp_inform(Without("send_inform"), e))
    BY <2>1, <2>2, StartRenewGood, InformGood
  <2> QED  BY <1>7, <2>3, BecomesGood DEF RecvForceRenew
<1> QED
  BY <1>1, <1>2, <1>3, <1>4, <1>5, <1>6, <1>7 DEF Recv

\* The carrier plays no part in the invariant.
LEMMA SetLink ==
    ASSUME NEW t, Good(t), NEW l \in {"up", "down", "roam"}
    PROVE  Good([t EXCEPT !.link = l])
<1> DEFINE u == [t EXCEPT !.link = l]
<1>1. t \in State   BY DEF Good
<1>2. Quiet(t, u)   BY <1>1 DEF Quiet, State
<1> QED  BY <1>2, QuietGood

\* Nor do the addresses of the interface.
LEMMA SetAddrs ==
    ASSUME NEW t, Good(t), NEW a \in SUBSET Addr
    PROVE  Good([t EXCEPT !.addrs = a])
<1> DEFINE u == [t EXCEPT !.addrs = a]
<1>1. t \in State   BY DEF Good
<1>2. Quiet(t, u)   BY <1>1 DEF Quiet, State
<1> QED  BY <1>2, QuietGood

\* Nor does the configured number of arping addresses.
LEMMA ReconfiguredGood ==
    ASSUME NEW t, Good(t) PROVE Good(reconfigured(t))
<1> DEFINE u == [t EXCEPT !.alen = Len(Arping)]
<1>1. t \in State   BY DEF Good
<1>2. u \in State   BY <1>1 DEF State
<1>3. Quiet(t, u)   BY <1>1, <1>2, Zenon DEF Quiet, State
<1> QED  BY <1>3, QuietGood DEF reconfigured

\* dhcpcd_drop drops, whether or not the process survives it.
LEMMA DhcpcdDropDropped ==
    ASSUME NEW t, Good(t), NEW rel \in BOOLEAN, NEW persist \in BOOLEAN
    PROVE  Dropped(dhcpcd_drop(t, rel, persist))
<1> DEFINE x == ipv4ll_drop(t)
           t1 == dhcp_drop_opts(x, rel, persist)
<1>1. x \in State   BY PrimQuiet DEF Quiet, Good
<1> HIDE DEF x
<1>2. Dropped(t1)   BY <1>1, DropDropped
<1> HIDE DEF t1
<1>3. Dropped(arp_drop(t1))   BY <1>2, PrimQuiet DEF Dropped, Quiet
<1> QED  BY <1>2, <1>3 DEF dhcpcd_drop, x, t1

\* Every ARP event preserves the invariant.
LEMMA ArpEventsGood ==
    ASSUME Good(s), NEW a \in Addr,
           ArpNotFound(a) \/ ArpFound(a) \/ ArpDefendFailed(a)
    PROVE  Good(s)' /\ opt' = opt
<1>0. s \in State   BY DEF Good
<1>1. CASE ArpNotFound(a)
  <2> DEFINE u == [s EXCEPT !.arp[a] = "idle"]
  <2>1. Quiet(s, u)   BY <1>0 DEF Quiet, State
  <2>2. Good(u)   BY <2>1, QuietGood
  <2> HIDE DEF u
  <2>3. \A e \in Outcomes : Good(dhcp_arp_not_found(u, a, e))
    BY <2>2, NotFoundGood
  <2> QED  BY <1>1, <2>3, BecomesGood DEF ArpNotFound, u
<1>2. CASE ArpFound(a)
  <2> DEFINE f == arp_freeaddr(s, a)
             x == [f EXCEPT !.timers = {}, !.alen = 0]
  <2>1. Good(f)   BY <1>0, ArpQuiet, QuietGood, Zenon
  <2>2. PICK e \in Outcomes :
          \/ Becomes(dhcp_arp_not_found(s, a, e))
          \/ /\ s.arping # -1 /\ s.arping < s.alen
             /\ Becomes(dhcpcd_startinterface(x, e))
          \/ Becomes(dhcp_addr_duplicated(f, a, e))
    BY <1>2 DEF ArpFound
  <2> HIDE DEF f
  <2>3. Good(dhcp_arp_not_found(s, a, e)) /\ Good(dhcp_addr_duplicated(f, a, e))
    BY <2>1, NotFoundGood, DuplicatedGood
  <2>4. ASSUME s.arping # -1, s.arping < s.alen
        PROVE  Good(dhcpcd_startinterface(x, e))
    <3>1. x \in State   BY <2>1, ZenonT(60) DEF Good, State
    <3>2. ~SteadyArp
      <4>1. SteadyArp => Len(Arping) = 0   BY DEF SteadyArp
      <4>2. Len(Arping) \in Nat   BY AddrAssumption
      <4>3. s.arping \in Int /\ s.arping >= -1 /\ s.alen \in {0, Len(Arping)}
        BY <1>0, <4>2 DEF State
      <4> QED  BY <2>4, <4>1, <4>2, <4>3
    <3>3. Good(x)   BY <3>1, <3>2 DEF Good
    <3> QED  BY <3>3, StartGood
  <2> QED  BY <2>2, <2>3, <2>4, BecomesGood
<1>3. CASE ArpDefendFailed(a)
  BY <1>3, DefendFailedGood, BecomesGood DEF ArpDefendFailed
<1> QED  BY <1>1, <1>2, <1>3

\* Every address event of the kernel does.
LEMMA KernelAddrGood ==
    ASSUME Good(s), NEW a \in Addr, DelAddr(a) \/ NewAddr(a)
    PROVE  Good(s)' /\ opt' = opt
<1>0. s \in State /\ s.addrs \subseteq Addr   BY DEF Good, State
<1>1. CASE DelAddr(a)
  <2> DEFINE t == [s EXCEPT !.addrs = @ \ {a}]
             x == [t EXCEPT !.bpf = FALSE, !.udp = FALSE, !.addr = NoAddr]
  <2>1. Good(t)
    <3>1. t = [s EXCEPT !.addrs = s.addrs \ {a}]   BY <1>0 DEF State
    <3>2. s.addrs \ {a} \in SUBSET Addr   BY <1>0
    <3> QED  BY <3>1, <3>2, SetAddrs
  <2>2. Becomes(t) \/ \E e \in Outcomes : Becomes(dhcp_start1(dhcp_drop(x), e))
    BY <1>1 DEF DelAddr
  <2> HIDE DEF t
  <2>3. x \in State   BY <2>1, ZenonT(60) DEF Good, State
  <2> HIDE DEF x
  <2>4. Good(dhcp_drop(x))   BY <2>3, DropDropped, DroppedGood, Zenon
  <2>5. \A e \in Outcomes : Good(dhcp_start1(dhcp_drop(x), e))
    BY <2>4, StartGood
  <2> QED  BY <2>1, <2>2, <2>5, BecomesGood
<1>2. CASE NewAddr(a)
  <2> DEFINE t == [s EXCEPT !.addrs = @ \cup {a}]
             x == [t EXCEPT !.addr = a, !.added = {"ADDED"}, !.bpf = FALSE,
                            !.udp = TRUE]
             t1 == IF /\ Has("PRIVSEP") /\ ~Has("MANAGER") /\ ~Has("CONFIGURE")
                      /\ s.lease.addr = a
                   THEN x ELSE t
             n == [t1 EXCEPT !.new = dhcp_message_new(a)]
  <2>1. Good(t)
    <3>1. t = [s EXCEPT !.addrs = s.addrs \cup {a}]   BY <1>0 DEF State
    <3>2. s.addrs \cup {a} \in SUBSET Addr   BY <1>0
    <3> QED  BY <3>1, <3>2, SetAddrs
  <2>2. \/ Becomes(t) \/ Becomes(t1) \/ (Has("STATIC") /\ Becomes(n))
        \/ \E e \in Outcomes : Becomes(dhcp_inform(t1, e))
    BY <1>2 DEF NewAddr
  <2> HIDE DEF t
  <2>3. Good(x)
    <3>1. t \in State   BY <2>1 DEF Good
    <3> DEFINE y == [t EXCEPT !.addr = a, !.added = {"ADDED"}]
    <3>2. y \in State   BY <3>1, Zenon DEF State
    <3>3. Quiet(t, y)   BY <3>1, <3>2 DEF Quiet, State
    <3>4. x = [y EXCEPT !.bpf = FALSE, !.udp = TRUE]   OBVIOUS
    <3> HIDE DEF y
    <3>5. Quiet(y, [y EXCEPT !.bpf = FALSE, !.udp = TRUE])
      BY <3>2, ZenonT(60) DEF Quiet, State
    <3> QED  BY <2>1, <3>3, <3>4, <3>5, QuietGood
  <2> HIDE DEF x
  <2>4. Good(t1)   BY <2>1, <2>3
  <2> HIDE DEF t1
  <2>5. Has("STATIC") => Good(n)
    <3>1. dhcp_message_new(a) \in Msg   BY StaticMsg
    <3>2. n \in State /\ n.timers = t1.timers   BY <2>4, <3>1 DEF Good, State
    <3> HIDE DEF n
    <3> QED  BY <2>4, <3>2 DEF Good, Chained, LeaseTimed, LeaseInUse, Plain
  <2>6. \A e \in Outcomes : Good(dhcp_inform(t1, e))   BY <2>4, InformGood
  <2> QED  BY <2>1, <2>2, <2>4, <2>5, <2>6, BecomesGood
<1> QED  BY <1>1, <1>2

\* Every carrier event does.
LEMMA CarrierGood ==
    ASSUME Good(s), CarrierUp \/ CarrierLost \/ CarrierRoaming
    PROVE  Good(s)' /\ opt' = opt
<1>0. s \in State   BY DEF Good
<1>r. Has("RELEASE") \in BOOLEAN   BY DEF Has
<1>1. CASE CarrierUp
  <2> DEFINE t == [s EXCEPT !.link = "up"]
             d == dhcpcd_drop(t, Has("RELEASE"), FALSE)
  <2>1. Good(t)   BY SetLink, Zenon
  <2>2. \/ Becomes(t) \/ Becomes(d)
        \/ \E e \in Outcomes : \/ Becomes(dhcpcd_startinterface(reconfigured(t), e))
                               \/ Becomes(dhcpcd_startinterface(reconfigured(d), e))
    BY <1>1, Zenon DEF CarrierUp
  <2> HIDE DEF t
  <2>3. Good(d)   BY <1>r, <2>1, DhcpcdDropDropped, DroppedGood, Zenon
  <2> HIDE DEF d
  <2>4. Good(reconfigured(t)) /\ Good(reconfigured(d))
    BY <2>1, <2>3, ReconfiguredGood
  <2>5. \A e \in Outcomes : /\ Good(dhcpcd_startinterface(reconfigured(t), e))
                            /\ Good(dhcpcd_startinterface(reconfigured(d), e))
    BY <2>4, StartGood
  <2> QED  BY <2>1, <2>2, <2>3, <2>5, BecomesGood
<1>2. CASE CarrierLost
  <2> DEFINE t == [s EXCEPT !.link = "down"]
             d == dhcpcd_drop(t, Has("RELEASE"), FALSE)
  <2>1. Good(t)   BY SetLink, Zenon
  <2>2. Becomes(t) \/ Becomes(d)   BY <1>2, Zenon DEF CarrierLost
  <2> HIDE DEF t
  <2>3. Good(d)   BY <1>r, <2>1, DhcpcdDropDropped, DroppedGood, Zenon
  <2> HIDE DEF d
  <2> QED  BY <2>1, <2>2, <2>3, BecomesGood
<1>3. CASE CarrierRoaming
  <2> DEFINE x == arp_drop(s)
             y == [x EXCEPT !.link = "roam"]
             z == [y EXCEPT !.arping = -1]
             u == [z EXCEPT !.timers = @ \ {"start1"}]
  <2>1. Good(x)   BY <1>0, PrimQuiet, QuietGood
  <2>2. Becomes(u)   BY <1>3 DEF CarrierRoaming
  <2> HIDE DEF x
  <2>3. Good(y)   BY <2>1, SetLink, Zenon
  <2> HIDE DEF y
  <2>4. Good(z)
    <3>1. y \in State   BY <2>3 DEF Good
    <3>2. Len(Arping) \in Nat   BY AddrAssumption
    <3>3. -1 \in -1..(Len(Arping) + 1)   BY <3>2
    <3>4. z \in State   BY <3>1, <3>3 DEF State
    <3>5. Quiet(y, z)   BY <3>1, <3>4 DEF Quiet, State
    <3> QED  BY <2>3, <3>5, QuietGood
  <2> HIDE DEF z
  <2>5. Good(u)
    <3>1. /\ u \in State /\ u.st = z.st /\ u.new = z.new
          /\ u.timers = z.timers \ {"start1"}
      BY <2>4 DEF Good, State
    <3> HIDE DEF u
    <3>2. Chained(z) => Chained(u)   BY <3>1 DEF Chained
    <3>3. LeaseInUse(u) => LeaseInUse(z)   BY <3>1 DEF LeaseInUse
    <3>4. LeaseTimed(z) => LeaseTimed(u)   BY <3>1, <3>3 DEF LeaseTimed
    <3> QED  BY <2>4, <3>1, <3>2, <3>4 DEF Good
  <2> QED  BY <2>2, <2>5, BecomesGood
<1> QED  BY <1>1, <1>2, <1>3

\* ifp->active plays no part in the invariant.
LEMMA SetActive ==
    ASSUME NEW t, Good(t), NEW v \in BOOLEAN
    PROVE  Good([t EXCEPT !.active = v])
<1> DEFINE u == [t EXCEPT !.active = v]
<1>1. t \in State   BY DEF Good
<1>2. Quiet(t, u)   BY <1>1 DEF Quiet, State
<1> QED  BY <1>2, QuietGood

\* Every command preserves the invariant.
LEMMA UserGood ==
    ASSUME Good(s), User PROVE Good(s)' /\ opt' = opt
<1>0. s \in State   BY DEF Good
<1>1. CASE UserRenew
  <2>1. Renewable(s)   BY DEF Good, Renewable, LeaseTimed
  <2> QED  BY <1>1, <2>1, StartRenewGood, BecomesGood DEF UserRenew
<1>2. CASE UserReboot
  <2> DEFINE r == reconfigured(s)
             d == dhcp_drop(r)
  <2>1. Good(r)   BY ReconfiguredGood
  <2>2. \/ Becomes(r) \/ Becomes(d)
        \/ \E e \in Outcomes : \/ Becomes(dhcpcd_startinterface(r, e))
                               \/ Becomes(dhcpcd_startinterface(d, e))
    BY <1>2 DEF UserReboot
  <2> HIDE DEF r
  <2>3. Good(d)   BY <2>1, DropDropped, DroppedGood, Zenon DEF Good
  <2> HIDE DEF d
  <2>4. \A e \in Outcomes : /\ Good(dhcpcd_startinterface(r, e))
                            /\ Good(dhcpcd_startinterface(d, e))
    BY <2>1, <2>3, StartGood
  <2> QED  BY <2>1, <2>2, <2>3, <2>4, BecomesGood
<1>3. CASE UserReconfigure
  <2>1. Good(ipv4_unapplyaddr(s))   BY <1>0, ApplyQuiet, QuietGood, ZenonT(60)
  <2>2. \A e \in Outcomes : Good(ipv4_applyaddr(s, e.add))
    <3>1. \A e \in Outcomes : e.add \in BOOLEAN   BY OptionAssumption DEF Outcome
    <3> QED  BY <1>0, <3>1, ApplyQuiet, QuietGood
  <2> QED  BY <1>3, <2>1, <2>2, BecomesGood DEF UserReconfigure
<1>4. CASE UserStop
  <2>1. PICK rel \in BOOLEAN, ipv4only \in BOOLEAN :
          LET t == dhcpcd_drop(s, rel \/ Has("RELEASE"),
                               Has("PERSISTENT") /\ ~rel)
          IN Becomes(IF t.crash = "none"
                     THEN [t EXCEPT !.timers = {}, !.active = ipv4only] ELSE t)
    BY <1>4, Zenon DEF UserStop
  <2> DEFINE t == dhcpcd_drop(s, rel \/ Has("RELEASE"), Has("PERSISTENT") /\ ~rel)
             x == [t EXCEPT !.timers = {}]
             y == [x EXCEPT !.active = ipv4only]
  <2>2. Dropped(t)   BY DhcpcdDropDropped, Zenon
  <2>3. Becomes(t) \/ Becomes(y)   BY <2>1
  <2> HIDE DEF t
  <2>4. Dropped(x)   BY <2>2 DEF Dropped, State
  <2> HIDE DEF x
  <2>5. Good(t) /\ Good(x)   BY <2>2, <2>4, DroppedGood
  <2>6. Good(y)   BY <2>5, SetActive
  <2> QED  BY <2>3, <2>5, <2>6, BecomesGood
<1>5. CASE UserStart
  <2> DEFINE x == [s EXCEPT !.active = TRUE]
             y == reconfigured(x)
  <2>1. Good(x)   BY SetActive, ZenonT(60)
  <2>2. \E e \in Outcomes : Becomes(dhcpcd_startinterface(y, e))
    BY <1>5 DEF UserStart
  <2> HIDE DEF x
  <2>3. Good(y)   BY <2>1, ReconfiguredGood
  <2> HIDE DEF y
  <2> QED  BY <2>2, <2>3, StartGood, BecomesGood
<1> QED  BY <1>1, <1>2, <1>3, <1>4, <1>5 DEF User

\* A process that has just started is good.
LEMMA FreshGood ==
    ASSUME NEW l \in {"up", "down", "roam"}, NEW a \in SUBSET Addr,
           NEW d \in Msg \cup {NoMsg}
    PROVE  Good(Fresh(l, a, d))
<1> DEFINE u == Fresh(l, a, d)
<1>1. Len(Arping) \in Nat   BY AddrAssumption
<1>2. -1 \in -1..(Len(Arping) + 1)   BY <1>1
<1>3. u \in State   BY <1>2 DEF Fresh, State, States
<1>4. u.st = "NONE" /\ u.timers = {}   BY DEF Fresh
<1>5. Dropped(u)   BY <1>3, <1>4 DEF Dropped
<1> QED  BY <1>5, DroppedGood

----------------------------------------------------------------------------
(* The theorems. *)

Inv == opt \in OptionSets /\ Good(s)

\* The invariant holds initially.
LEMMA InitInv == Init => Inv
<1> SUFFICES ASSUME Init PROVE Inv
  OBVIOUS
<1>1. Good(Fresh("down", {}, NoMsg))   BY FreshGood
<1> QED  BY <1>1 DEF Init, Inv

\* Every step preserves it.
LEMMA NextInv == Inv /\ [Next]_vars => Inv'
<1> SUFFICES ASSUME Inv, [Next]_vars PROVE Inv'
  OBVIOUS
<1>0. Good(s)   BY DEF Inv
<1>a. SUFFICES Good(s)' /\ opt' = opt
  BY DEF Inv
<1>1. CASE FireTimer   BY <1>0, <1>1, FireTimerGood
<1>2. CASE Recv   BY <1>0, <1>2, RecvGood
<1>3. CASE Kernel
  BY <1>0, <1>3, ArpEventsGood, KernelAddrGood, CarrierGood DEF Kernel
<1>4. CASE User   BY <1>0, <1>4, UserGood
<1>5. CASE Restart
  <2>1. PICK keep \in BOOLEAN, e \in Outcomes :
          Becomes(dhcpcd_startinterface(
             Fresh(s.link, IF keep THEN s.addrs ELSE {}, s.disk), e))
    BY <1>5 DEF Restart
  <2> DEFINE a == IF keep THEN s.addrs ELSE {}
             t == Fresh(s.link, a, s.disk)
  <2>2. /\ s.link \in {"up", "down", "roam"} /\ a \in SUBSET Addr
        /\ s.disk \in Msg \cup {NoMsg}
    BY <1>0 DEF Good, State
  <2> HIDE DEF a
  <2>3. Good(t)   BY <2>2, FreshGood, SMTT(40)
  <2>4. Becomes(dhcpcd_startinterface(t, e))   BY <2>1 DEF a
  <2> HIDE DEF t
  <2> QED  BY <2>3, <2>4, StartGood, BecomesGood
<1>6. CASE UNCHANGED vars
  <2>1. s' = s /\ opt' = opt   BY <1>6 DEF vars
  <2>2. Becomes(s)   BY <2>1 DEF Becomes
  <2> QED  BY <1>0, <2>2, BecomesGood
<1> QED  BY <1>1, <1>2, <1>3, <1>4, <1>5, <1>6 DEF Next

\* So it always holds.
LEMMA SpecInv == Spec => []Inv
<1> QED  BY InitInv, NextInv, PTL DEF Spec

\* Type correctness of the client's state, for every configuration, whatever
\* the network, the kernel and the user do.
THEOREM TypeCorrect == Spec => []TypeOK
<1>1. Inv => TypeOK   BY DEF Inv, Good, TypeOK
<1> QED  BY <1>1, SpecInv, PTL

\* dhcp_bind's promise, kept by every handler: a client that holds a finite
\* lease has its expiry pending, and before that its rebinding and renewal.
THEOREM LeaseAlwaysExpires ==
    ASSUME SteadyArp
    PROVE  Spec => []FiniteLeaseExpires
<1>1. Inv => FiniteLeaseExpires   BY DEF Inv, Good, FiniteLeaseExpires
<1> QED  BY <1>1, SpecInv, PTL
=============================================================================
