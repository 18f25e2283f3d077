------------------------------- MODULE Ipv6nd -------------------------------
(***************************************************************************)
(* Router discovery on one interface: src/src/ipv6nd.c, over Ipv6, with    *)
(* the messages of the kernel handled by ipv6_handleifa.                   *)
(*                                                                         *)
(* A router advertisement is its lifetime (that of a route information     *)
(* option for ::/0 if it has one), its preference, whether DHCPv6 is to be *)
(* used, a sequence of prefixes, the lifetime of one route and that of its *)
(* DNS servers, and whether it has an option the user rejects.  Time is in *)
(* seconds; a timeout is the time left, Off when it is not queued.         *)
(***************************************************************************)
EXTENDS Ipv6

CONSTANTS
    MAX_RTR_SOLICITATIONS, RTR_SOLICITATION_INTERVAL,
    MAX_RTR_SOLICITATION_DELAY, RTR_CARRIER_EXPIRE, IDGEN_DELAY,
    MIN_EXTENDED_VLTIME, EXPIRED_MAX,
    QueueBound,           \* messages of the kernel not yet read
    ListBound             \* addresses listed when a duplicate is found

Off == -1
Timer == {"startrs2", "sendrsprobe", "expirera", "expire"}

\* Wrong: one queue for all.
BugNDQueue == Timer

NDQueue == Timer \ {"expire"}       \* ELOOP_IPV6ND

Finite(n) == n \notin {0, Inf}
Least(S) == CHOOSE x \in S : \A y \in S : x <= y

\* eloop_timeout_delete(NULL, ifp): all of this interface in this queue.
DeleteTimeouts(t) ==
    [t EXCEPT !.at = [x \in Timer |-> IF x \in NDQueue THEN Off ELSE @[x]]]

NewRa(r) ==
    [from |-> r, data |-> <<>>, age |-> 0, life |-> 0, pref |-> 0, mo |-> "none",
     willexp |-> FALSE, doexp |-> FALSE, expired |-> FALSE, reach |-> TRUE,
     ias |-> <<>>, ri |-> [life |-> 0, age |-> 0]]

----------------------------------------------------------------------------
(* Solicitation. *)

\* Wrong: solicits for ever.
BugSendrsprobe(t) ==
    IF ~ipv6_linklocal(t) THEN ipv6_addlinklocalcallback(t, "sendrsprobe")
    ELSE [t EXCEPT !.probes = @ + 1, !.at["sendrsprobe"] = RTR_SOLICITATION_INTERVAL]

ipv6nd_sendrsprobe(t) ==
    IF ~ipv6_linklocal(t)
    THEN ipv6_addlinklocalcallback(t, "sendrsprobe")
    ELSE [t EXCEPT !.probes = @ + 1,
                   !.at["sendrsprobe"] = IF t.probes < MAX_RTR_SOLICITATIONS
                                         THEN RTR_SOLICITATION_INTERVAL ELSE @]

ipv6nd_startrs2(t) == ipv6nd_sendrsprobe([t EXCEPT !.rs = TRUE, !.probes = 0])

ipv6nd_startrs1(t) ==
    IF Has("INITIAL_DELAY")
    THEN [t EXCEPT !.at["startrs2"] = MAX_RTR_SOLICITATION_DELAY]
    ELSE ipv6nd_startrs2(t)

\* Wrong: nothing remembers to solicit once there is an address.
BugStartrs(t) == IF ipv6_linklocal(t) THEN ipv6nd_startrs1(t) ELSE t

ipv6nd_startrs(t) ==
    IF ipv6_linklocal(t) THEN ipv6nd_startrs1(t)
    ELSE ipv6_addlinklocalcallback(t, "startrs1")

\* The loop of ipv6_handleifa over the callbacks that wait for a link-local
\* address takes the first until there is none; one that puts itself back is
\* taken again.
RunCallbacks(t) ==
    LET Run(u, f) == IF f = "startrs1" THEN ipv6nd_startrs1(u) ELSE ipv6nd_sendrsprobe(u)
        u == FoldLeft(Run, [t EXCEPT !.cbs = <<>>], t.cbs)
    IN [u EXCEPT !.hung = @ \/ u.cbs # <<>>]

----------------------------------------------------------------------------
(* The list of routers. *)

\* ra1 goes before ra2 only when it is preferred.
Before(r1, r2) ==
    /\ ~(r1.expired /\ ~r2.expired)
    /\ ~(r1.willexp /\ ~r2.willexp)
    /\ ~(r1.life = 0 /\ r2.life # 0)
    /\ r1.reach
    /\ r1.pref > r2.pref

ipv6nd_sortrouters(t) ==
    LET Put(sorted, r1) ==
            LET j == SelectInSeq(sorted, LAMBDA r2 : Before(r1, r2))
            IN IF j = 0 THEN Append(sorted, r1) ELSE InsertAt(sorted, j, r1)
    IN [t EXCEPT !.ras = FoldLeft(Put, <<>>, @)]

\* Wrong: the last router of the list.
BugApplyLast(t) == [t EXCEPT !.ap = IF t.ras = <<>> THEN NoRouter ELSE Last(t.ras).from]

\* The parameters of the first router, or the defaults, go to the kernel.
ipv6nd_applyra(t) ==
    [t EXCEPT !.ap = IF t.ras = <<>> \/ t.ras[1].expired \/ t.ras[1].willexp
                     THEN NoRouter ELSE t.ras[1].from]

Index(t, r) == SelectInSeq(t.ras, LAMBDA rap : rap.from = r)

\* ipv6nd_free_ra: nothing is deleted from the interface, but every timeout
\* of the interface is.
ipv6nd_free_ra(t, i) == DeleteTimeouts([t EXCEPT !.ras = RemoveAt(@, i), !.said = @ \ {t.ras[i].from}])

ipv6nd_drop_ra(t) ==
    LET u == DeleteTimeouts([t EXCEPT !.ras = Tail(@), !.said = @ \ {Head(t.ras).from}])
    IN FoldLeft(ipv6_dropaddr, u, t.ras[1].ias)

ipv6nd_drop(t) ==
    LET Drop(u, rap) == ipv6nd_drop_ra(u)
        u == FoldLeft(Drop, DeleteTimeouts(t), t.ras)
    IN IF t.ras = <<>> THEN u ELSE rt_build(ipv6nd_applyra(u))

ipv6nd_neighbour(t, r, reachable) ==
    LET i == Index(t, r)
        u == rt_build(ipv6nd_applyra(ipv6nd_sortrouters([t EXCEPT !.ras[i].reach = reachable])))
        other == \E j \in DOMAIN u.ras :
                    u.ras[j].from # r /\ u.ras[j].reach /\ ~u.ras[j].expired /\ u.ras[j].life # 0
    IN IF i = 0 \/ t.ras[i].expired \/ t.ras[i].reach = reachable THEN t
       ELSE IF reachable \/ other THEN u
       ELSE ipv6nd_startrs(u)

----------------------------------------------------------------------------
(* Duplicate address detection. *)

AwaitsDad(ia) == {"AUTOCONF", "ADDED"} \subseteq ia.fl /\ "DAD" \notin ia.fl

\* ROUTERADVERT is run when every address the router gave has finished.
ipv6nd_scriptrun(t, i) ==
    LET Check(ia) == IF AwaitsDad(ia) /\ ipv6_iffindaddr(t, ia.a, {"tentative"})
                     THEN [ia EXCEPT !.fl = @ \cup {"DAD"}] ELSE ia
        old == t.ras[i].ias
        new == Each(Check, old)
        wait == SelectInSeq(new, AwaitsDad)
        \* the loop returns at the first that waits
        u == [t EXCEPT !.ras[i].ias =
                IF wait = 0 THEN new ELSE SubSeq(new, 1, wait) \o SubSeq(old, wait + 1, Len(old))]
    IN [u EXCEPT !.said = IF wait # 0 THEN @ \ {t.ras[i].from} ELSE @ \cup {t.ras[i].from}]

\* ipv6nd_dadcallback on one address: a stable private one that is duplicated
\* is replaced by the next, to be added by a timeout.
Retries(ia) ==
    ia.af = "duplicated" /\ Has("SLAACPRIVATE") /\ ia.dc + 1 < IDGEN_RETRIES

\* Wrong: the script is not run when DAD completes.
BugDadNoScript(t, ia) ==
    [t |-> t, script |-> FALSE, ia |-> [ia EXCEPT !.fl = @ \cup {"DAD"}]]

ipv6nd_dadcallback(t, ia) ==
    LET dc == IF ia.af = "duplicated" /\ ia.dc < IDGEN_RETRIES THEN ia.dc + 1 ELSE ia.dc
    IN IF Retries(ia)
       THEN [t |-> if_address6_del(t, ia.a), script |-> FALSE,
             ia |-> [ia EXCEPT !.a = <<@[1], dc>>, !.dc = dc, !.pend = TRUE,
                               !.fl = @ \ {"ADDED", "DAD"}]]
       ELSE [t |-> t, script |-> "DAD" \notin ia.fl,
             ia |-> [ia EXCEPT !.dc = dc, !.fl = @ \cup {"DAD"}]]

DadDecided(af) == af # "tentative"

\* ipv6_handleifa_addrs for address j of router i.
HandleRaAddr(t, i, j, cmd, a, af) ==
    LET ia == [t.ras[i].ias[j] EXCEPT !.af = af]
        r == IF ia.cb = "ra" THEN ipv6nd_dadcallback(t, ia)
             ELSE [t |-> t, ia |-> ia, script |-> FALSE]
        checked == DadDecided(af) /\ "DAD" \notin ia.fl
        u1 == IF checked THEN [r.t EXCEPT !.ras[i].ias[j] = r.ia]
              ELSE [t EXCEPT !.ras[i].ias[j] = ia]
        u2 == IF checked /\ r.script
                 /\ \A x \in DOMAIN u1.ras[i].ias : ~AwaitsDad(u1.ras[i].ias[x])
              THEN ipv6nd_scriptrun(u1, i) ELSE u1
        dad == IF checked THEN {"DAD"} ELSE {}
    IN IF t.ras[i].ias[j].a # a THEN t
       ELSE [u2 EXCEPT !.ras[i].ias[j].fl =
                (@ \cup dad) \ (IF cmd = "DEL" THEN {"ADDED"} ELSE {})]

ipv6nd_handleifa(t, cmd, a, af) ==
    LET OfRouter(u, i) ==
            LET OfAddr(v, j) == HandleRaAddr(v, i, j, cmd, a, af)
                each == [j \in DOMAIN u.ras[i].ias |-> j]
            IN FoldLeft(OfAddr, u, each)
        every == [i \in DOMAIN t.ras |-> i]
    IN FoldLeft(OfRouter, t, every)

\* ipv6_staticdadcallback: STATIC6 is run when all static ones have finished.
ipv6_staticdadcallback(t, ia) ==
    [t |-> IF "DAD" \in ia.fl THEN t ELSE [t EXCEPT !.said = @ \cup {STATIC}],
     ia |-> [ia EXCEPT !.fl = @ \cup {"DAD"}]]

\* A message of the kernel.  The callback runs on the address of the list,
\* which may change it; ipv6nd_handleifa is then given what it has become.
\* A deleted address is out of the list while the callbacks run.
ListedCallback(t, ia, af) ==
    IF ia.cb = "none" \/ ~DadDecided(af) THEN [t |-> t, ia |-> ia]
    ELSE IF ia.cb = "ra" THEN ipv6nd_dadcallback(t, ia) ELSE ipv6_staticdadcallback(t, ia)

AfterCallback(cb, j, cmd, a, af) ==
    LET t1 == IF cmd = "DEL" THEN cb.t ELSE [cb.t EXCEPT !.ifa[j] = cb.ia]
        t2 == IF IsLL(a) /\ af \notin NOTUSEABLE THEN RunCallbacks(t1) ELSE t1
        dad == IF cmd = "NEW" /\ af \notin NOTUSEABLE THEN {"DAD"} ELSE {}
        Mark(q) == IF dad = {} THEN q ELSE [q EXCEPT ![j].fl = @ \cup dad]
    IN [ipv6nd_handleifa(t2, cmd, cb.ia.a, af) EXCEPT !.ifa = Mark(@)]

GlobalChanged(t, u) == IF t.ipv6 /\ ipv6_anyglobal(u) # ipv6_anyglobal(t) THEN rt_build(u) ELSE u

Listed(t, j, cmd, a, af) ==
    LET ia == [t.ifa[j] EXCEPT !.af = af, !.fl = IF cmd = "NEW" THEN @ \ {"STALE"} ELSE @]
        out == IF cmd = "DEL" THEN [t EXCEPT !.ifa = RemoveAt(@, j)] ELSE t
    IN AfterCallback(ListedCallback(out, ia, af), j, cmd, a, af)

ipv6_handleifa(t, cmd, a, af) ==
    LET new == NewIa(a, af, IF af \in NOTUSEABLE THEN {} ELSE {"DAD"}, Inf)
        known == Find(t, a) # 0
        u == IF known THEN t ELSE [t EXCEPT !.ifa = Append(@, new)]
    IN IF cmd = "DEL" /\ ~known THEN t ELSE GlobalChanged(t, Listed(u, Find(u, a), cmd, a, af))

\* Wrong: a message is believed whatever happened since.
BugLinkAddr(t, m) == ipv6_handleifa(t, m.cmd, m.a, m.af)

\* A message that is no longer true is ignored.
link_addr(t, m) ==
    IF (m.cmd = "NEW") # (t.k[m.a] # "none") THEN t
    ELSE ipv6_handleifa(t, m.cmd, m.a, m.af)

\* The timeout of a retry adds the address it was set for.
ipv6nd_addaddr_ifa(t, j) ==
    LET r == ipv6_addaddr(t, [t.ifa[j] EXCEPT !.pend = FALSE])
    IN [r.t EXCEPT !.ifa[j] = r.ia]

ipv6nd_addaddr_ra(t, i, j) ==
    LET r == ipv6_addaddr(t, [t.ras[i].ias[j] EXCEPT !.pend = FALSE])
    IN [r.t EXCEPT !.ras[i].ias[j] = r.ia]

----------------------------------------------------------------------------
(* Expiry. *)

Over(lifetime, age, doexp) == lifetime # 0 /\ ((lifetime # Inf /\ age >= lifetime) \/ doexp)
Left(lifetime, age) == IF Finite(lifetime) THEN {lifetime - age} ELSE {}

Dns(rap) == IF rap.data = <<>> THEN 0 ELSE rap.data.dns

\* What is left of a router: its lifetime (an infinite one stays), the
\* prefixes, the route.
ExpireRa(rap) ==
    [rap EXCEPT
        !.life = IF @ # Inf /\ Over(@, rap.age, rap.doexp) THEN 0 ELSE @,
        !.ias = Each(LAMBDA x : IF Over(x.vl, x.age, rap.doexp)
                                THEN [x EXCEPT !.vl = 0, !.age = 0, !.fl = @ \ {"ADDED", "DAD"}]
                                ELSE x, @),
        !.ri = IF Over(@.life, @.age, rap.doexp) THEN [life |-> 0, age |-> 0] ELSE @]

\* Wrong: the end of a router's own lifetime is not noticed.
BugPartExpired(rap) ==
    \E j \in DOMAIN rap.ias : Over(rap.ias[j].vl, rap.ias[j].age, rap.doexp)

\* What makes the script and the routes be run again: not the end of a route.
PartExpired(rap) ==
    \/ rap.life # Inf /\ Over(rap.life, rap.age, rap.doexp)
    \/ \E j \in DOMAIN rap.ias : Over(rap.ias[j].vl, rap.ias[j].age, rap.doexp)
    \/ Over(Dns(rap), rap.age, rap.doexp)

\* After ExpireRa: a router is kept for a finite lifetime, a prefix or a
\* server, not for an infinite lifetime or a route.
Valid(rap) ==
    \/ Finite(rap.life)
    \/ \E j \in DOMAIN rap.ias : rap.ias[j].vl # 0
    \/ Dns(rap) # 0 /\ ~Over(Dns(rap), rap.age, rap.doexp)

\* Wrong: the router's own lifetime is not waited for.
BugNextExpiry(rap) ==
    UNION {Left(rap.ias[j].vl, rap.ias[j].age) : j \in DOMAIN rap.ias}

NextExpiry(rap) ==
    Left(rap.life, rap.age)
    \cup UNION {Left(rap.ias[j].vl, rap.ias[j].age) : j \in DOMAIN rap.ias}
    \cup (IF Over(Dns(rap), rap.age, rap.doexp) THEN {} ELSE Left(Dns(rap), rap.age))

\* Addresses that expire go from the kernel only, which will report it.
DeleteExpired(t, rap) ==
    LET Del(u, ia) == IF "ADDED" \in ia.fl /\ Over(ia.vl, ia.age, rap.doexp)
                      THEN if_address6_del(u, ia.a) ELSE u
    IN FoldLeft(Del, t, rap.ias)

ipv6nd_expirera(t) ==
    LET Expire(acc, rap) ==
            LET rap1 == ExpireRa(rap)
                dead == ~Valid(rap1)
            IN IF rap.expired THEN [acc EXCEPT !.t.ras = Append(@, rap)]
               ELSE [t |-> LET u == DeleteExpired(acc.t, rap)
                           IN IF ~dead THEN [u EXCEPT !.ras = Append(@, rap1)]
                              ELSE IF acc.n < EXPIRED_MAX
                              THEN [u EXCEPT !.ras = Append(@, [rap1 EXCEPT !.expired = TRUE])]
                              ELSE DeleteTimeouts([u EXCEPT !.said = @ \ {rap.from}]),
                     n |-> acc.n + (IF dead THEN 1 ELSE 0),
                     next |-> acc.next \cup NextExpiry(rap1),
                     expired |-> acc.expired \/ PartExpired(rap)]
        all == FoldLeft(Expire, [t |-> [t EXCEPT !.ras = <<>>], n |-> 0,
                                 next |-> {}, expired |-> FALSE], t.ras)
        u == IF all.next = {} THEN all.t
             ELSE [all.t EXCEPT !.at["expirera"] = Least(all.next)]
    IN IF all.expired THEN rt_build(ipv6nd_applyra(ipv6nd_sortrouters(u))) ELSE u

ipv6nd_expire(t) ==
    ipv6nd_expirera(
        [t EXCEPT !.ras = Each(LAMBDA x : [x EXCEPT !.doexp = @ \/ x.willexp], @)])

ipv6nd_startexpire(t) ==
    [t EXCEPT !.ras = Each(LAMBDA x : [x EXCEPT !.willexp = TRUE], @),
              !.at["expire"] = RTR_CARRIER_EXPIRE]

----------------------------------------------------------------------------
(* Router advertisements. *)

\* ipv6nd_rapfindprefix: the address of a list for a prefix.
FindPrefix(ias, p) == SelectInSeq(ias, LAMBDA x : x.a[1] = p /\ x.vl # 0)

\* ipv6_newaddr for an advertised prefix, with the flags it is advertised
\* with.  To autoconfigure, the address of the first router that advertises
\* the prefix is taken, even if that has none; else the first identifier.
\* An address the interface has already is ADDED.
ipv6_newaddr(t, pi, flags) ==
    LET i == SelectInSeq(t.ras, LAMBDA r : FindPrefix(r.ias, pi.p) # 0)
        auto == "AUTOCONF" \in flags
        a == IF ~auto THEN <<pi.p, Unspecified>>
             ELSE IF i = 0 THEN <<pi.p, 0>>
             ELSE t.ras[i].ias[FindPrefix(t.ras[i].ias, pi.p)].a
        j == Find(t, a)
        af == IF j = 0 THEN "tentative" ELSE t.ifa[j].af
        have == (IF j = 0 THEN {} ELSE {"ADDED"}) \cup (IF af \in NOTUSEABLE THEN {} ELSE {"DAD"})
    IN [NewIa(a, af, flags \cup have, pi.vl) EXCEPT !.cb = IF auto THEN "ra" ELSE "none"]

\* The two hour rule for a prefix that is known (RFC 4862 5.5.3.e).
ExtendedVltime(vltime, rmtime) ==
    IF vltime > MIN_EXTENDED_VLTIME \/ vltime > rmtime THEN vltime
    ELSE IF rmtime <= MIN_EXTENDED_VLTIME THEN rmtime
    ELSE MIN_EXTENDED_VLTIME

PrefixInformation(t, ias, pi) ==
    LET j == FindPrefix(ias, pi.p)
        rmtime == IF Finite(ias[j].vl) THEN ias[j].vl - ias[j].age ELSE ias[j].vl
        flags == (IF pi.on THEN {"ONLINK"} ELSE {})
                 \cup (IF pi.auto /\ Has("AUTOCONF") THEN {"AUTOCONF"} ELSE {})
    IN IF j = 0 THEN Append(ias, ipv6_newaddr(t, pi, flags))
       ELSE [ias EXCEPT ![j].vl = ExtendedVltime(pi.vl, rmtime), ![j].age = 0,
                        ![j].fl = (@ \cup flags) \ {"STALE"}]

\* External: dhcp6_start with REQUEST or INFORM; one that requests goes on.
dhcp6_start(t, mo) == [t EXCEPT !.dh6 = IF @ = "REQUEST" THEN @ ELSE mo]

\* What is not listened to: before the first solicitation, without a
\* link-local address, when not asked for.
Ignored(t) == ~t.rs \/ ~Has("IPV6RS") \/ ~t.ipv6 \/ ~ipv6_linklocal(t)

\* The header: the router is believed again, its prefixes are to be confirmed.
Refreshed(old, m) ==
    [old EXCEPT !.data = m, !.age = 0, !.life = m.life, !.pref = m.pref, !.mo = m.mo,
        !.expired = FALSE, !.willexp = FALSE, !.doexp = FALSE, !.reach = TRUE,
        !.ias = Each(LAMBDA x : [x EXCEPT !.fl = @ \cup {"STALE"}], @)]

\* The options that follow it; a route that is not mentioned stays.
Options(t, rap, m) ==
    LET Prefix(q, pi) == PrefixInformation(t, q, pi)
        ias == FoldLeft(Prefix, rap.ias, m.pi)
    IN [rap EXCEPT !.ias = ias,
                   !.ri = IF m.ri = Off THEN @ ELSE [life |-> m.ri, age |-> 0]]

\* A rejected router is forgotten.
Reject(t, i) ==
    [IF i = 0 THEN DeleteTimeouts(t) ELSE ipv6nd_free_ra(t, i) EXCEPT !.lost = TRUE]

\* The rest of ipv6nd_handlera: addresses, routes, the script, DHCPv6, and
\* what has expired, the solicitations being over.
Configure(t, r, m, new_data) ==
    LET i == Index(t, r)
        t1 == IF Has("CONFIGURE") THEN rt_build(ipv6_addaddrs(ipv6nd_applyra(t), i)) ELSE t
        t2 == DeleteTimeouts(ipv6nd_scriptrun(t1, i))
        t3 == IF Has("DHCP6") /\ m.mo # "none" /\ new_data THEN dhcp6_start(t2, m.mo) ELSE t2
    IN [ipv6nd_expirera(t3) EXCEPT !.lost = FALSE]

ipv6nd_handlera(t, r, m) ==
    LET t0 == IF t.ras # <<>> /\ t.ras[1].willexp THEN ipv6nd_applyra(t) ELSE t
        i == Index(t0, r)
        old == IF i = 0 THEN NewRa(r) ELSE t0.ras[i]
        new_data == old.data # m \/ old.willexp
        rap == Options(t0, Refreshed(old, m), m)
        t1 == [t0 EXCEPT !.ras = IF i = 0 THEN Append(@, rap) ELSE [@ EXCEPT ![i] = rap]]
    IN IF Ignored(t) THEN t
       ELSE IF m.reject THEN Reject(t0, i)
       ELSE Configure(IF new_data THEN ipv6nd_sortrouters(t1) ELSE t1, r, m, new_data)

----------------------------------------------------------------------------
(* The interface. *)

\* The IPv6 part of dhcpcd_startinterface.
Solicit(t) == IF Has("IPV6RS") THEN ipv6nd_startrs(t) ELSE t

Started(t) == IF t.ipv6 THEN Solicit(ipv6_startstatic(t)) ELSE t

dhcpcd_startinterface(t) == Started(ipv6_start(t))

\* The IPv6 part of dhcpcd_drop_af.
dhcpcd_drop(t) == ipv6_drop(ipv6nd_drop([t EXCEPT !.dh6 = "off"]))

\* dhcpcd_handlecarrier: a new network drops what is known; what is left
\* of the old one expires soon.
CarrierUp(t, ssid) ==
    LET u == IF ssid THEN dhcpcd_drop(t) ELSE t
    IN dhcpcd_startinterface(ipv6nd_startexpire([u EXCEPT !.link = "up", !.ipv6 = TRUE]))

CarrierDown(t, roaming) ==
    IF roaming THEN [t EXCEPT !.link = "roaming"]
    ELSE dhcpcd_drop([t EXCEPT !.link = "down"])

\* stop_interface.
stop_interface(t) ==
    [dhcpcd_drop(t) EXCEPT !.up = FALSE, !.at = [x \in Timer |-> Off]]

\* dhcpcd_linkoverflow for addresses: the queue is drained, what the kernel
\* has is learnt, what it has not is deleted with no flags.
ForgetStale(t) ==
    FoldLeft(LAMBDA u, ia : ipv6_handleifa(u, "DEL", ia.a, "ok"), t,
             SelectSeq(t.ifa, LAMBDA e : "STALE" \in e.fl))

dhcpcd_linkoverflow(t) ==
    LET t1 == [t EXCEPT !.nl = <<>>,
                        !.ifa = Each(LAMBDA x : [x EXCEPT !.fl = @ \cup {"STALE"}], @)]
    IN ForgetStale(FoldLeft(LAMBDA u, a : ipv6_handleifa(u, "NEW", a, t.k[a]), t1,
                            SetToSeq({a \in Addr : t.k[a] # "none"})))

----------------------------------------------------------------------------
(* The system. *)

Init0 ==
    [k |-> [a \in Addr |-> "none"], nl |-> <<>>, ifa |-> <<>>, cbs |-> <<>>,
     rts |-> [d \in Dests |-> NoRouter], ras |-> <<>>, ap |-> NoRouter,
     rs |-> FALSE, probes |-> 0, at |-> [x \in Timer |-> Off], said |-> {},
     dh6 |-> "off", link |-> "up", up |-> FALSE, ipv6 |-> TRUE, sys |-> TRUE,
     lost |-> FALSE, hung |-> FALSE, ghost |-> {}]

Init == \E w \in Setups : opt = w[1] /\ world = w[2] /\ air = w[3] /\ s = Init0

\* One handler of the event loop, during which the kernel takes what is
\* added or does not.
Handler(f(_)) ==
    /\ ~s.hung
    /\ \E ok \in IF "refuses" \in world THEN BOOLEAN ELSE {TRUE} :
          s' = [f([s EXCEPT !.sys = ok]) EXCEPT !.sys = TRUE]
    /\ UNCHANGED <<opt, world, air>>

Room == Len(s.nl) < QueueBound

Start ==
    /\ ~s.up /\ s.link = "up" /\ Room
    /\ Handler(LAMBDA t : dhcpcd_startinterface([t EXCEPT !.up = TRUE, !.ipv6 = TRUE]))

Carrier ==
    /\ s.up /\ s.link # "up" /\ Room
    /\ \E ssid \in BOOLEAN : Handler(LAMBDA t : CarrierUp(t, ssid))

NoCarrier ==
    /\ "carrier" \in world /\ s.up /\ s.link = "up" /\ Room
    /\ \E roaming \in BOOLEAN : Handler(LAMBDA t : CarrierDown(t, roaming))

Stop == "stop" \in world /\ s.up /\ Room /\ Handler(stop_interface)

\* ipv6nd_recvmsg ignores an interface that is not active.
RouterAdvert ==
    /\ s.up /\ s.link = "up" /\ Room
    /\ \E x \in air : Handler(LAMBDA t : ipv6nd_handlera(t, x[1], x[2]))

Neighbour ==
    /\ "neighbours" \in world /\ Room
    /\ \E r \in Routers, b \in BOOLEAN : Handler(LAMBDA t : ipv6nd_neighbour(t, r, b))

\* The kernel finishes DAD.  A duplicated address that expires is deleted, a
\* permanent one stays, marked.
Permanent(a) ==
    \/ a[1] \in {LL, STATIC}
    \/ \E i \in DOMAIN s.ras : \E j \in DOMAIN s.ras[i].ias :
          s.ras[i].ias[j].a[1] = a[1] /\ s.ras[i].ias[j].vl = Inf

KernelDad ==
    \E a \in Addr, dup \in IF "duplicates" \in world THEN BOOLEAN ELSE {FALSE} :
        LET to == IF ~dup THEN "ok" ELSE IF Permanent(a) THEN "duplicated" ELSE "none"
        IN /\ s.k[a] = "tentative" /\ Room
           /\ dup => Len(s.ifa) < ListBound
           /\ s' = [s EXCEPT !.k[a] = to,
                             !.nl = Append(@, [cmd |-> IF to = "none" THEN "DEL" ELSE "NEW", a |-> a,
                                               af |-> IF dup THEN "duplicated" ELSE "ok"])]
           /\ UNCHANGED <<opt, world, air>>

\* Somebody else deletes an address.
KernelDelete ==
    /\ "deletes" \in world /\ Room
    /\ \E a \in Addr :
          /\ s.k[a] # "none"
          /\ s' = [s EXCEPT !.k[a] = "none",
                            !.nl = Append(@, [cmd |-> "DEL", a |-> a, af |-> s.k[a]])]
    /\ UNCHANGED <<opt, world, air>>

LinkMessage ==
    /\ s.nl # <<>>
    /\ Handler(LAMBDA t : link_addr([t EXCEPT !.nl = Tail(@)], Head(t.nl)))

Overflow == "overflow" \in world /\ s.nl # <<>> /\ Handler(dhcpcd_linkoverflow)

Fire(x) ==
    /\ s.at[x] = 0
    /\ Handler(LAMBDA t :
          LET u == [t EXCEPT !.at[x] = Off]
          IN CASE x = "startrs2" -> ipv6nd_startrs2(u)
               [] x = "sendrsprobe" -> ipv6nd_sendrsprobe(u)
               [] x = "expirera" -> ipv6nd_expirera(u)
               [] x = "expire" -> ipv6nd_expire(u))

\* The delay of a retry is random, below IDGEN_DELAY.
Pending ==
    {<<0, j>> : j \in {j \in DOMAIN s.ifa : s.ifa[j].pend}} \cup
    UNION {{<<i, j>> : j \in {j \in DOMAIN s.ras[i].ias : s.ras[i].ias[j].pend}} : i \in DOMAIN s.ras}

AddAgain ==
    /\ Room
    /\ \E x \in Pending : Handler(LAMBDA t : IF x[1] = 0 THEN ipv6nd_addaddr_ifa(t, x[2])
                                            ELSE ipv6nd_addaddr_ra(t, x[1], x[2]))

Older(lifetime, age) == IF Finite(lifetime) /\ age < lifetime THEN age + 1 ELSE age

Aged(t) ==
    [t EXCEPT
        !.at = [x \in Timer |-> IF @[x] > 0 THEN @[x] - 1 ELSE @[x]],
        !.ras = Each(LAMBDA x :
            [x EXCEPT
                !.age = IF Older(x.life, @) + Older(Dns(x), @) > 2 * @ THEN @ + 1 ELSE @,
                !.ri.age = Older(x.ri.life, @),
                !.ias = Each(LAMBDA y : [y EXCEPT !.age = Older(y.vl, @)], @)], @)]

\* Nothing that is due waits for a second: the event loop is prompt.
Tick ==
    /\ \A x \in Timer : s.at[x] # 0
    /\ s.nl = <<>>
    /\ ~s.hung
    /\ s' = Aged(s) /\ s' # s
    /\ UNCHANGED <<opt, world, air>>

Next ==
    \/ Start \/ Carrier \/ NoCarrier \/ Stop
    \/ RouterAdvert \/ Neighbour
    \/ KernelDad \/ KernelDelete \/ LinkMessage \/ Overflow
    \/ \E x \in Timer : Fire(x)
    \/ AddAgain
    \/ Tick

Spec == Init /\ [][Next]_vars

----------------------------------------------------------------------------
(* Properties. *)

IaOK(ia) ==
    /\ ia.a \in Addr \cup ((Pfx \cup {LL}) \X {Unspecified})
    /\ ia.af \in {"tentative", "ok", "duplicated"}
    /\ ia.fl \subseteq {"ADDED", "DAD", "STALE", "AUTOCONF", "ONLINK", "STATIC"}
    /\ ia.dc \in 0..IDGEN_RETRIES /\ ia.age <= ia.vl

\* The lists hold addresses and routers, each router and each address of the
\* interface once (ipv6nd_handlera and ipv6_handleifa look before they add).
TypeOK ==
    /\ \A j \in DOMAIN s.ifa : IaOK(s.ifa[j])
    /\ \A i \in DOMAIN s.ras : \A j \in DOMAIN s.ras[i].ias : IaOK(s.ras[i].ias[j])
    /\ \A i, j \in DOMAIN s.ras : i # j => s.ras[i].from # s.ras[j].from
    /\ s.at \in [Timer -> Off..RTR_CARRIER_EXPIRE]
    /\ s.probes \in 0..(MAX_RTR_SOLICITATIONS + 2)

\* Every lifetime that runs out is waited for: while a router that has not
\* expired has a finite lifetime or prefix, ipv6nd_expirera is queued no later
\* than that, unless a rejected advertisement deleted the timeout.
ExpiryIsWatched ==
    \A i \in DOMAIN s.ras :
        ~s.ras[i].expired /\ ~s.lost =>
            \A n \in Left(s.ras[i].life, s.ras[i].age)
                       \cup UNION {Left(s.ras[i].ias[j].vl, s.ras[i].ias[j].age) :
                                       j \in DOMAIN s.ras[i].ias} :
                s.at["expirera"] \in 0..n

\* An interface that runs and knows no router is looking for one: it waits
\* for its link-local address, or to send, or it has sent all it may.
Solicits ==
    s.up /\ s.ipv6 /\ Has("IPV6RS") /\ s.ras = <<>> /\ ~s.lost /\ s.link = "up" =>
        \/ s.cbs # <<>>
        \/ s.at["startrs2"] # Off \/ s.at["sendrsprobe"] # Off
        \/ s.probes > MAX_RTR_SOLICITATIONS

\* The routes in the kernel are what the routers give now, whatever expired,
\* changed place, became unreachable or lost its address since; the end of a
\* route information and a rejected advertisement do not rebuild them.
RoutesAreCurrent ==
    Has("CONFIGURE") /\ ~s.lost =>
        \A d \in Dests \ {"ri", STATIC} : s.rts[d] = inet6_getroutes(s)[d]

\* When all messages are read the interface's list has every address of the
\* kernel, with its flags, and only those, but for one that could not be added,
\* the private address of a retry and one that ipv6nd_expirera or a retry deleted from the kernel alone.
KnowsKernel ==
    s.nl = <<>> =>
        /\ \A a \in Addr : s.k[a] # "none" =>
              Find(s, a) # 0 /\ s.ifa[Find(s, a)].af = s.k[a]
        /\ \A j \in DOMAIN s.ifa : s.k[s.ifa[j].a] = "none" =>
              s.ifa[j].a \in s.ghost \/ s.ifa[j].dc > 0

\* The kernel uses the parameters of the router that is first in the list,
\* which is the one the default route prefers (ipv6nd_applyra after each sort).
ParametersAreCurrent ==
    s.ap # NoRouter /\ ~s.lost => s.ras # <<>> /\ Head(s.ras).from = s.ap

\* A router whose addresses are there and have all finished DAD has been
\* reported, by the advertisement or by the last message of the kernel.
DadIsReported ==
    s.nl = <<>> => \A i \in DOMAIN s.ras :
        /\ ~s.ras[i].expired
        /\ \A j \in DOMAIN s.ras[i].ias :
              "AUTOCONF" \in s.ras[i].ias[j].fl => {"ADDED", "DAD"} \subseteq s.ras[i].ias[j].fl
        => s.ras[i].from \in s.said

\* No handler waits on itself (ipv6_handleifa runs the callbacks that wait
\* for a link-local address until none is left).
HandlersReturn == ~s.hung

\* A prefix with the auto flag gets an address.
AutoconfHappens ==
    \A i \in DOMAIN s.ras : \A j \in DOMAIN s.ras[i].ias :
        "AUTOCONF" \in s.ras[i].ias[j].fl => s.ras[i].ias[j].a \in Addr

\* A router remembered over a loss of carrier is heard again or will expire:
\* no other handler takes the timeout ipv6nd_startexpire queued.
RememberedIsTimed ==
    \A i \in DOMAIN s.ras :
        s.ras[i].willexp /\ ~s.ras[i].expired => s.at["expire"] # Off \/ s.ras[i].life = Inf

\* What comes next is waited for: the end of each lifetime, of each router remembered,
\* and, without routers, the next solicitation.
NextIsQueued == TypeOK /\ ExpiryIsWatched /\ RememberedIsTimed /\ Solicits

\* The kernel has the routes of all routers and the parameters of the first one.
RoutersAreApplied == RoutesAreCurrent /\ ParametersAreCurrent
=============================================================================
