------------------------------- MODULE Route -------------------------------
(***************************************************************************)
(* The IPv4 routing table dhcpcd keeps (src/route.c, the route half of      *)
(* src/ipv4.c and src/ipv4ll.c) against the kernel's (src/if-linux.c).      *)
(*                                                                         *)
(* An interface has a lease, an IPv4LL address, or both.  Every change of   *)
(* them ends in rt_build, which collects the routes all interfaces want,    *)
(* sorted by preference, installs the first of each (destination, interface *)
(* metric), and deletes what it managed before and no longer wants.  The    *)
(* kernel reports the routes others delete, and those it flushes with an    *)
(* address, through a netlink queue that is read later.                     *)
(*                                                                         *)
(* A route is a record; a destination is "default", a subnet, the           *)
(* link-local network "ll", or a router's own address for a host route.     *)
(* RTDF_FAKE is tested in route.c but set nowhere, so those branches are    *)
(* not modelled.                                                            *)
(***************************************************************************)
EXTENDS Integers, FiniteSets, SequencesExt

CONSTANTS
    Ifs,            \* the number of interfaces; ctx->ifaces is 1 .. Ifs
    Leases,         \* Leases[i]: the leases a server may give interface i
    Setups,         \* pairs: what is configured, what the kernel does
    MaxForeign,     \* bound: routes changed by somebody else
    MaxMsgs         \* bound: netlink messages waiting

VARIABLES
    opt,            \* options and interface flags, fixed at start
    world,          \* the behaviour of kernel and network, fixed at start
    s               \* the interfaces, both route tables and the socket

vars == <<opt, world, s>>

RTMETRIC_IPV4LL == 100
RTMETRIC_ROAM == 200
NoLease == [addr |-> 0, net |-> "none", router |-> "none", mtu |-> 0]

Ifaces == 1 .. Ifs

\* ifp->metric: the base metric and the index, or what the user configured.
metric(i) == IF "samemetric" \in opt THEN 1 ELSE i

\* The subnet a router's address lies in; "x1" lies outside its lease's net.
SubnetOf(gw) ==
    CASE gw \in {"r1", "q1"} -> "net1" [] gw = "r2" -> "net2" [] OTHER -> "none"

\* An IPv4LL address of interface i, next to the addresses leases give.
LLAddr(i) == -i

------------------------------------------------------------------------
(* Routes and how they compare *)

\* if_roaming: the link is up but the station is between access points.
if_roaming(t, i) == t.roam[i]

\* rt_new and rt_setif: a route of interface i.
rt_new(t, i) ==
    [dest |-> "none", gw |-> "none", ifp |-> i, ifa |-> 0, mtu |-> 0, ll |-> FALSE,
     metric |-> metric(i) + IF if_roaming(t, i) THEN RTMETRIC_ROAM ELSE 0]

\* rt_compare_os: one route of a destination for each interface metric.
Key(r) == <<r.dest, metric(r.ifp)>>

rt_find(tree, r) == {x \in tree : Key(x) = Key(r)}

\* rt_compare_proto, as a number: carrier first, a roaming interface after one
\* that is not when both are down, IPv4LL, then the interface metric.  What is
\* equal stays in the order it was given (rt_compare_list).
rt_compare_proto(t, r) ==
      (IF t.carrier[r.ifp] THEN 0 ELSE 1000)
    + (IF ~t.carrier[r.ifp] /\ if_roaming(t, r.ifp) THEN 500 ELSE 0)
    + (IF r.ll THEN 0 ELSE 100)
    + metric(r.ifp)

\* rt_proto_add: the tree sorted by preference, as a sequence.
rt_proto_add(t, q, r) ==
    SelectSeq(q, LAMBDA x : rt_compare_proto(t, x) <= rt_compare_proto(t, r))
    \o <<r>> \o
    SelectSeq(q, LAMBDA x : rt_compare_proto(t, x) > rt_compare_proto(t, r))

\* rt_cmp, and the source address and MTU rt_doroute compares beside it.
rt_cmp(a, b) == a.ifp = b.ifp /\ a.metric = b.metric /\ a.gw = b.gw

\* Wrong: the preferred source address is not compared.
BugSame(a, b) == rt_cmp(a, b) /\ a.mtu = b.mtu

Same(a, b) == rt_cmp(a, b) /\ a.ifa = b.ifa /\ a.mtu = b.mtu

------------------------------------------------------------------------
(* The kernel, as if_route uses it *)

\* Gateways must be on the link, through a route without gateway.
OnLink(k, r) ==
    \/ r.gw \in {"none", "peer"}
    \/ \E x \in k : /\ x.ifp = r.ifp /\ x.gw = "none"
                    /\ x.dest \in {r.gw, SubnetOf(r.gw), "default"}

\* RTM_NEWROUTE with NLM_F_EXCL: refused if the destination has a route of that
\* metric, if the gateway cannot be reached or the source address is not ours.
Addable(t, r) == OnLink(t.kernel, r) /\ r.ifa \in UNION {t.addrs[i] : i \in Ifaces}

SameSlot(t, r) == {x \in t.kernel : x.dest = r.dest /\ x.metric = r.metric}

\* if_route: RTM_ADD, RTM_CHANGE and RTM_DELETE; "e" is errno.
if_route_add(t, r) ==
    CASE SameSlot(t, r) # {} -> [t EXCEPT !.e = "EEXIST"]
      [] ~Addable(t, r)      -> [t EXCEPT !.e = "EINVAL"]
      [] OTHER -> [t EXCEPT !.e = "ok", !.kernel = @ \cup {r @@ [ours |-> TRUE]},
                            !.lost = @ \ {Key(r)}, !.undone = @ \ {Key(r)}]

if_route_change(t, r) ==
    IF Addable(t, r)
    THEN [t EXCEPT !.e = "ok",
                   !.kernel = (@ \ SameSlot(t, r)) \cup {r @@ [ours |-> TRUE]}]
    ELSE [t EXCEPT !.e = "EINVAL"]

if_route_delete(t, r) ==
    LET hit == {x \in SameSlot(t, r) : x.ifp = r.ifp}
    IN  [t EXCEPT !.e = IF hit = {} THEN "ESRCH" ELSE "ok", !.kernel = @ \ hit]

\* What the queue holds of a deleted route: what if_copyrt reads from it.
Deleted(r) == [cmd |-> "RTM_DELETE", dest |-> r.dest, ifp |-> r.ifp]

\* The kernel deletes the routes whose preferred source goes away with an
\* address; recent kernels report that, older ones do it in silence.
FlushAddr(t, a) ==
    LET gone == {x \in t.kernel : x.ifa = a}
    IN  [t EXCEPT !.kernel = @ \ gone,
                  !.msgs = IF "notify" \in world
                           THEN @ \o SetToSeq({Deleted(x) : x \in gone}) ELSE @]

\* if_initrt: the kernel's routes, one for each key, the least metric first.
if_initrt(t) ==
    {x \in t.kernel : \A y \in t.kernel : Key(y) = Key(x) => x.metric <= y.metric}

------------------------------------------------------------------------
(* What the interfaces want: src/ipv4.c and src/ipv4ll.c *)

is_default(r) == r.dest = "default"

\* inet_dhcproutes: the subnet, the configured or the leased routes, and the
\* peer of a point to point link.
DhcpDests(t, i) ==
    LET l == t.lease[i]
    IN  (IF l.net # "none" THEN <<[dest |-> l.net, gw |-> "none"]>> ELSE <<>>)
        \o (IF "static" \in opt THEN <<[dest |-> "away", gw |-> IF i = 1 THEN "r1" ELSE "r2"]>>
            ELSE IF l.router # "none"
            THEN <<[dest |-> "default", gw |-> l.router]>> ELSE <<>>)
        \o (IF "p2p" \in opt /\ i = 1
            THEN <<[dest |-> "default", gw |-> "peer"]>> ELSE <<>>)

inet_dhcproutes(t, q, i) ==
    IF ~t.added[i] THEN q
    ELSE FoldLeft(LAMBDA acc, d :
                    rt_proto_add(t, acc,
                        [rt_new(t, i) EXCEPT !.dest = d.dest, !.gw = d.gw,
                                             !.ifa = t.lease[i].addr,
                                             !.mtu = t.lease[i].mtu]),
                  q, DhcpDests(t, i))

\* ipv4ll_subnetroute
ipv4ll_subnetroute(t, q, i) ==
    IF ~t.ll[i] THEN q
    ELSE rt_proto_add(t, q, [rt_new(t, i) EXCEPT !.dest = "ll", !.ifa = LLAddr(i),
                                                !.ll = TRUE])

\* ipv4ll_defaultroute, for the first interface that has an IPv4LL address.
ipv4ll_defaultroute(t, q, i) ==
    rt_proto_add(t, q, [rt_new(t, i) EXCEPT !.dest = "default", !.ifa = LLAddr(i),
                                            !.ll = TRUE, !.metric = @ + RTMETRIC_IPV4LL])

\* A route before the default route reaches its gateway.
Reaches(q, n) ==
    \E m \in 1 .. n - 1 : q[m].dest \in {q[n].gw, SubnetOf(q[n].gw), "default"}

\* inet_routerhostroute for the route at n: without ARP the gateway is dropped,
\* otherwise a host route is inserted just before it.
HostRoute(t, q, i, n) ==
    IF "noarp" \in opt /\ i = 1
    THEN [q EXCEPT ![n].gw = "none"]
    ELSE FoldLeft(LAMBDA acc, r : rt_proto_add(t, acc, r),
                  rt_proto_add(t, SubSeq(q, 1, n - 1),
                      [rt_new(t, i) EXCEPT !.dest = q[n].gw, !.mtu = t.lease[i].mtu,
                                           !.ifa = IF t.added[i] THEN t.lease[i].addr
                                                   ELSE 0]),
                  SubSeq(q, n, Len(q)))

\* Every default route whose gateway no route before it reaches.
HostRoutes(t, q, i) ==
    LET bad == {n \in DOMAIN q : is_default(q[n]) /\ q[n].gw # "none" /\ ~Reaches(q, n)}
    IN  FoldLeft(LAMBDA acc, r :
                    HostRoute(t, acc, i, CHOOSE n \in DOMAIN acc : acc[n] = r),
                 q, SelectSeq(q, LAMBDA r : \E n \in bad : q[n] = r))

\* Wrong: a router that was warned about gets its host route only once.
BugRouterhostroute(t, q, i) ==
    IF \E r \in t.routes : r.dest = "x1" THEN q ELSE HostRoutes(t, q, i)

inet_routerhostroute(t, q, i) ==
    IF "p2p" \in opt /\ i = 1 THEN q ELSE HostRoutes(t, q, i)

\* inet_getroutes: every active interface in turn, then an IPv4LL default route
\* if no lease brought one.
inet_getroutes(t) ==
    LET q == FoldLeft(LAMBDA acc, i :
                        inet_routerhostroute(t,
                            ipv4ll_subnetroute(t, inet_dhcproutes(t, acc, i), i), i),
                      <<>>, SelectSeq([i \in Ifaces |-> i], LAMBDA i : t.active[i]))
        withll == {i \in Ifaces : t.active[i] /\ t.ll[i]}
    IN  IF withll = {} \/ \E n \in DOMAIN q : is_default(q[n])
        THEN q
        ELSE ipv4ll_defaultroute(t, q, Min(withll))

------------------------------------------------------------------------
(* Installing them: src/route.c *)

\* rt_add refuses a default route unless the gateway option is set.
NoGateway(r) == is_default(r) /\ "gateway" \notin opt

\* rt_add with ort found in the kernel or managed: add the new before deleting
\* the old; if the kernel says it exists, delete the old first.  A deletion
\* names destination, interface and metric only: when the old route was gone
\* already it takes the new one.  And the new one may be refused when the old
\* one is out.  Both leave the destination without a route ("undone").
Replace(t, nrt, ort) ==
    LET a == if_route_add(t, nrt)
    IN  CASE a.e = "ok" ->
                [if_route_delete(a, ort) EXCEPT
                    !.e = "ok",
                    !.undone = IF ort.ifp = nrt.ifp /\ ort.metric = nrt.metric
                               THEN @ \cup {Key(nrt)} ELSE @]
          [] a.e # "EEXIST" -> a
          [] OTHER -> LET d == if_route_add(if_route_delete(t, ort), nrt)
                      IN  [d EXCEPT !.e = IF @ = "EEXIST" THEN "ok" ELSE @,
                                    !.undone = IF d.e = "ok" THEN @
                                               ELSE @ \cup {Key(nrt)}]

\* rt_add with no managed route: adopt the kernel's if it is the same.
Adopt(t, kroutes, nrt) ==
    LET k == rt_find(kroutes, nrt)
    IN  IF k = {} THEN if_route_add(t, nrt)
        ELSE LET ort == CHOOSE x \in k : TRUE
             IN  CASE ~rt_cmp(ort, nrt) -> Replace(t, nrt, ort)
                   [] ort.mtu = nrt.mtu -> [t EXCEPT !.e = "ok"]
                   [] OTHER -> LET c == if_route_change(t, nrt)
                               IN  IF c.e = "ok" THEN c ELSE Replace(t, nrt, ort)

\* rt_doroute: keep a managed route that is the same, change one that differs.
rt_doroute(t, kroutes, rt) ==
    LET or == rt_find(t.routes, rt)
    IN  CASE or # {} /\ \A o \in or : Same(rt, o) ->
                [t EXCEPT !.e = "ok", !.routes = @ \ or]
          [] NoGateway(rt) -> [t EXCEPT !.e = "refused"]
          [] or # {} -> LET c == Replace(t, rt, CHOOSE o \in or : TRUE)
                        IN  IF c.e = "ok" THEN [c EXCEPT !.routes = @ \ or] ELSE c
          [] OTHER -> Adopt(t, kroutes, rt)

\* One wanted route: skipped unless dhcpcd configures, or if a better one of
\* the same key is in already.
Install(t, kroutes, rt) ==
    IF "configure" \notin opt \/ rt_find(t.new, rt) # {} THEN t
    ELSE LET d == rt_doroute(t, kroutes, rt)
         IN  IF d.e = "ok" THEN [d EXCEPT !.new = @ \cup {rt}] ELSE d

\* Routes of an interface that is left configured when it is stopped stay.
Persists(t, r) == t.exiting[r.ifp] /\ "persistent" \in opt

\* Wrong: the old routes are forgotten, not deleted.
BugRetire(t) == [t EXCEPT !.routes = t.new, !.new = {}]

\* "Remove old routes we used to manage", then the new table replaces the old.
Retire(t) ==
    LET old == {r \in t.routes : rt_find(t.new, r) = {} /\ ~Persists(t, r)}
        d == FoldSet(LAMBDA r, acc : if_route_delete(acc, r), t, old)
    IN  [d EXCEPT !.routes = t.new, !.new = {}]

\* rt_build(ctx, AF_INET)
Build(t, q, keys) ==
    [Retire(FoldLeft(LAMBDA acc, r : Install(acc, if_initrt(t), r), t, q))
     EXCEPT !.e = "ok", !.roamed = FALSE, !.lost = @ \cap keys, !.undone = @ \cap keys,
            !.crossed = @ \ keys]

rt_build(t) ==
    LET q == inet_getroutes(t) IN Build(t, q, {Key(q[n]) : n \in DOMAIN q})

------------------------------------------------------------------------
(* The handlers that change what is wanted *)

\* ipv4_deladdr
ipv4_deladdr(t, i, a) == FlushAddr([t EXCEPT !.addrs[i] = @ \ {a}], a)

\* ipv4_applyaddr for a new lease: the address is added, an older one deleted.
Applied(t, i, l) ==
    LET a == [t EXCEPT !.addrs[i] = @ \cup {l.addr}]
        b == IF t.added[i] /\ t.lease[i].addr # l.addr
             THEN ipv4_deladdr(a, i, t.lease[i].addr) ELSE a
    IN  rt_build([b EXCEPT !.lease[i] = l, !.added[i] = TRUE])

\* ipv4_applyaddr without a lease: the address goes unless it persists.
Dropped(t, i) ==
    CASE t.exiting[i] /\ "persistent" \in opt ->
            rt_build([t EXCEPT !.lease[i] = NoLease, !.added[i] = FALSE])
      [] t.added[i] ->
            rt_build([ipv4_deladdr(t, i, t.lease[i].addr)
                      EXCEPT !.lease[i] = NoLease, !.added[i] = FALSE])
      [] OTHER -> t

\* ipv4ll_drop and ipv4ll_defend_failed
DroppedLL(t, i) ==
    IF t.ll[i] THEN rt_build([ipv4_deladdr(t, i, LLAddr(i)) EXCEPT !.ll[i] = FALSE])
    ELSE t

Handler(t) == s' = t /\ UNCHANGED <<opt, world>>

\* A queue no reader drains in time overflows; it stays below that here.
Room == Len(s.msgs) <= MaxMsgs

\* dhcp_bind ends in ipv4_applyaddr with the lease of a new or renewed binding.
Bind(i, l) ==
    /\ s.active[i] /\ s.carrier[i] /\ Room
    /\ s.lease[i] # l
    /\ "p2p" \in opt => l.router # "x1"     \* the server knows the link
    /\ Handler(Applied(s, i, l))

\* A lease that expired, was refused or released.
Lose(i) ==
    /\ s.active[i] /\ s.added[i] /\ Room
    /\ Handler(Dropped(s, i))

\* ipv4ll_not_found: the probed address is ours.
LinkLocal(i) ==
    /\ s.active[i] /\ s.carrier[i] /\ ~s.ll[i] /\ Room
    /\ "ipv4ll" \in opt
    /\ Handler(rt_build([s EXCEPT !.ll[i] = TRUE, !.addrs[i] = @ \cup {LLAddr(i)}]))

\* ipv4ll_drop, after a lease or a conflict.
LinkLocalLost(i) ==
    /\ s.active[i] /\ s.ll[i] /\ Room
    /\ Handler(DroppedLL(s, i))

\* dhcpcd_handlecarrier: without a carrier the interface is dropped, unless it
\* roams.  Then dhcp_abort rebuilds the routes of an interface with a lease; the
\* call of rt_build for no address family that follows changes nothing.
CarrierLost(i) ==
    /\ s.active[i] /\ s.carrier[i] /\ Room
    /\ \/ Handler(DroppedLL(Dropped([s EXCEPT !.carrier[i] = FALSE], i), i))
       \/ /\ "wireless" \in opt
          /\ LET t == [s EXCEPT !.carrier[i] = FALSE, !.roam[i] = TRUE]
             IN  Handler(IF s.added[i] THEN rt_build(t)
                         ELSE [t EXCEPT !.roamed = TRUE])

\* dhcpcd_handlecarrier: the carrier is back and the interface starts again.
CarrierUp(i) ==
    /\ s.active[i] /\ ~s.carrier[i]
    /\ Handler([s EXCEPT !.carrier[i] = TRUE, !.roam[i] = FALSE,
                         !.roamed = @ \/ s.roam[i]])

\* stop_interface, on a signal or a command.
Stop(i) ==
    /\ s.active[i] /\ Room
    /\ Handler([Dropped(DroppedLL([s EXCEPT !.exiting[i] = TRUE], i), i)
                EXCEPT !.active[i] = FALSE])

\* dhcpcd_handleinterface(-1): the interface left, and its routes with it.
Leave(i) ==
    /\ s.active[i] /\ Room
    /\ "departs" \in world
    /\ LET k == [s EXCEPT !.kernel = {r \in @ : r.ifp # i}]
           t == Dropped(DroppedLL(k, i), i)
       IN  Handler([t EXCEPT !.active[i] = FALSE, !.left = @ \cup {i},
                             !.routes = {r \in @ : r.ifp # i}])

------------------------------------------------------------------------
(* Somebody else changes the kernel's table, and dhcpcd hears of it *)

ForeignDelete(r) ==
    /\ "others" \in world /\ s.foreign < MaxForeign /\ Room
    /\ Handler([s EXCEPT !.kernel = @ \ {r}, !.foreign = @ + 1,
                         !.lost = @ \cup {Key(r)},
                         !.msgs = Append(@, Deleted(r))])

\* ipv4ll_recvrt: rebuilt for any destination but the default.
ipv4ll_recvrt(t, m) ==
    IF m.dest # "default" /\ \E i \in Ifaces : t.ll[i] THEN rt_build(t) ELSE t

\* Wrong: the route table keeps what others deleted.
BugRecvrt(t, m) == ipv4ll_recvrt(t, m)

\* rt_recvrt: a route another process deleted is no longer managed.  Which
\* route is decided by the key alone: one added since may have it as well.
rt_recvrt(t, m) ==
    LET f == rt_find(t.routes, m)
        stillthere == {r \in f : \E x \in t.kernel : x.dest = r.dest /\ rt_cmp(x, r)}
    IN  ipv4ll_recvrt([t EXCEPT !.routes = @ \ f,
                                !.crossed = @ \cup {Key(r) : r \in stillthere}], m)

\* link_route: messages dhcpcd caused itself are left out of the queue.
Receive ==
    /\ s.msgs # <<>>
    /\ Handler(IF Head(s.msgs).ifp \in s.left
               THEN [s EXCEPT !.msgs = Tail(@)]
               ELSE rt_recvrt([s EXCEPT !.msgs = Tail(@)], Head(s.msgs)))

------------------------------------------------------------------------

\* A route a persistent run of dhcpcd left behind, with another MTU.
Leftover ==
    IF "leftover" \in world
    THEN {[dest |-> "default", gw |-> "r1", ifp |-> 1, ifa |-> 12, mtu |-> 1,
           ll |-> FALSE, metric |-> 1, ours |-> FALSE]}
    ELSE {}

Init ==
    /\ \E u \in Setups : opt = u[1] /\ world = u[2]
    /\ s = [active |-> [i \in Ifaces |-> TRUE], carrier |-> [i \in Ifaces |-> TRUE],
            roam |-> [i \in Ifaces |-> FALSE], exiting |-> [i \in Ifaces |-> FALSE],
            lease |-> [i \in Ifaces |-> NoLease], added |-> [i \in Ifaces |-> FALSE],
            ll |-> [i \in Ifaces |-> FALSE], addrs |-> [i \in Ifaces |-> {0} \cup {x.ifa : x \in {y \in Leftover : y.ifp = i}}],
            routes |-> {}, new |-> {}, kernel |-> Leftover, e |-> "ok", msgs |-> <<>>,
            left |-> {}, foreign |-> 0, lost |-> {}, undone |-> {}, crossed |-> {}, roamed |-> FALSE]

Next ==
    \/ \E i \in Ifaces : \E l \in Leases[i] : Bind(i, l)
    \/ \E i \in Ifaces : Lose(i)
    \/ \E i \in Ifaces : LinkLocal(i)
    \/ \E i \in Ifaces : LinkLocalLost(i)
    \/ \E i \in Ifaces : CarrierLost(i)
    \/ \E i \in Ifaces : CarrierUp(i)
    \/ \E i \in Ifaces : Stop(i)
    \/ \E i \in Ifaces : Leave(i)
    \/ \E r \in s.kernel : ForeignDelete(r)
    \/ Receive

Spec == Init /\ [][Next]_vars

------------------------------------------------------------------------
(* Properties *)

\* A route rt_add found there already may have another source address.
InKernel(t, r) ==
    \E x \in t.kernel : x.dest = r.dest /\ rt_cmp(x, r) /\ x.mtu = r.mtu
                        /\ (x.ours => x.ifa = r.ifa)

Pending(t, k) == \E n \in DOMAIN t.msgs : Key(t.msgs[n]) = k

\* Every route in ctx->routes is in the kernel as dhcpcd last set it, unless
\* somebody deleted it and the message that says so is still unread: what
\* rt_recvrt and rt_doroute rely on when they leave a managed route alone.
ManagedIsInKernel ==
    \A r \in s.routes : InKernel(s, r) \/ Pending(s, Key(r)) \/ Key(r) \in s.undone

\* The routes that should be there: the first of each key of what is wanted.
\* A configured route gets no host route, so its router may be unreachable.
Wanted(t) ==
    LET q == SelectSeq(inet_getroutes(t),
                       LAMBDA r : /\ "configure" \in opt /\ ~NoGateway(r)
                                  /\ "static" \in opt => OnLink(t.kernel, r))
    IN  {q[n] : n \in {m \in DOMAIN q : \A l \in 1 .. m - 1 : Key(q[l]) # Key(q[m])}}

\* After every handler the kernel holds the preferred route of each
\* destination, with the gateway, source address and MTU of the current lease,
\* except where somebody else deleted it or the link roams: rt_build leaves
\* none out, in whatever order leases, carriers and interfaces come and go.
WantedIsInstalled ==
    ~s.roamed /\ s.lost = {} /\ s.undone = {} =>
        \A r \in Wanted(s) : InKernel(s, r)

\* The same without that exception, as rt_add says: "With route metrics, we can
\* safely add the new route before deleting the old route."
ReplacedIsInstalled ==
    ~s.roamed /\ s.lost = {} => \A r \in Wanted(s) : InKernel(s, r)

\* A route dhcpcd put into the kernel and no longer wants is gone, unless it
\* persists past the end of dhcpcd or its deletion was reported late and hit
\* the route that had replaced it: rt_build deletes what it managed before.
NothingStays ==
    ~s.roamed =>
        \A x \in s.kernel :
            \/ ~x.ours
            \/ \E r \in Range(inet_getroutes(s)) : r.dest = x.dest /\ Same(r, x)
            \/ Persists(s, x)
            \/ Key(x) \in s.crossed

\* The router of a default route dhcpcd manages can be reached on its own link:
\* the host or subnet route it needs is there as long as the default route is,
\* unless somebody or rt_add itself took it out.
RoutersAreOnLink ==
    s.lost = {} /\ s.undone = {} =>
        \A r \in s.routes : is_default(r) /\ InKernel(s, r) => OnLink(s.kernel, r)

\* The kernel's table is right after every handler: the routes that are wanted are there,
\* with a router on their link, none that dhcpcd set and dropped is left, and
\* ctx->routes tells what is there.
TableIsRight ==
    ManagedIsInKernel /\ WantedIsInstalled /\ NothingStays /\ RoutersAreOnLink
=============================================================================
