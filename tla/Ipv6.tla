-------------------------------- MODULE Ipv6 --------------------------------
(***************************************************************************)
(* The IPv6 addresses of one interface: src/src/ipv6.c, as routers use it. *)
(*                                                                         *)
(* An address has several owners.  The kernel has it (t.k) and tells of    *)
(* every change in a queue of messages (t.nl).  The interface's list has   *)
(* it (t.ifa, state->addrs), by a message or because dhcpcd added it.  The *)
(* routers that advertise its prefix each have one (t.ras[i].ias), and     *)
(* ipv6_addaddr puts a copy of that one in the interface's list, callback  *)
(* included.  An address is a prefix and the number of its interface       *)
(* identifier: 0, or the DAD counter of a stable private one.              *)
(*                                                                         *)
(* A C function is an operator on the interface t under its own name.      *)
(* Preferred lifetimes and all that is only logged are left out; so are    *)
(* temporary addresses, which the Linux build does not manage.             *)
(***************************************************************************)
EXTENDS Integers, Sequences, SequencesExt

CONSTANTS
    Pfx,                  \* prefixes routers advertise
    LL, STATIC,           \* the link-local prefix, that of the static address
    Routers, NoRouter,
    Inf,                  \* ND6_INFINITE_LIFETIME, above every other lifetime
    IDGEN_RETRIES,
    Setups                \* a configuration, what may go wrong, who may say what

VARIABLES opt, world, air, s

vars == <<opt, world, air, s>>

Has(o) == o \in opt

Numbers == 0..(IDGEN_RETRIES - 1)
Unspecified == -1          \* the address of a prefix without one
Addr == (Pfx \cup {LL, STATIC}) \X Numbers

IsLL(a) == a[1] = LL

\* struct ipv6_addr: its address; its flags in the kernel (tentative, usable,
\* duplicated); its DAD callback; dhcpcd's flags; the DAD counter; whether a
\* timeout will add it; its valid lifetime and how long ago that was learnt.
NewIa(a, af, fl, vl) ==
    [a |-> a, af |-> af, cb |-> "none", fl |-> fl, dc |-> 0, pend |-> FALSE,
     vl |-> vl, age |-> 0]

Each(f(_), q) == FoldLeft(LAMBDA r, x : Append(r, f(x)), <<>>, q)

Find(t, a) == SelectInSeq(t.ifa, LAMBDA e : e.a = a)

\* ipv6_iffindaddr for an address, or for any link-local one, whose flags in
\* the kernel are none of rev.
ipv6_iffindaddr(t, a, rev) == Find(t, a) # 0 /\ t.ifa[Find(t, a)].af \notin rev

FindLL(t, rev) == \E j \in DOMAIN t.ifa : IsLL(t.ifa[j].a) /\ t.ifa[j].af \notin rev

NOTUSEABLE == {"tentative", "duplicated"}

ipv6_linklocal(t) == FindLL(t, NOTUSEABLE)

----------------------------------------------------------------------------
(* The kernel. *)

\* if_address6(RTM_NEWADDR): a new address starts DAD, an old one is updated;
\* either way the kernel reports it.
if_address6_new(t, a) ==
    LET st == IF t.k[a] = "none" THEN "tentative" ELSE t.k[a]
    IN [t EXCEPT !.k[a] = st, !.ghost = @ \ {a}, !.nl = Append(@, [cmd |-> "NEW", a |-> a, af |-> st])]

\* link_addr ignores the kernel's message for a deletion by dhcpcd, so an
\* address that is only deleted here stays in the list (t.ghost has those, and
\* the ones the kernel would not take).
if_address6_del(t, a) == [t EXCEPT !.k[a] = "none", !.ghost = @ \cup {a}]

----------------------------------------------------------------------------
(* Adding and deleting addresses. *)

\* The first address of the list that is a goes, and its timeouts with it.
ipv6_deleteaddr(t, a) ==
    [t EXCEPT !.k[a] = "none",
              !.ifa = IF Find(t, a) = 0 THEN @ ELSE RemoveAt(@, Find(t, a))]

\* An address that is in the list and usable needs no DAD.  The list takes a
\* copy of one it has not.  t.sys: the kernel takes what this handler adds.
ipv6_addaddr(t, ia) ==
    LET done == IF ipv6_iffindaddr(t, ia.a, NOTUSEABLE) THEN {"DAD"} ELSE {}
        ia1 == [ia EXCEPT !.fl = @ \cup done]
        ia2 == [ia1 EXCEPT !.fl = @ \cup {"ADDED"}]
        u == if_address6_new(t, ia.a)
        copy == [ia2 EXCEPT !.pend = FALSE, !.vl = Inf, !.age = 0]
    IN IF ~t.sys THEN [t |-> [t EXCEPT !.ghost = @ \cup {ia.a}], ia |-> ia1]
       ELSE [t |-> IF Find(t, ia.a) # 0 THEN u ELSE [u EXCEPT !.ifa = Append(@, copy)],
             ia |-> ia2]

\* Adds, keeps or gives up one address of a router.
ipv6_doaddr(t, ia) ==
    IF ia.vl = 0
    THEN [t |-> IF "ADDED" \in ia.fl THEN ipv6_deleteaddr(t, ia.a) ELSE t,
          ia |-> ia, keep |-> FALSE]
    ELSE IF "STALE" \in ia.fl \/ ia.a[2] = Unspecified
    THEN [t |-> t, ia |-> ia, keep |-> TRUE]
    ELSE ipv6_addaddr(t, ia) @@ [keep |-> TRUE]

ipv6_addaddrs(t, i) ==
    LET Do(acc, ia) ==
            LET r == ipv6_doaddr(acc.t, ia)
            IN [t |-> r.t, ias |-> IF r.keep THEN Append(acc.ias, r.ia) ELSE acc.ias]
        all == FoldLeft(Do, [t |-> t, ias |-> <<>>], t.ras[i].ias)
    IN [all.t EXCEPT !.ras[i].ias = all.ias]

\* ipv6_findaddr: the first router, and its address, that still has a.
Holder(t, a) ==
    SelectInSeq(t.ras, LAMBDA r : \E j \in DOMAIN r.ias : r.ias[j].a = a /\ r.ias[j].vl # 0)

\* ipv6_freedrop_addrs for one address that is dropped: another router's same
\* address takes its place, if there is one.
ipv6_dropaddr(t, ia) ==
    LET h == Holder(t, ia.a)
        j == SelectInSeq(t.ras[h].ias, LAMBDA x : x.a = ia.a /\ x.vl # 0)
        r == ipv6_addaddr(t, t.ras[h].ias[j])
    IN IF "ADDED" \notin ia.fl THEN t
       ELSE IF h = 0 THEN ipv6_deleteaddr(t, ia.a)
       ELSE [r.t EXCEPT !.ras[h].ias[j] = r.ia]

\* ipv6_freedrop_addrs for the interface's list: only what dhcpcd added goes,
\* link-local addresses included.
ipv6_dropifa(t) ==
    LET mine == SelectSeq(t.ifa, LAMBDA e : "ADDED" \in e.fl)
        rest == [t EXCEPT !.ifa = SelectSeq(@, LAMBDA e : "ADDED" \notin e.fl)]
    IN FoldLeft(ipv6_dropaddr, rest, mine)

ipv6_anyglobal(t) ==
    \E j \in DOMAIN t.ifa : ~IsLL(t.ifa[j].a) /\ t.ifa[j].af # "duplicated"

----------------------------------------------------------------------------
(* Routes: inet6_getroutes in the order of the static address, then of the *)
(* routers; rt_build keeps the first route to a destination.               *)

Default == "default"
Dests == Pfx \cup {STATIC, Default, "ri"}

\* Whether a router gives a route to d (inet6_raroutes).
Gives(t, r, d) ==
    /\ ~r.expired
    /\ CASE d = Default -> r.life # 0 /\ ipv6_anyglobal(t)
         [] d = "ri" -> r.ri.life # 0
         [] OTHER -> \E j \in DOMAIN r.ias : r.ias[j].a[1] = d /\ r.ias[j].vl # 0

\* The prefix routes of a router's addresses are on the link, or by the router.
Gateway(r, d) ==
    IF d \in {Default, "ri"} THEN r.from
    ELSE LET j == SelectInSeq(r.ias, LAMBDA x : x.a[1] = d /\ x.vl # 0)
         IN IF "ONLINK" \in r.ias[j].fl THEN "link" ELSE r.from

inet6_getroutes(t) ==
    [d \in Dests |->
        LET i == SelectInSeq(t.ras, LAMBDA r : Gives(t, r, d))
        IN IF d = STATIC
           THEN IF \E j \in DOMAIN t.ifa : {"STATIC", "ADDED"} \subseteq t.ifa[j].fl
                THEN "link" ELSE NoRouter
           ELSE IF i = 0 THEN NoRouter ELSE Gateway(t.ras[i], d)]

\* Without CONFIGURE the routes are left alone.
rt_build(t) ==
    [t EXCEPT !.rts = IF Has("CONFIGURE") THEN inet6_getroutes(t) ELSE @]

----------------------------------------------------------------------------
(* The link-local and the static address. *)

ipv6_addlinklocalcallback(t, f) ==
    IF f \in ToSet(t.cbs) THEN t ELSE [t EXCEPT !.cbs = Append(@, f)]

\* The first stable private link-local address that is not known to be
\* duplicated; else the one of the hardware address, if that is not.
LLPick(t) ==
    LET free == {n \in Numbers :
                    ~(Find(t, <<LL, n>>) # 0 /\ t.ifa[Find(t, <<LL, n>>)].af = "duplicated")}
    IN IF Has("SLAACPRIVATE")
       THEN {n \in free : \A m \in free : n <= m}
       ELSE free \cap {0}

\* Puts the address in the list itself before it adds it.  To have only
\* duplicated ones is an error, which ends IPv6 on this interface.
ipv6_addlinklocal(t) ==
    LET n == CHOOSE n \in LLPick(t) : TRUE
        u == [t EXCEPT !.ifa = Append(@, NewIa(<<LL, n>>, "tentative", {}, Inf))]
        r == ipv6_addaddr(u, u.ifa[Len(u.ifa)])
    IN IF ~Has("CONFIGURE") THEN t
       ELSE IF LLPick(t) = {} THEN [t EXCEPT !.ipv6 = FALSE]
       ELSE [r.t EXCEPT !.ifa[Len(u.ifa)] = r.ia]

ipv6_tryaddlinklocal(t) ==
    IF FindLL(t, {"duplicated"}) THEN t ELSE ipv6_addlinklocal(t)

ipv6_start(t) == ipv6_tryaddlinklocal(t)

\* A static address that is there but not usable is deleted and added anew.
ipv6_startstatic(t) ==
    LET a == <<STATIC, 0>>
        t1 == IF Find(t, a) # 0 /\ ~ipv6_iffindaddr(t, a, NOTUSEABLE)
              THEN ipv6_deleteaddr(t, a) ELSE t
        t2 == IF Find(t1, a) # 0 THEN t1
              ELSE [t1 EXCEPT !.ifa = Append(@, NewIa(a, "tentative", {}, Inf))]
        j == Find(t2, a)
        r == ipv6_addaddr(t2, [t2.ifa[j] EXCEPT !.fl = @ \cup {"STATIC"}, !.cb = "static"])
    IN IF ~Has("STATIC") THEN t ELSE rt_build([r.t EXCEPT !.ifa[j] = r.ia])

\* Callbacks go, and what dhcpcd added to the interface.
ipv6_drop(t) == rt_build(ipv6_dropifa([t EXCEPT !.cbs = <<>>]))
=============================================================================
