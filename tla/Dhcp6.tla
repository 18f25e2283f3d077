------------------------------- MODULE Dhcp6 -------------------------------
(***************************************************************************)
(* The DHCPv6 client: src/src/dhcp6.c.                                     *)
(*                                                                         *)
(* One interface ("up") leases addresses and prefixes from servers, another*)
(* ("down") is delegated an address out of each leased prefix.  Each has a *)
(* DHCPv6 state (t.st, "none" without one) and a list of addresses (t.l).  *)
(* The kernel has addresses (t.k); the interface's own list of addresses   *)
(* is taken to agree with it (Ipv6.tla models how they differ).  Timeouts  *)
(* are countdowns t.at[callback], named as the callbacks.                  *)
(*                                                                         *)
(* A C function is an operator on the client t under its own name.  Options*)
(* are model data: an answer names, for each identity association (IA),    *)
(* what the server gives.  Preferred lifetimes equal valid ones until an   *)
(* address is deprecated; the random tenth of a retransmission time, the   *)
(* elapsed-time, user, vendor, FQDN and authentication options, a server's *)
(* limits on retransmission times, unicasting and logging are left out.    *)
(* Messages with another transaction's xid are never accepted and are not  *)
(* modelled.                                                               *)
(***************************************************************************)
EXTENDS Integers, Sequences, SequencesExt

CONSTANTS
    NAs, PDs,        \* addresses and prefixes a server may lease
    Sub,                  \* Sub[p]: the address "down" gets out of prefix p
    Inf,                  \* ND6_INFINITE_LIFETIME, above every other time
    SOL_MAX_DELAY, CNF_MAX_DELAY, INF_MAX_DELAY,
    IRT, MRT,             \* initial and maximal retransmission time
    REQ_MAX_RC, DEC_MAX_RC,
    CNF_MAX_RD, INF_MAX_RD,
    IRT_DEFAULT,          \* when to ask for information again
    MaxTime,              \* how old a lease may become here
    Setups                \* a configuration, what may go wrong, what is answered

VARIABLES opt, world, air, s

vars == <<opt, world, air, s>>

Has(o) == o \in opt

Off == -1
None == [none |-> TRUE]
Ifs == {"up", "down"}
Subs == {Sub[p] : p \in PDs}
Addrs == NAs \cup Subs

Retransmits == {"senddiscover", "senddiscover1", "senddiscover2", "sendrequest", "sendrenew",
                "sendrebind", "sendconfirm", "sendinform", "senddecline", "sendrelease"}
Fails == {"failrequest", "faildecline", "failconfirm", "failinform", "failrebindpd"}
Timeouts == Retransmits \cup Fails \cup {"startrenew", "startrebind", "startexpire", "startinform"}

Each(f(_), q) == FoldLeft(LAMBDA r, x : Append(r, f(x)), <<>>, q)
Least(a, b) == IF a < b THEN a ELSE b
Most(a, b) == IF a < b THEN b ELSE a

eloop_timeout_add(t, n, x) == [t EXCEPT !.at[x] = n]
eloop_timeout_delete(t, xs) == [t EXCEPT !.at = [x \in Timeouts |-> IF x \in xs THEN Off ELSE @[x]]]

script_runreason(t, i) == [t EXCEPT !.told[i] = TRUE]

\* struct ipv6_addr: an address or a prefix, its flags, whether it is known to
\* be duplicated, its valid lifetime, whether it is deprecated; and for an
\* address out of a prefix, delegating_prefix and whether the prefix's pd_pfxs
\* lists it.
IsPd(e) == e.a \in PDs

ipv6_newaddr(t, a, fl) ==
    LET st == IF a \in PDs THEN "none" ELSE t.k[a]
    IN [a |-> a, dup |-> st = "duplicated", vl |-> 0, old |-> FALSE,
        ptr |-> "null", linked |-> FALSE,
        fl |-> fl \cup (IF st # "none" THEN {"ADDED"} ELSE {}) \cup (IF st = "ok" THEN {"DAD"} ELSE {})]

DECLINE_IA(e) == e.dup /\ e.a \in NAs /\ "STALE" \notin e.fl /\ e.vl # 0

----------------------------------------------------------------------------
(* Addresses in the kernel and in the two lists. *)

ipv6_deleteaddr(t, a) == [t EXCEPT !.k[a] = "none"]

\* Wrong: a freed prefix is not forgotten by the addresses out of it.
BugFreeaddr(t, e) == t

\* A freed prefix is forgotten by the addresses it lists; one that refers to
\* it without being listed is left with a dangling pointer.
ipv6_freeaddr(t, e) ==
    LET Forget(d) == IF d.ptr # "live" \/ Sub[e.a] # d.a THEN d
                     ELSE IF d.linked THEN [d EXCEPT !.ptr = "null", !.linked = FALSE]
                     ELSE [d EXCEPT !.ptr = "dangling"]
    IN IF "PFX" \in e.fl THEN [t EXCEPT !.l["down"] = Each(Forget, @)]
       ELSE IF e.ptr = "dangling" \/ (e.ptr = "live" /\ ~e.linked) THEN [t EXCEPT !.crash = TRUE]
       ELSE t

\* The kernel starts DAD for an address it has not; dhcpcd notes a usable one.
ipv6_addaddr(t, e) ==
    [t |-> [t EXCEPT !.k[e.a] = IF @ = "none" THEN "tentative" ELSE @],
     e |-> [e EXCEPT !.fl = @ \cup {"ADDED"} \cup (IF t.k[e.a] = "ok" THEN {"DAD"} ELSE {})
                              \cup (IF e.ptr # "null" THEN {"DELEGATED"} ELSE {})]]

ipv6_doaddr(t, e) ==
    IF "PFX" \in e.fl THEN [t |-> t, e |-> e, keep |-> TRUE]
    ELSE IF e.vl = 0
    THEN [t |-> IF "ADDED" \in e.fl THEN ipv6_deleteaddr(t, e.a) ELSE t,
          e |-> [e EXCEPT !.fl = @ \ {"ADDED"}], keep |-> "REQUEST" \in e.fl]
    ELSE IF "STALE" \in e.fl THEN [t |-> t, e |-> e, keep |-> TRUE]
    ELSE ipv6_addaddr(t, e) @@ [keep |-> TRUE]

ipv6_addaddrs(t, i) ==
    LET Do(acc, e) ==
            LET r == ipv6_doaddr(acc.t, e)
            IN IF r.keep THEN [t |-> r.t, q |-> Append(acc.q, r.e)]
               ELSE [t |-> ipv6_freeaddr(r.t, e), q |-> acc.q]
        all == FoldLeft(Do, [t |-> t, q |-> <<>>], t.l[i])
    IN [all.t EXCEPT !.l[i] = all.q]

\* ipv6_freedrop_addrs: the entries picked leave the list; if drop, the kernel too,
\* unless the list still has the same address, which is then added again.
ipv6_freedrop_addrs(t, i, drop, picked) ==
    LET out == SelectSeq(t.l[i], LAMBDA e : e \in picked)
        rest == [t EXCEPT !.l[i] = SelectSeq(@, LAMBDA e : e \notin picked)]
        Drop(u, e) ==
            LET other == \E j \in DOMAIN u.l[i] : u.l[i][j].a = e.a /\ u.l[i][j].vl # 0
            IN ipv6_freeaddr(IF drop /\ "ADDED" \in e.fl /\ ~other
                             THEN ipv6_deleteaddr(u, e.a) ELSE u, e)
    IN FoldLeft(Drop, rest, out)

\* The addresses of "down" whose prefix is one of "up" are dropped.
dhcp6_delete_delegates(t) ==
    IF \E j \in DOMAIN t.l["down"] : t.l["down"][j].ptr = "dangling"
    THEN [t EXCEPT !.crash = TRUE]
    ELSE ipv6_freedrop_addrs(t, "down", TRUE, {e \in Range(t.l["down"]) : e.ptr = "live"})

----------------------------------------------------------------------------
(* Messages. *)

Types == [INIT |-> "SOLICIT", DISCOVER |-> "SOLICIT", REQUEST |-> "REQUEST", CONFIRM |-> "CONFIRM",
          REBIND |-> "REBIND", RENEW |-> "RENEW", INFORM |-> "INFORM", RELEASE |-> "RELEASE",
          DECLINE |-> "DECLINE"]

NeedsServer == {"REQUEST", "DECLINE", "RELEASE", "RENEW"}

\* The addresses and prefixes the message names.
Named(t) ==
    {t.l["up"][j].a : j \in {j \in DOMAIN t.l["up"] :
        LET e == t.l["up"][j]
        IN /\ "STALE" \notin e.fl
           /\ "REQUEST" \in e.fl \/ (e.vl # 0 /\ t.st["up"] # "DISCOVER")
           /\ DECLINE_IA(e) => t.st["up"] = "DECLINE"}}

\* The server's identifier comes from the message it last sent.
dhcp6_makemessage(t) ==
    LET st == t.st["up"]
        m == IF st = "REQUEST" /\ t.recv # None THEN t.recv ELSE t.new
    IN IF st \in NeedsServer /\ m = None THEN [t EXCEPT !.send = None]
       ELSE [t EXCEPT !.send = [type |-> Types[st],
                                items |-> IF st \in {"INIT", "INFORM"} THEN {} ELSE Named(t)]]

\* How long to wait for an answer.
WaitTime(t) ==
    LET rt == IF t.IMD # 0 THEN t.IMD ELSE IF t.RTC = 0 THEN IRT ELSE t.RT
    IN IF t.MRT # 0 THEN Least(rt, t.MRT) ELSE rt

\* Wrong: after the last transmission nothing is timed.
BugSendmessage(t, callback) ==
    LET t1 == IF Has("INITIAL_DELAY") THEN t ELSE [t EXCEPT !.IMD = 0]
        RT == WaitTime(t1)
        t2 == [t1 EXCEPT !.RTC = Least(@ + 1, Most(REQ_MAX_RC, DEC_MAX_RC)), !.RT = Least(RT * 2, MaxTime)]
    IN IF t1.IMD # 0 THEN eloop_timeout_add([t1 EXCEPT !.IMD = 0, !.RT = RT], RT, callback)
       ELSE IF ~t.link THEN [t1 EXCEPT !.RT = RT]
       ELSE IF t.MRC = 0 \/ t2.RTC < t.MRC THEN eloop_timeout_add(t2, RT, callback) ELSE t2

\* Nothing is sent, and nothing more is timed, while the link is down.
dhcp6_sendmessage(t, callback) ==
    LET t1 == IF Has("INITIAL_DELAY") THEN t ELSE [t EXCEPT !.IMD = 0]
        RT == WaitTime(t1)
        t2 == [t1 EXCEPT !.RTC = Least(@ + 1, Most(REQ_MAX_RC, DEC_MAX_RC)), !.RT = Least(RT * 2, MaxTime)]
    IN IF t1.IMD # 0 THEN eloop_timeout_add([t1 EXCEPT !.IMD = 0, !.RT = RT], RT, callback)
       ELSE IF ~t.link THEN [t1 EXCEPT !.RT = RT]
       ELSE IF t.MRC = 0 \/ t2.RTC < t.MRC THEN eloop_timeout_add(t2, RT, callback)
       ELSE IF t.MRCcallback # "none" THEN eloop_timeout_add(t2, RT, t.MRCcallback)
       ELSE t2

dhcp6_senddiscover(t) ==
    dhcp6_sendmessage(t, IF t.IMD # 0 THEN "senddiscover" ELSE "senddiscover1")

\* A new state, its retransmission parameters and its message.
Enter(t, st, imd, mrt, mrc) ==
    dhcp6_makemessage([t EXCEPT !.st["up"] = st, !.RTC = 0, !.IMD = imd, !.MRT = mrt, !.MRC = mrc])

SendIfMade(t, x) == IF t.send = None THEN t ELSE dhcp6_sendmessage(t, x)

\* Wrong: every timeout of the interface is deleted, not only its own.
BugStartrenew(t) ==
    IF t.st["up"] \notin {"BOUND", "RENEW"} THEN t
    ELSE SendIfMade(Enter(eloop_timeout_delete(t, Timeouts), "RENEW", 0, MRT, 0), "sendrenew")

dhcp6_startrenew(t) ==
    IF t.st["up"] \notin {"BOUND", "RENEW"} THEN t
    ELSE SendIfMade(Enter(eloop_timeout_delete(t, {"startrenew"}), "RENEW", 0, MRT, 0), "sendrenew")

dhcp6_startrequest(t) ==
    LET t1 == [eloop_timeout_delete(t, {"senddiscover"}) EXCEPT !.MRCcallback = "failrequest"]
    IN SendIfMade(Enter(t1, "REQUEST", 0, MRT, REQ_MAX_RC), "sendrequest")

dhcp6_startdecline(t) ==
    SendIfMade(Enter([t EXCEPT !.MRCcallback = "faildecline"], "DECLINE", 0, 0, DEC_MAX_RC), "senddecline")

\* With prefixes the prior lease is rebound with the timing of a confirm.
dhcp6_hasprefixdelegation == Has("PD")

dhcp6_startrebind(t) ==
    LET t1 == eloop_timeout_delete(t, {"sendrenew"})
        pd == t.st["up"] # "RENEW" /\ dhcp6_hasprefixdelegation
        t2 == IF pd THEN eloop_timeout_add(t1, CNF_MAX_RD, "failrebindpd") ELSE t1
    IN SendIfMade(Enter(t2, "REBIND", IF pd THEN CNF_MAX_DELAY ELSE 0, MRT, 0), "sendrebind")

dhcp6_startconfirm(t) ==
    LET t1 == Enter(t, "CONFIRM", CNF_MAX_DELAY, MRT, 0)
    IN IF \E j \in DOMAIN t.l["up"] : DECLINE_IA(t.l["up"][j]) THEN dhcp6_startdecline(t)
       ELSE eloop_timeout_add(SendIfMade(t1, "sendconfirm"), CNF_MAX_RD, "failconfirm")

\* Requested addresses that became stale are asked for again.
dhcp6_startdiscover(t) ==
    LET Again(e) == IF "REQUEST" \in e.fl THEN [e EXCEPT !.fl = @ \ {"STALE"}] ELSE e
        t1 == dhcp6_delete_delegates(t)
    IN dhcp6_senddiscover(Enter([t1 EXCEPT !.l["up"] = Each(Again, @)],
                                "DISCOVER", SOL_MAX_DELAY, MRT, 0))

dhcp6_startinform(t) ==
    eloop_timeout_add(SendIfMade(Enter(t, "INFORM", INF_MAX_DELAY, MRT, 0), "sendinform"),
                      INF_MAX_RD, "failinform")

\* Which of the two, if any, the configuration and the routers ask for.
ipv6nd_hasradhcp(t, managed) == t.ra = IF managed THEN "M" ELSE "O"

Wanted(t) ==
    IF Has("IA_FORCED") \/ ipv6nd_hasradhcp(t, TRUE) THEN "discover"
    ELSE IF Has("INFORM6") \/ ipv6nd_hasradhcp(t, FALSE) THEN "inform" ELSE "none"

dhcp6_startdiscoinform(t) ==
    CASE Wanted(t) = "discover" -> dhcp6_startdiscover(t)
      [] Wanted(t) = "inform" -> dhcp6_startinform(t)
      [] OTHER -> t

----------------------------------------------------------------------------
(* Leases. *)

\* The addresses and prefixes the configuration asks for by value.
dhcp6_addrequestedaddrs(t) ==
    LET Add(u, a) == [u EXCEPT !.l["up"] = Append(@, ipv6_newaddr(u, a, {"REQUEST"}))]
    IN FoldLeft(Add, t, SelectSeq(t.asked, LAMBDA a : a \in NAs \/ Has("PD")))

dhcp6_unlink(t) == [t EXCEPT !.file = None]

\* Gives up: with the lease, or keeping what is left of it until it expires.
dhcp6_fail(t, drop) ==
    LET t1 == ipv6_freedrop_addrs(t, "up", TRUE,
                  {e \in Range(t.l["up"]) : e.fl \cap {"DELEGATED", "PFX"} = {}})
        t2 == [dhcp6_unlink(dhcp6_delete_delegates(t1)) EXCEPT !.new = None]
        t3 == eloop_timeout_delete(dhcp6_addrequestedaddrs(t2), Timeouts)
        u == IF drop THEN t3 ELSE IF t.new # None THEN script_runreason(t, "up") ELSE t
    IN IF Wanted(u) = "none" THEN [u EXCEPT !.st["up"] = "INIT"] ELSE dhcp6_startdiscoinform(u)

dhcp6_failconfirm(t) == dhcp6_fail(eloop_timeout_delete(t, {"sendconfirm"}), FALSE)
dhcp6_failrebindpd(t) == dhcp6_fail(eloop_timeout_delete(t, {"sendrebind"}), FALSE)
dhcp6_startexpire(t) == dhcp6_fail(eloop_timeout_delete(t, {"sendrebind"}), TRUE)

\* The lease times state->lowpl and state->expire after an address with vl.
Times(t, vl) ==
    [t EXCEPT !.lowpl = IF vl # 0 THEN Least(@, vl) ELSE @, !.expire = Most(@, vl)]

Fresh(e, fl, vl) == [e EXCEPT !.fl = (@ \ {"STALE"}) \cup {fl}, !.vl = vl, !.old = FALSE]

Place(t, j, e, fl, vl) ==
    IF j = 0 THEN [t EXCEPT !.l["up"] = Append(@, [e EXCEPT !.vl = vl])]
    ELSE [t EXCEPT !.l["up"][j] = Fresh(@, fl, vl)]

\* An address given again is no longer stale.  One without lifetime is not
\* found in the list, and is listed again.
dhcp6_findna(t, a, vl) ==
    LET j == SelectInSeq(t.l["up"], LAMBDA e : e.a = a /\ e.vl # 0)
    IN Times(Place(t, j, ipv6_newaddr(t, a, {"ONLINK"}), "ONLINK", vl), vl)

dhcp6_findpd(t, p, vl) ==
    LET j == SelectInSeq(t.l["up"], LAMBDA e : e.a = p)
    IN Times(Place(t, j, ipv6_newaddr(t, p, {"PFX"}), "PFX", vl), vl)

\* An IA of an answer: its status, what it gives, T1 and T2.
Earlier(old, new) == IF new # 0 /\ (old = 0 \/ new < old) THEN new ELSE old

\* Every address is stale until an IA gives it again.  n counts the IAs that
\* give something, bad the ones whose status is not a success.
dhcp6_findia(t, m) ==
    LET Stale(e) == IF "DELEGATED" \in e.fl THEN e ELSE [e EXCEPT !.fl = @ \cup {"STALE"}]
        Give(u, g) == IF g[1] \in PDs THEN dhcp6_findpd(u, g[1], g[2]) ELSE dhcp6_findna(u, g[1], g[2])
        One(acc, ia) ==
            LET u == FoldLeft(Give, acc.t, ia.gives)
            IN IF ia.t2 > 0 /\ ia.t1 > ia.t2 THEN acc
               ELSE IF ia.status # "ok"
               THEN [acc EXCEPT !.bad = TRUE, !.t.has_no_binding = @ \/ ia.status = "NoBinding"]
               ELSE IF ia.gives = <<>> THEN acc
               ELSE [acc EXCEPT !.n = @ + 1,
                                !.t = [u EXCEPT !.renew = Earlier(@, ia.t1), !.rebind = Earlier(@, ia.t2)]]
        all == FoldLeft(One, [t |-> [t EXCEPT !.l["up"] = Each(Stale, @)], n |-> 0, bad |-> FALSE],
                        SelectSeq(m.ias, LAMBDA ia : Has(ia.type)))
    IN [t |-> all.t, n |-> IF all.n = 0 /\ all.bad THEN -1 ELSE all.n]

\* A confirm that only says success confirms the lease there is.
Confirmed(t, m, r) ==
    IF r.n = 0 /\ t.st["up"] = "CONFIRM" /\ m.status = "ok" /\ t.new # None
    THEN dhcp6_findia([r.t EXCEPT !.has_no_binding = FALSE], t.new) ELSE r

dhcp6_validatelease(t, m) ==
    IF m.status = "bad" THEN [t |-> t, n |-> -1]
    ELSE Confirmed(t, m, dhcp6_findia([t EXCEPT !.renew = 0, !.rebind = 0, !.expire = 0, !.lowpl = Inf,
                                                !.has_no_binding = FALSE], m))

\* What is left of the file: nothing, if it cannot be read or has expired.
NoLease(u) ==
    LET ex == ipv6_freedrop_addrs(u, "up", FALSE,
                  {e \in Range(u.l["up"]) : "DELEGATED" \notin e.fl})
    IN dhcp6_addrequestedaddrs([dhcp6_unlink(ex) EXCEPT !.new = None])

FileLease(t, r) ==
    IF r.n <= 0 \/ (r.t.expire # Inf /\ r.t.expire < t.file.age)
    THEN NoLease(r.t) ELSE [r.t EXCEPT !.new = t.file.m]

dhcp6_readlease(t) ==
    IF t.file = None THEN NoLease(t) ELSE FileLease(t, dhcp6_validatelease(t, t.file.m))

AfterRead(u) ==
    IF u.new = None THEN dhcp6_startdiscoinform(u)
    ELSE IF dhcp6_hasprefixdelegation THEN dhcp6_startrebind(u) ELSE dhcp6_startconfirm(u)

dhcp6_startinit(t) ==
    AfterRead(dhcp6_readlease(dhcp6_addrequestedaddrs(
        [t EXCEPT !.st["up"] = "INIT", !.expire = Inf, !.lowpl = Inf])))

----------------------------------------------------------------------------
(* Delegation. *)

\* The delegations of a prefix that goes: dropped if it has no lifetime left,
\* else deprecated.
dhcp6_deprecatedele(t, e) ==
    LET Mine(d) == d.linked /\ d.a = Sub[e.a]
        gone == SelectSeq(t.l["down"], LAMBDA d : Mine(d) /\ e.vl = 0 /\ d.vl # 0)
        Old(d) == IF Mine(d) /\ e.vl # 0 THEN [d EXCEPT !.old = TRUE] ELSE d
        t1 == FoldLeft(LAMBDA u, d : ipv6_deleteaddr(u, d.a), t, gone)
    IN [t1 EXCEPT !.l["down"] = Each(Old, SelectSeq(@, LAMBDA d : ~(Mine(d) /\ e.vl = 0 /\ d.vl # 0)))]

\* Stale addresses, and those without lifetime, leave the list and the kernel.
\* The requested ones stay in the list.
dhcp6_deprecateaddrs(t) ==
    LET Out(acc, e) ==
            LET t1 == IF "PFX" \in e.fl THEN dhcp6_deprecatedele(acc.t, e) ELSE acc.t
                t2 == IF e.a \in Addrs THEN ipv6_deleteaddr(t1, e.a) ELSE t1
            IN IF "STALE" \notin e.fl /\ e.vl # 0 THEN [acc EXCEPT !.q = Append(@, e)]
               ELSE IF "REQUEST" \in e.fl THEN [t |-> t1, q |-> Append(acc.q, [e EXCEPT !.vl = 0])]
               ELSE [t |-> ipv6_freeaddr(t2, e), q |-> acc.q]
        all == FoldLeft(Out, [t |-> t, q |-> <<>>], t.l["up"])
    IN [all.t EXCEPT !.l["up"] = all.q]

\* An address out of a leased prefix, in the list of "down".  One that is there
\* already is given the prefix, but the prefix does not list it.
dhcp6_ifdelegateaddr(t, e) ==
    LET a == Sub[e.a]
        j == SelectInSeq(t.l["down"], LAMBDA d : d.a = a)
        new == [ipv6_newaddr(t, a, {"ONLINK"}) EXCEPT !.linked = TRUE]
        t1 == IF j = 0 THEN [t EXCEPT !.l["down"] = Append(@, new)] ELSE t
        t2 == IF t.st["down"] = "none" THEN [t1 EXCEPT !.st["down"] = "DELEGATED"] ELSE t1
        n == IF j = 0 THEN Len(t1.l["down"]) ELSE j
    IN [t2 EXCEPT !.l["down"][n] = [@ EXCEPT !.ptr = "live", !.vl = e.vl, !.old = FALSE]]

\* Wrong: the script does not wait for DAD.
BugScriptTryRun(t, i, delegated) == script_runreason(t, i)

\* The script is run once every address that was added has completed DAD.
dhcp6_script_try_run(t, i, delegated) ==
    LET Done(e) == IF "ADDED" \in e.fl /\ "ONLINK" \in e.fl /\ t.k[e.a] = "ok"
                   THEN [e EXCEPT !.fl = @ \cup {"DAD"}] ELSE e
        q == Each(Done, t.l[i])
        waits == \E j \in DOMAIN q : /\ {"ADDED", "ONLINK"} \subseteq q[j].fl
                                     /\ "DAD" \notin q[j].fl
                                     /\ delegated = (q[j].ptr # "null")
        t1 == [t EXCEPT !.l[i] = q]
    IN IF waits THEN [t1 EXCEPT !.told[i] = FALSE] ELSE script_runreason(t1, i)

Delegate(t) ==
    LET pfx == SelectSeq(t.l["up"], LAMBDA e : "PFX" \in e.fl)
    IN IF ~t.dlink \/ pfx = <<>> THEN t
       ELSE dhcp6_script_try_run(ipv6_addaddrs(FoldLeft(dhcp6_ifdelegateaddr, t, pfx), "down"), "down", TRUE)

dhcp6_delegate_prefix(t) == Delegate(t)

\* When "down" starts, from a lease that is bound.
dhcp6_find_delegates(t) == IF t.st["up"] = "BOUND" THEN Delegate(t) ELSE t

----------------------------------------------------------------------------
(* Answers. *)

\* T1 is not believed if every address expires by then.
Timers(t) ==
    LET q == SelectSeq(t.l["up"], LAMBDA e : "STALE" \notin e.fl)
        early == \A j \in DOMAIN q : /\ ~(t.renew = Inf /\ q[j].vl = Inf)
                                     /\ q[j].vl # 0
                                     /\ q[j].vl <= t.renew
        u == IF t.renew # 0 /\ early THEN [t EXCEPT !.renew = 0, !.rebind = 0] ELSE t
        low == t.lowpl # Inf
    IN [u EXCEPT !.renew = IF @ = 0 /\ low THEN t.lowpl \div 2 ELSE @,
                 !.rebind = IF @ = 0 /\ low THEN (t.lowpl * 8) \div 10 ELSE @]

\* Wrong: the subtraction may wrap below zero.
BugElapse(t) ==
    LET Less(x) == IF x \in {0, Inf} THEN x ELSE x - t.file.age
    IN [t EXCEPT !.renew = Less(@), !.rebind = Less(@), !.expire = Less(@)]

\* A confirmed lease is as old as it was.
Elapse(t) ==
    LET Less(x) == IF x \in {0, Inf} THEN x ELSE Most(x - t.file.age, 0)
    IN [t EXCEPT !.renew = Less(@), !.rebind = Less(@), !.expire = Less(@)]

AddTimers(t) ==
    LET set(u, n, x) == IF n = Inf THEN u ELSE eloop_timeout_add(u, n, x)
        t1 == IF t.renew = 0 THEN t
              ELSE set(t, t.renew, IF t.st["up"] = "INFORMED" THEN "startinform" ELSE "startrenew")
        t2 == IF t.rebind = 0 THEN t1 ELSE set(t1, t.rebind, "startrebind")
    IN set(t2, t.expire, "startexpire")

\* The timers of the new lease; a confirmed one is kept as it is.
NewLease(t, st) ==
    LET u == eloop_timeout_delete(t, Timeouts)
        t1 == IF st = "INFORM"
              THEN [u EXCEPT !.renew = IRT_DEFAULT, !.rebind = 0, !.expire = Inf, !.lowpl = Inf]
              ELSE Timers(u)
        t2 == IF st = "CONFIRM" THEN Elapse(t1) ELSE [t1 EXCEPT !.new = t.recv, !.recv = None]
    IN AddTimers([t2 EXCEPT !.st["up"] = IF st = "INFORM" THEN "INFORMED" ELSE "BOUND"])

WriteLease(t, st) == IF st = "CONFIRM" THEN t ELSE [t EXCEPT !.file = [m |-> t.new, age |-> 0]]

dhcp6_bind(t) ==
    LET st == t.st["up"]
        u == dhcp6_deprecateaddrs(ipv6_addaddrs(NewLease(t, st), "up"))
    IN dhcp6_script_try_run(dhcp6_delegate_prefix(WriteLease(u, st)), "up", FALSE)

\* The message is kept.  The best offer waits until the first retransmission is
\* due, unless it has the highest preference.
Accept(t, m) ==
    LET u == [t EXCEPT !.recv = m]
    IN IF m.type # "ADVERTISE" THEN dhcp6_bind(u)
       ELSE IF m.pref = 255 \/ t.RTC > 1 THEN dhcp6_startrequest(u) ELSE u

\* Wrong: the reply does not take the place of the advertisement.
BugReply(t, m, r) == IF r.n <= 0 THEN dhcp6_startdiscoinform(r.t) ELSE dhcp6_bind(r.t)

\* A reply to a request, a renewal, a rebind or a rapid commit; r is what
\* dhcp6_validatelease makes of it.
Reply(t, m, r) ==
    LET st == t.st["up"]
        req == IF st = "DISCOVER" THEN [r.t EXCEPT !.st["up"] = "REQUEST"] ELSE r.t
    IN IF r.n <= 0 THEN IF st = "DISCOVER" THEN r.t ELSE dhcp6_startdiscoinform(r.t)
       ELSE IF st \in {"RENEW", "REBIND"} /\ r.t.has_no_binding THEN dhcp6_startrequest(r.t)
       ELSE Accept(req, m)

Advertise(t, m, r) ==
    IF t.recv # None /\ t.recv.type = "ADVERTISE" /\ t.recv.pref >= m.pref /\ t.recv.pref # Off THEN t
    ELSE IF r.n <= 0 THEN r.t ELSE Accept(r.t, m)

Reconfigure(t, m) ==
    CASE m.msg = "RENEW" /\ t.st["up"] = "BOUND" -> dhcp6_startrenew(t)
      [] m.msg = "INFORM" /\ t.st["up"] = "INFORMED" ->
            dhcp6_startinform(eloop_timeout_delete(t, {"sendinform"}))
      [] OTHER -> t

dhcp6_recvif(t, m) ==
    LET st == t.st["up"]
    IN CASE t.send = None -> t
         [] m.type = "RECONFIGURE" -> Reconfigure(t, m)
         [] st \in {"BOUND", "INFORMED"} -> t
         [] m.type = "ADVERTISE" -> IF st = "DISCOVER" THEN Advertise(t, m, dhcp6_validatelease(t, m)) ELSE t
         [] st = "INFORM" -> IF m.status = "bad" THEN t ELSE Accept(t, m)
         [] st = "DISCOVER" /\ ~(Has("RAPID_COMMIT") /\ m.rapid) -> t
         [] st \in {"CONFIRM", "DISCOVER", "REQUEST", "RENEW", "REBIND"} ->
              Reply(t, m, dhcp6_validatelease(t, m))
         [] st = "DECLINE" -> dhcp6_fail(t, TRUE)
         [] OTHER -> t

\* The xid of the message is compared with that of the last one sent.
dhcp6_recvmsg(t, m) ==
    IF m.type # "RECONFIGURE" /\ t.st["up"] # "none" /\ t.send = None
    THEN [t EXCEPT !.crash = TRUE] ELSE IF t.st["up"] = "none" THEN t ELSE dhcp6_recvif(t, m)

----------------------------------------------------------------------------
(* DAD. *)

\* Called for the address at j of list i when the kernel has finished DAD.
dhcp6_dadcallback(t, i, j) ==
    LET q == t.l[i]
        waits == \E n \in DOMAIN q : "ADDED" \in q[n].fl /\ "DAD" \notin q[n].fl
    IN IF t.st[i] \notin {"BOUND", "DELEGATED"} \/ waits THEN t
       ELSE IF t.st[i] = "BOUND" /\ DECLINE_IA(q[j]) THEN dhcp6_startdecline(t)
       ELSE script_runreason(t, i)

\* Wrong: a deletion does not clear the flag that the address is configured.
BugHandleifaAddrs(t, i, cmd, a, af) ==
    LET Done(u, j) == IF u.l[i][j].a # a \/ "DAD" \in u.l[i][j].fl THEN u
                      ELSE dhcp6_dadcallback([u EXCEPT !.l[i][j].fl = @ \cup {"DAD"}], i, j)
    IN FoldLeft(Done, t, [j \in 1..Len(t.l[i]) |-> j])

\* ipv6_handleifa_addrs: the kernel reports a with flags af.
ipv6_handleifa_addrs(t, i, cmd, a, af) ==
    LET Done(u, j) ==
            LET new == "DAD" \notin u.l[i][j].fl /\ af # "tentative"
                u1 == [u EXCEPT !.l[i][j].dup = (af = "duplicated"),
                                !.l[i][j].fl = IF new THEN @ \cup {"DAD"} ELSE @]
                u2 == IF new THEN dhcp6_dadcallback(u1, i, j) ELSE u1
            IN IF u.l[i][j].a # a THEN u
               ELSE IF cmd = "DEL" THEN [u2 EXCEPT !.l[i][j].fl = @ \ {"ADDED"}] ELSE u2
        all == FoldLeft(Done, t, [j \in 1..Len(t.l[i]) |-> j])
        gone == SelectSeq(all.l[i], LAMBDA e : cmd = "DEL" /\ e.a = a /\ "DELEGATED" \in e.fl)
        kept == [all EXCEPT !.l[i] = SelectSeq(@, LAMBDA e : ~(cmd = "DEL" /\ e.a = a /\ "DELEGATED" \in e.fl))]
    IN FoldLeft(ipv6_freeaddr, kept, gone)

dhcp6_handleifa(t, i, cmd, a, af) ==
    IF t.st[i] = "none" THEN t ELSE ipv6_handleifa_addrs(t, i, cmd, a, af)

----------------------------------------------------------------------------
(* Starting and stopping. *)

dhcp6_start1(t) ==
    IF t.st["up"] = "INFORM" THEN dhcp6_startinform(t) ELSE dhcp6_startinit(t)

\* What dhcp6_start is asked for, in the state the interface is in: "gogogo",
\* from INIT or INFORM, waits for a link-local address.
Todo(t, init) ==
    LET st == t.st["up"]
    IN CASE st = "none" -> IF init = "CONFIRM" THEN "nothing" ELSE "gogogo"
         [] init \in {"INIT", "CONFIRM"} -> "gogogo"
         [] init = "INFORM" /\ (st = "INIT" \/ (st = "DISCOVER" /\ ~Has("IA_FORCED") /\ t.ra # "M")) -> "inform"
         [] init = "REQUEST" /\ st \in {"INIT", "INFORM", "INFORMED", "DELEGATED"} -> "gogogo"
         [] OTHER -> "nothing"

dhcp6_start(t, init) ==
    LET t1 == [t EXCEPT !.st["up"] = IF @ = "none" /\ init = "INFORM" THEN "INFORM" ELSE "INIT"]
        todo == Todo(t, init)
    IN IF todo = "gogogo" THEN IF t.ll THEN dhcp6_start1(t1) ELSE [t1 EXCEPT !.wait = TRUE]
       ELSE IF todo = "inform" THEN dhcp6_startinform(t) ELSE t

\* What dhcpcd_startinterface starts.
StartInterface(t) ==
    dhcp6_start(t, IF Has("IA_FORCED") THEN "INIT" ELSE IF Has("INFORM6") THEN "INFORM" ELSE "CONFIRM")

dhcp6_reboot(t) ==
    CASE t.st["up"] = "none" -> t
      [] t.st["up"] = "BOUND" -> dhcp6_startrebind(t)
      [] OTHER -> dhcp6_startdiscoinform(t)

dhcp6_abort(t) ==
    LET t1 == eloop_timeout_delete(t, {"senddiscover", "startinform", "sendinform"})
    IN IF t.st["up"] = "none" THEN t
       ELSE IF t.st["up"] \in {"DISCOVER", "REQUEST", "INFORM"} THEN [t1 EXCEPT !.st["up"] = "INIT"] ELSE t1

\* The end of dhcp6_freedrop for interface i.
FreeState(t, i) ==
    LET t1 == ipv6_freedrop_addrs(t, i, TRUE, Range(t.l[i]))
        t2 == [t1 EXCEPT !.st[i] = "none", !.told[i] = FALSE]
    IN IF i = "up" THEN [t2 EXCEPT !.new = None, !.send = None, !.recv = None] ELSE t2

\* A lease is released if it is bound; nothing else happens if it is not.
dhcp6_startrelease(t) ==
    IF t.st["up"] # "BOUND" THEN t
    ELSE LET t1 == Enter([t EXCEPT !.MRCcallback = "none"], "RELEASE", 0, 0, 0)
             t2 == dhcp6_delete_delegates(eloop_timeout_delete(SendIfMade(t1, "sendrelease"), Timeouts))
         IN IF t1.send = None THEN t1 ELSE FreeState(dhcp6_unlink(t2), "up")

dhcp6_drop(t) ==
    LET t1 == dhcp6_delete_delegates(eloop_timeout_delete(t, Timeouts))
        st == t.st["up"]
    IN IF st = "none" THEN t1
       ELSE IF Has("RELEASE")
       THEN IF t.link /\ st # "INFORMED" THEN dhcp6_startrelease(t1) ELSE FreeState(dhcp6_unlink(t1), "up")
       ELSE FreeState(t1, "up")

dhcp6_dropdown(t) == IF t.st["down"] = "none" THEN t ELSE FreeState(t, "down")

----------------------------------------------------------------------------
(* The world. *)

\* A process that was just started, with what the kernel and the file kept.
Boot(k, file, dlink, ll) ==
    [st |-> [i \in Ifs |-> "none"], l |-> [i \in Ifs |-> <<>>], told |-> [i \in Ifs |-> FALSE],
     k |-> k, at |-> [x \in Timeouts |-> Off],
     RTC |-> 0, RT |-> 0, IMD |-> 0, MRT |-> 0, MRC |-> 0, MRCcallback |-> "none",
     send |-> None, recv |-> None, new |-> None, file |-> file,
     renew |-> 0, rebind |-> 0, expire |-> Inf, lowpl |-> Inf, has_no_binding |-> FALSE,
     asked |-> IF Has("ASK") THEN <<CHOOSE a \in NAs : TRUE>> ELSE <<>>,
     ra |-> "none", link |-> FALSE, dlink |-> dlink, ll |-> ll, wait |-> FALSE,
     active |-> FALSE, crash |-> FALSE]

Init ==
    /\ \E x \in Setups : opt = x[1] /\ world = x[2] /\ air = x[3]
    /\ s = Boot([a \in Addrs |-> "none"], None, "dlink" \in world, "nolinklocal" \notin world)

May(w) == w \in world

Handler(t) == s' = t /\ UNCHANGED <<opt, world, air>>

Alive == ~s.crash

Start ==
    /\ Alive /\ ~s.active
    /\ Handler(StartInterface([Boot(s.k, s.file, s.dlink, s.ll) EXCEPT !.active = TRUE, !.link = TRUE]))

LinkLocal ==
    /\ Alive /\ s.active /\ ~s.ll
    /\ Handler(IF s.wait THEN dhcp6_start1([s EXCEPT !.ll = TRUE, !.wait = FALSE]) ELSE [s EXCEPT !.ll = TRUE])

\* A router says where configuration comes from.
RouterAdvert(f) ==
    /\ Alive /\ s.active /\ s.link /\ May(f) /\ s.ra # f
    /\ LET t == [s EXCEPT !.ra = f]
       IN Handler(IF f = "none" THEN t ELSE dhcp6_start(t, IF f = "M" THEN "REQUEST" ELSE "INFORM"))

NoCarrier ==
    /\ Alive /\ s.active /\ s.link /\ May("carrier")
    /\ LET t == [s EXCEPT !.link = FALSE]
       IN Handler(IF Has("ROAMING") THEN dhcp6_abort(t) ELSE [dhcp6_drop(t) EXCEPT !.ra = "none", !.wait = FALSE])

Carrier ==
    Alive /\ s.active /\ ~s.link /\ Handler(StartInterface([s EXCEPT !.link = TRUE]))

Stop ==
    /\ Alive /\ s.active /\ May("stop")
    /\ Handler([dhcp6_drop(s) EXCEPT !.active = FALSE, !.ra = "none", !.wait = FALSE, !.at = [x \in Timeouts |-> Off]])

\* The process is killed: what it knew is lost.
Killed ==
    /\ Alive /\ s.active /\ May("killed")
    /\ Handler(Boot(s.k, s.file, s.dlink, s.ll))

Reboot == Alive /\ s.active /\ May("reboot") /\ Handler(dhcp6_reboot(s))

Renew == Alive /\ s.active /\ May("renew") /\ Handler(dhcp6_startrenew(s))

\* A server answers what was sent to it; to a request for information, without
\* addresses.
Server(m) ==
    /\ Alive /\ s.active /\ s.link
    /\ m.type = "RECONFIGURE" \/ s.RTC > 0 \/ s.send = None
    /\ s.st["up"] = "INFORM" => m.ias = <<>>
    /\ Handler(dhcp6_recvmsg(s, m))

DownCarrier ==
    /\ Alive /\ May("down")
    /\ LET t == [s EXCEPT !.dlink = ~@]
       IN Handler(IF s.dlink THEN dhcp6_dropdown(t) ELSE dhcp6_find_delegates(t))

Where(a) == IF a \in Subs THEN "down" ELSE "up"

KernelDad(a) ==
    /\ Alive /\ s.k[a] = "tentative"
    /\ Handler(dhcp6_handleifa([s EXCEPT !.k[a] = "ok"], Where(a), "NEW", a, "ok"))

\* The kernel deletes a duplicated address that does not last for ever.
KernelDup(a) ==
    /\ Alive /\ s.k[a] = "tentative" /\ May("duplicated")
    /\ Handler(dhcp6_handleifa([s EXCEPT !.k[a] = "none"], Where(a), "DEL", a, "duplicated"))

\* Someone else deletes an address.
KernelDel(a) ==
    /\ Alive /\ s.k[a] # "none" /\ May("deleted")
    /\ Handler(dhcp6_handleifa([s EXCEPT !.k[a] = "none"], Where(a), "DEL", a, s.k[a]))

\* The callback of a timeout.
Call(t, x) ==
    CASE x = "senddiscover" -> dhcp6_senddiscover(t)
      [] x = "senddiscover1" -> IF t.recv = None \/ t.recv.type # "ADVERTISE"
                                THEN dhcp6_sendmessage(t, "senddiscover2") ELSE dhcp6_startrequest(t)
      [] x \in Retransmits \ {"senddiscover", "senddiscover1"} -> dhcp6_sendmessage(t, x)
      [] x = "startrenew" -> dhcp6_startrenew(t)
      [] x = "startrebind" -> dhcp6_startrebind(t)
      [] x = "startexpire" -> dhcp6_startexpire(t)
      [] x = "startinform" -> dhcp6_startinform(t)
      [] x = "failconfirm" -> dhcp6_failconfirm(t)
      [] x = "failrebindpd" -> dhcp6_failrebindpd(t)
      [] x \in {"failrequest", "faildecline", "failinform"} -> dhcp6_fail(t, TRUE)

Fire(x) == Alive /\ s.at[x] = 0 /\ Handler(Call([s EXCEPT !.at[x] = Off], x))

Tick ==
    /\ Alive /\ \A x \in Timeouts : s.at[x] # 0
    /\ \E x \in Timeouts : s.at[x] > 0
    /\ Handler([s EXCEPT !.at = [x \in Timeouts |-> IF @[x] > 0 THEN @[x] - 1 ELSE @[x]],
                         !.file = IF @ = None THEN @ ELSE [@ EXCEPT !.age = Least(@ + 1, MaxTime)]])

Next ==
    \/ Start \/ LinkLocal \/ NoCarrier \/ Carrier \/ Stop \/ Killed \/ Reboot \/ Renew \/ DownCarrier \/ Tick
    \/ \E f \in {"M", "O", "none"} : RouterAdvert(f)
    \/ \E m \in air : Server(m)
    \/ \E a \in Addrs : KernelDad(a) \/ KernelDup(a) \/ KernelDel(a)
    \/ \E x \in Timeouts : Fire(x)

Spec == Init /\ [][Next]_vars

----------------------------------------------------------------------------
(* What is required. *)

\* Lifetimes and timeouts stay in range: subtracting the age of a confirmed
\* lease in dhcp6_bind never wraps below zero.
TypeOK ==
    /\ \A i \in Ifs : \A j \in DOMAIN s.l[i] : s.l[i][j].vl \in 0..Inf
    /\ \A x \in Timeouts : s.at[x] \in Off..Inf

\* While a lease is bound or renewed, an address it put on the interface that
\* does not last for ever is watched: dhcp6_startexpire is queued, and renewing,
\* rebinding and expiry come in that order, through renewals, reboots, confirms
\* of an old lease and restarts.
LeaseIsTimed ==
    Alive /\ s.active /\ s.st["up"] \in {"BOUND", "RENEW"} =>
        \A j \in DOMAIN s.l["up"] :
            LET e == s.l["up"][j]
            IN e.a \in NAs /\ "ADDED" \in e.fl /\ e.vl \in 1..(Inf - 1)
                   => /\ s.at["startexpire"] # Off
                      /\ s.at["startrenew"] <= s.at["startrebind"]
                      /\ s.at["startrebind"] <= s.at["startexpire"]

\* A bound client holds a lease a server committed to with a REPLY, never an
\* ADVERTISE, and the file has that same lease for the next start.
BoundIsLease ==
    Alive /\ s.st["up"] = "BOUND" =>
        s.new # None /\ s.new.type = "REPLY" /\ s.file # None /\ s.file.m = s.new

\* The script is told of a lease once DAD of every configured address is done
\* and not before; while it has not been told, some address is still waiting for
\* DAD, so the report is not lost (dhcp6_script_try_run, dhcp6_dadcallback).
ScriptAfterDad ==
    Alive /\ s.st["up"] = "BOUND" =>
        LET waiting == {j \in DOMAIN s.l["up"] : "ONLINK" \in s.l["up"][j].fl /\ "DAD" \notin s.l["up"][j].fl}
        IN IF s.told["up"] THEN \A j \in waiting : "ADDED" \notin s.l["up"][j].fl ELSE waiting # {}

\* An address that refers to a prefix it is delegated from refers to one that is
\* still in the list of the leasing interface, and that interface holds a lease.
DelegatesHaveLease ==
    Alive => \A j \in DOMAIN s.l["down"] :
        LET d == s.l["down"][j]
        IN d.ptr = "live" =>
               /\ s.new # None
               /\ \E n \in DOMAIN s.l["up"] : IsPd(s.l["up"][n]) /\ Sub[s.l["up"][n].a] = d.a

\* An address listed as configured is one the kernel has, on both interfaces,
\* whoever removes it: dhcpcd, the kernel after a failed DAD, or someone else.
NoGhosts ==
    Alive => \A i \in Ifs : \A j \in DOMAIN s.l[i] :
        "ADDED" \in s.l[i][j].fl => s.k[s.l[i][j].a] # "none"

Asking == {"DISCOVER", "REQUEST", "RENEW", "REBIND", "CONFIRM", "INFORM", "DECLINE"}

\* A client that waits for an answer with the link up has a retransmission or
\* the end of the exchange queued: it never waits for ever.
KeepsAsking ==
    Alive /\ s.st["up"] \in Asking /\ s.active /\ s.link /\ ~s.wait =>
        \E x \in Retransmits \cup Fails : s.at[x] # Off

\* Once the interface is stopped with a release it has no DHCPv6 state and none
\* of the leased addresses (dhcpcd.8: "release its lease and de-configure the
\* interface").
StoppedIsDeconfigured ==
    ~s.active => \A a \in NAs : s.k[a] = "none"

\* A bound client has a lease that a server committed to, which is stored and timed,
\* and a client that asks goes on asking: through every exchange, carrier change, kill
\* and restart there is a next step.
LeaseIsKept == TypeOK /\ BoundIsLease /\ LeaseIsTimed /\ KeepsAsking

\* An address on the list of either interface is what it is taken for: in the kernel if
\* it was added, and out of a leased prefix if it was delegated.
AddressesAreReal == NoGhosts /\ DelegatesHaveLease
=============================================================================
