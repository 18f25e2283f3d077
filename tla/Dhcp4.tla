------------------------------- MODULE Dhcp4 -------------------------------
(***************************************************************************)
(* The DHCPv4 client of one interface: src/src/dhcp.c, with the parts of   *)
(* ipv4.c, arp.c, ipv4ll.c and dhcpcd.c its handlers call.                 *)
(*                                                                         *)
(* dhcpcd is one process around one event loop, so a handler (a timeout, a *)
(* packet, a signal, a kernel message) runs to completion: it is one       *)
(* action.  Every C function takes the interface and changes what hangs    *)
(* off it; here it is an operator from the state record to the state       *)
(* record, under the name it has in the source, and a handler is the       *)
(* composition of the functions it calls.                                  *)
(*                                                                         *)
(* Timeouts are a set of pending callbacks.  How long each waits depends   *)
(* on configuration and on the lease, so any pending one may be the next   *)
(* to expire, except that a lease's end comes after its renew and rebind.  *)
(* The network keeps the questions asked under the current transaction id; *)
(* a server may answer any of them late, never, or more than once.         *)
(***************************************************************************)
EXTENDS Integers, Sequences

CONSTANTS
    Addr,        \* IPv4 addresses
    Pool,        \* the addresses servers lease, a subset of Addr
    NoAddr,      \* INADDR_ANY, or a NULL struct ipv4_addr *
    ReqAddr,     \* ifo->req_addr, used when "REQADDR" is configured
    Arping,      \* ifo->arping, a sequence of addresses
    OptionSets,  \* the configurations (sets of option names) considered
    Outcomes,    \* the results system calls may have, see Outcome
    Events       \* what servers, other hosts, the kernel and the user may do
                 \* beyond granting leases, see EventNames

OptionNames ==
    {"ARP", "CONFIGURE", "DHCP", "IPV4LL", "LASTLEASE", "LASTLEASE_EXTEND",
     "STATIC", "INFORM", "REQADDR", "RELEASE", "REQUEST", "BOOTP",
     "RAPID_COMMIT", "V6ONLY", "XID_HWADDR", "MANAGER", "PRIVSEP", "DELAY",
     "REQUEST_TIME", "REBOOT", "PERSISTENT", "ANONYMOUS"}

\* What the environment decides while a handler runs: how a message with a
\* retransmission fares (send: sent, sent over BPF because UDP failed, not
\* made, not sent because the network is down, or an error that makes dhcpcd
\* give the interface up), the same for one without (note), whether the kernel
\* takes an address (add), whether an ARP state or a UDP socket can be opened
\* (arp, udp), whether a stored lease has run out by its mtime (expired), and
\* what a read past the end of ifo->arping yields (junk).
Outcome ==
    [send : {"ok", "bpf", "soft", "down", "hard"},
     note : {"ok", "soft", "hard"},
     add : BOOLEAN, arp : BOOLEAN, udp : BOOLEAN, expired : BOOLEAN,
     junk : Addr]

EventNames ==
    {"nak", "bootp", "autoconf", "forcerenew", "conflict", "defend", "deladdr",
     "newaddr", "lost", "roam", "renew", "reboot", "reconfigure", "stop",
     "restart"}

ASSUME AddrAssumption ==
    /\ NoAddr \notin Addr
    /\ Pool \subseteq Addr
    /\ ReqAddr \in Addr
    /\ Arping \in Seq(Addr)

ASSUME OptionAssumption ==
    /\ OptionSets \subseteq SUBSET OptionNames
    /\ Outcomes \subseteq Outcome
    /\ Events \subseteq EventNames

VARIABLES
    opt,  \* ifp->options and ctx->options, fixed for a run of the client
    s     \* the interface: its dhcp_state, ARP states, timeouts, addresses,
          \* and what is outside the process (lease file, carrier, network)

vars == <<opt, s>>

States ==
    {"NONE", "INIT", "DISCOVER", "REQUEST", "PROBE", "BOUND", "RENEW",
     "REBIND", "REBOOT", "INFORM"}

Timers ==
    {"start1", "discover", "send_discover", "send_request", "send_renew",
     "send_rebind", "send_inform", "requestfailed", "startrenew", "rebind",
     "expire", "lastlease", "ipv4ll_start"}

\* A struct bootp: what the client tells apart about it.  inf is an infinite
\* lease; an OFFER that carries rapid commit is stored as the ACK it stands for.
Msg ==
    [kind : {"OFFER", "ACK", "BOOTP", "STATIC"}, addr : Addr, inf : BOOLEAN]

NoMsg == [kind |-> "NULL", addr |-> NoAddr, inf |-> FALSE]

\* What was sent under the current xid and may still be answered.
Question ==
    [type : {"DISCOVER", "REQUEST", "INFORM"}, addr : Addr \cup {NoAddr}]

State ==
    [st : States,                          \* state->state
     offer : Msg \cup {NoMsg},             \* state->offer
     new : Msg \cup {NoMsg},               \* state->new
     lease : [addr : Addr \cup {NoAddr}, server : BOOLEAN,
              frominfo : BOOLEAN],         \* state->lease
     addr : Addr \cup {NoAddr},            \* state->addr
     added : SUBSET {"ADDED", "FAKE", "EXPIRED"},
     arping : -1..(Len(Arping) + 1),       \* state->arping_index
     alen : {0, Len(Arping)},              \* ifo->arping_len
     timers : SUBSET Timers,               \* ELOOP_DHCP timeouts of ifp
     arp : [Addr -> {"none", "idle", "probe"}],
     ll : BOOLEAN,                         \* IPv4LL is running
     bpf : BOOLEAN, udp : BOOLEAN,         \* state->bpf, state->udp_rfd
     active : BOOLEAN,                     \* ifp->active
     crash : {"none", "deladdr", "inform"},\* the process died, and where
     link : {"up", "down", "roam"},        \* ifp->carrier
     addrs : SUBSET Addr,                  \* addresses on the interface
     disk : Msg \cup {NoMsg},              \* the lease file
     asked : SUBSET Question]              \* the network

Has(o) == o \in opt

May(event) == event \in Events

ArpOn == Has("ARP") \/ Has("LASTLEASE_EXTEND")

----------------------------------------------------------------------------
(* ARP and address primitives (arp.c, ipv4.c, ipv4ll.c). *)

arp_freeaddr(t, a) == [t EXCEPT !.arp[a] = "none"]

arp_drop(t) == [t EXCEPT !.arp = [a \in Addr |-> "none"]]

\* dhcp_arp_new fails (NULL) when ok is FALSE and the state is not there yet.
ArpUsable(t, a, ok) == ok \/ t.arp[a] # "none"

dhcp_arp_new(t, a, ok) ==
    [t EXCEPT !.arp[a] = IF @ = "none" /\ ok THEN "idle" ELSE @]

arp_probe(t, a) == [t EXCEPT !.arp[a] = "probe"]

\* ipv4_deladdr reads addr->iface before anything else: NULL is fatal.
ipv4_deladdr(t, a) ==
    IF a = NoAddr
    THEN [t EXCEPT !.crash = "deladdr"]
    ELSE [t EXCEPT !.addrs = @ \ {a},
                   !.arp[a] = "none",
                   !.added = IF t.addr = a THEN {} ELSE @,
                   !.addr = IF @ = a THEN NoAddr ELSE @]

\* ipv4_applyaddr with state->new == NULL takes the address off the interface.
ipv4_unapplyaddr(t) ==
    IF t.added # {} THEN ipv4_deladdr(t, t.addr) ELSE t

\* ipv4_applyaddr with a lease: add its address, then delete the old one.
ipv4_applyaddr(t, ok) ==
    LET old == t.addr
        a == t.lease.addr   \* the kernel refuses 0.0.0.0
        t1 == [t EXCEPT !.addrs = @ \cup {a}, !.addr = a, !.added = {"ADDED"}]
    IN IF ~ok \/ a = NoAddr THEN t
       ELSE IF old # NoAddr /\ old # a THEN ipv4_deladdr(t1, old) ELSE t1

ipv4ll_start(t) == [t EXCEPT !.ll = TRUE]

ipv4ll_drop(t) == [t EXCEPT !.ll = FALSE]

\* Wrong: the file is truncated, not removed.
BugTruncates(t) == [t EXCEPT !.disk = NoAddr]

dhcp_unlink(t) == IF t.crash = "none" THEN [t EXCEPT !.disk = NoMsg] ELSE t

dhcp_new_xid(t) ==
    IF Has("XID_HWADDR") THEN t ELSE [t EXCEPT !.asked = {}]

----------------------------------------------------------------------------
(* Sending and dropping. *)

\* send_message unicasts over UDP only from a working lease with a known
\* server; everything else is broadcast over BPF, which it opens.
Unicasts(t) ==
    /\ t.added \cap {"FAKE", "EXPIRED"} = {}
    /\ t.addr # NoAddr
    /\ t.lease.addr \in t.addrs
    /\ t.lease.server

\* dhcp_drop: rel is DHCPCD_RELEASE, persist is EXITING with PERSISTENT.
dhcp_drop_opts(t, rel, persist) ==
    IF t.st = "NONE"
    THEN [t EXCEPT !.timers = {}]
    ELSE LET t1 == IF t.addr # NoAddr THEN arp_freeaddr(t, t.addr) ELSE t
             t2 == IF rel /\ ~Has("INFORM")
                   THEN LET u == dhcp_unlink(t1)
                        IN IF u.link = "up" /\ u.new # NoMsg /\ u.lease.server
                           THEN dhcp_new_xid(u) ELSE u
                   ELSE t1
             t3 == [t2 EXCEPT !.arping = -1, !.timers = {}, !.st = "NONE",
                              !.offer = NoMsg, !.new = NoMsg]
             t4 == IF ~Has("CONFIGURE")
                   THEN [t3 EXCEPT !.addr = NoAddr, !.added = {}]
                   ELSE IF persist THEN t3 ELSE ipv4_unapplyaddr(t3)
         IN [t4 EXCEPT !.lease.addr = NoAddr, !.bpf = FALSE, !.udp = FALSE]

dhcp_drop(t) == dhcp_drop_opts(t, Has("RELEASE"), FALSE)

\* Wrong: a message that could not be sent is not sent again.
BugNoRetry(t, type, callback, how) ==
    IF t.link # "up" \/ how \in {"soft", "down"} THEN t
    ELSE IF how = "hard"
         THEN [dhcp_drop(t) EXCEPT !.timers = {}]
         ELSE [t EXCEPT
                 !.timers = @ \cup {callback},
                 !.bpf = @ \/ how = "bpf" \/ ~Unicasts(t),
                 !.asked = @ \cup {[type |-> type, addr |-> t.lease.addr]}]

\* send_message with a retransmission callback.  Without carrier only the
\* timeout advances; a packet BPF cannot send drops the interface's lease.
send_message(t, type, callback, how) ==
    IF t.link # "up" \/ how = "soft"
    THEN [t EXCEPT !.timers = @ \cup {callback}]
    ELSE IF how = "down"
         THEN [t EXCEPT !.timers = @ \cup {callback}, !.bpf = TRUE]
    ELSE IF how = "hard"
         THEN [dhcp_drop(t) EXCEPT !.timers = {}]
         ELSE [t EXCEPT
                 !.timers = @ \cup {callback},
                 !.bpf = @ \/ how = "bpf" \/ ~Unicasts(t),
                 !.asked = @ \cup {[type |-> type, addr |-> t.lease.addr]}]

\* send_message(ifp, DHCP_DECLINE, NULL) after setting STATE_EXPIRED, which
\* makes it broadcast.
dhcp_decline(t, how) ==
    LET t1 == [t EXCEPT !.added = @ \cup {"EXPIRED"}]
    IN IF t.link # "up" \/ how = "soft" THEN t1
       ELSE IF how = "hard" THEN [dhcp_drop(t1) EXCEPT !.timers = {}]
            ELSE [t1 EXCEPT !.bpf = TRUE]

dhcp_discover(t, e) ==
    IF t.crash # "none" THEN t
    ELSE LET t1 == dhcp_new_xid([t EXCEPT !.st = "DISCOVER"])
             t2 == [t1 EXCEPT !.timers =
                       IF Has("IPV4LL") /\ "EXPIRED" \notin t.added
                       THEN {"ipv4ll_start"} ELSE {}]
         IN send_message(t2, "DISCOVER", "send_discover", e.send)

dhcp_requestfailed(t, e) == dhcp_discover([t EXCEPT !.offer = NoMsg], e)

dhcp_request(t, e) ==
    LET t1 == [t EXCEPT !.st = "REQUEST",
                        !.timers = IF Has("REQUEST_TIME")
                                   THEN @ \cup {"requestfailed"} ELSE @]
    IN send_message(t1, "REQUEST", "send_request", e.send)

dhcp_expire(t, e) ==
    LET t1 == IF Has("LASTLEASE_EXTEND")
              THEN [t EXCEPT !.added = @ \cup {"EXPIRED"}]
              ELSE dhcp_unlink(dhcp_drop(t))
    IN dhcp_discover(t1, e)

\* Wrong: every timeout of the interface is deleted, not just its own.
BugRenewDeletesAll(t, e) ==
    IF t.st \notin {"BOUND", "RENEW"} THEN t
    ELSE LET t1 == [t EXCEPT !.timers = {}, !.st = "RENEW"]
         IN send_message(dhcp_new_xid(t1), "REQUEST", "send_renew", e.send)

dhcp_startrenew(t, e) ==
    IF t.st \notin {"BOUND", "RENEW"} THEN t
    ELSE LET t1 == [t EXCEPT !.timers = @ \ {"startrenew"}, !.st = "RENEW"]
         IN send_message(dhcp_new_xid(t1), "REQUEST", "send_renew", e.send)

\* Wrong: the renewal goes on beside the rebinding.
BugRenewsOn(t, e) ==
    send_message([t EXCEPT !.st = "REBIND", !.lease.server = FALSE],
                 "REQUEST", "send_rebind", e.send)

\* Wrong: the lease file goes when the server does not answer.
BugUnlinksEarly(t, e) ==
    LET t1 == [t EXCEPT !.st = "REBIND", !.timers = @ \ {"send_renew"},
                        !.lease.server = FALSE]
    IN send_message(dhcp_unlink(t1), "REQUEST", "send_rebind", e.send)

dhcp_rebind(t, e) ==
    LET t1 == [t EXCEPT !.st = "REBIND", !.timers = @ \ {"send_renew"},
                        !.lease.server = FALSE]
    IN send_message(t1, "REQUEST", "send_rebind", e.send)

----------------------------------------------------------------------------
(* Binding a lease. *)

\* get_lease: what state->lease takes from a message.
get_lease(t, m) ==
    [t EXCEPT !.lease.addr = m.addr,
              !.lease.server = m.kind \in {"OFFER", "ACK"}]

\* Wrong: takes the address of a previous run for one it listens on.
BugTrustsFake(t, before, ok) ==
    IF \/ Has("MANAGER") \/ Has("STATIC")
       \/ /\ before.new # NoMsg /\ before.new.addr = t.new.addr
          /\ "ADDED" \in before.added
    THEN t ELSE [t EXCEPT !.udp = ok, !.bpf = ~ok /\ ~Has("PRIVSEP")]

\* dhcp_bind from the label openudp: the socket of a renewed address is kept;
\* when a new one cannot be opened, BPF stays open instead (not with privsep).
openudp(t, before, ok) ==
    IF \/ Has("MANAGER") \/ Has("STATIC")
       \/ /\ before.new # NoMsg /\ before.new.addr = t.new.addr
          /\ "ADDED" \in before.added /\ "FAKE" \notin before.added
    THEN t ELSE [t EXCEPT !.udp = ok, !.bpf = ~ok /\ ~Has("PRIVSEP")]

Infinite(m) == Has("STATIC") \/ Has("INFORM") \/ m.inf

dhcp_bind(t, e) ==
    LET t1 == IF t.offer = NoMsg THEN t
              ELSE [t EXCEPT !.new = t.offer, !.offer = NoMsg]
        t2 == get_lease(t1, t1.new)
        t3 == [t2 EXCEPT
                 !.timers = IF Infinite(t2.new) THEN @
                            ELSE @ \cup {"startrenew", "rebind", "expire"},
                 !.st = "BOUND",
                 !.disk = IF t2.lease.frominfo \/ Has("INFORM") \/ Has("STATIC")
                          THEN @ ELSE t2.new]
    IN IF Has("CONFIGURE")
       THEN IF e.add
            THEN openudp([ipv4_applyaddr(t3, TRUE) EXCEPT !.bpf = FALSE],
                         t, e.udp)
            ELSE t3
       ELSE IF t3.lease.addr \in t3.addrs
            THEN openudp([t3 EXCEPT !.addr = t3.lease.addr,
                                    !.added = {"ADDED"}, !.bpf = FALSE],
                         t, e.udp)
            ELSE t3

\* Wrong: an address the client has asked for is not probed.
BugNoProbe(t, ok) ==
    \/ ~ArpOn
    \/ t.offer.addr = t.lease.addr /\ ArpUsable(t, t.offer.addr, ok)

\* dhcp_arp_address returns 1 when the address may be used at once: ARP is off,
\* or the interface has it already.  Otherwise it probes, unless the ARP state
\* cannot be opened: then it returns -1, with the timeouts gone.
UseAtOnce(t, ok) ==
    \/ ~ArpOn
    \/ t.offer.addr \in t.addrs /\ ArpUsable(t, t.offer.addr, ok)

dhcp_arp_address(t, ok) ==
    LET t1 == [t EXCEPT !.timers = {}]
        a == t.offer.addr
        t2 == IF ArpOn THEN dhcp_arp_new(t1, a, ok) ELSE t1
    IN IF UseAtOnce(t, ok) \/ ~ArpUsable(t, a, ok) THEN t2
       ELSE arp_probe([t2 EXCEPT !.st = "PROBE"], a)

dhcp_arp_bind(t, e) ==
    LET t1 == dhcp_arp_address(t, e.arp)
    IN IF UseAtOnce(t, e.arp) THEN dhcp_bind(t1, e) ELSE t1

dhcp_lastlease(t, e) ==
    dhcp_discover([dhcp_arp_bind(t, e) EXCEPT !.added = @ \cup {"EXPIRED"}], e)

dhcp_message_new(a) == [kind |-> "STATIC", addr |-> a, inf |-> TRUE]

dhcp_static(t, e) ==
    IF ~Has("REQADDR") /\ t.addrs = {} THEN t
    ELSE LET a == IF Has("REQADDR") THEN ReqAddr
                  ELSE CHOOSE x \in t.addrs : TRUE
         IN dhcp_arp_bind([t EXCEPT !.offer = dhcp_message_new(a)], e)

\* The tail of dhcp_inform, once the address is on the interface.
inform_from(t, a, e) ==
    LET m == dhcp_message_new(a)
        t1 == get_lease(dhcp_new_xid([t EXCEPT !.st = "INFORM", !.addr = a,
                                               !.offer = m]), m)
    IN send_message(t1, "INFORM", "send_inform", e.send)

dhcp_inform(t, e) ==
    LET t1 == [t EXCEPT !.offer = NoMsg]
        t2 == [t1 EXCEPT !.offer = dhcp_message_new(ReqAddr)]
    IN IF Has("REQADDR")
       THEN IF ReqAddr \in t.addrs THEN inform_from(t1, ReqAddr, e)
            ELSE IF UseAtOnce(t2, e.arp)
                 THEN [t2 EXCEPT !.crash = "inform"]   \* assert(ia != NULL)
                 ELSE dhcp_arp_address(t2, e.arp)
       ELSE IF t.addrs = {} THEN t1
            ELSE inform_from(t1, CHOOSE x \in t.addrs : TRUE, e)

----------------------------------------------------------------------------
(* Starting the client. *)

dhcp_reboot(t, e) ==
    LET t1 == [t EXCEPT !.st = "REBOOT"]
        t2 == dhcp_new_xid(dhcp_arp_new(t1, t1.lease.addr, e.arp))
        t3 == [t2 EXCEPT
                 !.lease.server = FALSE,
                 !.timers =
                    (IF Has("IPV4LL") THEN {"ipv4ll_start"} ELSE {})
                    \cup {IF Has("LASTLEASE") /\ t.lease.frominfo
                          THEN "lastlease" ELSE "expire"}]
    IN IF t.link # "up" THEN t1
       ELSE IF ~Has("REBOOT") THEN dhcp_discover(t1, e)
            ELSE send_message(t3, "REQUEST", "send_request", e.send)

\* dhcp_start1 reading the lease file: the lease of a previous run whose
\* address is still configured is taken over (STATE_FAKE), and a lease that
\* has run out is not asked for again.
start_from_disk(t, e) ==
    LET m == t.disk
        t1 == [get_lease(t, m) EXCEPT !.lease.frominfo = TRUE]
        t2 == IF t1.new = NoMsg /\ m.addr \in t1.addrs
              THEN [t1 EXCEPT !.new = m, !.addr = m.addr,
                              !.added = @ \cup {"ADDED", "FAKE"}]
              ELSE t1
    IN IF m = NoMsg \/ (m.kind = "BOOTP") # Has("BOOTP") THEN t
       ELSE IF m.kind = "BOOTP" THEN t2
            ELSE IF e.expired /\ ~m.inf /\ ~Has("LASTLEASE_EXTEND")
                 THEN [t2 EXCEPT !.lease.addr = NoAddr]
                 ELSE [t2 EXCEPT !.offer = m]

\* dhcp_start1 after the arping check.
dhcp_start2(t, e) ==
    IF Has("STATIC") THEN dhcp_static(t, e)
    ELSE IF Has("INFORM") THEN dhcp_inform(t, e)
    ELSE IF ~Has("DHCP") THEN IF Has("IPV4LL") THEN ipv4ll_start(t) ELSE t
    ELSE LET t1 == start_from_disk(t, e)
         IN IF t1.offer = NoMsg \/ Has("ANONYMOUS") THEN dhcp_discover(t1, e)
            ELSE dhcp_reboot(t1, e)

dhcp_init(t) ==
    [t EXCEPT !.st = "INIT", !.offer = NoMsg,
              !.disk = IF Has("REQUEST") THEN NoMsg ELSE @]

\* dhcp_arping does something.  The read of ifo->arping[++index] is past the
\* end once index has reached the length: what it yields is not determined.
ArpingTakes(t) == t.alen # 0 /\ t.arping <= t.alen

ArpingNext(t, e) ==
    IF t.arping + 1 < t.alen THEN Arping[t.arping + 2] ELSE e.junk

\* dhcp_arping returns 1: it has taken the interface over.
ArpingTook(t, e) ==
    ArpingTakes(t)
    /\ (t.arping + 1 = t.alen \/ ArpUsable(t, ArpingNext(t, e), e.arp))

dhcp_arping(t, e) ==
    LET a == ArpingNext(t, e)
        t1 == [t EXCEPT !.arping = @ + 1]
    IN IF ~ArpingTakes(t) THEN t
       ELSE IF t1.arping = t.alen   \* dhcpcd_startinterface, index # -1
            THEN IF t.link # "up" THEN t1 ELSE dhcp_start2(dhcp_init(t1), e)
            ELSE IF ArpingTook(t, e)
                 THEN arp_probe(dhcp_arp_new(t1, a, e.arp), a) ELSE t1

dhcp_start1(t, e) ==
    IF t.crash # "none" THEN t
    ELSE LET t1 == dhcp_init(t)
         IN IF t1.alen # 0 /\ t1.arping < t1.alen THEN dhcp_arping(t1, e)
            ELSE dhcp_start2(t1, e)

dhcp_start(t, e) ==
    IF Has("DELAY") /\ ~Has("STATIC") /\ t.arping = -1
    THEN [t EXCEPT !.timers = @ \cup {"start1"}]
    ELSE dhcp_start1(t, e)

dhcpcd_startinterface(t, e) == IF t.link = "up" THEN dhcp_start(t, e) ELSE t

----------------------------------------------------------------------------
(* Duplicate address detection. *)

dhcp_finish_dad(t, a, e) ==
    IF t.st = "BOUND" \/ t.offer = NoMsg \/ t.offer.addr # a THEN t
    ELSE IF ~Has("INFORM") THEN ipv4ll_drop(dhcp_bind(t, e))
         ELSE LET t1 == get_lease(t, t.offer)
                  t2 == ipv4_applyaddr(t1, e.add)
              IN dhcp_inform(ipv4ll_drop(t2), e)

\* Wrong: a conflict ends the attempts.
BugGivesUp(t, a, e) ==
    IF t.offer.addr # a /\ t.lease.addr # a THEN t
    ELSE LET t1 == dhcp_unlink(t)
             t2 == IF Has("STATIC") \/ t.lease.frominfo THEN t1
                   ELSE dhcp_decline(t1, e.note)
         IN [t2 EXCEPT !.timers = {}]

dhcp_addr_duplicated(t, a, e) ==
    IF t.offer.addr # a /\ t.lease.addr # a THEN t
    ELSE LET t1 == dhcp_unlink(t)
             t2 == IF Has("STATIC") \/ t.lease.frominfo THEN t1
                   ELSE dhcp_decline(t1, e.note)
         IN [t2 EXCEPT !.timers = IF Has("STATIC") \/ Has("INFORM") THEN {}
                                  ELSE {"discover"}]

dhcp_arp_not_found(t, a, e) ==
    LET t1 == dhcp_arping(t, e)
    IN IF ArpingTook(t, e) THEN arp_freeaddr(t1, a)
       ELSE dhcp_finish_dad(t1, a, e)

dhcp_arp_defend_failed(t, e) ==
    LET t1 == IF Has("INFORM") \/ Has("STATIC") THEN t
              ELSE dhcp_decline(t, e.note)
        t2 == IF t1.crash = "none" THEN dhcp_drop(t1) ELSE t1
    IN dhcp_start1(dhcp_unlink(t2), e)

----------------------------------------------------------------------------
(* The handlers, as actions. *)

\* The interface when the process has just started: what is outside it is left.
Fresh(link, addrs, disk) ==
    [st |-> "NONE", offer |-> NoMsg, new |-> NoMsg,
     lease |-> [addr |-> NoAddr, server |-> FALSE, frominfo |-> FALSE],
     addr |-> NoAddr, added |-> {}, arping |-> -1, alen |-> Len(Arping),
     timers |-> {}, arp |-> [a \in Addr |-> "none"], ll |-> FALSE,
     bpf |-> FALSE, udp |-> FALSE, active |-> TRUE, crash |-> "none",
     link |-> link, addrs |-> addrs, disk |-> disk, asked |-> {}]

Init == opt \in OptionSets /\ s = Fresh("down", {}, NoMsg)

Running == s.crash = "none"

\* A handler replaces the interface's state and leaves the options alone.
Becomes(t) == s' = t /\ UNCHANGED opt

\* dhcp_bind arms renew, rebind and expire together and expire is the last of
\* them.  Rebinding may come first: see LeaseTimes.
Due(t) ==
    /\ t \in s.timers
    /\ t = "expire" => {"startrenew", "rebind"} \cap s.timers = {}

\* eloop removes an expired timeout before it calls back.
Without(t) == [s EXCEPT !.timers = @ \ {t}]

FireStart1 ==
    /\ Running /\ Due("start1")
    /\ \E e \in Outcomes : Becomes(dhcp_start1(Without("start1"), e))

FireDiscover ==
    /\ Running /\ Due("discover")
    /\ \E e \in Outcomes : Becomes(dhcp_discover(Without("discover"), e))

FireSend(timer, type) ==
    /\ Running /\ Due(timer)
    /\ \E e \in Outcomes :
          Becomes(send_message(Without(timer), type, timer, e.send))

FireRequestFailed ==
    /\ Running /\ Due("requestfailed")
    /\ \E e \in Outcomes :
          Becomes(dhcp_requestfailed(Without("requestfailed"), e))

FireStartRenew ==
    /\ Running /\ Due("startrenew")
    /\ \E e \in Outcomes : Becomes(dhcp_startrenew(Without("startrenew"), e))

FireRebind ==
    /\ Running /\ Due("rebind")
    /\ \E e \in Outcomes : Becomes(dhcp_rebind(Without("rebind"), e))

FireExpire ==
    /\ Running /\ Due("expire")
    /\ \E e \in Outcomes : Becomes(dhcp_expire(Without("expire"), e))

FireLastLease ==
    /\ Running /\ Due("lastlease")
    /\ \E e \in Outcomes : Becomes(dhcp_lastlease(Without("lastlease"), e))

FireIpv4LLStart ==
    /\ Running /\ Due("ipv4ll_start")
    /\ Becomes(ipv4ll_start(Without("ipv4ll_start")))

----------------------------------------------------------------------------
(* DHCP messages. *)

\* Which sockets reach dhcp_handledhcp: with privilege separation a bound or
\* renewing client listens on UDP only, and any other on BPF only.
Listening ==
    IF Has("PRIVSEP")
    THEN IF s.st \in {"BOUND", "RENEW"} THEN Has("MANAGER") \/ s.udp
         ELSE s.bpf
    ELSE s.bpf \/ s.udp \/ Has("MANAGER")

Asked(types) == {q \in s.asked : q.type \in types}

\* dhcp_handledhcp up to the test of the states that take no reply.
Receives ==
    /\ Running /\ s.active /\ Listening
    /\ s.st \notin {"BOUND", "PROBE"}

\* The end of dhcp_handledhcp: the message is the lease to bind.
Accept(t, m, e) ==
    dhcp_arp_bind([t EXCEPT !.offer = m, !.lease.frominfo = FALSE,
                            !.timers = {}], e)

\* Wrong: an OFFER is taken for the lease it offers.
BugTakesOffer ==
    /\ Receives /\ ~Has("BOOTP") /\ s.st = "DISCOVER"
    /\ Asked({"DISCOVER"}) # {}
    /\ \E a \in Pool, i \in BOOLEAN, e \in Outcomes :
          LET m == [kind |-> "OFFER", addr |-> a, inf |-> i]
          IN Becomes(Accept(get_lease(s, m), m, e))

\* An OFFER while discovering is requested; in any other state it is ignored.
RecvOffer ==
    /\ Receives /\ ~Has("BOOTP") /\ s.st = "DISCOVER"
    /\ Asked({"DISCOVER"}) # {}
    /\ \E a \in Pool, i \in BOOLEAN, e \in Outcomes :
          LET m == [kind |-> "OFFER", addr |-> a, inf |-> i]
              t1 == get_lease([s EXCEPT !.offer = m], m)
          IN Becomes(dhcp_request(
                [t1 EXCEPT !.lease.frominfo = FALSE,
                           !.timers = @ \ {"send_discover"}], e))

\* An ACK answers a REQUEST or INFORM, in any state but DISCOVER.
RecvAck ==
    /\ Receives /\ ~Has("BOOTP") /\ s.st # "DISCOVER"
    /\ \E q \in Asked({"REQUEST", "INFORM"}), i \in BOOLEAN, e \in Outcomes :
          /\ q.addr # NoAddr
          /\ Becomes(Accept(s, [kind |-> "ACK", addr |-> q.addr, inf |-> i], e))

\* Rapid commit: a DISCOVER is answered by the lease itself.  An OFFER that
\* commits fills in state->lease before it binds, an ACK does not.
RecvRapidCommit ==
    /\ Receives /\ ~Has("BOOTP") /\ Has("RAPID_COMMIT") /\ s.st = "DISCOVER"
    /\ Asked({"DISCOVER"}) # {}
    /\ \E a \in Pool, i \in BOOLEAN, isoffer \in BOOLEAN, e \in Outcomes :
          LET m == [kind |-> "ACK", addr |-> a, inf |-> i]
              t == [s EXCEPT !.st = "REQUEST"]
          IN Becomes(Accept(IF isoffer THEN get_lease(t, m) ELSE t, m, e))

\* A BOOTP reply has no message type and is taken for an ACK in every state.
RecvBootp ==
    /\ May("bootp") /\ Receives /\ s.asked # {}
    /\ \E a \in Pool, e \in Outcomes :
          LET m == [kind |-> "BOOTP", addr |-> a, inf |-> TRUE]
          IN Becomes(Accept(IF s.st = "DISCOVER" THEN get_lease(s, m) ELSE s,
                            m, e))

\* Wrong: a NAK ends the attempts.
BugNakStops ==
    /\ May("nak") /\ Receives /\ ~Has("BOOTP") /\ s.st # "INFORM"
    /\ Asked({"REQUEST"}) # {}
    /\ Becomes(dhcp_unlink(dhcp_drop(s)))

RecvNak ==
    /\ May("nak") /\ Receives /\ ~Has("BOOTP") /\ s.st # "INFORM"
    /\ Asked({"REQUEST"}) # {}
    /\ LET t == dhcp_unlink(dhcp_drop(s))
       IN Becomes(IF t.crash = "none"
                  THEN [t EXCEPT !.timers = @ \cup {"discover"}] ELSE t)

\* An OFFER without an address may carry the auto-configure option (RFC 2563).
auto_configure(t, value) ==
    IF value = "enable" THEN ipv4ll_start(t)
    ELSE IF value = "disable" THEN arp_drop(ipv4ll_drop(t)) ELSE t

RecvV6Only ==
    /\ Receives /\ ~Has("BOOTP") /\ Has("V6ONLY") /\ s.asked # {}
    /\ s.st \in {"DISCOVER", "REBOOT", "NONE"}
    /\ \E value \in {"none", "enable", "disable"} :
          /\ value # "none" => s.st = "DISCOVER" /\ May("autoconf")
          /\ LET t == dhcp_unlink(dhcp_drop(auto_configure(s, value)))
             IN Becomes(IF t.crash = "none"
                        THEN [t EXCEPT !.timers = {"discover"}] ELSE t)

RecvAutoConf ==
    /\ May("autoconf") /\ Receives /\ ~Has("BOOTP") /\ s.st = "DISCOVER"
    /\ Asked({"DISCOVER"}) # {}
    /\ \E value \in {"unknown", "enable", "disable"} :
          Becomes([auto_configure(s, value) EXCEPT !.timers = {"discover"}])

RecvForceRenew ==
    /\ May("forcerenew") /\ Running /\ s.active /\ Listening /\ ~Has("BOOTP")
    /\ \E e \in Outcomes :
          \/ s.st = "BOUND" /\ Becomes(dhcp_startrenew(s, e))
          \/ s.st = "INFORM" /\ Becomes(dhcp_inform(Without("send_inform"), e))

----------------------------------------------------------------------------
(* ARP, kernel, carrier and user events. *)

\* PROBE_NUM probes went unanswered.
ArpNotFound(a) ==
    /\ Running /\ s.arp[a] = "probe"
    /\ \E e \in Outcomes :
          Becomes(dhcp_arp_not_found([s EXCEPT !.arp[a] = "idle"], a, e))

\* Another host uses an address the interface does not have.
ArpFound(a) ==
    /\ May("conflict") /\ Running /\ s.arp[a] # "none" /\ a \notin s.addrs
    /\ \E e \in Outcomes :
          \E claims \in BOOLEAN :   \* an announcement, or only a probe for a
          IF /\ s.arping # -1 /\ s.arping < s.alen
             /\ claims /\ a = Arping[s.arping + 1]
          THEN \/ Becomes(dhcp_arp_not_found(s, a, e))  \* no such profile
               \/ LET t == [arp_freeaddr(s, a) EXCEPT !.timers = {},
                                                      !.alen = 0]
                  IN Becomes(dhcpcd_startinterface(t, e))
          ELSE Becomes(dhcp_addr_duplicated(arp_freeaddr(s, a), a, e))

\* Another host keeps claiming an address the interface has and defends.
ArpDefendFailed(a) ==
    /\ May("defend") /\ Running /\ s.arp[a] # "none" /\ a \in s.addrs
    /\ \E e \in Outcomes : Becomes(dhcp_arp_defend_failed(s, e))

\* Wrong: the deletion of the lease's address goes unnoticed.
BugDelAddrUnseen(a) ==
    /\ May("deladdr") /\ Running /\ a \in s.addrs
    /\ Becomes([s EXCEPT !.addrs = @ \ {a}])

\* RTM_DELADDR: a third party, or the kernel at the end of the address's
\* lifetime, removed it.
DelAddr(a) ==
    /\ May("deladdr") /\ Running /\ a \in s.addrs
    /\ LET t == [s EXCEPT !.addrs = @ \ {a}]
       IN IF s.st # "NONE" /\ s.addr = a
          THEN \E e \in Outcomes :
                  Becomes(dhcp_start1(
                     dhcp_drop([t EXCEPT !.bpf = FALSE, !.udp = FALSE,
                                         !.addr = NoAddr]), e))
          ELSE Becomes(t)

\* RTM_NEWADDR: a third party added or refreshed an address.
NewAddr(a) ==
    /\ May("newaddr") /\ Running
    /\ LET t == [s EXCEPT !.addrs = @ \cup {a}]
           t1 == IF /\ Has("PRIVSEP") /\ ~Has("MANAGER") /\ ~Has("CONFIGURE")
                    /\ s.lease.addr = a
                 THEN [t EXCEPT !.addr = a, !.added = {"ADDED"},
                                !.bpf = FALSE, !.udp = TRUE]
                 ELSE t
       IN IF s.st = "NONE" THEN Becomes(t)
          ELSE IF Has("REQADDR") THEN Becomes(t1)
          ELSE IF Has("INFORM")
               THEN IF s.st \in {"INFORM", "BOUND"} THEN Becomes(t1)
                    ELSE \E e \in Outcomes : Becomes(dhcp_inform(t1, e))
          ELSE IF Has("STATIC")
               THEN Becomes([t1 EXCEPT !.new = dhcp_message_new(a)])
          ELSE Becomes(t1)

\* dhcpcd_drop: IPv4LL, then DHCP, then ARP.
dhcpcd_drop(t, rel, persist) ==
    LET t1 == dhcp_drop_opts(ipv4ll_drop(t), rel, persist)
    IN IF t1.crash = "none" THEN arp_drop(t1) ELSE t1

\* dhcpcd_initstate reads the configuration again, without a profile.
reconfigured(t) == [t EXCEPT !.alen = Len(Arping)]

\* dhcpcd_handlecarrier: on a new wireless network the old lease is dropped.
CarrierUp ==
    /\ Running /\ s.link # "up"
    /\ LET t == [s EXCEPT !.link = "up"]
       IN IF s.active
          THEN \E newssid \in BOOLEAN, e \in Outcomes :
                  LET t1 == IF newssid
                            THEN dhcpcd_drop(t, Has("RELEASE"), FALSE) ELSE t
                  IN Becomes(IF t1.crash = "none"
                             THEN dhcpcd_startinterface(reconfigured(t1), e)
                             ELSE t1)
          ELSE Becomes(t)

CarrierLost ==
    /\ May("lost") /\ Running /\ s.link # "down"
    /\ LET t == [s EXCEPT !.link = "down"]
       IN Becomes(IF s.active THEN dhcpcd_drop(t, Has("RELEASE"), FALSE)
                  ELSE t)

\* dhcpcd_nocarrier_roaming: keep the lease while between access points.
CarrierRoaming ==
    /\ May("roam") /\ Running /\ s.active /\ s.link = "up"
    /\ Becomes([arp_drop(s) EXCEPT !.link = "roam", !.arping = -1,
                                   !.timers = @ \ {"start1"}])

\* dhcpcd -N, SIGUSR1.
UserRenew ==
    /\ May("renew") /\ Running /\ s.active /\ s.link = "up"
    /\ \E e \in Outcomes : Becomes(dhcp_startrenew(s, e))

\* dhcpcd -n, SIGHUP, with an unchanged configuration: if_reboot.
UserReboot ==
    /\ May("reboot") /\ Running /\ s.active
    /\ LET t == IF /\ s.st # "NONE"
                   /\ Has("INFORM") \/ Has("STATIC")
                   /\ ~Has("REQADDR") \/ s.addr # ReqAddr
                THEN dhcp_drop(reconfigured(s)) ELSE reconfigured(s)
       IN \E e \in Outcomes :
             Becomes(IF t.crash = "none"
                     THEN dhcpcd_startinterface(t, e) ELSE t)

\* dhcpcd -g: reconf_reboot without a reboot re-applies the address.
UserReconfigure ==
    /\ May("reconfigure") /\ Running /\ s.active
    /\ IF s.new = NoMsg THEN Becomes(ipv4_unapplyaddr(s))
       ELSE \E e \in Outcomes :
               Becomes(ipv4_applyaddr(s, e.add))

\* dhcpcd -x or -k for this interface (stop_interface), or with -4 only for
\* its IPv4 side.
UserStop ==
    /\ May("stop") /\ Running /\ s.active
    /\ \E rel, ipv4only \in BOOLEAN :
          LET t == dhcpcd_drop(s, rel \/ Has("RELEASE"),
                               Has("PERSISTENT") /\ ~rel)
          IN Becomes(IF t.crash = "none"
                     THEN [t EXCEPT !.timers = {}, !.active = ipv4only] ELSE t)

\* Without a manager the process ends with its interface: see Restart.
UserStart ==
    /\ Running /\ ~s.active /\ Has("MANAGER")
    /\ \E e \in Outcomes :
          Becomes(dhcpcd_startinterface(
             reconfigured([s EXCEPT !.active = TRUE]), e))

\* The process dies at any point (or died in a handler) and is started again;
\* a reboot of the host also clears the addresses.
Restart ==
    /\ May("restart")
    /\ \E keep \in BOOLEAN, e \in Outcomes :
       LET t == Fresh(s.link, IF keep THEN s.addrs ELSE {}, s.disk)
       IN Becomes(dhcpcd_startinterface(t, e))

FireTimer ==
    \/ FireStart1 \/ FireDiscover \/ FireRequestFailed \/ FireStartRenew
    \/ FireRebind \/ FireExpire \/ FireLastLease \/ FireIpv4LLStart
    \/ FireSend("send_discover", "DISCOVER")
    \/ FireSend("send_request", "REQUEST")
    \/ FireSend("send_renew", "REQUEST")
    \/ FireSend("send_rebind", "REQUEST")
    \/ FireSend("send_inform", "INFORM")

Recv ==
    \/ RecvOffer \/ RecvAck \/ RecvRapidCommit \/ RecvBootp \/ RecvNak
    \/ RecvV6Only \/ RecvAutoConf \/ RecvForceRenew

Kernel ==
    \/ \E a \in Addr : \/ ArpNotFound(a) \/ ArpFound(a) \/ ArpDefendFailed(a)
                       \/ DelAddr(a) \/ NewAddr(a)
    \/ CarrierUp \/ CarrierLost \/ CarrierRoaming

User ==
    UserRenew \/ UserReboot \/ UserReconfigure \/ UserStop \/ UserStart

Next == FireTimer \/ Recv \/ Kernel \/ User \/ Restart

Spec == Init /\ [][Next]_vars

\* The event loop runs every timeout that stays pending.  Of the network it is
\* assumed that carrier comes back, and once in a while for longer than the
\* initial delay, that a server which is asked again and again over a working
\* link answers at some point, and that not every probe meets a conflict.
Fairness ==
    /\ SF_vars(FireStart1) /\ WF_vars(FireDiscover)
    /\ WF_vars(FireRequestFailed) /\ WF_vars(FireStartRenew)
    /\ WF_vars(FireRebind) /\ WF_vars(FireExpire)
    /\ WF_vars(FireSend("send_discover", "DISCOVER"))
    /\ WF_vars(FireSend("send_request", "REQUEST"))
    /\ WF_vars(FireSend("send_renew", "REQUEST"))
    /\ WF_vars(FireSend("send_rebind", "REQUEST"))
    /\ WF_vars(CarrierUp)
    /\ SF_vars(s.link = "up" /\ RecvOffer) /\ SF_vars(s.link = "up" /\ RecvAck)
    /\ SF_vars(\E a \in Addr : ArpNotFound(a))

FairSpec == Spec /\ Fairness

----------------------------------------------------------------------------
(* Properties.  A process that died in a handler has no obligations left.  *)

\* Type invariant of the interface record.
TypeOK == opt \in OptionSets /\ s \in State

Plain == ~Has("STATIC") /\ ~Has("INFORM")

\* A client that waits for a server or for ARP always has something pending
\* that will move it on: dhcp_arp_address and dhcp_start1's successors delete
\* every timeout, so each path through them must arm or probe again.
NeverStuck ==
    /\ Running /\ Plain /\ s.active /\ s.link = "up"
    /\ s.timers \cap {"discover", "start1"} = {}
    => /\ s.st = "DISCOVER" => "send_discover" \in s.timers
       /\ s.st \in {"REQUEST", "REBOOT"} => "send_request" \in s.timers
       /\ s.st = "RENEW" => "send_renew" \in s.timers
       /\ s.st = "REBIND" => "send_rebind" \in s.timers
       /\ s.st = "PROBE" => s.arp[s.offer.addr] = "probe"
       /\ s.st = "INIT" => \E a \in Addr : s.arp[a] = "probe"

\* A retransmission is pending only in the state whose message it sends: the
\* transitions between states cancel each other's timeouts.
RetransmitMatchesState ==
    Running =>
        /\ "send_discover" \in s.timers => s.st = "DISCOVER"
        /\ "send_request" \in s.timers => s.st \in {"REQUEST", "REBOOT"}
        /\ "send_renew" \in s.timers => s.st = "RENEW"
        /\ "send_rebind" \in s.timers => s.st = "REBIND"
        /\ "send_inform" \in s.timers => s.st = "INFORM"
        /\ "requestfailed" \in s.timers => s.st = "REQUEST"

\* The client holds a lease and no conflict has made it start over.
LeaseInUse(t) ==
    /\ Plain /\ t.st \in {"BOUND", "RENEW", "REBIND"}
    /\ "discover" \notin t.timers

\* A finite lease in use always has its end scheduled (dhcp_bind), through
\* forced and repeated renewals, rebinding and lost carriers.
LeaseTimed(t) ==
    LeaseInUse(t) /\ ~t.new.inf =>
        /\ "expire" \in t.timers
        /\ t.st # "REBIND" => "rebind" \in t.timers
        /\ t.st = "BOUND" => "startrenew" \in t.timers

FiniteLeaseExpires == Running => LeaseTimed(s)

\* Only a lease a server has committed to is bound: dhcp_handledhcp binds ACKs
\* and BOOTP replies, never an OFFER.
BoundIsCommitted ==
    Running /\ s.st \in {"BOUND", "RENEW", "REBIND"} => s.new.kind # "OFFER"

\* The lease file holds the lease in use once a server has confirmed it, so a
\* restart asks for exactly that lease (dhcp_bind, dhcp_start1).
LeaseFileMatches ==
    Running /\ LeaseInUse(s) /\ ~s.lease.frominfo => s.disk = s.new

\* With ARP enabled, the client puts an address on the interface only when a
\* probe for it has just gone unanswered (dhcp_arp_address, dhcp_finish_dad).
ProbedBeforeUse ==
    [][\A a \in Addr :
          /\ ArpOn /\ Has("CONFIGURE") /\ s.crash = "none"
          /\ a \in s'.addrs \ s.addrs /\ s'.addr = a /\ s.addr # a
          => s.arp[a] = "probe"]_vars

\* While an answer is awaited, some open socket delivers it: dhcp_bind closes
\* BPF for UDP, and every message that needs BPF opens it again.
AnswersAreHeard ==
    /\ Running /\ s.active /\ s.link = "up" /\ s.asked # {}
    /\ s.st \in {"DISCOVER", "REQUEST", "RENEW", "REBIND", "REBOOT", "INFORM"}
    => Listening

\* Whatever was lost, refused or in conflict, the client gets a lease again: no
\* path through NAK, conflict, expiry or carrier loss ends the attempts.
AlwaysBoundAgain == []<>(s.st = "BOUND")

\* IPv4LL is stopped once a DHCP address works (dhcp_finish_dad).
LinkLocalStops == Running /\ s.st = "BOUND" => ~s.ll

\* dhcp_handledhcp: "We should restart on a NAK".
NakRestarts == [][RecvNak => "discover" \in s'.timers]_vars

\* dhcp_handleifa: "we need to drop the lease" when its address is deleted by
\* somebody else, and start again.
DeletedAddressRestarts ==
    [][\A a \in Addr : DelAddr(a) => s'.crash = "none"]_vars

\* dhcp_inform: assert(ia != NULL), the address to inform from is there.
InformHasAddress == s.crash # "inform"

\* rt_build finds state->addr whenever a bound lease has been added.
BoundHasAddress ==
    Running /\ s.st = "BOUND" /\ s.added # {} => s.addr \in s.addrs

\* A lease taken from the lease file because no server answered is in use only
\* as an expired one (dhcp_lastlease).
LastLeaseIsExpired ==
    Running /\ Has("LASTLEASE") /\ s.st = "BOUND" /\ s.lease.frominfo
        => "EXPIRED" \in s.added

\* An address the client relies on is there: the one of a bound lease that was added,
\* for rt_build, and the one it informs a server of (dhcp_inform).
AddressIsThere == BoundHasAddress /\ InformHasAddress
=============================================================================
