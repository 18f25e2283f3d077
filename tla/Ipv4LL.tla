------------------------------- MODULE Ipv4LL -------------------------------
(***************************************************************************)
(* IPv4 link-local addresses on one interface: src/src/ipv4ll.c, and the   *)
(* probing, announcing and defending of src/src/arp.c that it drives.      *)
(*                                                                         *)
(* s is the interface.  As in Dhcp4, a C function is an operator on it     *)
(* under its own name and an action is a whole handler.  The DHCP client   *)
(* is reduced to what it does to IPv4LL: start it, stop it, drop the ARP   *)
(* states.  Time is relative: a timeout counts down, an age counts up to   *)
(* the largest value anything compares it with.  The event loop is prompt. *)
(*                                                                         *)
(* Three queues hold the timeouts: DHCP's has ipv4ll_start, ARP's those of *)
(* an ARP state, and the default one has ipv4ll_start_arp (ipv4ll.c names  *)
(* its queue IPV4LL, which the build defines as 1).                        *)
(***************************************************************************)
EXTENDS Integers

CONSTANTS
    Addrs,                \* link-local addresses
    INADDR_ANY, NULL,     \* no address in an in_addr, no address at a pointer
    PROBE_WAIT, PROBE_NUM, PROBE_MIN, PROBE_MAX, ANNOUNCE_WAIT, ANNOUNCE_NUM,
    MAX_CONFLICTS, RATE_LIMIT_INTERVAL, DEFEND_INTERVAL,
    ipv4ll_time,          \* how long DHCP is tried first
    Setups,               \* pairs of a configuration and what may go wrong around it
    ConflictBound         \* bound on the conflicts in a row

OptionNames == {"DHCP", "CONFIGURE", "ARP", "PERSISTDEFENCE"}

\* A wireless interface roams, or changes the network; system calls fail;
\* somebody else configures the very address that is being probed.
Troubles == {"roaming", "networks", "faults", "coincidence"}

ASSUME LLAssumption ==
    /\ INADDR_ANY \notin Addrs /\ NULL \notin Addrs /\ INADDR_ANY # NULL
    /\ PROBE_WAIT \in Nat \ {0} /\ PROBE_NUM \in Nat \ {0}
    /\ PROBE_MIN \in Nat \ {0} /\ PROBE_MAX \in Nat /\ PROBE_MIN <= PROBE_MAX
    /\ ANNOUNCE_WAIT \in Nat \ {0} /\ ANNOUNCE_NUM \in Nat \ {0}
    /\ MAX_CONFLICTS \in Nat \ {0} /\ RATE_LIMIT_INTERVAL \in Nat
    /\ RATE_LIMIT_INTERVAL >= PROBE_WAIT
    /\ DEFEND_INTERVAL \in Nat \ {0} /\ ipv4ll_time \in Nat
    /\ Setups \subseteq (SUBSET OptionNames) \X (SUBSET Troubles)
    /\ ConflictBound \in Nat

VARIABLES opt, world, s

vars == <<opt, world, s>>

Has(o) == o \in opt

ArpTimers == {"arp_probe1", "arp_probed", "arp_announce1", "arp_announced"}
Timers == ArpTimers \cup {"ipv4ll_start", "ipv4ll_start_arp"}

Off == -1
NoTimers == [x \in Timers |-> Off]

NoArp == [addr |-> NULL, probes |-> 0, claims |-> 0, defend |-> Off]

\* What a handler cannot decide: the address the generator picks (neither the
\* failed one nor one in use), the first link-local address in the list, the
\* random delay, and whether the system calls succeed.
Outcome ==
    {e \in [pick : Addrs \ ({s.picked} \cup s.addrs),
            find : IF s.addrs \cap Addrs = {} THEN {NULL} ELSE s.addrs \cap Addrs,
            delay : PROBE_MIN..PROBE_MAX,
            open : BOOLEAN, added : BOOLEAN, sent : BOOLEAN] :
        "faults" \notin world => e.open /\ e.added /\ e.sent}

----------------------------------------------------------------------------
(* arp.c *)

\* arp_free, and so arp_drop and ipv4ll_freearp: at most the one ARP state of
\* IPv4LL is there; its callback clears state->arp.
arp_free(t) ==
    [t EXCEPT !.arp = NoArp,
              !.at = [x \in Timers |-> IF x \in ArpTimers THEN Off ELSE t.at[x]]]

\* Wrong: stops one probe early.
BugProbesLess(t, e) ==
    LET n == t.arp.probes + 1
    IN [t EXCEPT !.arp.probes = n, !.asked = @ + 1, !.quiet = 0,
                 !.at = IF n + 1 < PROBE_NUM
                        THEN [@ EXCEPT !["arp_probe1"] = e.delay]
                        ELSE [@ EXCEPT !["arp_probed"] = ANNOUNCE_WAIT]]

\* Wrong: sends one probe too many.
BugProbesMore(t, e) ==
    LET n == t.arp.probes + 1
    IN [t EXCEPT !.arp.probes = n, !.asked = @ + 1, !.quiet = 0,
                 !.at = IF n <= PROBE_NUM
                        THEN [@ EXCEPT !["arp_probe1"] = e.delay]
                        ELSE [@ EXCEPT !["arp_probed"] = ANNOUNCE_WAIT]]

\* Sends a probe; asked and quiet are history.
arp_probe1(t, e) ==
    LET n == t.arp.probes + 1
    IN [t EXCEPT !.arp.probes = n, !.asked = @ + 1, !.quiet = 0,
                 !.at = IF n < PROBE_NUM
                        THEN [@ EXCEPT !["arp_probe1"] = e.delay]
                        ELSE [@ EXCEPT !["arp_probed"] = ANNOUNCE_WAIT]]

\* Announces; the next step is another announcement or their end.
arp_announce1(t) ==
    LET n == t.arp.claims + 1
    IN [t EXCEPT !.arp.claims = n,
                 !.at[IF n < ANNOUNCE_NUM THEN "arp_announce1" ELSE "arp_announced"] =
                     ANNOUNCE_WAIT]

\* arp_ifannounceaddr and arp_announce for the address of the ARP state.
arp_ifannounceaddr(t) ==
    IF Has("ARP") THEN arp_announce1([t EXCEPT !.arp.claims = 0]) ELSE t

----------------------------------------------------------------------------
(* ipv4ll.c *)

\* Opens an ARP state for the picked address and probes it (arp_probe).
ipv4ll_start_arp(t, e) ==
    IF ~e.open THEN arp_free(t)
    ELSE arp_probe1([arp_free(t) EXCEPT !.arp.addr = t.picked, !.asked = 0], e)

\* The address found first: the one used before, else any link-local one.
Previous(t, e) ==
    IF t.picked # INADDR_ANY /\ t.picked \in t.addrs THEN t.picked ELSE e.find

ipv4ll_start(t, e) ==
    LET ia == Previous(t, e)
        u == [t EXCEPT !.running = TRUE, !.addr = ia]
    IN IF t.running THEN t
       ELSE IF ia # NULL THEN ipv4ll_start_arp([u EXCEPT !.picked = ia], e)
       ELSE IF ~Has("CONFIGURE") THEN u
       ELSE ipv4ll_start_arp(
                [u EXCEPT !.picked = IF @ = INADDR_ANY THEN e.pick ELSE @], e)

\* Wrong: waits for somebody else to add the address.
BugProbesAgain(t, e) ==
    IF t.picked \in t.addrs THEN [t EXCEPT !.addr = t.picked]
    ELSE ipv4ll_start_arp(t, e)

\* Every probe went unanswered: the address is added and announced.
ipv4ll_not_found(t, e) ==
    LET a == t.picked
    IN IF a \in t.addrs THEN [t EXCEPT !.addr = a]
       ELSE IF ~Has("CONFIGURE") \/ ~e.added THEN t
       ELSE arp_ifannounceaddr([t EXCEPT !.addrs = @ \cup {a}, !.addr = a])

\* Wrong: the last conflict before the limit does not count.
BugLateLimit(t, e) ==
    [arp_free(t) EXCEPT
        !.conflicts = @ + 1, !.row = @ + 1, !.since = 0, !.picked = e.pick,
        !.at["ipv4ll_start_arp"] = IF t.conflicts >= MAX_CONFLICTS
                                   THEN RATE_LIMIT_INTERVAL ELSE PROBE_WAIT]

\* Somebody has the address that is probed: another one, later.  row and since
\* are history.
ipv4ll_found(t, e) ==
    [arp_free(t) EXCEPT
        !.conflicts = @ + 1, !.row = @ + 1, !.since = 0, !.picked = e.pick,
        !.at["ipv4ll_start_arp"] = IF t.conflicts + 1 >= MAX_CONFLICTS
                                   THEN RATE_LIMIT_INTERVAL ELSE PROBE_WAIT]

\* Wrong: does not start over.
BugGivesUp(t, e) ==
    IF Has("CONFIGURE") /\ t.addr = NULL THEN [t EXCEPT !.crash = TRUE]
    ELSE [arp_free(t) EXCEPT
              !.addr = NULL, !.picked = e.pick,
              !.addrs = IF Has("CONFIGURE") THEN @ \ {t.addr} ELSE @]

\* The address is lost: another one, now.  ipv4_deladdr reads what state->addr
\* points to.
ipv4ll_defend_failed(t, e) ==
    IF Has("CONFIGURE") /\ t.addr = NULL THEN [t EXCEPT !.crash = TRUE]
    ELSE ipv4ll_start_arp(
             [t EXCEPT !.addr = NULL, !.picked = e.pick,
                       !.addrs = IF Has("CONFIGURE") THEN @ \ {t.addr} ELSE @], e)

\* Wrong: leaves the addresses on the interface.
BugDropsNothing(t) == [arp_free(t) EXCEPT !.running = FALSE, !.addr = NULL]

\* Deletes state->addr and every other link-local address.
ipv4ll_drop(t) ==
    [arp_free(t) EXCEPT
        !.running = FALSE, !.addr = NULL,
        !.addrs = IF Has("CONFIGURE") THEN @ \ (Addrs \cup {t.addr}) ELSE @]

ipv4ll_reset(t) == [arp_free(t) EXCEPT !.picked = INADDR_ANY]

\* Wrong: gives the address up at the first conflict.
BugNeverDefends(t, e) ==
    IF t.arp.addr \notin t.addrs THEN ipv4ll_found(t, e)
    ELSE ipv4ll_defend_failed(t, e)

\* arp_found: a conflict over the address of the ARP state.  One that is not
\* on the interface is only probed; else it is defended, but not twice within
\* DEFEND_INTERVAL.  defended is history.
arp_found(t, e) ==
    IF t.arp.addr \notin t.addrs THEN ipv4ll_found(t, e)
    ELSE IF t.arp.defend # Off /\ t.arp.defend < DEFEND_INTERVAL
    THEN IF Has("PERSISTDEFENCE") THEN t ELSE ipv4ll_defend_failed(t, e)
    ELSE IF ~e.sent THEN ipv4ll_defend_failed(t, e)
    ELSE [t EXCEPT !.arp.defend = 0, !.defended = 0]

----------------------------------------------------------------------------

Init ==
    /\ \E c \in Setups : opt = c[1] /\ world = c[2]
    /\ s = [running |-> FALSE, picked |-> INADDR_ANY, addr |-> NULL,
            conflicts |-> 0, arp |-> NoArp, at |-> NoTimers, addrs |-> {},
            link |-> "down", leased |-> FALSE, crash |-> FALSE,
            asked |-> 0, quiet |-> 0, row |-> 0, since |-> 0, defended |-> Off]

Becomes(t) == s' = t /\ UNCHANGED <<opt, world>>

Up == ~s.crash /\ s.link = "up"

\* The state of a handler whose timeout x is due.
Due(x) == ~s.crash /\ s.at[x] = 0
Fired(x) == [s EXCEPT !.at[x] = Off]

FireStart == Due("ipv4ll_start")
    /\ \E e \in Outcome : Becomes(ipv4ll_start(Fired("ipv4ll_start"), e))

FireStartArp == Due("ipv4ll_start_arp")
    /\ \E e \in Outcome : Becomes(ipv4ll_start_arp(Fired("ipv4ll_start_arp"), e))

FireProbe == Due("arp_probe1")
    /\ \E e \in Outcome : Becomes(arp_probe1(Fired("arp_probe1"), e))

\* arp_probed: forgets the last defence.
FireProbed == Due("arp_probed")
    /\ \E e \in Outcome :
           Becomes(ipv4ll_not_found([Fired("arp_probed") EXCEPT !.arp.defend = Off], e))

FireAnnounce == Due("arp_announce1") /\ Becomes(arp_announce1(Fired("arp_announce1")))

\* Wrong: frees the ARP state, as arp_ifannounceaddr does for its own.
BugFreesAnnounced == Due("arp_announced")
    /\ Becomes([arp_free(s) EXCEPT !.conflicts = 0, !.row = 0])

\* arp_announced: ipv4ll_announced_arp.
FireAnnounced == Due("arp_announced")
    /\ Becomes([Fired("arp_announced") EXCEPT !.conflicts = 0, !.row = 0])

\* arp_packet: another host claims or probes the address of the ARP state.
Conflict ==
    /\ Up /\ s.arp.addr # NULL
    /\ s.arp.addr \in s.addrs \/ s.conflicts < ConflictBound
    /\ \E e \in Outcome : Becomes(arp_found([s EXCEPT !.asked = 0], e))

\* Without DHCP, dhcp_start1 starts IPv4LL; with it, dhcp_discover and
\* dhcp_reboot do so if there is no lease in time, but not while an expired
\* lease is still in use.
dhcp_start1 == Up
    /\ LET t == [s EXCEPT !.leased = FALSE]
       IN IF Has("DHCP")
          THEN \E d \in {ipv4ll_time, Off} : Becomes([t EXCEPT !.at["ipv4ll_start"] = d])
          ELSE \E e \in Outcome : Becomes(ipv4ll_start(t, e))

\* dhcp_finish_dad: DHCP has an address, all its timeouts are new.
dhcp_finish_dad ==
    /\ Up /\ Has("DHCP") /\ ~s.leased
    /\ Becomes([ipv4ll_drop(s) EXCEPT !.leased = TRUE, !.at["ipv4ll_start"] = Off])

\* dhcp_handledhcp: a server turns link-local addresses on or off (RFC 2563).
AutoConfigure ==
    /\ Up /\ Has("DHCP") /\ ~s.leased
    /\ \/ Becomes(ipv4ll_drop(s))
       \/ \E e \in Outcome : Becomes(ipv4ll_start(s, e))

\* dhcpcd_drop: IPv4LL, DHCP with its timeouts, ARP.
dhcpcd_drop(t) ==
    [ipv4ll_drop(t) EXCEPT !.leased = FALSE, !.at["ipv4ll_start"] = Off]

\* dhcpcd_handlecarrier without carrier; roaming keeps everything but ARP.
CarrierLost ==
    /\ ~s.crash /\ s.link # "down"
    /\ Becomes([dhcpcd_drop(s) EXCEPT !.link = "down"])

CarrierRoams ==
    /\ Up /\ "roaming" \in world
    /\ Becomes([arp_free(s) EXCEPT !.link = "roaming"])

\* dhcpcd_handlecarrier with carrier, on the same network or another; it starts
\* the interface, which waits a random time before dhcp_start1.
CarrierUp ==
    /\ ~s.crash /\ s.link # "up"
    /\ \/ Becomes([s EXCEPT !.link = "up"])
       \/ /\ "networks" \in world
          /\ Becomes([ipv4ll_reset(dhcpcd_drop(s)) EXCEPT !.link = "up"])

\* stop_interface: deletes the timeouts of every queue.
stop_interface ==
    /\ ~s.crash
    /\ Becomes([dhcpcd_drop(s) EXCEPT !.link = "down", !.at = NoTimers])

\* ipv4_handleifa: somebody else adds a link-local address; bounded to one at a
\* time, so that there always is an address to pick.
AddrAdded(a) ==
    /\ ~s.crash /\ a \notin s.addrs
    /\ a = s.picked => "coincidence" \in world
    /\ s.addrs \subseteq IF Has("CONFIGURE") THEN {s.addr} ELSE {}
    /\ Becomes([s EXCEPT !.addrs = @ \cup {a}])

\* Wrong: takes no notice of the address it uses.
BugIgnoresDeletion(a) ==
    /\ ~s.crash /\ a \in s.addrs
    /\ Becomes([s EXCEPT !.addrs = @ \ {a}])

\* ipv4_handleifa: somebody else deletes one; if it is the one in use, it counts
\* as lost.
AddrDeleted(a) ==
    /\ ~s.crash /\ a \in s.addrs
    /\ LET t == [s EXCEPT !.addrs = @ \ {a}]
       IN IF a # s.addr THEN Becomes(t)
          ELSE \E e \in Outcome : Becomes(ipv4ll_defend_failed(t, e))

Older(age, limit) == IF age = Off THEN Off ELSE IF age < limit THEN age + 1 ELSE age

Tick ==
    /\ ~s.crash /\ \A x \in Timers : s.at[x] # 0
    /\ Becomes([s EXCEPT
           !.at = [x \in Timers |-> IF s.at[x] = Off THEN Off ELSE s.at[x] - 1],
           !.arp.defend = Older(@, DEFEND_INTERVAL),
           !.defended = Older(@, DEFEND_INTERVAL),
           !.quiet = Older(@, ANNOUNCE_WAIT),
           !.since = Older(@, RATE_LIMIT_INTERVAL)])

Fire ==
    \/ FireStart \/ FireStartArp \/ FireProbe \/ FireProbed
    \/ FireAnnounce \/ FireAnnounced

Next ==
    \/ Fire \/ Tick \/ Conflict
    \/ dhcp_start1 \/ dhcp_finish_dad \/ AutoConfigure
    \/ CarrierLost \/ CarrierRoams \/ CarrierUp \/ stop_interface
    \/ \E a \in Addrs : AddrAdded(a) \/ AddrDeleted(a)

Spec == Init /\ [][Next]_vars

\* The event loop runs: time passes, and timeouts that are due are called.
FairSpec == Spec /\ WF_vars(Fire \/ Tick)

----------------------------------------------------------------------------

Ages(limit) == {Off} \cup 0..limit

ArpState == [addr : Addrs \cup {INADDR_ANY, NULL}, probes : 0..PROBE_NUM,
             claims : 0..ANNOUNCE_NUM, defend : Ages(DEFEND_INTERVAL)]

State == [running : BOOLEAN, picked : Addrs \cup {INADDR_ANY},
          addr : Addrs \cup {INADDR_ANY, NULL}, conflicts : Nat, arp : ArpState,
          at : [Timers -> Nat \cup {Off}], addrs : SUBSET (Addrs \cup {INADDR_ANY}),
          link : {"up", "down", "roaming"}, leased : BOOLEAN, crash : BOOLEAN,
          asked : Nat, quiet : 0..ANNOUNCE_WAIT, row : Nat,
          since : 0..RATE_LIMIT_INTERVAL, defended : Ages(DEFEND_INTERVAL)]

\* Type invariant: the fields of struct ipv4ll_state and struct arp_state stay in
\* range; no more than PROBE_NUM probes and ANNOUNCE_NUM claims are sent.
TypeOK == <<opt, world>> \in Setups /\ s \in State

\* state->addr never outlives its entry in the interface's list, and it is the
\* address that was picked and that ARP watches: drops, lost defences, failed
\* calls and deletions by others (ipv4ll_handleifa) all keep the three together.
AddrIsListed ==
    s.addr # NULL => /\ s.addr \in s.addrs /\ s.addr = s.picked
                     /\ s.arp.addr \in {NULL, s.addr}

\* ipv4ll_defend_failed deletes the address at state->addr without asking whether
\* there is one: it always is, unless somebody else configures the address
\* that is being probed, or a retry left over from another network probes
\* 0.0.0.0.
DeletesItsAddress == world \cap {"coincidence", "networks"} = {} => ~s.crash

\* IPv4LL that runs is never left waiting for nothing: until it has an address,
\* a probe or the start of one is pending (with ARP states that can be opened,
\* addresses that can be added, and no roaming, which frees ARP states only).
NeverStuck ==
    world = {} /\ Has("CONFIGURE") /\ s.running /\ s.addr = NULL =>
        \E x \in {"arp_probe1", "arp_probed", "ipv4ll_start_arp"} : s.at[x] # Off

\* The address in use is watched for conflicts; arp_announced: "Keep the ARP state
\* open to handle ongoing ACD".
AddrIsWatched == world = {} /\ s.addr # NULL => s.arp.addr = s.addr

\* IPv4LL configures an address only after PROBE_NUM probes for it and
\* ANNOUNCE_WAIT of silence since the last of them, without a conflict since the
\* first, whatever was dropped, started or left over in between.
ClaimsAreProbed ==
    [][ "coincidence" \notin world /\ s'.addr # NULL /\ s'.addr \notin s.addrs =>
        s.asked >= PROBE_NUM /\ s.quiet >= ANNOUNCE_WAIT ]_vars

\* An address in use is given up to another host only if it was defended within
\* the last DEFEND_INTERVAL, and never with persistent defence (arp_found); a
\* defence that cannot be sent counts as failed.
GivesUpOnlyContested ==
    [][ "faults" \notin world /\ Conflict /\ s.addr # NULL /\ s'.addr = NULL =>
        ~Has("PERSISTDEFENCE") /\ s.defended \in 0..(DEFEND_INTERVAL - 1) ]_vars

\* After MAX_CONFLICTS conflicts without an announced address in between, the
\* retry for the next address waits RATE_LIMIT_INTERVAL (ipv4ll_found).
RetriesAreLimited ==
    [][ FireStartArp /\ s.row >= MAX_CONFLICTS => s.since >= RATE_LIMIT_INTERVAL ]_vars

\* IPv4LL gets an address in the end, if at most ConflictBound conflicts come in a
\* row and it is not stopped.
LinkLocalComes ==
    (world = {} /\ Has("CONFIGURE") /\ s.running) ~> (s.addr # NULL \/ ~s.running)

\* DHCP with an address has stopped IPv4LL; dhcp_finish_dad: "Stop IPv4LL now we
\* have a working DHCP address".
LinkLocalStaysStopped == s.leased => s.addr = NULL

\* IPv4LL works on something all the time: without an address a probe or a retry is
\* pending, and an address it has is on the interface, is watched by ARP, and is there
\* to be deleted when it is lost (arp.c and ipv4ll.c, in all their interleavings).
AddrIsKept == NeverStuck /\ AddrIsListed /\ AddrIsWatched /\ DeletesItsAddress
=============================================================================
