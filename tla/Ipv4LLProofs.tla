---------------------------- MODULE Ipv4LLProofs ----------------------------
(***************************************************************************)
(* Theorems about Ipv4LL, for any addresses, intervals, counts and setups. *)
(***************************************************************************)
EXTENDS Ipv4LL, TLAPS

(* The inductive invariant, as predicates on an interface t. *)

\* ARP watches the picked address; its timeouts belong to a state that is there,
\* and each stands for the count that is reached.
Timed(t) ==
    /\ t.arp.addr # NULL => t.arp.addr = t.picked
    /\ \A x \in ArpTimers : t.at[x] # Off => t.arp.addr # NULL
    /\ t.at["arp_probe1"] # Off => t.arp.probes < PROBE_NUM
    /\ t.at["arp_announce1"] # Off => 1 <= t.arp.claims /\ t.arp.claims < ANNOUNCE_NUM
    /\ t.at["arp_probed"] # Off =>
           /\ t.arp.probes = PROBE_NUM
           /\ t.at["arp_probed"] + t.quiet >= ANNOUNCE_WAIT

Listed(t) ==
    t.addr # NULL => /\ t.addr \in t.addrs /\ t.addr = t.picked

\* A picked address is on the interface only if IPv4LL put it there.
Own(t) ==
    Has("CONFIGURE") /\ "coincidence" \notin world
        /\ t.picked \in t.addrs /\ t.picked # INADDR_ANY => t.addr = t.picked

\* Probes that are counted have been sent since the last conflict.
Asked(t) ==
    Has("CONFIGURE") /\ "coincidence" \notin world
        /\ t.arp.addr # NULL /\ t.arp.addr \notin t.addrs => t.asked >= t.arp.probes

\* Without a change of networks, nothing is probed before it is picked.
Picked(t) ==
    "networks" \notin world /\ t.picked = INADDR_ANY =>
        t.arp.addr = NULL /\ t.at["ipv4ll_start_arp"] = Off

\* The history agrees with the code's counters.
Counted(t) ==
    /\ t.row = t.conflicts
    /\ t.at["ipv4ll_start_arp"] # Off /\ t.row >= MAX_CONFLICTS =>
           t.at["ipv4ll_start_arp"] + t.since >= RATE_LIMIT_INTERVAL

Defended(t) == t.arp.defend # Off => t.arp.defend = t.defended

Pending(t) ==
    world = {} /\ Has("CONFIGURE") /\ t.running /\ t.addr = NULL =>
        \E x \in {"arp_probe1", "arp_probed", "ipv4ll_start_arp"} : t.at[x] # Off

Watched(t) == world = {} /\ t.addr # NULL => t.arp.addr = t.addr

Safe(t) == world \cap {"coincidence", "networks"} = {} => ~t.crash

Core(t) ==
    /\ Timed(t) /\ Listed(t) /\ Own(t) /\ Asked(t) /\ Picked(t)
    /\ Counted(t) /\ Defended(t) /\ Watched(t) /\ Safe(t)

Good(t) == Core(t) /\ Pending(t)

Inv == TypeOK /\ Good(s)

----------------------------------------------------------------------------
(* What the operators do to the fields. *)

\* What ARP leaves alone.
Rest(t, u) ==
    /\ u.running = t.running /\ u.picked = t.picked /\ u.addr = t.addr
    /\ u.addrs = t.addrs /\ u.conflicts = t.conflicts /\ u.link = t.link
    /\ u.leased = t.leased /\ u.crash = t.crash /\ u.row = t.row
    /\ u.since = t.since /\ u.defended = t.defended
    /\ u.at["ipv4ll_start"] = t.at["ipv4ll_start"]
    /\ u.at["ipv4ll_start_arp"] = t.at["ipv4ll_start_arp"]

NoArpTimers(u) == \A x \in ArpTimers : u.at[x] = Off

LEMMA Constants ==
    /\ INADDR_ANY \notin Addrs /\ NULL \notin Addrs /\ INADDR_ANY # NULL
    /\ PROBE_NUM \in Nat /\ PROBE_NUM >= 1 /\ ANNOUNCE_NUM \in Nat /\ ANNOUNCE_NUM >= 1
    /\ ANNOUNCE_WAIT \in Nat /\ RATE_LIMIT_INTERVAL \in Nat /\ PROBE_WAIT \in Nat
    /\ DEFEND_INTERVAL \in Nat /\ DEFEND_INTERVAL >= 1 /\ MAX_CONFLICTS \in Nat
    /\ MAX_CONFLICTS >= 1 /\ ipv4ll_time \in Nat /\ PROBE_MIN \in Nat /\ PROBE_MAX \in Nat
BY LLAssumption

LEMMA NoArpTyped ==
    /\ NoArp \in ArpState /\ NoTimers \in [Timers -> Nat \cup {Off}]
    /\ NoArp.addr = NULL /\ NoArp.probes = 0 /\ NoArp.claims = 0 /\ NoArp.defend = Off
BY Constants DEF NoArp, ArpState, Ages, Off, NoTimers

\* A step of ARP.
ArpStep(t, arp, at, asked, quiet) ==
    [t EXCEPT !.arp = arp, !.at = at, !.asked = asked, !.quiet = quiet]

LEMMA ArpStepFacts ==
    ASSUME NEW t \in State, NEW arp \in ArpState, NEW at \in [Timers -> Nat \cup {Off}],
           NEW asked \in Nat, NEW quiet \in 0..ANNOUNCE_WAIT,
           at["ipv4ll_start"] = t.at["ipv4ll_start"],
           at["ipv4ll_start_arp"] = t.at["ipv4ll_start_arp"]
    PROVE  LET u == ArpStep(t, arp, at, asked, quiet)
           IN /\ u \in State /\ Rest(t, u) /\ u.arp = arp /\ u.at = at
              /\ u.asked = asked /\ u.quiet = quiet
BY DEF ArpStep, State, Rest

\* arp_free clears the ARP state and its timeouts and nothing else.
LEMMA FreeFacts ==
    ASSUME NEW t \in State
    PROVE  LET u == arp_free(t)
           IN /\ u \in State /\ Rest(t, u) /\ u.arp = NoArp /\ NoArpTimers(u)
              /\ u.asked = t.asked /\ u.quiet = t.quiet
<1> DEFINE at == [x \in Timers |-> IF x \in ArpTimers THEN Off ELSE t.at[x]]
<1>1. /\ at \in [Timers -> Nat \cup {Off}]
      /\ at["ipv4ll_start"] = t.at["ipv4ll_start"]
      /\ at["ipv4ll_start_arp"] = t.at["ipv4ll_start_arp"]
      /\ \A x \in ArpTimers : at[x] = Off
  BY DEF State, Timers, ArpTimers
<1>2. t.asked \in Nat /\ t.quiet \in 0..ANNOUNCE_WAIT
  BY DEF State
<1>3. arp_free(t) = ArpStep(t, NoArp, at, t.asked, t.quiet)
  BY DEF arp_free, ArpStep, State
<1>4. QED
  <2> HIDE DEF at
  <2> QED BY <1>1, <1>2, <1>3, ArpStepFacts, NoArpTyped DEF NoArpTimers

\* arp_probe1 counts a probe and sets the timeout for the next step.
LEMMA ProbeFacts ==
    ASSUME NEW t \in State, NEW e, e.delay \in Nat, t.arp.probes < PROBE_NUM
    PROVE  LET u == arp_probe1(t, e)
               n == t.arp.probes + 1
           IN /\ u \in State /\ Rest(t, u)
              /\ u.arp.addr = t.arp.addr /\ u.arp.probes = n
              /\ u.arp.claims = t.arp.claims /\ u.arp.defend = t.arp.defend
              /\ u.asked = t.asked + 1 /\ u.quiet = 0
              /\ u.at["arp_probe1"] = IF n < PROBE_NUM THEN e.delay ELSE t.at["arp_probe1"]
              /\ u.at["arp_probed"] = IF n < PROBE_NUM THEN t.at["arp_probed"] ELSE ANNOUNCE_WAIT
              /\ u.at["arp_announce1"] = t.at["arp_announce1"]
              /\ u.at["arp_announced"] = t.at["arp_announced"]
<1> DEFINE n == t.arp.probes + 1
           at == IF n < PROBE_NUM THEN [t.at EXCEPT !["arp_probe1"] = e.delay]
                 ELSE [t.at EXCEPT !["arp_probed"] = ANNOUNCE_WAIT]
           arp == [t.arp EXCEPT !.probes = n]
<1>1. /\ at \in [Timers -> Nat \cup {Off}]
      /\ at["ipv4ll_start"] = t.at["ipv4ll_start"]
      /\ at["ipv4ll_start_arp"] = t.at["ipv4ll_start_arp"]
      /\ at["arp_announce1"] = t.at["arp_announce1"]
      /\ at["arp_announced"] = t.at["arp_announced"]
      /\ at["arp_probe1"] = IF n < PROBE_NUM THEN e.delay ELSE t.at["arp_probe1"]
      /\ at["arp_probed"] = IF n < PROBE_NUM THEN t.at["arp_probed"] ELSE ANNOUNCE_WAIT
  <2> HIDE DEF n
  <2>1. t.at \in [Timers -> Nat \cup {Off}]
    BY DEF State
  <2> QED BY <2>1, Constants DEF Timers, ArpTimers
<1>2. arp \in ArpState /\ arp.probes = n /\ arp.addr = t.arp.addr
      /\ arp.claims = t.arp.claims /\ arp.defend = t.arp.defend
  <2>1. t.arp \in ArpState
    BY DEF State
  <2> QED BY <2>1, Constants DEF ArpState
<1>3. t.asked + 1 \in Nat /\ 0 \in 0..ANNOUNCE_WAIT
  BY Constants DEF State
<1>4. arp_probe1(t, e) = ArpStep(t, arp, at, t.asked + 1, 0)
  BY DEF arp_probe1, ArpStep, State
<1>5. QED
  <2> HIDE DEF at, arp
  <2> QED BY <1>1, <1>2, <1>3, <1>4, ArpStepFacts

\* arp_announce1 counts a claim and sets the timeout for the next step.
LEMMA AnnounceFacts ==
    ASSUME NEW t \in State, t.arp.claims < ANNOUNCE_NUM
    PROVE  LET u == arp_announce1(t)
               n == t.arp.claims + 1
           IN /\ u \in State /\ Rest(t, u)
              /\ u.arp.addr = t.arp.addr /\ u.arp.probes = t.arp.probes
              /\ u.arp.claims = n /\ u.arp.defend = t.arp.defend
              /\ u.asked = t.asked /\ u.quiet = t.quiet
              /\ u.at["arp_probe1"] = t.at["arp_probe1"]
              /\ u.at["arp_probed"] = t.at["arp_probed"]
              /\ u.at["arp_announce1"] =
                     IF n < ANNOUNCE_NUM THEN ANNOUNCE_WAIT ELSE t.at["arp_announce1"]
<1> DEFINE n == t.arp.claims + 1
           at == [t.at EXCEPT ![IF n < ANNOUNCE_NUM THEN "arp_announce1"
                                ELSE "arp_announced"] = ANNOUNCE_WAIT]
           arp == [t.arp EXCEPT !.claims = n]
<1>1. /\ at \in [Timers -> Nat \cup {Off}]
      /\ at["ipv4ll_start"] = t.at["ipv4ll_start"]
      /\ at["ipv4ll_start_arp"] = t.at["ipv4ll_start_arp"]
      /\ at["arp_probe1"] = t.at["arp_probe1"]
      /\ at["arp_probed"] = t.at["arp_probed"]
      /\ at["arp_announce1"] =
             IF n < ANNOUNCE_NUM THEN ANNOUNCE_WAIT ELSE t.at["arp_announce1"]
  <2> HIDE DEF n
  <2>1. t.at \in [Timers -> Nat \cup {Off}]
    BY DEF State
  <2> QED BY <2>1, Constants DEF Timers, ArpTimers
<1>2. arp \in ArpState /\ arp.probes = t.arp.probes /\ arp.addr = t.arp.addr
      /\ arp.claims = n /\ arp.defend = t.arp.defend
  <2>1. t.arp \in ArpState
    BY DEF State
  <2> QED BY <2>1, Constants DEF ArpState
<1>3. t.asked \in Nat /\ t.quiet \in 0..ANNOUNCE_WAIT
  BY DEF State
<1>4. arp_announce1(t) = ArpStep(t, arp, at, t.asked, t.quiet)
  BY DEF arp_announce1, ArpStep, State
<1>5. QED
  <2> HIDE DEF at, arp
  <2> QED BY <1>1, <1>2, <1>3, <1>4, ArpStepFacts

\* ipv4ll_start_arp leaves one probe sent, or no ARP state if none can be opened.
LEMMA StartArpFacts ==
    ASSUME NEW t \in State, NEW e, e.delay \in Nat
    PROVE  LET u == ipv4ll_start_arp(t, e)
           IN /\ u \in State /\ Rest(t, u)
              /\ ~e.open => u.arp = NoArp /\ NoArpTimers(u)
              /\ e.open =>
                     /\ u.arp.addr = t.picked /\ u.arp.probes = 1
                     /\ u.arp.claims = 0 /\ u.arp.defend = Off
                     /\ u.asked = 1 /\ u.quiet = 0
                     /\ u.at["arp_probe1"] = IF 1 < PROBE_NUM THEN e.delay ELSE Off
                     /\ u.at["arp_probed"] = IF 1 < PROBE_NUM THEN Off ELSE ANNOUNCE_WAIT
                     /\ u.at["arp_announce1"] = Off /\ u.at["arp_announced"] = Off
<1> DEFINE f == arp_free(t)
           arp == [NoArp EXCEPT !.addr = t.picked]
           v == [f EXCEPT !.arp.addr = t.picked, !.asked = 0]
<1>1. /\ f \in State /\ Rest(t, f) /\ f.arp = NoArp /\ NoArpTimers(f)
      /\ f.quiet \in 0..ANNOUNCE_WAIT /\ f.at \in [Timers -> Nat \cup {Off}]
  BY FreeFacts DEF State
<1>2. /\ arp \in ArpState /\ arp.addr = t.picked /\ arp.probes = 0
      /\ arp.claims = 0 /\ arp.defend = Off
  <2>1. t.picked \in Addrs \cup {INADDR_ANY, NULL}
    BY DEF State
  <2> QED BY <2>1, NoArpTyped DEF ArpState
<1>3. v = ArpStep(f, arp, f.at, 0, f.quiet)
  <2> HIDE DEF f
  <2> QED BY <1>1 DEF ArpStep, State
<1>4. /\ v \in State /\ Rest(f, v) /\ v.arp = arp /\ v.at = f.at /\ v.asked = 0
  <2> HIDE DEF f, arp, v
  <2> QED BY <1>1, <1>2, <1>3, ArpStepFacts
<1>5. Rest(t, v)
  <2> HIDE DEF f, arp, v
  <2> QED BY <1>1, <1>4 DEF Rest
<1>6. CASE ~e.open
  BY <1>1, <1>6 DEF ipv4ll_start_arp
<1>7. CASE e.open
  <2> DEFINE u == arp_probe1(v, e)
  <2>1. ipv4ll_start_arp(t, e) = u
    BY <1>7 DEF ipv4ll_start_arp
  <2>2. \A x \in ArpTimers : v.at[x] = Off
    <3> HIDE DEF f, v
    <3> QED BY <1>1, <1>4 DEF NoArpTimers
  <2>3. v.arp.probes < PROBE_NUM
    <3> HIDE DEF f, v
    <3> QED BY <1>2, <1>4, Constants
  <2> HIDE DEF f, arp, v
  <2>4. /\ u \in State /\ Rest(v, u)
        /\ u.arp.addr = t.picked /\ u.arp.probes = 1
        /\ u.arp.claims = 0 /\ u.arp.defend = Off
        /\ u.asked = 1 /\ u.quiet = 0
        /\ u.at["arp_probe1"] = IF 1 < PROBE_NUM THEN e.delay ELSE Off
        /\ u.at["arp_probed"] = IF 1 < PROBE_NUM THEN Off ELSE ANNOUNCE_WAIT
        /\ u.at["arp_announce1"] = Off /\ u.at["arp_announced"] = Off
    BY <1>2, <1>4, <2>2, <2>3, ProbeFacts DEF ArpTimers
  <2>5. Rest(t, u)
    <3> HIDE DEF u
    <3> QED BY <1>5, <2>4 DEF Rest
  <2> HIDE DEF u
  <2> QED BY <1>7, <2>1, <2>4, <2>5
<1>8. QED BY <1>6, <1>7

----------------------------------------------------------------------------
(* What the operators do to the invariant. *)

\* An outcome that is possible for an interface t.
Fits(t, e) ==
    /\ e.pick \in Addrs /\ e.pick \notin t.addrs /\ e.delay \in Nat
    /\ e.find \in (t.addrs \cap Addrs) \cup {NULL}
    /\ "faults" \notin world => e.open /\ e.added /\ e.sent

LEMMA OutcomeFits ==
    ASSUME NEW e \in Outcome
    PROVE  Fits(s, e)
<1>1. PROBE_MIN..PROBE_MAX \subseteq Nat
  BY Constants
<1>2. QED BY <1>1 DEF Outcome, Fits

\* Probing afresh establishes what concerns ARP.
LEMMA StartArpGood ==
    ASSUME NEW t \in State, NEW e, e.delay \in Nat, "faults" \notin world => e.open,
           Listed(t), Own(t), Counted(t), Safe(t),
           "networks" \notin world => t.picked # INADDR_ANY
    PROVE  LET u == ipv4ll_start_arp(t, e)
           IN u \in State /\ Rest(t, u) /\ Good(u)
<1> DEFINE u == ipv4ll_start_arp(t, e)
<1>1. /\ u \in State /\ Rest(t, u)
      /\ ~e.open => u.arp = NoArp /\ NoArpTimers(u)
      /\ e.open =>
             /\ u.arp.addr = t.picked /\ u.arp.probes = 1
             /\ u.arp.claims = 0 /\ u.arp.defend = Off
             /\ u.asked = 1 /\ u.quiet = 0
             /\ u.at["arp_probe1"] = IF 1 < PROBE_NUM THEN e.delay ELSE Off
             /\ u.at["arp_probed"] = IF 1 < PROBE_NUM THEN Off ELSE ANNOUNCE_WAIT
             /\ u.at["arp_announce1"] = Off /\ u.at["arp_announced"] = Off
  BY StartArpFacts
<1>2. t.picked # NULL
  BY Constants DEF State
<1> HIDE DEF u
<1>3. Timed(u)
  BY <1>1, <1>2, NoArpTyped, Constants DEF Timed, Rest, NoArpTimers, ArpTimers
<1>4. Listed(u) /\ Own(u) /\ Counted(u) /\ Safe(u)
  BY <1>1 DEF Rest, Listed, Own, Counted, Safe
<1>5. Asked(u) /\ Defended(u) /\ Picked(u)
  BY <1>1, NoArpTyped DEF Asked, Defended, Picked, Rest
<1>6. world = {} => e.open
  OBVIOUS
<1>7. Pending(u) /\ Watched(u)
  BY <1>1, <1>6, Constants DEF Pending, Watched, Rest, Listed, Off
<1>8. QED BY <1>1, <1>3, <1>4, <1>5, <1>7 DEF Good, Core, u

\* Two interfaces that differ only in what the invariant does not speak of.
Alike(t, u) ==
    /\ u.running = t.running /\ u.picked = t.picked /\ u.addr = t.addr
    /\ u.addrs = t.addrs /\ u.conflicts = t.conflicts /\ u.arp = t.arp
    /\ u.crash = t.crash /\ u.row = t.row /\ u.since = t.since
    /\ u.defended = t.defended /\ u.asked = t.asked /\ u.quiet = t.quiet
    /\ \A x \in Timers \ {"ipv4ll_start"} : u.at[x] = t.at[x]

LEMMA AlikeGood ==
    ASSUME NEW t, NEW u, Alike(t, u), Good(t)
    PROVE  Good(u)
<1>1. Timed(u)
  BY DEF Alike, Good, Core, Timed, Timers, ArpTimers
<1>2. Listed(u) /\ Own(u) /\ Asked(u) /\ Defended(u) /\ Watched(u) /\ Safe(u)
  BY DEF Alike, Good, Core, Listed, Own, Asked, Defended, Watched, Safe
<1>3. Picked(u) /\ Counted(u)
  BY DEF Alike, Good, Core, Picked, Counted, Timers
<1>4. Pending(u)
  BY DEF Alike, Good, Pending, Timers, ArpTimers
<1>5. QED BY <1>1, <1>2, <1>3, <1>4 DEF Good, Core

\* Setting one timeout changes nothing else.
LEMMA TimerFacts ==
    ASSUME NEW t \in State, NEW x \in Timers, NEW d \in Nat \cup {Off}
    PROVE  LET u == [t EXCEPT !.at[x] = d]
           IN /\ u \in State /\ u.at[x] = d
              /\ \A y \in Timers \ {x} : u.at[y] = t.at[y]
              /\ u.running = t.running /\ u.picked = t.picked /\ u.addr = t.addr
              /\ u.addrs = t.addrs /\ u.conflicts = t.conflicts /\ u.arp = t.arp
              /\ u.crash = t.crash /\ u.row = t.row /\ u.since = t.since
              /\ u.defended = t.defended /\ u.asked = t.asked /\ u.quiet = t.quiet
              /\ u.link = t.link /\ u.leased = t.leased
<1> DEFINE at == [t.at EXCEPT ![x] = d]
<1>1. /\ at \in [Timers -> Nat \cup {Off}] /\ at[x] = d
      /\ \A y \in Timers \ {x} : at[y] = t.at[y]
  <2>1. t.at \in [Timers -> Nat \cup {Off}]
    BY DEF State
  <2> QED BY <2>1
<1>2. [t EXCEPT !.at[x] = d] = [t EXCEPT !.at = at]
  BY DEF State
<1>3. QED
  <2> HIDE DEF at
  <2> QED BY <1>1, <1>2 DEF State

\* A timeout that is called back is no longer pending.
LEMMA FiredCore ==
    ASSUME NEW t \in State, NEW x \in Timers, Core(t)
    PROVE  LET u == [t EXCEPT !.at[x] = Off]
           IN /\ u \in State /\ Core(u)
              /\ Good(t) /\ x \notin {"arp_probe1", "arp_probed", "ipv4ll_start_arp"} => Good(u)
<1> DEFINE u == [t EXCEPT !.at[x] = Off]
<1>1. /\ u \in State /\ u.at[x] = Off
      /\ \A y \in Timers \ {x} : u.at[y] = t.at[y]
      /\ u.running = t.running /\ u.picked = t.picked /\ u.addr = t.addr
      /\ u.addrs = t.addrs /\ u.conflicts = t.conflicts /\ u.arp = t.arp
      /\ u.crash = t.crash /\ u.row = t.row /\ u.since = t.since
      /\ u.defended = t.defended /\ u.asked = t.asked /\ u.quiet = t.quiet
  BY TimerFacts
<1> HIDE DEF u
<1>2. \A y \in Timers : u.at[y] # Off => u.at[y] = t.at[y]
  BY <1>1
<1>3. Timed(u)
  BY <1>1, <1>2 DEF Core, Timed, Timers, ArpTimers
<1>4. Listed(u) /\ Own(u) /\ Asked(u) /\ Defended(u) /\ Watched(u) /\ Safe(u)
  BY <1>1 DEF Core, Listed, Own, Asked, Defended, Watched, Safe
<1>5. Picked(u) /\ Counted(u)
  BY <1>1, <1>2 DEF Core, Picked, Counted, Timers
<1>6. Good(t) /\ x \notin {"arp_probe1", "arp_probed", "ipv4ll_start_arp"} => Pending(u)
  BY <1>1 DEF Good, Pending, Timers, ArpTimers
<1>7. QED BY <1>1, <1>3, <1>4, <1>5, <1>6 DEF Good, Core, u

\* ipv4ll_start takes up an address that is there, or probes one.
LEMMA StartGood ==
    ASSUME NEW t \in State, NEW e, Good(t), Fits(t, e)
    PROVE  LET u == ipv4ll_start(t, e)
           IN /\ u \in State /\ Good(u)
              /\ u.addr # NULL => u.addr \in t.addrs
<1> DEFINE ia == Previous(t, e)
           v == [t EXCEPT !.running = TRUE, !.addr = ia]
           w == [v EXCEPT !.picked = ia]
           p == IF t.picked = INADDR_ANY THEN e.pick ELSE t.picked
           y == [v EXCEPT !.picked = p]
<1>1. /\ ia \in Addrs \cup {NULL}
      /\ ia # NULL => ia \in t.addrs
      /\ ia = NULL => t.picked = INADDR_ANY \/ t.picked \notin t.addrs
  BY Constants DEF Previous, Fits, State
<1>2. p \in Addrs /\ (ia = NULL => p \notin t.addrs)
  BY <1>1, Constants DEF Fits, State
<1>3. CASE t.running
  <2>1. ipv4ll_start(t, e) = t
    BY <1>3 DEF ipv4ll_start
  <2> QED BY <2>1 DEF Good, Core, Listed
<1>4. CASE ~t.running /\ ia # NULL
  <2> HIDE DEF ia
  <2>1. /\ w \in State /\ w.addr = ia /\ w.picked = ia /\ w.addrs = t.addrs
        /\ w.at = t.at /\ w.row = t.row /\ w.conflicts = t.conflicts
        /\ w.since = t.since /\ w.crash = t.crash
    BY <1>1, <1>4 DEF State
  <2>2. ipv4ll_start(t, e) = ipv4ll_start_arp(w, e)
    BY <1>4 DEF ipv4ll_start, ia
  <2> HIDE DEF w
  <2>3. Listed(w) /\ Own(w) /\ Counted(w) /\ Safe(w) /\ w.picked # INADDR_ANY
    BY <1>1, <1>4, <2>1, Constants DEF Good, Core, Listed, Own, Counted, Safe
  <2>4. e.delay \in Nat /\ ("faults" \notin world => e.open)
    BY DEF Fits
  <2> QED BY <1>1, <2>1, <2>2, <2>3, <2>4, StartArpGood DEF Rest
<1>5. CASE ~t.running /\ ia = NULL /\ ~Has("CONFIGURE")
  <2>1. ipv4ll_start(t, e) = v
    BY <1>5 DEF ipv4ll_start
  <2> HIDE DEF ia
  <2>2. /\ v \in State /\ v.addr = NULL /\ v.picked = t.picked /\ v.addrs = t.addrs
        /\ v.at = t.at /\ v.row = t.row /\ v.conflicts = t.conflicts
        /\ v.since = t.since /\ v.crash = t.crash /\ v.arp = t.arp
        /\ v.quiet = t.quiet /\ v.asked = t.asked /\ v.defended = t.defended
    BY <1>5 DEF State
  <2> HIDE DEF v
  <2>3. Timed(v) /\ Counted(v) /\ Picked(v)
    BY <2>2 DEF Good, Core, Timed, Counted, Picked
  <2>4. Listed(v) /\ Own(v) /\ Asked(v) /\ Defended(v) /\ Watched(v) /\ Safe(v)
    BY <1>5, <2>2 DEF Good, Core, Listed, Own, Asked, Defended, Watched, Safe
  <2>5. Pending(v)
    BY <1>5 DEF Pending
  <2> QED BY <2>1, <2>2, <2>3, <2>4, <2>5 DEF Good, Core
<1>6. CASE ~t.running /\ ia = NULL /\ Has("CONFIGURE")
  <2>1. ipv4ll_start(t, e) = ipv4ll_start_arp(y, e)
    <3>1. v.picked = t.picked
      BY DEF State
    <3>2. ipv4ll_start(t, e) =
             ipv4ll_start_arp([v EXCEPT !.picked = IF @ = INADDR_ANY THEN e.pick ELSE @], e)
      BY <1>6 DEF ipv4ll_start
    <3> HIDE DEF v
    <3> QED BY <3>1, <3>2
  <2> HIDE DEF ia, p
  <2>2. /\ y \in State /\ y.addr = NULL /\ y.picked = p /\ y.addrs = t.addrs
        /\ y.at = t.at /\ y.row = t.row /\ y.conflicts = t.conflicts
        /\ y.since = t.since /\ y.crash = t.crash
    BY <1>2, <1>6 DEF State
  <2> HIDE DEF y
  <2>3. Listed(y) /\ Own(y) /\ Counted(y) /\ Safe(y) /\ y.picked # INADDR_ANY
    BY <1>2, <1>6, <2>2, Constants DEF Good, Core, Listed, Own, Counted, Safe
  <2>4. e.delay \in Nat /\ ("faults" \notin world => e.open)
    BY DEF Fits
  <2> QED BY <2>1, <2>2, <2>3, <2>4, StartArpGood DEF Rest
<1>7. QED BY <1>3, <1>4, <1>5, <1>6

\* ipv4ll_drop leaves no address of its own behind.
LEMMA DropGood ==
    ASSUME NEW t \in State, Good(t)
    PROVE  LET u == ipv4ll_drop(t)
           IN u \in State /\ Good(u) /\ u.addr = NULL /\ ~u.running
<1> DEFINE f == arp_free(t)
           u == ipv4ll_drop(t)
<1>1. /\ f \in State /\ Rest(t, f) /\ f.arp = NoArp /\ NoArpTimers(f)
  BY FreeFacts
<1>2. /\ u \in State /\ u.addr = NULL /\ u.running = FALSE /\ u.picked = t.picked
      /\ u.addrs = IF Has("CONFIGURE") THEN t.addrs \ (Addrs \cup {t.addr}) ELSE t.addrs
      /\ u.at = f.at /\ u.arp = NoArp /\ u.row = t.row /\ u.conflicts = t.conflicts
      /\ u.since = t.since /\ u.crash = t.crash /\ u.defended = t.defended
  <2> HIDE DEF f
  <2>1. u = [f EXCEPT !.running = FALSE, !.addr = NULL,
                 !.addrs = IF Has("CONFIGURE") THEN @ \ (Addrs \cup {t.addr}) ELSE @]
    BY DEF ipv4ll_drop, f
  <2> HIDE DEF u
  <2> QED BY <1>1, <2>1 DEF Rest, State
<1> HIDE DEF f, u
<1>3. t.picked \in Addrs \cup {INADDR_ANY}
  BY DEF State
<1>4. Timed(u)
  BY <1>1, <1>2, NoArpTyped DEF Timed, NoArpTimers, ArpTimers
<1>5. Listed(u) /\ Own(u) /\ Asked(u) /\ Defended(u) /\ Watched(u) /\ Safe(u)
  BY <1>2, <1>3, NoArpTyped DEF Good, Core, Listed, Own, Asked, Defended, Watched, Safe
<1>6. Picked(u) /\ Counted(u)
  BY <1>1, <1>2, NoArpTyped DEF Good, Core, Picked, Counted, Rest
<1>7. Pending(u)
  BY <1>2 DEF Pending
<1>8. QED BY <1>2, <1>4, <1>5, <1>6, <1>7 DEF Good, Core, u

\* ipv4ll_reset after a drop forgets the address; a retry may be left over.
LEMMA ResetGood ==
    ASSUME NEW t \in State, Good(t), t.addr = NULL, ~t.running, "networks" \in world
    PROVE  LET u == ipv4ll_reset(t) IN u \in State /\ Good(u)
<1> DEFINE f == arp_free(t)
           u == ipv4ll_reset(t)
<1>1. /\ f \in State /\ Rest(t, f) /\ f.arp = NoArp /\ NoArpTimers(f)
  BY FreeFacts
<1>2. /\ u \in State /\ u.addr = NULL /\ u.running = t.running /\ u.picked = INADDR_ANY
      /\ u.at = f.at /\ u.arp = NoArp /\ u.row = t.row /\ u.conflicts = t.conflicts
      /\ u.since = t.since
  <2> HIDE DEF f
  <2>1. u = [f EXCEPT !.picked = INADDR_ANY]
    BY DEF ipv4ll_reset, f
  <2> HIDE DEF u
  <2> QED BY <1>1, <2>1 DEF Rest, State
<1> HIDE DEF f, u
<1>3. Timed(u)
  BY <1>1, <1>2, NoArpTyped DEF Timed, NoArpTimers, ArpTimers
<1>4. Listed(u) /\ Own(u) /\ Asked(u) /\ Defended(u) /\ Watched(u) /\ Safe(u)
  BY <1>2, NoArpTyped DEF Listed, Own, Asked, Defended, Watched, Safe
<1>5. Picked(u) /\ Counted(u) /\ Pending(u)
  BY <1>1, <1>2 DEF Good, Core, Picked, Counted, Pending, Rest
<1>6. QED BY <1>2, <1>3, <1>4, <1>5 DEF Good, Core, u

\* ipv4ll_found gives up an address that is only probed and retries later.
LEMMA FoundGood ==
    ASSUME NEW t \in State, NEW e, Fits(t, e),
           Timed(t), Listed(t), Counted(t), Safe(t),
           t.arp.addr # NULL, t.arp.addr \notin t.addrs
    PROVE  LET u == ipv4ll_found(t, e) IN u \in State /\ Good(u) /\ u.addr = NULL
<1> DEFINE f == arp_free(t)
           d == IF t.conflicts + 1 >= MAX_CONFLICTS THEN RATE_LIMIT_INTERVAL ELSE PROBE_WAIT
           g == [f EXCEPT !.conflicts = @ + 1, !.row = @ + 1, !.since = 0, !.picked = e.pick]
           u == [g EXCEPT !.at["ipv4ll_start_arp"] = d]
<1>1. /\ f \in State /\ Rest(t, f) /\ f.arp = NoArp /\ NoArpTimers(f)
  BY FreeFacts
<1>2. t.addr = NULL
  BY DEF Timed, Listed
<1>3. /\ g \in State /\ g.addr = NULL /\ g.running = t.running /\ g.picked = e.pick
      /\ g.at = f.at /\ g.arp = NoArp /\ g.row = t.row + 1
      /\ g.conflicts = t.conflicts + 1 /\ g.since = 0 /\ g.crash = t.crash
      /\ g.addrs = t.addrs
  <2> HIDE DEF f
  <2>1. /\ f.conflicts + 1 \in Nat /\ f.row + 1 \in Nat /\ 0 \in 0..RATE_LIMIT_INTERVAL
        /\ e.pick \in Addrs \cup {INADDR_ANY}
    BY <1>1, Constants DEF State, Fits
  <2>2. g \in State
    BY <1>1, <2>1 DEF State
  <2> QED BY <1>1, <1>2, <2>2 DEF Rest, State
<1>4. ipv4ll_found(t, e) = u
  <2>1. ipv4ll_found(t, e) =
            [f EXCEPT !.conflicts = @ + 1, !.row = @ + 1, !.since = 0, !.picked = e.pick,
                      !.at["ipv4ll_start_arp"] = d]
    BY DEF ipv4ll_found
  <2> HIDE DEF f, d
  <2> QED BY <1>1, <2>1 DEF State
<1>5. d \in Nat
  BY Constants
<1>6. /\ u \in State /\ u.at["ipv4ll_start_arp"] = d
      /\ \A y \in Timers \ {"ipv4ll_start_arp"} : u.at[y] = g.at[y]
      /\ u.running = g.running /\ u.picked = g.picked /\ u.addr = g.addr
      /\ u.addrs = g.addrs /\ u.conflicts = g.conflicts /\ u.arp = g.arp
      /\ u.crash = g.crash /\ u.row = g.row /\ u.since = g.since
  <2> HIDE DEF g, d
  <2>1. "ipv4ll_start_arp" \in Timers /\ d \in Nat \cup {Off}
    BY <1>5 DEF Timers
  <2> QED BY <1>3, <2>1, TimerFacts
<1> HIDE DEF f, g, u
<1>7. Timed(u)
  <2>1. \A x \in ArpTimers : u.at[x] = Off
    BY <1>1, <1>3, <1>6 DEF NoArpTimers, Timers, ArpTimers
  <2> QED BY <1>3, <1>6, <2>1, NoArpTyped DEF Timed, ArpTimers
<1>8. Listed(u) /\ Own(u) /\ Asked(u) /\ Defended(u) /\ Watched(u) /\ Safe(u) /\ Picked(u)
  BY <1>3, <1>6, NoArpTyped, Constants
     DEF Listed, Own, Asked, Defended, Watched, Safe, Picked, Fits
<1>9. Counted(u)
  <2>1. t.conflicts \in Nat
    BY DEF State
  <2> QED BY <1>3, <1>6, <2>1, Constants DEF Counted
<1>10. Pending(u)
  <2> HIDE DEF d
  <2> QED BY <1>5, <1>6 DEF Pending, Off
<1>11. QED BY <1>3, <1>4, <1>6, <1>7, <1>8, <1>9, <1>10 DEF Good, Core

\* ipv4ll_defend_failed deletes the address and probes another, or reads NULL.
LEMMA DefendFailedGood ==
    ASSUME NEW t \in State, NEW e, e.pick \in Addrs, e.pick \notin t.addrs, e.delay \in Nat,
           "faults" \notin world => e.open, Counted(t), Safe(t),
           Has("CONFIGURE") /\ t.addr = NULL =>
               Good(t) /\ world \cap {"coincidence", "networks"} # {}
    PROVE  LET u == ipv4ll_defend_failed(t, e)
           IN u \in State /\ Good(u) /\ u.addr \in {NULL, t.addr}
<1>1. CASE Has("CONFIGURE") /\ t.addr = NULL
  <2> DEFINE u == [t EXCEPT !.crash = TRUE]
  <2>1. ipv4ll_defend_failed(t, e) = u
    BY <1>1 DEF ipv4ll_defend_failed
  <2>2. /\ u \in State /\ u.addr = t.addr /\ u.running = t.running /\ u.picked = t.picked
        /\ u.at = t.at /\ u.arp = t.arp /\ u.row = t.row /\ u.conflicts = t.conflicts
        /\ u.since = t.since /\ u.addrs = t.addrs /\ u.asked = t.asked /\ u.quiet = t.quiet
        /\ u.defended = t.defended
    BY DEF State
  <2> HIDE DEF u
  <2>3. Timed(u) /\ Counted(u) /\ Picked(u) /\ Pending(u)
    BY <1>1, <2>2 DEF Good, Core, Timed, Counted, Picked, Pending
  <2>4. Listed(u) /\ Own(u) /\ Asked(u) /\ Defended(u) /\ Watched(u)
    BY <1>1, <2>2 DEF Good, Core, Listed, Own, Asked, Defended, Watched
  <2>5. Safe(u)
    BY <1>1 DEF Safe
  <2> QED BY <2>1, <2>2, <2>3, <2>4, <2>5 DEF Good, Core
<1>2. CASE ~(Has("CONFIGURE") /\ t.addr = NULL)
  <2> DEFINE left == IF Has("CONFIGURE") THEN t.addrs \ {t.addr} ELSE t.addrs
             w == [t EXCEPT !.addr = NULL, !.picked = e.pick, !.addrs = left]
  <2>1. ipv4ll_defend_failed(t, e) = ipv4ll_start_arp(w, e)
    BY <1>2 DEF ipv4ll_defend_failed
  <2>2. left \subseteq t.addrs
    OBVIOUS
  <2> HIDE DEF left
  <2>3. /\ w \in State /\ w.addr = NULL /\ w.picked = e.pick /\ w.addrs = left
        /\ w.at = t.at /\ w.row = t.row /\ w.conflicts = t.conflicts
        /\ w.since = t.since /\ w.crash = t.crash
    BY <2>2 DEF State
  <2> HIDE DEF w
  <2>4. Listed(w) /\ Own(w) /\ Counted(w) /\ Safe(w) /\ w.picked # INADDR_ANY
    BY <2>2, <2>3, Constants DEF Listed, Own, Counted, Safe
  <2>5. LET u == ipv4ll_start_arp(w, e) IN u \in State /\ Rest(w, u) /\ Good(u)
    BY <2>3, <2>4, StartArpGood
  <2> QED BY <2>1, <2>3, <2>5 DEF Rest
<1>3. QED BY <1>1, <1>2

\* ipv4ll_not_found uses the address that was probed.
LEMMA NotFoundGood ==
    ASSUME NEW t \in State, NEW e, Core(t), Fits(t, e), t.arp.addr # NULL,
           t.at["arp_probe1"] = Off, t.at["arp_probed"] = Off
    PROVE  LET u == ipv4ll_not_found(t, e)
           IN /\ u \in State /\ Good(u)
              /\ u.addr \in {t.addr, t.picked}
              /\ u.addr # NULL /\ u.addr \notin t.addrs => Has("CONFIGURE")
<1> DEFINE a == t.picked
<1>1. a = t.arp.addr /\ a \in Addrs \cup {INADDR_ANY} /\ a # NULL
  BY Constants DEF Core, Timed, State
<1>2. CASE a \in t.addrs
  <2> DEFINE u == [t EXCEPT !.addr = a]
  <2>1. ipv4ll_not_found(t, e) = u
    BY <1>2 DEF ipv4ll_not_found
  <2>2. /\ u \in State /\ u.addr = a /\ u.running = t.running /\ u.picked = t.picked
        /\ u.at = t.at /\ u.arp = t.arp /\ u.row = t.row /\ u.conflicts = t.conflicts
        /\ u.since = t.since /\ u.addrs = t.addrs /\ u.asked = t.asked /\ u.quiet = t.quiet
        /\ u.defended = t.defended /\ u.crash = t.crash
    BY <1>1 DEF State
  <2> HIDE DEF u
  <2>3. Timed(u) /\ Counted(u) /\ Picked(u) /\ Pending(u)
    BY <1>1, <2>2 DEF Core, Timed, Counted, Picked, Pending
  <2>4. Listed(u) /\ Own(u) /\ Asked(u) /\ Defended(u) /\ Watched(u) /\ Safe(u)
    BY <1>1, <1>2, <2>2 DEF Core, Listed, Own, Asked, Defended, Watched, Safe
  <2> QED BY <1>2, <2>1, <2>2, <2>3, <2>4 DEF Good, Core
<1>3. CASE a \notin t.addrs /\ (~Has("CONFIGURE") \/ ~e.added)
  <2>1. ipv4ll_not_found(t, e) = t
    BY <1>3 DEF ipv4ll_not_found
  <2>2. Pending(t)
    BY <1>3 DEF Pending, Fits
  <2> QED BY <2>1, <2>2 DEF Good, Core, Listed
<1>4. CASE a \notin t.addrs /\ Has("CONFIGURE") /\ e.added
  <2> DEFINE v == [t EXCEPT !.addrs = @ \cup {a}, !.addr = a]
             w == [v EXCEPT !.arp.claims = 0]
             u == arp_ifannounceaddr(v)
  <2>1. ipv4ll_not_found(t, e) = u
    BY <1>4 DEF ipv4ll_not_found
  <2>2. /\ v \in State /\ v.addr = a /\ v.running = t.running /\ v.picked = t.picked
        /\ v.at = t.at /\ v.arp = t.arp /\ v.row = t.row /\ v.conflicts = t.conflicts
        /\ v.since = t.since /\ v.addrs = t.addrs \cup {a} /\ v.asked = t.asked
        /\ v.quiet = t.quiet /\ v.defended = t.defended /\ v.crash = t.crash
    BY <1>1 DEF State
  <2>3. /\ u \in State /\ Rest(v, u) /\ u.arp.addr = t.arp.addr
        /\ u.arp.probes = t.arp.probes /\ u.arp.defend = t.arp.defend
        /\ u.asked = t.asked /\ u.quiet = t.quiet
        /\ u.at["arp_probe1"] = Off /\ u.at["arp_probed"] = Off
        /\ u.at["arp_announce1"] # Off => 1 <= u.arp.claims /\ u.arp.claims < ANNOUNCE_NUM
    <3>1. CASE Has("ARP")
      <4> DEFINE arp == [t.arp EXCEPT !.claims = 0]
      <4>1. /\ arp \in ArpState /\ arp.probes = t.arp.probes /\ arp.addr = t.arp.addr
            /\ arp.claims = 0 /\ arp.defend = t.arp.defend
        <5>1. t.arp \in ArpState
          BY DEF State
        <5> QED BY <5>1, Constants DEF ArpState
      <4>2. w = ArpStep(v, arp, v.at, v.asked, v.quiet)
        <5> HIDE DEF v
        <5> QED BY <2>2 DEF ArpStep, State
      <4>3. u = arp_announce1(w)
        BY <3>1 DEF arp_ifannounceaddr
      <4>4. v.at \in [Timers -> Nat \cup {Off}] /\ v.asked \in Nat /\ v.quiet \in 0..ANNOUNCE_WAIT
        <5> HIDE DEF v
        <5> QED BY <2>2 DEF State
      <4> HIDE DEF v, w, u, arp
      <4>5. /\ w \in State /\ Rest(v, w) /\ w.arp = arp /\ w.at = v.at
            /\ w.asked = v.asked /\ w.quiet = v.quiet
        BY <2>2, <4>1, <4>2, <4>4, ArpStepFacts
      <4>6. w.arp.claims < ANNOUNCE_NUM
        BY <4>1, <4>5, Constants
      <4>7. /\ u \in State /\ Rest(w, u) /\ u.arp.addr = w.arp.addr
            /\ u.arp.probes = w.arp.probes /\ u.arp.defend = w.arp.defend
            /\ u.arp.claims = 1
            /\ u.asked = w.asked /\ u.quiet = w.quiet
            /\ u.at["arp_probe1"] = w.at["arp_probe1"] /\ u.at["arp_probed"] = w.at["arp_probed"]
            /\ u.at["arp_announce1"] =
                   IF 1 < ANNOUNCE_NUM THEN ANNOUNCE_WAIT ELSE w.at["arp_announce1"]
        BY <4>1, <4>3, <4>5, <4>6, AnnounceFacts
      <4>8. Rest(v, u)
        BY <4>5, <4>7 DEF Rest
      <4>9. u.at["arp_announce1"] # Off => 1 <= u.arp.claims /\ u.arp.claims < ANNOUNCE_NUM
        <5>1. t.arp.claims \in Nat
          BY DEF State, ArpState
        <5> QED BY <2>2, <4>5, <4>7, <5>1, Constants DEF Core, Timed
      <4> QED
        BY <2>2, <4>1, <4>5, <4>7, <4>8, <4>9
    <3>2. CASE ~Has("ARP")
      <4>1. u = v
        BY <3>2 DEF arp_ifannounceaddr
      <4> HIDE DEF v, u
      <4> QED BY <2>2, <4>1 DEF Rest, Core, Timed
    <3> QED BY <3>1, <3>2
  <2> HIDE DEF v, u
  <2>4. Timed(u)
    BY <1>1, <2>2, <2>3 DEF Core, Timed, Rest
  <2>5. Listed(u) /\ Own(u) /\ Asked(u) /\ Defended(u) /\ Watched(u) /\ Safe(u)
    BY <1>1, <2>2, <2>3 DEF Core, Rest, Listed, Own, Asked, Defended, Watched, Safe
  <2>6. Picked(u) /\ Counted(u) /\ Pending(u)
    BY <1>1, <2>2, <2>3 DEF Core, Rest, Picked, Counted, Pending
  <2> QED BY <1>4, <2>1, <2>2, <2>3, <2>4, <2>5, <2>6 DEF Good, Core, Rest
<1>5. QED BY <1>2, <1>3, <1>4

\* DHCP's lease and its timeout for IPv4LL do not concern the invariant.
LEMMA LeaseGood ==
    ASSUME NEW t \in State, Good(t), NEW b \in BOOLEAN, NEW d \in Nat \cup {Off}
    PROVE  LET u == [t EXCEPT !.leased = b, !.at["ipv4ll_start"] = d]
           IN /\ u \in State /\ Good(u)
              /\ u.addr = t.addr /\ u.running = t.running /\ u.addrs = t.addrs
<1> DEFINE v == [t EXCEPT !.leased = b]
           u == [v EXCEPT !.at["ipv4ll_start"] = d]
<1>1. /\ v \in State /\ Alike(t, v)
  BY DEF State, Alike
<1>2. "ipv4ll_start" \in Timers
  BY DEF Timers
<1>3. [t EXCEPT !.leased = b, !.at["ipv4ll_start"] = d] = u
  BY DEF State
<1> HIDE DEF v
<1>4. /\ u \in State
      /\ \A y \in Timers \ {"ipv4ll_start"} : u.at[y] = v.at[y]
      /\ u.running = v.running /\ u.picked = v.picked /\ u.addr = v.addr
      /\ u.addrs = v.addrs /\ u.conflicts = v.conflicts /\ u.arp = v.arp
      /\ u.crash = v.crash /\ u.row = v.row /\ u.since = v.since
      /\ u.defended = v.defended /\ u.asked = v.asked /\ u.quiet = v.quiet
  BY <1>1, <1>2, TimerFacts
<1> HIDE DEF u
<1>5. Alike(t, u)
  BY <1>1, <1>4 DEF Alike
<1>6. Good(u)
  BY <1>5, AlikeGood
<1>7. u.addr = t.addr /\ u.running = t.running /\ u.addrs = t.addrs
  BY <1>5 DEF Alike
<1>8. QED BY <1>3, <1>4, <1>6, <1>7

\* Nor does the carrier.
LEMMA LinkGood ==
    ASSUME NEW t \in State, Good(t), NEW l \in {"up", "down", "roaming"}
    PROVE  LET u == [t EXCEPT !.link = l]
           IN u \in State /\ Good(u) /\ u.addr = t.addr
<1> DEFINE u == [t EXCEPT !.link = l]
<1>1. u \in State /\ Alike(t, u) /\ u.addr = t.addr
  BY DEF State, Alike
<1> HIDE DEF u
<1>2. QED BY <1>1, AlikeGood DEF u

LEMMA DhcpcdDropGood ==
    ASSUME NEW t \in State, Good(t)
    PROVE  LET u == dhcpcd_drop(t)
           IN u \in State /\ Good(u) /\ u.addr = NULL /\ ~u.running
<1> DEFINE v == ipv4ll_drop(t)
<1>1. v \in State /\ Good(v) /\ v.addr = NULL /\ ~v.running
  BY DropGood
<1>2. dhcpcd_drop(t) = [v EXCEPT !.leased = FALSE, !.at["ipv4ll_start"] = Off]
  BY DEF dhcpcd_drop
<1> HIDE DEF v
<1>3. Off \in Nat \cup {Off} /\ FALSE \in BOOLEAN
  OBVIOUS
<1>4. LET u == [v EXCEPT !.leased = FALSE, !.at["ipv4ll_start"] = Off]
      IN u \in State /\ Good(u) /\ u.addr = v.addr /\ u.running = v.running
  BY <1>1, <1>3, LeaseGood
<1>5. QED BY <1>1, <1>2, <1>4

----------------------------------------------------------------------------
(* The steps.  Each keeps the invariant, and claims only a probed address. *)

Claim ==
    "coincidence" \notin world /\ s'.addr # NULL /\ s'.addr \notin s.addrs =>
        s.asked >= PROBE_NUM /\ s.quiet >= ANNOUNCE_WAIT

LEMMA Steps ==
    ASSUME Inv, NEW u, u \in State, Good(u), Becomes(u)
    PROVE  Inv'
<1>1. s' = u /\ opt' = opt /\ world' = world
  BY DEF Becomes
<1>2. TypeOK'
  BY <1>1 DEF Inv, TypeOK
<1>3. Good(s)'
  BY <1>1 DEF Good, Core, Timed, Listed, Own, Asked, Picked, Counted, Defended,
              Watched, Safe, Pending, Has
<1>4. QED BY <1>2, <1>3 DEF Inv

LEMMA Keeps ==
    ASSUME Inv, NEW u, u \in State, Good(u), Becomes(u),
           u.addr # NULL => u.addr \in s.addrs
    PROVE  Inv' /\ Claim
BY Steps DEF Becomes, Claim

LEMMA InvFacts ==
    ASSUME Inv
    PROVE  /\ s \in State /\ Good(s) /\ Core(s)
           /\ s.addr # NULL => s.addr \in s.addrs
BY DEF Inv, TypeOK, Good, Core, Listed

LEMMA FiredFacts ==
    ASSUME Inv, NEW x \in Timers
    PROVE  LET t == Fired(x)
           IN /\ t \in State /\ Core(t) /\ t.at[x] = Off
              /\ x \notin {"arp_probe1", "arp_probed", "ipv4ll_start_arp"} => Good(t)
              /\ \A y \in Timers \ {x} : t.at[y] = s.at[y]
              /\ t.running = s.running /\ t.picked = s.picked /\ t.addr = s.addr
              /\ t.addrs = s.addrs /\ t.conflicts = s.conflicts /\ t.arp = s.arp
              /\ t.crash = s.crash /\ t.row = s.row /\ t.since = s.since
              /\ t.defended = s.defended /\ t.asked = s.asked /\ t.quiet = s.quiet
<1>1. s \in State /\ Good(s) /\ Core(s) /\ Off \in Nat \cup {Off}
  BY InvFacts
<1>2. Fired(x) = [s EXCEPT !.at[x] = Off]
  BY DEF Fired
<1>3. QED BY <1>1, <1>2, TimerFacts, FiredCore

LEMMA FireStartStep == ASSUME Inv, FireStart PROVE Inv' /\ Claim
<1> DEFINE t == Fired("ipv4ll_start")
<1>1. PICK e \in Outcome : Becomes(ipv4ll_start(t, e))
  BY DEF FireStart
<1>2. t \in State /\ Good(t) /\ t.addrs = s.addrs
  <2>1. "ipv4ll_start" \in Timers
    BY DEF Timers
  <2> QED BY <2>1, FiredFacts
<1> HIDE DEF t
<1>3. Fits(t, e)
  BY <1>2, OutcomeFits DEF Fits
<1>4. QED BY <1>1, <1>2, <1>3, StartGood, Keeps

LEMMA FireStartArpStep == ASSUME Inv, FireStartArp PROVE Inv' /\ Claim
<1> DEFINE t == Fired("ipv4ll_start_arp")
<1>1. PICK e \in Outcome : Becomes(ipv4ll_start_arp(t, e))
  BY DEF FireStartArp
<1>2. /\ t \in State /\ Core(t) /\ t.addrs = s.addrs /\ t.addr = s.addr
      /\ t.picked = s.picked
  <2>1. "ipv4ll_start_arp" \in Timers
    BY DEF Timers
  <2> QED BY <2>1, FiredFacts
<1> HIDE DEF t
<1>3. "networks" \notin world => t.picked # INADDR_ANY
  BY <1>2, InvFacts DEF FireStartArp, Due, Core, Picked, Off
<1>4. e.delay \in Nat /\ ("faults" \notin world => e.open)
  BY OutcomeFits DEF Fits
<1>5. LET u == ipv4ll_start_arp(t, e) IN u \in State /\ Rest(t, u) /\ Good(u)
  BY <1>2, <1>3, <1>4, StartArpGood DEF Core
<1>6. QED BY <1>1, <1>2, <1>5, InvFacts, Keeps DEF Rest

LEMMA FireProbeStep == ASSUME Inv, FireProbe PROVE Inv' /\ Claim
<1> DEFINE t == Fired("arp_probe1")
<1>1. PICK e \in Outcome : Becomes(arp_probe1(t, e))
  BY DEF FireProbe
<1> DEFINE u == arp_probe1(t, e)
           n == t.arp.probes + 1
<1>2. "arp_probe1" \in Timers /\ "arp_probe1" \in ArpTimers
  BY DEF Timers, ArpTimers
<1>3. /\ t \in State /\ Core(t) /\ t.at["arp_probe1"] = Off
      /\ t.addrs = s.addrs /\ t.addr = s.addr /\ t.arp = s.arp
  BY <1>2, FiredFacts
<1>4. s.arp.addr # NULL /\ s.arp.probes < PROBE_NUM
  BY <1>2, InvFacts DEF FireProbe, Due, Core, Timed, Off
<1>5. e.delay \in Nat
  BY OutcomeFits DEF Fits
<1> HIDE DEF t
<1>6. /\ u \in State /\ Rest(t, u)
      /\ u.arp.addr = t.arp.addr /\ u.arp.probes = n
      /\ u.arp.claims = t.arp.claims /\ u.arp.defend = t.arp.defend
      /\ u.asked = t.asked + 1 /\ u.quiet = 0
      /\ u.at["arp_probe1"] = IF n < PROBE_NUM THEN e.delay ELSE t.at["arp_probe1"]
      /\ u.at["arp_probed"] = IF n < PROBE_NUM THEN t.at["arp_probed"] ELSE ANNOUNCE_WAIT
      /\ u.at["arp_announce1"] = t.at["arp_announce1"]
      /\ u.at["arp_announced"] = t.at["arp_announced"]
  BY <1>3, <1>4, <1>5, ProbeFacts
<1>7. t.arp.probes \in Nat /\ t.asked \in Nat
  BY <1>3 DEF State, ArpState
<1> HIDE DEF u
<1>8. Timed(u)
  <2>1. u.arp.addr # NULL /\ u.arp.addr = u.picked
    BY <1>3, <1>4, <1>6 DEF Core, Timed, Rest
  <2>2. u.at["arp_announce1"] # Off => 1 <= u.arp.claims /\ u.arp.claims < ANNOUNCE_NUM
    BY <1>3, <1>6 DEF Core, Timed
  <2>3. t.at["arp_probed"] = Off
    BY <1>3, <1>4, <1>7, Constants DEF Core, Timed
  <2>4. /\ u.at["arp_probe1"] # Off => u.arp.probes < PROBE_NUM
        /\ u.at["arp_probed"] # Off => u.arp.probes = PROBE_NUM
    BY <1>3, <1>4, <1>6, <1>7, <2>3, Constants
  <2>5. u.at["arp_probed"] # Off => u.at["arp_probed"] + u.quiet >= ANNOUNCE_WAIT
    BY <1>6, <2>3, Constants
  <2> QED BY <2>1, <2>2, <2>4, <2>5 DEF Timed
<1>9. Listed(u) /\ Own(u) /\ Defended(u) /\ Watched(u) /\ Safe(u)
  BY <1>3, <1>6 DEF Core, Rest, Listed, Own, Defended, Watched, Safe
<1>10. Asked(u) /\ Picked(u) /\ Counted(u)
  <2>1. Asked(u)
    BY <1>3, <1>6, <1>7 DEF Core, Rest, Asked
  <2>2. Picked(u)
    BY <1>3, <1>6 DEF Core, Rest, Picked
  <2>3. Counted(u)
    BY <1>3, <1>6 DEF Core, Rest, Counted
  <2> QED BY <2>1, <2>2, <2>3
<1>11. Pending(u)
  BY <1>5, <1>6, Constants DEF Pending, Off
<1>12. Good(u)
  BY <1>8, <1>9, <1>10, <1>11 DEF Good, Core
<1>13. u.addr # NULL => u.addr \in s.addrs
  BY <1>3, <1>6, InvFacts DEF Rest
<1>14. Becomes(u)
  BY <1>1 DEF u
<1>15. QED BY <1>6, <1>12, <1>13, <1>14, Keeps

LEMMA FireProbedStep == ASSUME Inv, FireProbed PROVE Inv' /\ Claim
<1> DEFINE f == Fired("arp_probed")
           arp == [f.arp EXCEPT !.defend = Off]
           t == [f EXCEPT !.arp.defend = Off]
<1>1. PICK e \in Outcome : Becomes(ipv4ll_not_found(t, e))
  BY DEF FireProbed
<1> DEFINE u == ipv4ll_not_found(t, e)
<1>2. /\ "arp_probed" \in Timers /\ "arp_probed" \in ArpTimers
      /\ "arp_probe1" \in Timers \ {"arp_probed"}
  BY DEF Timers, ArpTimers
<1>3. /\ f \in State /\ Core(f) /\ f.at["arp_probed"] = Off
      /\ f.at["arp_probe1"] = s.at["arp_probe1"]
      /\ f.addrs = s.addrs /\ f.addr = s.addr /\ f.arp = s.arp /\ f.picked = s.picked
  BY <1>2, FiredFacts
<1>4. /\ s.at["arp_probed"] = 0 /\ s.arp.addr # NULL /\ s.arp.addr = s.picked
      /\ s.arp.probes = PROBE_NUM /\ s.at["arp_probed"] + s.quiet >= ANNOUNCE_WAIT
      /\ s.at["arp_probe1"] # Off => s.arp.probes < PROBE_NUM
  BY <1>2, InvFacts DEF FireProbed, Due, Core, Timed, Off
<1>5. /\ arp \in ArpState /\ arp.addr = f.arp.addr /\ arp.probes = f.arp.probes
      /\ arp.claims = f.arp.claims /\ arp.defend = Off
  <2> HIDE DEF f
  <2>1. f.arp \in ArpState
    BY <1>3 DEF State
  <2> QED BY <2>1 DEF ArpState, Ages
<1>6. f.at \in [Timers -> Nat \cup {Off}] /\ f.asked \in Nat /\ f.quiet \in 0..ANNOUNCE_WAIT
  <2> HIDE DEF f
  <2> QED BY <1>3 DEF State
<1>7. /\ t \in State /\ Rest(f, t) /\ t.arp = arp /\ t.at = f.at
      /\ t.asked = f.asked /\ t.quiet = f.quiet
  <2>1. t = ArpStep(f, arp, f.at, f.asked, f.quiet)
    <3> HIDE DEF f
    <3> QED BY <1>3 DEF ArpStep, State
  <2> HIDE DEF f, t, arp
  <2> QED BY <1>3, <1>5, <1>6, <2>1, ArpStepFacts
<1> HIDE DEF f, t, arp
<1>8. Core(t)
  <2>1. Timed(t)
    BY <1>3, <1>5, <1>7 DEF Core, Timed, Rest
  <2>2. Listed(t) /\ Own(t) /\ Asked(t) /\ Defended(t) /\ Watched(t) /\ Safe(t)
    BY <1>3, <1>5, <1>7 DEF Core, Rest, Listed, Own, Asked, Defended, Watched, Safe
  <2>3. Picked(t) /\ Counted(t)
    BY <1>3, <1>5, <1>7 DEF Core, Rest, Picked, Counted
  <2> QED BY <2>1, <2>2, <2>3 DEF Core
<1>9. t.addrs = s.addrs /\ t.addr = s.addr /\ t.picked = s.picked
  BY <1>3, <1>7 DEF Rest
<1>10. Fits(t, e)
  BY <1>9, OutcomeFits DEF Fits
<1>11. /\ t.arp.addr # NULL /\ t.at["arp_probe1"] = Off /\ t.at["arp_probed"] = Off
  BY <1>3, <1>4, <1>5, <1>7, Constants
<1>12. /\ u \in State /\ Good(u) /\ u.addr \in {t.addr, t.picked}
       /\ u.addr # NULL /\ u.addr \notin t.addrs => Has("CONFIGURE")
  BY <1>7, <1>8, <1>10, <1>11, NotFoundGood
<1>13. Becomes(u)
  BY <1>1
<1> HIDE DEF u
<1>14. Inv'
  BY <1>12, <1>13, Steps
<1>15. ASSUME "coincidence" \notin world, u.addr # NULL, u.addr \notin s.addrs
       PROVE  s.asked >= PROBE_NUM /\ s.quiet >= ANNOUNCE_WAIT
  <2>1. u.addr = s.picked /\ Has("CONFIGURE")
    BY <1>9, <1>12, <1>15, InvFacts
  <2>2. s.asked >= s.arp.probes
    BY <1>4, <1>15, <2>1, InvFacts DEF Core, Asked
  <2>3. s.quiet \in Nat
    BY InvFacts, Constants DEF State
  <2> QED BY <1>4, <2>2, <2>3
<1>16. QED BY <1>13, <1>14, <1>15 DEF Claim, Becomes

LEMMA FireAnnounceStep == ASSUME Inv, FireAnnounce PROVE Inv' /\ Claim
<1> DEFINE t == Fired("arp_announce1")
           u == arp_announce1(t)
           n == t.arp.claims + 1
<1>1. Becomes(u)
  BY DEF FireAnnounce
<1>2. "arp_announce1" \in Timers /\ "arp_announce1" \in ArpTimers
  BY DEF Timers, ArpTimers
<1>3. /\ t \in State /\ Good(t) /\ t.at["arp_announce1"] = Off
      /\ t.addrs = s.addrs /\ t.addr = s.addr /\ t.arp = s.arp
  BY <1>2, FiredFacts
<1>4. s.arp.addr # NULL /\ 1 <= s.arp.claims /\ s.arp.claims < ANNOUNCE_NUM
  BY <1>2, InvFacts DEF FireAnnounce, Due, Core, Timed, Off
<1> HIDE DEF t
<1>5. /\ u \in State /\ Rest(t, u)
      /\ u.arp.addr = t.arp.addr /\ u.arp.probes = t.arp.probes
      /\ u.arp.claims = n /\ u.arp.defend = t.arp.defend
      /\ u.asked = t.asked /\ u.quiet = t.quiet
      /\ u.at["arp_probe1"] = t.at["arp_probe1"]
      /\ u.at["arp_probed"] = t.at["arp_probed"]
      /\ u.at["arp_announce1"] =
             IF n < ANNOUNCE_NUM THEN ANNOUNCE_WAIT ELSE t.at["arp_announce1"]
  BY <1>3, <1>4, AnnounceFacts
<1>6. t.arp.claims \in Nat
  BY <1>3 DEF State, ArpState
<1> HIDE DEF u
<1>7. Timed(u)
  <2>1. /\ u.arp.addr # NULL => u.arp.addr = u.picked
        /\ u.at["arp_probe1"] # Off => u.arp.probes < PROBE_NUM
        /\ u.at["arp_probed"] # Off =>
               u.arp.probes = PROBE_NUM /\ u.at["arp_probed"] + u.quiet >= ANNOUNCE_WAIT
    BY <1>3, <1>5 DEF Good, Core, Timed, Rest
  <2>2. u.at["arp_announce1"] # Off => 1 <= u.arp.claims /\ u.arp.claims < ANNOUNCE_NUM
    BY <1>3, <1>5, <1>6, Constants
  <2>3. u.arp.addr # NULL
    BY <1>3, <1>4, <1>5
  <2> QED BY <2>1, <2>2, <2>3 DEF Timed
<1>8. Listed(u) /\ Own(u) /\ Asked(u) /\ Defended(u) /\ Watched(u) /\ Safe(u)
  BY <1>3, <1>5 DEF Good, Core, Rest, Listed, Own, Asked, Defended, Watched, Safe
<1>9. Picked(u) /\ Counted(u) /\ Pending(u)
  BY <1>3, <1>5 DEF Good, Core, Rest, Picked, Counted, Pending
<1>10. Good(u)
  BY <1>7, <1>8, <1>9 DEF Good, Core
<1>11. u.addr # NULL => u.addr \in s.addrs
  BY <1>3, <1>5, InvFacts DEF Rest
<1>12. QED BY <1>1, <1>5, <1>10, <1>11, Keeps

LEMMA FireAnnouncedStep == ASSUME Inv, FireAnnounced PROVE Inv' /\ Claim
<1> DEFINE t == Fired("arp_announced")
           u == [t EXCEPT !.conflicts = 0, !.row = 0]
<1>1. Becomes(u)
  BY DEF FireAnnounced
<1>2. t \in State /\ Good(t) /\ t.addrs = s.addrs /\ t.addr = s.addr
  <2>1. "arp_announced" \in Timers
    BY DEF Timers, ArpTimers
  <2> QED BY <2>1, FiredFacts
<1> HIDE DEF t
<1>3. /\ u \in State /\ u.addr = t.addr /\ u.running = t.running /\ u.picked = t.picked
      /\ u.at = t.at /\ u.arp = t.arp /\ u.row = 0 /\ u.conflicts = 0
      /\ u.addrs = t.addrs /\ u.asked = t.asked /\ u.quiet = t.quiet
      /\ u.defended = t.defended /\ u.crash = t.crash
  BY <1>2 DEF State
<1> HIDE DEF u
<1>4. Timed(u)
  BY <1>2, <1>3 DEF Good, Core, Timed
<1>5. Picked(u) /\ Pending(u)
  BY <1>2, <1>3 DEF Good, Core, Picked, Pending
<1>6. Counted(u)
  BY <1>3, Constants DEF Counted
<1>7. Listed(u) /\ Own(u) /\ Asked(u) /\ Defended(u) /\ Watched(u) /\ Safe(u)
  BY <1>2, <1>3 DEF Good, Core, Listed, Own, Asked, Defended, Watched, Safe
<1>8. Good(u)
  BY <1>4, <1>5, <1>6, <1>7 DEF Good, Core
<1>9. u.addr # NULL => u.addr \in s.addrs
  BY <1>2, <1>3, InvFacts
<1>10. QED BY <1>1, <1>3, <1>8, <1>9, Keeps

\* A conflict: what arp_found does to the interface, and when it gives up.
LEMMA ConflictFacts ==
    ASSUME Inv, s.arp.addr # NULL, NEW e \in Outcome
    PROVE  LET u == arp_found([s EXCEPT !.asked = 0], e)
           IN /\ u \in State /\ Good(u) /\ u.addr \in {NULL, s.addr}
              /\ "faults" \notin world /\ s.addr # NULL /\ u.addr = NULL =>
                     ~Has("PERSISTDEFENCE") /\ s.defended \in 0..(DEFEND_INTERVAL - 1)
<1> DEFINE t == [s EXCEPT !.asked = 0]
           u == arp_found(t, e)
<1>1. s \in State /\ Good(s) /\ Core(s) /\ Fits(s, e)
  BY InvFacts, OutcomeFits
<1>2. /\ t \in State /\ t.addr = s.addr /\ t.running = s.running /\ t.picked = s.picked
      /\ t.at = s.at /\ t.arp = s.arp /\ t.row = s.row /\ t.conflicts = s.conflicts
      /\ t.since = s.since /\ t.addrs = s.addrs /\ t.quiet = s.quiet
      /\ t.defended = s.defended /\ t.crash = s.crash
  BY <1>1 DEF State
<1> HIDE DEF t
<1>3. Timed(t) /\ Counted(t) /\ Picked(t) /\ Pending(t)
  BY <1>1, <1>2 DEF Good, Core, Timed, Counted, Picked, Pending
<1>4. Listed(t) /\ Own(t) /\ Defended(t) /\ Watched(t) /\ Safe(t) /\ Fits(t, e)
  BY <1>1, <1>2 DEF Good, Core, Listed, Own, Defended, Watched, Safe, Fits
<1>5. CASE t.arp.addr \notin t.addrs
  <2>1. u = ipv4ll_found(t, e)
    BY <1>5 DEF arp_found
  <2>2. s.addr = NULL
    BY <1>1, <1>2, <1>5 DEF Core, Listed, Timed
  <2>3. u \in State /\ Good(u) /\ u.addr = NULL
    BY <1>2, <1>3, <1>4, <1>5, <2>1, FoundGood
  <2> QED BY <2>2, <2>3 DEF t
<1>6. CASE t.arp.addr \in t.addrs
  <2>1. Good(t)
    BY <1>3, <1>4, <1>6 DEF Good, Core, Asked
  <2>2. LET v == ipv4ll_defend_failed(t, e)
        IN v \in State /\ Good(v) /\ v.addr \in {NULL, s.addr}
    <3>1. Has("CONFIGURE") /\ t.addr = NULL => world \cap {"coincidence", "networks"} # {}
      BY <1>2, <1>3, <1>4, <1>6 DEF Timed, Own, Picked
    <3>2. /\ e.pick \in Addrs /\ e.pick \notin t.addrs /\ e.delay \in Nat
          /\ "faults" \notin world => e.open
      BY <1>4 DEF Fits
    <3> QED BY <1>2, <1>3, <1>4, <2>1, <3>1, <3>2, DefendFailedGood
  <2>3. CASE t.arp.defend # Off /\ t.arp.defend < DEFEND_INTERVAL /\ Has("PERSISTDEFENCE")
    <3>1. u = t
      BY <1>6, <2>3 DEF arp_found
    <3> QED BY <1>2, <2>1, <3>1 DEF t
  <2>4. CASE t.arp.defend # Off /\ t.arp.defend < DEFEND_INTERVAL /\ ~Has("PERSISTDEFENCE")
    <3>1. u = ipv4ll_defend_failed(t, e)
      BY <1>6, <2>4 DEF arp_found
    <3>2. s.defended \in 0..(DEFEND_INTERVAL - 1)
      <4>1. s.defended = t.arp.defend /\ s.arp.defend \in Ages(DEFEND_INTERVAL)
        BY <1>1, <1>2, <2>4 DEF Core, Defended, State, ArpState
      <4> QED BY <1>2, <2>4, <4>1, Constants DEF Ages
    <3> QED BY <2>2, <2>4, <3>1, <3>2 DEF t
  <2>5. CASE ~(t.arp.defend # Off /\ t.arp.defend < DEFEND_INTERVAL) /\ ~e.sent
    <3>1. u = ipv4ll_defend_failed(t, e)
      BY <1>6, <2>5 DEF arp_found
    <3>2. "faults" \in world
      BY <1>4, <2>5 DEF Fits
    <3> QED BY <2>2, <3>1, <3>2 DEF t
  <2>6. CASE ~(t.arp.defend # Off /\ t.arp.defend < DEFEND_INTERVAL) /\ e.sent
    <3> DEFINE arp == [t.arp EXCEPT !.defend = 0]
               v == [t EXCEPT !.arp = arp, !.defended = 0]
    <3>1. u = v
      <4>1. u = [t EXCEPT !.arp.defend = 0, !.defended = 0]
        BY <1>6, <2>6 DEF arp_found
      <4> QED BY <1>2, <4>1 DEF State
    <3>2. /\ arp \in ArpState /\ arp.addr = t.arp.addr /\ arp.probes = t.arp.probes
          /\ arp.claims = t.arp.claims /\ arp.defend = 0
      <4>1. t.arp \in ArpState
        BY <1>2 DEF State
      <4> QED BY <4>1, Constants DEF ArpState, Ages
    <3> HIDE DEF arp, u
    <3>3. /\ v \in State /\ v.addr = t.addr /\ v.running = t.running /\ v.picked = t.picked
          /\ v.at = t.at /\ v.arp = arp /\ v.row = t.row /\ v.conflicts = t.conflicts
          /\ v.since = t.since /\ v.addrs = t.addrs /\ v.asked = t.asked
          /\ v.quiet = t.quiet /\ v.defended = 0 /\ v.crash = t.crash
      <4>1. 0 \in Ages(DEFEND_INTERVAL)
        BY Constants DEF Ages
      <4> QED BY <1>2, <3>2, <4>1 DEF State
    <3> HIDE DEF v
    <3>4. Timed(v) /\ Counted(v) /\ Picked(v) /\ Pending(v)
      BY <2>1, <3>2, <3>3 DEF Good, Core, Timed, Counted, Picked, Pending
    <3>5. Listed(v) /\ Own(v) /\ Asked(v) /\ Defended(v) /\ Watched(v) /\ Safe(v)
      BY <2>1, <3>2, <3>3 DEF Good, Core, Listed, Own, Asked, Defended, Watched, Safe
    <3>6. u \in State /\ Good(u) /\ u.addr = s.addr
      BY <1>2, <3>1, <3>3, <3>4, <3>5 DEF Good, Core
    <3> QED BY <3>6 DEF u, t
  <2> QED BY <2>3, <2>4, <2>5, <2>6
<1>7. QED BY <1>5, <1>6

LEMMA ConflictStep == ASSUME Inv, Conflict PROVE Inv' /\ Claim
<1>1. PICK e \in Outcome : Becomes(arp_found([s EXCEPT !.asked = 0], e))
  BY DEF Conflict
<1> DEFINE u == arp_found([s EXCEPT !.asked = 0], e)
<1>2. u \in State /\ Good(u) /\ u.addr \in {NULL, s.addr}
  BY ConflictFacts DEF Conflict
<1>3. Becomes(u)
  BY <1>1
<1> HIDE DEF u
<1>4. QED BY <1>2, <1>3, InvFacts, Keeps

LEMMA DhcpStartStep == ASSUME Inv, dhcp_start1 PROVE Inv' /\ Claim
<1> DEFINE t == [s EXCEPT !.leased = FALSE]
<1>1. s \in State /\ Good(s)
  BY InvFacts
<1>2. t \in State /\ Alike(s, t) /\ t.addrs = s.addrs /\ t.addr = s.addr
  BY <1>1 DEF State, Alike
<1>3. Good(t)
  <2> HIDE DEF t
  <2> QED BY <1>1, <1>2, AlikeGood
<1>4. CASE Has("DHCP")
  <2>1. PICK d \in {ipv4ll_time, Off} : Becomes([t EXCEPT !.at["ipv4ll_start"] = d])
    BY <1>4 DEF dhcp_start1
  <2> DEFINE u == [t EXCEPT !.at["ipv4ll_start"] = d]
             v == [s EXCEPT !.leased = FALSE, !.at["ipv4ll_start"] = d]
  <2>2. u = v
    BY <1>1 DEF State
  <2>3. d \in Nat \cup {Off} /\ FALSE \in BOOLEAN
    BY Constants
  <2>4. v \in State /\ Good(v) /\ v.addr = s.addr
    BY <1>1, <2>3, LeaseGood
  <2>5. Becomes(u)
    BY <2>1
  <2> HIDE DEF u, v
  <2> QED BY <2>2, <2>4, <2>5, InvFacts, Keeps
<1>5. CASE ~Has("DHCP")
  <2>1. PICK e \in Outcome : Becomes(ipv4ll_start(t, e))
    BY <1>5 DEF dhcp_start1
  <2> HIDE DEF t
  <2>2. Fits(t, e)
    BY <1>2, OutcomeFits DEF Fits
  <2> QED BY <1>2, <1>3, <2>1, <2>2, StartGood, Keeps
<1>6. QED BY <1>4, <1>5

LEMMA FinishDadStep == ASSUME Inv, dhcp_finish_dad PROVE Inv' /\ Claim
<1> DEFINE t == ipv4ll_drop(s)
           u == [t EXCEPT !.leased = TRUE, !.at["ipv4ll_start"] = Off]
<1>1. Becomes(u)
  BY DEF dhcp_finish_dad
<1>2. t \in State /\ Good(t) /\ t.addr = NULL
  BY InvFacts, DropGood
<1>3. Off \in Nat \cup {Off} /\ TRUE \in BOOLEAN
  OBVIOUS
<1> HIDE DEF t
<1>4. u \in State /\ Good(u) /\ u.addr = NULL
  BY <1>2, <1>3, LeaseGood
<1> HIDE DEF u
<1>5. QED BY <1>1, <1>4, Keeps

LEMMA AutoConfigureStep == ASSUME Inv, AutoConfigure PROVE Inv' /\ Claim
<1>1. CASE Becomes(ipv4ll_drop(s))
  BY <1>1, InvFacts, DropGood, Keeps
<1>2. ASSUME NEW e \in Outcome, Becomes(ipv4ll_start(s, e))
      PROVE  Inv' /\ Claim
  BY <1>2, InvFacts, OutcomeFits, StartGood, Keeps
<1>3. QED BY <1>1, <1>2 DEF AutoConfigure

LEMMA CarrierLostStep == ASSUME Inv, CarrierLost PROVE Inv' /\ Claim
<1> DEFINE t == dhcpcd_drop(s)
           u == [t EXCEPT !.link = "down"]
<1>1. Becomes(u)
  BY DEF CarrierLost
<1>2. t \in State /\ Good(t) /\ t.addr = NULL
  BY InvFacts, DhcpcdDropGood
<1> HIDE DEF t
<1>3. u \in State /\ Good(u) /\ u.addr = NULL
  BY <1>2, LinkGood
<1> HIDE DEF u
<1>4. QED BY <1>1, <1>3, Keeps

LEMMA CarrierRoamsStep == ASSUME Inv, CarrierRoams PROVE Inv' /\ Claim
<1> DEFINE t == arp_free(s)
           u == [t EXCEPT !.link = "roaming"]
<1>1. Becomes(u) /\ "roaming" \in world
  BY DEF CarrierRoams
<1>2. t \in State /\ Rest(s, t) /\ t.arp = NoArp /\ NoArpTimers(t)
  BY InvFacts, FreeFacts
<1> HIDE DEF t
<1>3. Timed(t)
  BY <1>2, NoArpTyped DEF Timed, NoArpTimers, ArpTimers
<1>4. Listed(t) /\ Own(t) /\ Asked(t) /\ Defended(t) /\ Watched(t) /\ Safe(t)
  BY <1>1, <1>2, InvFacts, NoArpTyped
     DEF Core, Rest, Listed, Own, Asked, Defended, Watched, Safe
<1>5. Picked(t) /\ Counted(t) /\ Pending(t)
  BY <1>1, <1>2, InvFacts, NoArpTyped DEF Core, Rest, Picked, Counted, Pending
<1>6. Good(t)
  BY <1>3, <1>4, <1>5 DEF Good, Core
<1>7. u \in State /\ Good(u) /\ u.addr = t.addr
  BY <1>2, <1>6, LinkGood
<1> HIDE DEF u
<1>8. u.addr # NULL => u.addr \in s.addrs
  BY <1>2, <1>7, InvFacts DEF Rest
<1>9. QED BY <1>1, <1>7, <1>8, Keeps

LEMMA CarrierUpStep == ASSUME Inv, CarrierUp PROVE Inv' /\ Claim
<1>1. CASE Becomes([s EXCEPT !.link = "up"])
  <2> DEFINE u == [s EXCEPT !.link = "up"]
  <2>1. u \in State /\ Good(u) /\ u.addr = s.addr
    BY InvFacts, LinkGood
  <2>2. Becomes(u)
    BY <1>1
  <2> HIDE DEF u
  <2> QED BY <2>1, <2>2, InvFacts, Keeps
<1>2. CASE /\ "networks" \in world
           /\ Becomes([ipv4ll_reset(dhcpcd_drop(s)) EXCEPT !.link = "up"])
  <2> DEFINE d == dhcpcd_drop(s)
             t == ipv4ll_reset(d)
             u == [t EXCEPT !.link = "up"]
  <2>1. d \in State /\ Good(d) /\ d.addr = NULL /\ ~d.running
    BY InvFacts, DhcpcdDropGood
  <2>2. Becomes(u)
    BY <1>2
  <2> HIDE DEF d
  <2>3. t \in State /\ Good(t) /\ t.addr = NULL
    <3>1. t.addr = NULL
      <4>1. arp_free(d) \in State /\ Rest(d, arp_free(d))
        BY <2>1, FreeFacts
      <4> QED BY <2>1, <4>1 DEF ipv4ll_reset, Rest, State
    <3> QED BY <1>2, <2>1, <3>1, ResetGood
  <2> HIDE DEF t
  <2>4. u \in State /\ Good(u) /\ u.addr = NULL
    BY <2>3, LinkGood
  <2> HIDE DEF u
  <2> QED BY <2>2, <2>4, Keeps
<1>3. QED BY <1>1, <1>2 DEF CarrierUp

LEMMA StopStep == ASSUME Inv, stop_interface PROVE Inv' /\ Claim
<1> DEFINE t == dhcpcd_drop(s)
           u == [t EXCEPT !.link = "down", !.at = NoTimers]
<1>1. Becomes(u)
  BY DEF stop_interface
<1>2. t \in State /\ Good(t) /\ t.addr = NULL /\ ~t.running
  BY InvFacts, DhcpcdDropGood
<1>3. \A x \in Timers : NoTimers[x] = Off
  BY DEF NoTimers
<1> HIDE DEF t
<1>4. /\ u \in State /\ u.addr = t.addr /\ u.running = t.running /\ u.picked = t.picked
      /\ u.at = NoTimers /\ u.arp = t.arp /\ u.row = t.row /\ u.conflicts = t.conflicts
      /\ u.addrs = t.addrs /\ u.asked = t.asked /\ u.defended = t.defended
      /\ u.crash = t.crash
  BY <1>2, NoArpTyped DEF State
<1> HIDE DEF u
<1>5. Timed(u) /\ Counted(u) /\ Picked(u) /\ Pending(u)
  BY <1>2, <1>3, <1>4 DEF Good, Core, Timed, Counted, Picked, Pending, Timers, ArpTimers
<1>6. Listed(u) /\ Own(u) /\ Asked(u) /\ Defended(u) /\ Watched(u) /\ Safe(u)
  BY <1>2, <1>4 DEF Good, Core, Listed, Own, Asked, Defended, Watched, Safe
<1>7. Good(u)
  BY <1>5, <1>6 DEF Good, Core
<1>8. QED BY <1>1, <1>2, <1>4, <1>7, Keeps

LEMMA AddrAddedStep == ASSUME Inv, NEW a \in Addrs, AddrAdded(a) PROVE Inv' /\ Claim
<1> DEFINE u == [s EXCEPT !.addrs = @ \cup {a}]
<1>1. Becomes(u) /\ (a = s.picked => "coincidence" \in world)
  BY DEF AddrAdded
<1>2. /\ u \in State /\ u.addr = s.addr /\ u.running = s.running /\ u.picked = s.picked
      /\ u.at = s.at /\ u.arp = s.arp /\ u.row = s.row /\ u.conflicts = s.conflicts
      /\ u.since = s.since /\ u.addrs = s.addrs \cup {a} /\ u.asked = s.asked
      /\ u.quiet = s.quiet /\ u.defended = s.defended /\ u.crash = s.crash
  BY InvFacts DEF State
<1> HIDE DEF u
<1>3. Timed(u) /\ Counted(u) /\ Picked(u) /\ Pending(u)
  BY <1>2, InvFacts DEF Good, Core, Timed, Counted, Picked, Pending
<1>4. Listed(u) /\ Own(u) /\ Asked(u) /\ Defended(u) /\ Watched(u) /\ Safe(u)
  BY <1>1, <1>2, InvFacts DEF Core, Listed, Own, Asked, Defended, Watched, Safe
<1>5. Good(u)
  BY <1>3, <1>4 DEF Good, Core
<1>6. QED BY <1>1, <1>2, <1>5, InvFacts, Keeps

LEMMA AddrDeletedStep == ASSUME Inv, NEW a \in Addrs, AddrDeleted(a) PROVE Inv' /\ Claim
<1> DEFINE t == [s EXCEPT !.addrs = @ \ {a}]
<1>1. /\ t \in State /\ t.addr = s.addr /\ t.running = s.running /\ t.picked = s.picked
      /\ t.at = s.at /\ t.arp = s.arp /\ t.row = s.row /\ t.conflicts = s.conflicts
      /\ t.since = s.since /\ t.addrs = s.addrs \ {a} /\ t.asked = s.asked
      /\ t.quiet = s.quiet /\ t.defended = s.defended /\ t.crash = s.crash
  BY InvFacts DEF State
<1>2. a \in s.addrs
  BY DEF AddrDeleted
<1>3. Counted(t) /\ Safe(t)
  <2> HIDE DEF t
  <2> QED BY <1>1, InvFacts DEF Core, Counted, Safe
<1>4. CASE a # s.addr
  <2>1. Becomes(t)
    BY <1>4 DEF AddrDeleted
  <2> HIDE DEF t
  <2>2. Timed(t) /\ Picked(t) /\ Pending(t)
    BY <1>1, InvFacts DEF Good, Core, Timed, Picked, Pending
  <2>3. Listed(t) /\ Own(t) /\ Defended(t) /\ Watched(t)
    BY <1>1, <1>4, InvFacts DEF Core, Listed, Own, Defended, Watched
  <2>4. Asked(t)
    BY <1>1, <1>2, <1>4, InvFacts, Constants DEF Core, Asked, Own, Timed
  <2>5. Good(t)
    BY <1>3, <2>2, <2>3, <2>4 DEF Good, Core
  <2>6. t.addr # NULL => t.addr \in s.addrs
    BY <1>1, InvFacts
  <2> QED BY <1>1, <2>1, <2>5, <2>6, Keeps
<1>5. CASE a = s.addr
  <2>1. PICK e \in Outcome : Becomes(ipv4ll_defend_failed(t, e))
    BY <1>5 DEF AddrDeleted
  <2> HIDE DEF t
  <2>2. /\ e.pick \in Addrs /\ e.pick \notin t.addrs /\ e.delay \in Nat
        /\ "faults" \notin world => e.open
    BY <1>1, OutcomeFits DEF Fits
  <2>3. t.addr # NULL
    BY <1>1, <1>5, Constants
  <2>4. LET u == ipv4ll_defend_failed(t, e)
        IN u \in State /\ Good(u) /\ u.addr \in {NULL, t.addr}
    BY <1>1, <1>3, <2>2, <2>3, DefendFailedGood
  <2> QED BY <1>1, <2>1, <2>4, InvFacts, Keeps
<1>6. QED BY <1>4, <1>5

\* Time passes for every timeout and every age at once.
LEMMA TickStep == ASSUME Inv, Tick PROVE Inv' /\ Claim
<1> DEFINE at == [x \in Timers |-> IF s.at[x] = Off THEN Off ELSE s.at[x] - 1]
           arp == [s.arp EXCEPT !.defend = Older(s.arp.defend, DEFEND_INTERVAL)]
           u == [s EXCEPT !.at = at, !.arp = arp,
                          !.defended = Older(s.defended, DEFEND_INTERVAL),
                          !.quiet = Older(s.quiet, ANNOUNCE_WAIT),
                          !.since = Older(s.since, RATE_LIMIT_INTERVAL)]
<1>1. s \in State /\ Good(s) /\ Core(s)
  BY InvFacts
<1>2. Becomes(u)
  BY <1>1 DEF Tick, State
<1>3. /\ s.at \in [Timers -> Nat \cup {Off}] /\ s.arp \in ArpState
      /\ s.arp.defend \in Ages(DEFEND_INTERVAL) /\ s.defended \in Ages(DEFEND_INTERVAL)
      /\ s.quiet \in 0..ANNOUNCE_WAIT /\ s.since \in 0..RATE_LIMIT_INTERVAL
  BY <1>1 DEF State, ArpState
<1>4. /\ at \in [Timers -> Nat \cup {Off}]
      /\ \A x \in Timers : at[x] # Off <=> s.at[x] # Off
      /\ \A x \in Timers : s.at[x] # Off => s.at[x] \in Nat /\ at[x] = s.at[x] - 1
  BY <1>3 DEF Tick, Off
<1>5. /\ Older(s.arp.defend, DEFEND_INTERVAL) \in Ages(DEFEND_INTERVAL)
      /\ Older(s.defended, DEFEND_INTERVAL) \in Ages(DEFEND_INTERVAL)
      /\ s.arp.defend = Off => Older(s.arp.defend, DEFEND_INTERVAL) = Off
  BY <1>3, Constants DEF Older, Ages, Off
<1>6. /\ Older(s.quiet, ANNOUNCE_WAIT) =
             IF s.quiet < ANNOUNCE_WAIT THEN s.quiet + 1 ELSE ANNOUNCE_WAIT
      /\ Older(s.since, RATE_LIMIT_INTERVAL) =
             IF s.since < RATE_LIMIT_INTERVAL THEN s.since + 1 ELSE RATE_LIMIT_INTERVAL
      /\ Older(s.quiet, ANNOUNCE_WAIT) \in 0..ANNOUNCE_WAIT
      /\ Older(s.since, RATE_LIMIT_INTERVAL) \in 0..RATE_LIMIT_INTERVAL
  BY <1>3, Constants DEF Older, Off
<1>7. /\ arp \in ArpState /\ arp.addr = s.arp.addr /\ arp.probes = s.arp.probes
      /\ arp.claims = s.arp.claims /\ arp.defend = Older(s.arp.defend, DEFEND_INTERVAL)
  BY <1>3, <1>5 DEF ArpState
<1> HIDE DEF at, arp
<1>8. /\ u \in State /\ u.addr = s.addr /\ u.running = s.running /\ u.picked = s.picked
      /\ u.at = at /\ u.arp = arp /\ u.row = s.row /\ u.conflicts = s.conflicts
      /\ u.since = Older(s.since, RATE_LIMIT_INTERVAL) /\ u.addrs = s.addrs
      /\ u.asked = s.asked /\ u.quiet = Older(s.quiet, ANNOUNCE_WAIT)
      /\ u.defended = Older(s.defended, DEFEND_INTERVAL) /\ u.crash = s.crash
  BY <1>1, <1>4, <1>5, <1>6, <1>7 DEF State
<1> HIDE DEF u
<1>9. Timed(u)
  <2>1. \A x \in Timers : u.at[x] # Off => s.at[x] # Off
    BY <1>4, <1>8
  <2>2. \A x \in ArpTimers : u.at[x] # Off => u.arp.addr # NULL
    BY <1>1, <1>7, <1>8, <2>1 DEF Core, Timed, Timers
  <2>3. u.at["arp_probed"] # Off => u.at["arp_probed"] + u.quiet >= ANNOUNCE_WAIT
    <3>1. "arp_probed" \in Timers
      BY DEF Timers, ArpTimers
    <3>2. s.at["arp_probed"] # Off => s.at["arp_probed"] + s.quiet >= ANNOUNCE_WAIT
      BY <1>1 DEF Core, Timed
    <3>3. u.at["arp_probed"] # Off =>
              s.at["arp_probed"] \in Nat /\ u.at["arp_probed"] = s.at["arp_probed"] - 1
      BY <1>4, <1>8, <2>1, <3>1
    <3>4. u.quiet = IF s.quiet < ANNOUNCE_WAIT THEN s.quiet + 1 ELSE ANNOUNCE_WAIT
      BY <1>6, <1>8
    <3>5. s.quiet \in Nat
      BY <1>3, Constants
    <3>6. u.at["arp_probed"] # Off => s.at["arp_probed"] # Off
      BY <2>1, <3>1
    <3> QED BY <3>2, <3>3, <3>4, <3>5, <3>6, Constants DEF Off
  <2> QED BY <1>1, <1>7, <1>8, <2>1, <2>2, <2>3 DEF Core, Timed, Timers, ArpTimers
<1>10. Counted(u)
  <2>1. "ipv4ll_start_arp" \in Timers
    BY DEF Timers
  <2>2. u.at["ipv4ll_start_arp"] # Off =>
            /\ s.at["ipv4ll_start_arp"] # Off /\ s.at["ipv4ll_start_arp"] \in Nat
            /\ u.at["ipv4ll_start_arp"] = s.at["ipv4ll_start_arp"] - 1
    BY <1>4, <1>8, <2>1
  <2>3. u.since = IF s.since < RATE_LIMIT_INTERVAL THEN s.since + 1 ELSE RATE_LIMIT_INTERVAL
    BY <1>6, <1>8
  <2>4. s.since \in Nat
    BY <1>3, Constants
  <2>5. /\ s.row = s.conflicts
        /\ s.at["ipv4ll_start_arp"] # Off /\ s.row >= MAX_CONFLICTS =>
               s.at["ipv4ll_start_arp"] + s.since >= RATE_LIMIT_INTERVAL
    BY <1>1 DEF Core, Counted
  <2>6. u.row = s.row /\ u.conflicts = s.conflicts
    BY <1>8
  <2>7. u.at["ipv4ll_start_arp"] # Off /\ u.row >= MAX_CONFLICTS =>
            u.at["ipv4ll_start_arp"] + u.since >= RATE_LIMIT_INTERVAL
    <3> SUFFICES ASSUME u.at["ipv4ll_start_arp"] # Off, u.row >= MAX_CONFLICTS
                 PROVE  u.at["ipv4ll_start_arp"] + u.since >= RATE_LIMIT_INTERVAL
      OBVIOUS
    <3>1. s.at["ipv4ll_start_arp"] + s.since >= RATE_LIMIT_INTERVAL
      BY <2>2, <2>5, <2>6
    <3>2. RATE_LIMIT_INTERVAL \in Nat
      BY Constants
    <3> QED BY <2>2, <2>3, <2>4, <3>1, <3>2 DEF Off
  <2> QED BY <2>5, <2>6, <2>7 DEF Counted
<1>11. Listed(u) /\ Own(u) /\ Asked(u) /\ Watched(u) /\ Safe(u)
  BY <1>1, <1>7, <1>8 DEF Core, Listed, Own, Asked, Watched, Safe
<1>12. Defended(u)
  BY <1>1, <1>5, <1>7, <1>8 DEF Core, Defended
<1>13. Picked(u) /\ Pending(u)
  BY <1>1, <1>4, <1>7, <1>8 DEF Good, Core, Picked, Pending, Timers, ArpTimers
<1>14. Good(u)
  BY <1>9, <1>10, <1>11, <1>12, <1>13 DEF Good, Core
<1>15. QED BY <1>2, <1>8, <1>14, InvFacts, Keeps

----------------------------------------------------------------------------

LEMMA InitInv == Init => Inv
<1> SUFFICES ASSUME Init PROVE Inv
  OBVIOUS
<1>1. <<opt, world>> \in Setups
  <2>1. PICK c \in Setups : opt = c[1] /\ world = c[2]
    BY DEF Init
  <2>2. c \in (SUBSET OptionNames) \X (SUBSET Troubles)
    BY LLAssumption
  <2>3. c = <<c[1], c[2]>>
    BY <2>2
  <2> QED BY <2>1, <2>3
<1>2. /\ s.running = FALSE /\ s.picked = INADDR_ANY /\ s.addr = NULL /\ s.conflicts = 0
      /\ s.arp = NoArp /\ s.at = NoTimers /\ s.row = 0 /\ s.crash = FALSE
  BY DEF Init
<1>3. s \in State
  <2>1. 0 \in 0..ANNOUNCE_WAIT /\ 0 \in 0..RATE_LIMIT_INTERVAL /\ Off \in Ages(DEFEND_INTERVAL)
    BY Constants DEF Ages
  <2> QED BY <2>1, NoArpTyped DEF Init, State
<1>4. \A x \in Timers : s.at[x] = Off
  BY <1>2 DEF NoTimers
<1>5. Timed(s) /\ Counted(s) /\ Picked(s) /\ Pending(s)
  BY <1>2, <1>4, NoArpTyped DEF Timed, Counted, Picked, Pending, Timers, ArpTimers
<1>6. Listed(s) /\ Own(s) /\ Asked(s) /\ Defended(s) /\ Watched(s) /\ Safe(s)
  BY <1>2, NoArpTyped DEF Listed, Own, Asked, Defended, Watched, Safe
<1>7. QED BY <1>1, <1>3, <1>5, <1>6 DEF Inv, TypeOK, Good, Core

LEMMA NextInv == Inv /\ Next => Inv' /\ Claim
<1> SUFFICES ASSUME Inv, Next PROVE Inv' /\ Claim
  OBVIOUS
<1>1. CASE FireStart
  BY <1>1, FireStartStep
<1>2. CASE FireStartArp
  BY <1>2, FireStartArpStep
<1>3. CASE FireProbe
  BY <1>3, FireProbeStep
<1>4. CASE FireProbed
  BY <1>4, FireProbedStep
<1>5. CASE FireAnnounce
  BY <1>5, FireAnnounceStep
<1>6. CASE FireAnnounced
  BY <1>6, FireAnnouncedStep
<1>7. CASE Tick
  BY <1>7, TickStep
<1>8. CASE Conflict
  BY <1>8, ConflictStep
<1>9. CASE dhcp_start1
  BY <1>9, DhcpStartStep
<1>10. CASE dhcp_finish_dad
  BY <1>10, FinishDadStep
<1>11. CASE AutoConfigure
  BY <1>11, AutoConfigureStep
<1>12. CASE CarrierLost
  BY <1>12, CarrierLostStep
<1>13. CASE CarrierRoams
  BY <1>13, CarrierRoamsStep
<1>14. CASE CarrierUp
  BY <1>14, CarrierUpStep
<1>15. CASE stop_interface
  BY <1>15, StopStep
<1>16. CASE \E a \in Addrs : AddrAdded(a) \/ AddrDeleted(a)
  BY <1>16, AddrAddedStep, AddrDeletedStep
<1>17. QED
  BY <1>1, <1>2, <1>3, <1>4, <1>5, <1>6, <1>7, <1>8, <1>9, <1>10, <1>11, <1>12,
     <1>13, <1>14, <1>15, <1>16 DEF Next, Fire

LEMMA StutterInv == Inv /\ UNCHANGED vars => Inv'
<1> SUFFICES ASSUME Inv, UNCHANGED vars PROVE Inv'
  OBVIOUS
<1>1. s \in State /\ Good(s) /\ Becomes(s)
  BY InvFacts DEF vars, Becomes
<1>2. QED BY <1>1, Steps

LEMMA Invariance == Spec => []Inv
<1>1. Inv /\ [Next]_vars => Inv'
  BY NextInv, StutterInv
<1>2. QED BY InitInv, <1>1, PTL DEF Spec

\* ipv4ll.c and arp.c keep their counters and addresses in range: never more than
\* PROBE_NUM probes or ANNOUNCE_NUM claims for an address.
THEOREM LinkLocalTypes == Spec => []TypeOK
<1>1. Inv => TypeOK
  BY DEF Inv
<1>2. QED BY Invariance, <1>1, PTL

\* state->addr of ipv4ll.c is always an entry of the interface's list, the picked
\* address, and the one ARP watches.
THEOREM AddrStaysListed == Spec => []AddrIsListed
<1>1. Inv => AddrIsListed
  BY DEF Inv, Good, Core, Listed, Timed, AddrIsListed
<1>2. QED BY Invariance, <1>1, PTL

\* ipv4ll_defend_failed always has an address to delete, unless the probed address
\* is configured by somebody else or 0.0.0.0 is probed.
THEOREM DefendFailedHasAddress == Spec => []DeletesItsAddress
<1>1. Inv => DeletesItsAddress
  BY DEF Inv, Good, Core, Safe, DeletesItsAddress
<1>2. QED BY Invariance, <1>1, PTL

\* IPv4LL without an address always has a probe or a retry pending.
THEOREM LinkLocalNeverStuck == Spec => []NeverStuck
<1>1. Inv => NeverStuck
  BY DEF Inv, Good, Pending, NeverStuck
<1>2. QED BY Invariance, <1>1, PTL

\* The address IPv4LL uses always has an ARP state that hears conflicts.
THEOREM AddrStaysWatched == Spec => []AddrIsWatched
<1>1. Inv => AddrIsWatched
  BY DEF Inv, Good, Core, Watched, AddrIsWatched
<1>2. QED BY Invariance, <1>1, PTL

\* IPv4LL always works on an address: one is pending, or in use, listed, watched and
\* there to be deleted.
THEOREM AddressIsKept == Spec => []AddrIsKept
<1>1. NeverStuck /\ AddrIsListed /\ AddrIsWatched /\ DeletesItsAddress => AddrIsKept
  BY DEF AddrIsKept
<1>2. QED
  BY <1>1, LinkLocalNeverStuck, AddrStaysListed, AddrStaysWatched,
     DefendFailedHasAddress, PTL

\* ipv4ll_not_found adds an address only after PROBE_NUM probes for it and
\* ANNOUNCE_WAIT of silence, for any interleaving with drops, starts and retries.
THEOREM ClaimsFollowProbes == Spec => ClaimsAreProbed
<1>1. Inv /\ [Next]_vars =>
        [ "coincidence" \notin world /\ s'.addr # NULL /\ s'.addr \notin s.addrs =>
          s.asked >= PROBE_NUM /\ s.quiet >= ANNOUNCE_WAIT ]_vars
  BY NextInv DEF Claim
<1>2. QED BY Invariance, <1>1, PTL DEF Spec, ClaimsAreProbed

\* arp_found gives an address up only if it was defended within DEFEND_INTERVAL,
\* and never with persistent defence.
THEOREM AddressesAreDefended == Spec => GivesUpOnlyContested
<1>1. Inv /\ [Next]_vars =>
        [ "faults" \notin world /\ Conflict /\ s.addr # NULL /\ s'.addr = NULL =>
          ~Has("PERSISTDEFENCE") /\ s.defended \in 0..(DEFEND_INTERVAL - 1) ]_vars
  <2> SUFFICES ASSUME Inv, "faults" \notin world, Conflict, s.addr # NULL, s'.addr = NULL
               PROVE  ~Has("PERSISTDEFENCE") /\ s.defended \in 0..(DEFEND_INTERVAL - 1)
    OBVIOUS
  <2>1. PICK e \in Outcome : Becomes(arp_found([s EXCEPT !.asked = 0], e))
    BY DEF Conflict
  <2>2. s' = arp_found([s EXCEPT !.asked = 0], e) /\ s.arp.addr # NULL
    BY <2>1 DEF Becomes, Conflict
  <2> QED BY <2>2, ConflictFacts
<1>2. QED BY Invariance, <1>1, PTL DEF Spec, GivesUpOnlyContested

\* After MAX_CONFLICTS conflicts in a row the next address is not probed before
\* RATE_LIMIT_INTERVAL has passed (ipv4ll_found).
THEOREM ConflictsAreLimited == Spec => RetriesAreLimited
<1>1. Inv /\ [Next]_vars =>
        [ FireStartArp /\ s.row >= MAX_CONFLICTS => s.since >= RATE_LIMIT_INTERVAL ]_vars
  <2> SUFFICES ASSUME Inv, FireStartArp, s.row >= MAX_CONFLICTS
               PROVE  s.since >= RATE_LIMIT_INTERVAL
    OBVIOUS
  <2>1. s.at["ipv4ll_start_arp"] = 0 /\ s.since \in Nat
    BY InvFacts, Constants DEF FireStartArp, Due, State
  <2> QED BY <2>1, InvFacts DEF Core, Counted, Off
<1>2. QED BY Invariance, <1>1, PTL DEF Spec, RetriesAreLimited
=============================================================================
