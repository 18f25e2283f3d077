---------------------------- MODULE LeaseTimes ----------------------------
(***************************************************************************)
(* When a DHCPv4 lease is renewed, rebound and given up: the times of      *)
(* src/src/dhcp.c, which Dhcp4 leaves open, on a clock of whole seconds.   *)
(*                                                                         *)
(* A server names a lease time and, if it likes, when to renew and to      *)
(* rebind; dhcp_bind makes sense of any combination.  The lease file       *)
(* carries the server's words over a restart, and its mtime when they were *)
(* heard.  How an exchange with a server goes is Dhcp4's subject: here it  *)
(* is a client without a lease (SEEK) and the ACK that ends it.  The event *)
(* loop is prompt: time does not pass a timeout that is due.               *)
(***************************************************************************)
EXTENDS Integers

CONSTANTS
    DHCP_MIN_LEASE,          \* 20 in the code
    DHCP_INFINITE_LIFETIME,  \* ~0U: also the largest value of a uint32_t
    Reboot,                  \* ifo->reboot
    LastLease,               \* DHCPCD_LASTLEASE
    Offers,                  \* the times servers send, 0 for an absent T1 or T2
    MaxClock                 \* bound on the clock

uint32 == 0..DHCP_INFINITE_LIFETIME

Times == [leasetime : uint32, renewaltime : uint32, rebindtime : uint32]

ASSUME TimesAssumption ==
    /\ DHCP_MIN_LEASE \in Nat /\ DHCP_MIN_LEASE >= 2
    /\ DHCP_INFINITE_LIFETIME \in Nat /\ DHCP_INFINITE_LIFETIME > DHCP_MIN_LEASE
    /\ Reboot \in Nat \ {0} /\ LastLease \in BOOLEAN
    /\ Offers \subseteq Times /\ MaxClock \in Nat

VARIABLES
    clock,
    st,        \* SEEK, REBOOT, BOUND, RENEW or REBIND
    lease,     \* the times in state->lease
    at,        \* when each pending timeout is due
    file,      \* the lease file: the server's times, and its mtime
    probing,   \* the last lease's address is being probed
    vltime,    \* until when the kernel keeps the address, 0 without one
    granted    \* history: until when the server granted the lease on file

vars == <<clock, st, lease, at, file, probing, vltime, granted>>

NoFile == [times |-> [leasetime |-> 0, renewaltime |-> 0, rebindtime |-> 0],
           mtime |-> -1]

Timers == {"startrenew", "rebind", "expire", "lastlease"}

Off == -1
NoTimers == [t \in Timers |-> Off]

Forever == MaxClock + DHCP_INFINITE_LIFETIME

\* The end of a span that starts now.
After(t) == IF t = DHCP_INFINITE_LIFETIME THEN Forever ELSE clock + t

----------------------------------------------------------------------------

\* Wrong: lets a server rebind at the very end of the lease.
BugRebindsAtEnd(o, len) ==
    IF o.rebindtime = 0 \/ o.rebindtime > len
    THEN (len * 7) \div 8 ELSE o.rebindtime

\* dhcp_bind: T2 is 7/8 of the lease unless the server has a better idea.
rebindtime(o, len) ==
    IF o.rebindtime = 0 \/ o.rebindtime >= len
    THEN (len * 7) \div 8 ELSE o.rebindtime

\* Wrong: takes an absent renewal time for one of 0 seconds.
BugRenewsAtOnce(o, len) ==
    IF o.renewaltime > rebindtime(o, len) THEN len \div 2 ELSE o.renewaltime

\* dhcp_bind: T1 is half of the lease; one after T2 is replaced by that too,
\* which need not be before T2.
renewaltime(o, len) ==
    IF o.renewaltime = 0 \/ o.renewaltime > rebindtime(o, len)
    THEN len \div 2 ELSE o.renewaltime

\* The times dhcp_bind uses for the times in a message.
Bound(o) ==
    IF o.leasetime = DHCP_INFINITE_LIFETIME
    THEN [leasetime |-> o.leasetime, renewaltime |-> o.leasetime,
          rebindtime |-> o.leasetime]
    ELSE LET len == IF o.leasetime < DHCP_MIN_LEASE
                    THEN DHCP_MIN_LEASE ELSE o.leasetime
         IN [leasetime |-> len, renewaltime |-> renewaltime(o, len),
             rebindtime |-> rebindtime(o, len)]

\* The timeouts dhcp_bind sets for times l.
Timed(l) ==
    IF l.leasetime = DHCP_INFINITE_LIFETIME THEN NoTimers
    ELSE [NoTimers EXCEPT !["startrenew"] = clock + l.renewaltime,
                          !["rebind"] = clock + l.rebindtime,
                          !["expire"] = clock + l.leasetime]

\* Wrong: unsigned arithmetic taken for signed.
BugSigned(t, l) == t - l

\* A uint32_t less l seconds: one that was absent, or is over, wraps.
Offset(t, l) == (t - l) % (DHCP_INFINITE_LIFETIME + 1)

----------------------------------------------------------------------------

Init ==
    /\ clock = 0 /\ st = "SEEK" /\ lease = NoFile.times /\ at = NoTimers
    /\ file = NoFile /\ probing = FALSE /\ vltime = 0 /\ granted = 0

\* dhcp_bind, after dhcp_arp_address has deleted every timeout; the address is
\* added with the lease's lifetime.
dhcp_bind(o) ==
    /\ st' = "BOUND" /\ probing' = FALSE
    /\ lease' = Bound(o) /\ at' = Timed(lease') /\ vltime' = After(lease'.leasetime)

\* A server acknowledges the lease: it is bound and written to the file.
RecvAck(o) ==
    /\ st # "BOUND"
    /\ dhcp_bind(o)
    /\ file' = [times |-> o, mtime |-> clock]
    /\ granted' = After(lease'.leasetime)
    /\ UNCHANGED clock

Due(t) == at[t] # Off /\ at[t] <= clock

\* dhcp_startrenew: only in BOUND and RENEW.
FireStartRenew ==
    /\ Due("startrenew")
    /\ at' = [at EXCEPT !["startrenew"] = Off]
    /\ st' = IF st \in {"BOUND", "RENEW"} THEN "RENEW" ELSE st
    /\ UNCHANGED <<clock, lease, file, probing, vltime, granted>>

FireRebind ==
    /\ Due("rebind")
    /\ at' = [at EXCEPT !["rebind"] = Off] /\ st' = "REBIND"
    /\ UNCHANGED <<clock, lease, file, probing, vltime, granted>>

\* dhcp_expire: the end of the lease, or of waiting for a server to confirm the
\* one on file.  The lease is dropped and the file unlinked.
FireExpire ==
    /\ Due("expire")
    /\ st' = "SEEK" /\ at' = NoTimers /\ file' = NoFile /\ vltime' = 0
    /\ UNCHANGED <<clock, lease, probing, granted>>

\* dhcp_lastlease: binds the lease on file at once if its address is still
\* there, else once it has been probed, and in both cases goes on discovering,
\* which deletes every timeout.
FireLastLease ==
    /\ Due("lastlease")
    /\ st' = "SEEK" /\ at' = NoTimers
    /\ IF vltime > clock
       THEN /\ lease' = Bound(file.times) /\ vltime' = After(lease'.leasetime)
            /\ UNCHANGED probing
       ELSE probing' = TRUE /\ UNCHANGED <<lease, vltime>>
    /\ UNCHANGED <<clock, file, granted>>

\* dhcp_finish_dad for the last lease's address; the file is not written.
ProbeEnds ==
    /\ probing /\ dhcp_bind(file.times) /\ UNCHANGED <<clock, file, granted>>

\* dhcp_reboot: asks for the lease on file, for Reboot seconds.
dhcp_reboot ==
    /\ st' = "REBOOT"
    /\ at' = [NoTimers EXCEPT ![IF LastLease THEN "lastlease" ELSE "expire"] =
                                clock + Reboot]

\* Wrong: does not ask whether the lease on file is over.
BugRestartsAny ==
    IF file = NoFile
    THEN st' = "SEEK" /\ at' = NoTimers /\ UNCHANGED lease
    ELSE dhcp_reboot /\ lease' = file.times

\* dhcp_start1: a lease on file that is not over is asked for again; its times
\* are reduced by the file's age.
dhcp_start1 ==
    IF \/ file = NoFile
       \/ /\ file.times.leasetime # DHCP_INFINITE_LIFETIME
          /\ file.times.leasetime < clock - file.mtime
    THEN st' = "SEEK" /\ at' = NoTimers /\ UNCHANGED lease
    ELSE /\ dhcp_reboot
         /\ lease' = IF file.times.leasetime = DHCP_INFINITE_LIFETIME
                     THEN file.times
                     ELSE LET l == clock - file.mtime
                          IN [leasetime |-> Offset(file.times.leasetime, l),
                              renewaltime |-> Offset(file.times.renewaltime, l),
                              rebindtime |-> Offset(file.times.rebindtime, l)]

\* The process ends and is started again; the kernel keeps the address.
Restart ==
    /\ dhcp_start1 /\ probing' = FALSE
    /\ UNCHANGED <<clock, file, vltime, granted>>

Tick ==
    /\ clock < MaxClock /\ \A t \in Timers : ~Due(t)
    /\ clock' = clock + 1
    /\ UNCHANGED <<st, lease, at, file, probing, vltime, granted>>

Next ==
    \/ Tick \/ FireStartRenew \/ FireRebind \/ FireExpire \/ FireLastLease
    \/ ProbeEnds \/ Restart \/ \E o \in Offers : RecvAck(o)

Spec == Init /\ [][Next]_vars

----------------------------------------------------------------------------

\* Type invariant: times stay within a uint32_t, also those of a lease whose
\* file is older than its renewal time.
TypeOK ==
    /\ clock \in Nat /\ st \in {"SEEK", "REBOOT", "BOUND", "RENEW", "REBIND"}
    /\ lease \in Times /\ at \in [Timers -> Nat \cup {Off}]
    /\ file \in [times : Times, mtime : Nat \cup {-1}]
    /\ probing \in BOOLEAN /\ vltime \in Nat /\ granted \in Nat

\* Whatever times a server sends, a lease does not end before the client has
\* broadcast for another server to extend it: dhcp_bind puts rebinding strictly
\* before the end, so when the end is due the client is rebinding.
RebindsBeforeEnd ==
    Due("expire") /\ st # "REBOOT" => st = "REBIND"

\* A server that answers at once cannot make the client renew in a loop without
\* a pause: renewing starts later than the lease (dhcp_bind has no T1 of 0).
RenewalTakesTime == st \in {"RENEW", "REBIND"} => clock > file.mtime

\* A restarted client asks for the lease on file only while the lease lasts
\* (dhcp_start1 compares the file's age with the lease time).
RestartsWithLiveLease == [][Restart /\ st' = "REBOOT" => clock <= granted]_vars

\* The kernel is not told to keep an address for longer than the server granted
\* it; dhcp_start1: "Offset lease times and check expiry".
KeptNoLongerThanGranted == vltime <= granted

\* The times dhcp_bind derives leave time to extend the lease: renewing and rebinding
\* start after it was granted, and rebinding before it ends, whatever the server sends.
LeaseLeavesTime == RebindsBeforeEnd /\ RenewalTakesTime
=============================================================================
