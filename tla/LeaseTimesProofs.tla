------------------------- MODULE LeaseTimesProofs -------------------------
(***************************************************************************)
(* What holds of the lease timeouts for every combination of times a       *)
(* server can send, every least lease of two seconds or more, and with and *)
(* without the last lease option.                                          *)
(***************************************************************************)
EXTENDS LeaseTimes, TLAPS

\* A timeout that is pending is not overdue.
Prompt == \A t \in Timers : at[t] # Off => clock <= at[t]

\* Until the client is rebinding, its rebinding is pending and before the end.
RebindFirst ==
    /\ st = "SEEK" => at["expire"] = Off
    /\ st \in {"BOUND", "RENEW"} /\ at["expire"] # Off =>
          at["rebind"] # Off /\ at["rebind"] < at["expire"]

\* Renewing and rebinding come later than the lease they extend.
LaterThanFile ==
    /\ file.mtime <= clock
    /\ \A t \in {"startrenew", "rebind"} : at[t] # Off => at[t] > file.mtime

\* The server granted the lease on file for as long as the file says.
FileGranted ==
    file # NoFile =>
        granted >= (IF file.times.leasetime = DHCP_INFINITE_LIFETIME
                    THEN MaxClock ELSE file.mtime + file.times.leasetime)

Inv ==
    /\ TypeOK /\ clock <= MaxClock /\ Prompt /\ RebindFirst
    /\ LaterThanFile /\ RenewalTakesTime /\ FileGranted

\* What dhcp_bind makes of any times: a finite lease of at least the least
\* length, renewed and rebound within it, neither at once nor at its end.
LEMMA BoundTimes ==
    ASSUME NEW o \in Times
    PROVE  /\ Bound(o) \in Times
           /\ Bound(o).leasetime = DHCP_INFINITE_LIFETIME <=>
                 o.leasetime = DHCP_INFINITE_LIFETIME
           /\ Bound(o).leasetime >= o.leasetime
           /\ Bound(o).leasetime # DHCP_INFINITE_LIFETIME =>
                 /\ Bound(o).renewaltime \in 1..(Bound(o).leasetime - 1)
                 /\ Bound(o).rebindtime \in 1..(Bound(o).leasetime - 1)
<1> DEFINE len == IF o.leasetime < DHCP_MIN_LEASE
                  THEN DHCP_MIN_LEASE ELSE o.leasetime
           inf == o.leasetime = DHCP_INFINITE_LIFETIME
<1>1. /\ o.leasetime \in uint32 /\ o.renewaltime \in uint32
      /\ o.rebindtime \in uint32
  BY DEF Times
<1>2. CASE inf
  BY <1>1, <1>2, TimesAssumption DEF Bound, Times, uint32
<1>3. CASE ~inf
  <2>1. len \in Nat /\ len >= 2 /\ len < DHCP_INFINITE_LIFETIME
        /\ len >= o.leasetime
    BY <1>1, <1>3, TimesAssumption DEF uint32
  <2> HIDE DEF len
  <2>2. (len * 7) \div 8 \in 1..(len - 1) /\ len \div 2 \in 1..(len - 1)
    BY <2>1
  <2>3. rebindtime(o, len) \in 1..(len - 1)
    BY <1>1, <2>1, <2>2 DEF rebindtime, uint32
  <2>4. renewaltime(o, len) \in 1..(len - 1)
    BY <1>1, <2>1, <2>2, <2>3 DEF renewaltime, uint32
  <2>5. Bound(o) = [leasetime |-> len, renewaltime |-> renewaltime(o, len),
                    rebindtime |-> rebindtime(o, len)]
    BY <1>3 DEF Bound, len
  <2> QED  BY <1>3, <2>1, <2>3, <2>4, <2>5, TimesAssumption DEF Times, uint32
<1> QED  BY <1>2, <1>3

\* dhcp_bind sets the timeouts of the lease in their order, all in the future.
LEMMA BindTimers ==
    ASSUME Inv, NEW o \in Times, dhcp_bind(o)
    PROVE  /\ lease' \in Times /\ at' \in [Timers -> Nat \cup {Off}]
           /\ vltime' \in Nat /\ After(Bound(o).leasetime) \in Nat
           /\ \A t \in Timers : at'[t] # Off => clock < at'[t]
           /\ at'["expire"] # Off =>
                 at'["rebind"] # Off /\ at'["rebind"] < at'["expire"]
<1> DEFINE l == Bound(o)
<1>1. clock \in Nat   BY DEF Inv, TypeOK
<1>2. l \in Times   BY BoundTimes
<1>3. /\ l.leasetime \in Nat /\ l.renewaltime \in Nat /\ l.rebindtime \in Nat
  BY <1>2, TimesAssumption DEF Times, uint32
<1>4. After(l.leasetime) \in Nat
  BY <1>1, <1>3, TimesAssumption DEF After, Forever
<1>5. at' = Timed(l) /\ lease' = l /\ vltime' = After(l.leasetime)
  BY DEF dhcp_bind
<1>6. CASE l.leasetime = DHCP_INFINITE_LIFETIME
  <2>1. at' = NoTimers   BY <1>5, <1>6 DEF Timed
  <2> QED  BY <1>2, <1>4, <1>5, <2>1 DEF NoTimers, Off, Timers
<1>7. CASE l.leasetime # DHCP_INFINITE_LIFETIME
  <2>1. l.renewaltime >= 1 /\ l.rebindtime >= 1 /\ l.rebindtime < l.leasetime
    BY <1>3, <1>7, BoundTimes
  <2> HIDE DEF l
  <2>2. at' = [NoTimers EXCEPT !["startrenew"] = clock + l.renewaltime,
                               !["rebind"] = clock + l.rebindtime,
                               !["expire"] = clock + l.leasetime]
    BY <1>5, <1>7 DEF Timed
  <2>3. /\ at' \in [Timers -> Nat \cup {Off}]
        /\ at'["startrenew"] = clock + l.renewaltime
        /\ at'["rebind"] = clock + l.rebindtime
        /\ at'["expire"] = clock + l.leasetime /\ at'["lastlease"] = Off
    BY <1>1, <1>3, <2>2 DEF NoTimers, Timers, Off
  <2>4. \A t \in Timers : at'[t] # Off => clock < at'[t]
    BY <1>1, <1>3, <2>1, <2>3 DEF Timers, Off
  <2>5. at'["rebind"] # Off /\ at'["rebind"] < at'["expire"]
    BY <1>1, <1>3, <2>1, <2>3 DEF Off
  <2> QED  BY <1>2, <1>4, <1>5, <2>3, <2>4, <2>5 DEF l
<1> QED  BY <1>6, <1>7

\* No file and no timeouts are well-typed.
LEMMA NothingTyped ==
    /\ NoFile.times \in Times /\ NoFile.mtime = -1
    /\ NoFile \in [times : Times, mtime : Nat \cup {-1}]
    /\ NoTimers \in [Timers -> Nat \cup {Off}]
<1>1. 0 \in uint32   BY TimesAssumption DEF uint32
<1>2. NoFile.times \in Times /\ NoFile.mtime = -1   BY <1>1 DEF NoFile, Times
<1>3. NoFile \in [times : Times, mtime : Nat \cup {-1}]
  BY <1>1 DEF NoFile, Times
<1>4. NoTimers \in [Timers -> Nat \cup {Off}]   BY DEF NoTimers
<1> QED  BY <1>2, <1>3, <1>4

\* The initial state.
LEMMA InitInv == Init => Inv
<1> SUFFICES ASSUME Init PROVE Inv
  OBVIOUS
<1>1. TypeOK
  BY NothingTyped DEF Init, TypeOK
<1>2. \A t \in Timers : at[t] = Off   BY DEF Init, NoTimers
<1>3. Prompt /\ RebindFirst   BY <1>2 DEF Prompt, RebindFirst, Init, Timers
<1>4. LaterThanFile /\ RenewalTakesTime
  BY <1>2 DEF LaterThanFile, RenewalTakesTime, Init, NoFile, Timers
<1>5. FileGranted   BY DEF FileGranted, Init
<1>6. clock <= MaxClock   BY TimesAssumption DEF Init
<1> QED  BY <1>1, <1>3, <1>4, <1>5, <1>6 DEF Inv

\* An ACK starts a lease: everything counts from now.
LEMMA AckInv ==
    ASSUME Inv, NEW o \in Offers, RecvAck(o)
    PROVE  Inv'
<1>1. o \in Times   BY TimesAssumption
<1>2. dhcp_bind(o) /\ file' = [times |-> o, mtime |-> clock] /\ clock' = clock
      /\ granted' = After(Bound(o).leasetime)
  BY DEF RecvAck, dhcp_bind
<1>3. clock \in Nat /\ clock <= MaxClock   BY DEF Inv, TypeOK
<1>4. st' = "BOUND" /\ probing' = FALSE   BY <1>2 DEF dhcp_bind
<1>5. TypeOK'   BY <1>1, <1>2, <1>3, <1>4, BindTimers DEF TypeOK
<1>6. Prompt' /\ RebindFirst'
  BY <1>1, <1>2, <1>3, <1>4, <1>5, BindTimers DEF Prompt, RebindFirst, TypeOK, Timers, Off
<1>7. LaterThanFile' /\ RenewalTakesTime'
  BY <1>1, <1>2, <1>3, <1>4, BindTimers DEF LaterThanFile, RenewalTakesTime, Timers
<1>8. FileGranted'
  <2>1. o.leasetime \in Nat /\ Bound(o).leasetime \in Nat
    BY <1>1, BoundTimes, TimesAssumption DEF Times, uint32
  <2>2. Bound(o).leasetime >= o.leasetime
        /\ (Bound(o).leasetime = DHCP_INFINITE_LIFETIME <=>
            o.leasetime = DHCP_INFINITE_LIFETIME)
    BY <1>1, BoundTimes
  <2>3. granted' >= (IF o.leasetime = DHCP_INFINITE_LIFETIME
                     THEN MaxClock ELSE clock + o.leasetime)
    BY <1>2, <1>3, <2>1, <2>2, TimesAssumption DEF After, Forever
  <2> QED  BY <1>2, <2>3 DEF FileGranted
<1> QED  BY <1>2, <1>3, <1>5, <1>6, <1>7, <1>8 DEF Inv

\* The last lease is bound from its file, which stays as it is.
LEMMA ProbeInv ==
    ASSUME Inv, ProbeEnds
    PROVE  Inv'
<1>1. file.times \in Times   BY DEF Inv, TypeOK
<1>2. dhcp_bind(file.times) /\ UNCHANGED <<clock, file, granted>>
  BY DEF ProbeEnds
<1>3. st' = "BOUND" /\ probing' = FALSE   BY <1>2 DEF dhcp_bind
<1>4. clock \in Nat /\ file.mtime \in Int /\ file.mtime <= clock
  BY DEF Inv, TypeOK, LaterThanFile
<1>5. TypeOK'   BY <1>1, <1>2, <1>3, BindTimers DEF Inv, TypeOK
<1>6. Prompt' /\ RebindFirst'
  BY <1>1, <1>2, <1>3, <1>4, <1>5, BindTimers DEF Prompt, RebindFirst, TypeOK, Timers, Off
<1>7. LaterThanFile' /\ RenewalTakesTime'
  BY <1>1, <1>2, <1>3, <1>4, <1>5, BindTimers
     DEF LaterThanFile, RenewalTakesTime, TypeOK, Timers, Off
<1>8. FileGranted' /\ (clock <= MaxClock)'   BY <1>2 DEF Inv, FileGranted
<1> QED  BY <1>5, <1>6, <1>7, <1>8 DEF Inv

\* A step that leaves no timeout pending, and the file as it is or gone.
LEMMA ClearedInv ==
    ASSUME Inv, TypeOK', st' = "SEEK", at' = NoTimers, clock' = clock,
           granted' = granted, file' = file \/ file' = NoFile
    PROVE  Inv'
<1>1. \A t \in Timers : at'[t] = Off   BY DEF NoTimers
<1>2. Prompt' /\ RebindFirst'   BY <1>1 DEF Prompt, RebindFirst, Timers
<1>3. LaterThanFile' /\ RenewalTakesTime'
  BY <1>1 DEF Inv, TypeOK, LaterThanFile, RenewalTakesTime, NoFile, Timers
<1>4. FileGranted' /\ (clock <= MaxClock)'   BY DEF Inv, FileGranted
<1> QED  BY <1>2, <1>3, <1>4 DEF Inv

\* dhcp_startrenew and dhcp_rebind: the timeout that fired was due now.
LEMMA RenewInv ==
    ASSUME Inv, FireStartRenew \/ FireRebind
    PROVE  Inv'
<1>0. /\ clock \in Nat /\ at \in [Timers -> Nat \cup {Off}]
      /\ file.mtime \in Int /\ clock <= MaxClock
  BY DEF Inv, TypeOK
<1>1. UNCHANGED <<clock, lease, file, probing, vltime, granted>>
  BY DEF FireStartRenew, FireRebind
<1>2. PICK t \in {"startrenew", "rebind"} :
         /\ Due(t) /\ at' = [at EXCEPT ![t] = Off]
         /\ t = "startrenew" => st' = IF st \in {"BOUND", "RENEW"} THEN "RENEW" ELSE st
         /\ t = "rebind" => st' = "REBIND"
  BY DEF FireStartRenew, FireRebind
<1>3. at' \in [Timers -> Nat \cup {Off}] /\ at'[t] = Off
      /\ \A u \in Timers \ {t} : at'[u] = at[u]
  BY <1>0, <1>2 DEF Timers, Off
<1>4. TypeOK'   BY <1>1, <1>2, <1>3 DEF Inv, TypeOK
<1>5. Prompt'   BY <1>1, <1>3 DEF Inv, Prompt
<1>6. RebindFirst'   BY <1>2, <1>3 DEF Inv, RebindFirst, Timers
<1>7. clock > file.mtime
  BY <1>0, <1>2 DEF Inv, LaterThanFile, Due, Timers, Off
<1>8. LaterThanFile' /\ RenewalTakesTime'
  BY <1>1, <1>3, <1>7 DEF Inv, LaterThanFile, RenewalTakesTime, Timers
<1>9. FileGranted' /\ (clock <= MaxClock)'   BY <1>0, <1>1 DEF Inv, FileGranted
<1> QED  BY <1>4, <1>5, <1>6, <1>8, <1>9 DEF Inv

\* dhcp_expire drops the lease and its file.
LEMMA ExpireInv ==
    ASSUME Inv, FireExpire
    PROVE  Inv'
<1>1. TypeOK'   BY NothingTyped DEF Inv, TypeOK, FireExpire
<1> QED  BY <1>1, ClearedInv DEF FireExpire

\* dhcp_lastlease ends in a discovery, with or without a probe.
LEMMA LastLeaseInv ==
    ASSUME Inv, FireLastLease
    PROVE  Inv'
<1>1. /\ clock \in Nat /\ file.times \in Times /\ lease \in Times
      /\ vltime \in Nat /\ probing \in BOOLEAN
  BY DEF Inv, TypeOK
<1>2. Bound(file.times) \in Times   BY <1>1, BoundTimes
<1>3. After(Bound(file.times).leasetime) \in Nat
  BY <1>1, <1>2, TimesAssumption DEF After, Forever, Times, uint32
<1>4. lease' \in Times /\ vltime' \in Nat /\ probing' \in BOOLEAN
  BY <1>1, <1>2, <1>3 DEF FireLastLease
<1>5. TypeOK'   BY <1>4, NothingTyped DEF Inv, TypeOK, FireLastLease
<1> QED  BY <1>5, ClearedInv DEF FireLastLease

\* dhcp_start1: one timeout at most, and it is neither renewal nor rebinding.
LEMMA RestartInv ==
    ASSUME Inv, Restart
    PROVE  Inv'
<1>0. /\ clock \in Nat /\ clock <= MaxClock /\ lease \in Times
      /\ file.times \in Times /\ file.mtime \in Int
  BY DEF Inv, TypeOK
<1>1. UNCHANGED <<clock, file, vltime, granted>> /\ probing' = FALSE
  BY DEF Restart
<1>2. CASE st' = "SEEK" /\ at' = NoTimers /\ lease' = lease
  <2>1. TypeOK'   BY <1>1, <1>2, NothingTyped DEF Inv, TypeOK
  <2> QED  BY <1>1, <1>2, <2>1, ClearedInv
<1>3. CASE ~(st' = "SEEK" /\ at' = NoTimers /\ lease' = lease)
  <2> DEFINE w == IF LastLease THEN "lastlease" ELSE "expire"
  <2>1. st' = "REBOOT" /\ at' = [NoTimers EXCEPT ![w] = clock + Reboot]
    BY <1>3 DEF Restart, dhcp_start1, dhcp_reboot
  <2>2. clock + Reboot \in Nat /\ clock + Reboot > clock
    BY <1>0, TimesAssumption
  <2>3. w \in {"lastlease", "expire"}   OBVIOUS
  <2> HIDE DEF w
  <2>4. /\ at' \in [Timers -> Nat \cup {Off}]
        /\ \A t \in Timers : at'[t] # Off => at'[t] = clock + Reboot
        /\ at'["startrenew"] = Off /\ at'["rebind"] = Off
    BY <2>1, <2>2, <2>3 DEF NoTimers, Timers, Off
  <2>5. lease' \in Times
    <3> DEFINE l == clock - file.mtime
    <3>1. l \in Int   BY <1>0
    <3> HIDE DEF l
    <3>2. \A t \in uint32 : Offset(t, l) \in uint32
      BY <3>1, TimesAssumption DEF Offset, uint32
    <3>3. /\ file.times.leasetime \in uint32 /\ file.times.renewaltime \in uint32
          /\ file.times.rebindtime \in uint32
      BY <1>0 DEF Times
    <3>4. [leasetime |-> Offset(file.times.leasetime, l),
           renewaltime |-> Offset(file.times.renewaltime, l),
           rebindtime |-> Offset(file.times.rebindtime, l)] \in Times
      BY <3>2, <3>3 DEF Times
    <3> QED  BY <1>0, <1>3, <3>4 DEF Restart, dhcp_start1, dhcp_reboot, l
  <2>6. TypeOK'   BY <1>1, <2>1, <2>4, <2>5 DEF Inv, TypeOK
  <2>7. Prompt'   BY <1>0, <1>1, <2>2, <2>4 DEF Prompt
  <2>8. RebindFirst' /\ RenewalTakesTime'
    BY <2>1 DEF RebindFirst, RenewalTakesTime
  <2>9. LaterThanFile' /\ FileGranted'
    BY <1>1, <2>4 DEF Inv, LaterThanFile, FileGranted
  <2> QED  BY <1>0, <1>1, <2>6, <2>7, <2>8, <2>9 DEF Inv
<1> QED  BY <1>2, <1>3

\* Time passes up to the next timeout.
LEMMA TickInv ==
    ASSUME Inv, Tick
    PROVE  Inv'
<1>0. /\ clock \in Nat /\ at \in [Timers -> Nat \cup {Off}]
      /\ file.mtime \in Int
  BY DEF Inv, TypeOK
<1>1. clock' = clock + 1 /\ UNCHANGED <<st, lease, at, file, probing, vltime, granted>>
      /\ clock < MaxClock /\ \A t \in Timers : ~Due(t)
  BY DEF Tick
<1>2. TypeOK' /\ clock' <= MaxClock
  BY <1>0, <1>1, TimesAssumption DEF Inv, TypeOK
<1>3. Prompt'
  <2>1. ASSUME NEW t \in Timers, at[t] # Off PROVE clock + 1 <= at[t]
    BY <1>0, <1>1, <2>1 DEF Due, Off
  <2> QED  BY <1>1, <2>1 DEF Prompt
<1>4. RebindFirst' /\ FileGranted'
  BY <1>1 DEF Inv, RebindFirst, FileGranted
<1>5. LaterThanFile' /\ RenewalTakesTime'
  BY <1>0, <1>1 DEF Inv, LaterThanFile, RenewalTakesTime
<1> QED  BY <1>1, <1>2, <1>3, <1>4, <1>5 DEF Inv

\* The inductive invariant.
LEMMA SpecInv == Spec => []Inv
<1>1. ASSUME Inv, [Next]_vars PROVE Inv'
  <2>1. CASE UNCHANGED vars
    BY <1>1, <2>1 DEF vars, Inv, TypeOK, Prompt, RebindFirst, LaterThanFile,
                      RenewalTakesTime, FileGranted
  <2>2. CASE Next
    BY <1>1, <2>2, TickInv, RenewInv, ExpireInv, LastLeaseInv, ProbeInv,
       RestartInv, AckInv DEF Next
  <2> QED  BY <1>1, <2>1, <2>2
<1> QED  BY <1>1, InitInv, PTL DEF Spec

\* Times keep to a uint32_t, whatever is subtracted from them at a restart.
THEOREM TimesCorrect == Spec => []TypeOK
<1>1. Inv => TypeOK   BY DEF Inv
<1> QED  BY <1>1, SpecInv, PTL

\* dhcp_bind's times: a lease ends only when the client has been rebinding,
\* whatever the server said.
THEOREM LeaseIsReboundBeforeItEnds == Spec => []RebindsBeforeEnd
<1>1. ASSUME Inv PROVE RebindsBeforeEnd
  BY <1>1 DEF Inv, TypeOK, Prompt, RebindFirst, RebindsBeforeEnd, Due, Timers, Off
<1> QED  BY <1>1, SpecInv, PTL

\* dhcp_bind's T1 and T2 are never 0: no server makes the client renew without
\* a pause.
THEOREM RenewalsArePaced == Spec => []RenewalTakesTime
<1>1. Inv => RenewalTakesTime   BY DEF Inv
<1> QED  BY <1>1, SpecInv, PTL

\* dhcp_bind's times leave time to extend the lease at both ends, for every combination
\* a server can send.
THEOREM LeasesLeaveTime == Spec => []LeaseLeavesTime
<1>1. RebindsBeforeEnd /\ RenewalTakesTime => LeaseLeavesTime   BY DEF LeaseLeavesTime
<1> QED  BY <1>1, LeaseIsReboundBeforeItEnds, RenewalsArePaced, PTL

\* dhcp_start1's expiry check: a restart never asks for a lease that is over.
THEOREM RestartIsInTime == Spec => RestartsWithLiveLease
<1>1. ASSUME Inv, Restart, st' = "REBOOT" PROVE clock <= granted
  <2>1. /\ clock \in Nat /\ granted \in Nat /\ clock <= MaxClock
        /\ file.times.leasetime \in Nat /\ file.mtime \in Int
    BY <1>1, TimesAssumption DEF Inv, TypeOK, Times, uint32
  <2>2. /\ file # NoFile
        /\ file.times.leasetime = DHCP_INFINITE_LIFETIME
           \/ file.times.leasetime >= clock - file.mtime
    BY <1>1, <2>1 DEF Restart, dhcp_start1, dhcp_reboot
  <2> QED  BY <1>1, <2>1, <2>2, TimesAssumption DEF Inv, FileGranted
<1>2. Inv /\ [Next]_vars => [Restart /\ st' = "REBOOT" => clock <= granted]_vars
  BY <1>1
<1> QED  BY <1>2, SpecInv, PTL DEF Spec, RestartsWithLiveLease
=============================================================================
