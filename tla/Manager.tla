------------------------------ MODULE Manager ------------------------------
(***************************************************************************)
(* The manager process of dhcpcd.c: how it comes up and goes to the        *)
(* background, which interfaces it knows and runs the protocols on, and    *)
(* how it follows the kernel's link messages through carrier changes,      *)
(* arriving and departing interfaces and a socket that overflows.          *)
(*                                                                         *)
(* The protocols themselves are in other modules: here an interface runs   *)
(* them or not, and has an address of a family or not.  A link is off (not *)
(* IFF_UP), down, roam or up.  The launcher is the process that was        *)
(* started by the user and waits to be told that it can exit.              *)
(***************************************************************************)
EXTENDS Naturals, Sequences, FiniteSets, SequencesExt

CONSTANTS
    Ifaces,         \* names
    MaxChanges,     \* bound: changes of links in the kernel; 1 when "calm"
    MaxCommands,    \* bound: signals and commands of the user
    LinkQueue,      \* what fits into the receive buffer of the link socket
    Setups          \* sets of what is configured and of what may happen

VARIABLES setup, s
vars == <<setup, s>>

Has(o) == o \in setup
Handler(t) == s' = t /\ UNCHANGED setup

EXIT_SUCCESS == 0
EXIT_FAILURE == 1
----------------------------------------------------------------------------
(* Options.  A wait is a subset of {"ip", "4", "6"}: DHCPCD_WAITIP,         *)
(* DHCPCD_WAITIP4, DHCPCD_WAITIP6.                                          *)

Waits(o) == IF Has(o) THEN {"ip"} ELSE IF Has(o \o "46") THEN {"ip", "4", "6"} ELSE {}

\* The options of an interface: what the configuration says of all, or of it.
IfWait == Waits("waitip") \cup Waits("ifwaitip")

\* DHCPCD_IPV4 and DHCPCD_IPV6: the address families that are run.
Families == IF Has("noipv6") THEN {"4"} ELSE {"4", "6"}

\* DHCPCD_LINK: the carrier counts.
if_is_link_up(l) == l = "up" \/ (~Has("link") /\ l \in {"down", "roam"})

\* if_discover: an interface is for the user unless another one was named, or
\* interfaces start inactive.
Named == CHOOSE i \in Ifaces : TRUE
Wanted(i) == IF Has("single") THEN i = Named ELSE ~Has("inactive")

Unknown == [known |-> FALSE, active |-> "no", link |-> "off", index |-> 0,
            run |-> FALSE, addr |-> {}]

Init ==
    /\ setup \in Setups
    /\ \E links \in [Ifaces -> {"off", "down", "up"}] :
          s = [pc |-> "main",
               exitnow |-> FALSE, code |-> EXIT_FAILURE,
               wait |-> {},          \* DHCPCD_WAITOPTS of ctx->options
               nowaitip |-> FALSE,   \* DHCPCD_NOWAITIP
               daemonised |-> FALSE, \* DHCPCD_DAEMONISED
               timer |-> FALSE,      \* handle_exit_timeout is queued
               ifs |-> [i \in Ifaces |-> Unknown],    \* ctx->ifaces
               tq |-> <<>>,          \* timeouts of 0 seconds
               launcher |-> IF Has("daemonise") THEN "wait" ELSE "none",
               fork_fd |-> Has("daemonise"),
               tolauncher |-> <<>>,  \* exit codes
               fromlauncher |-> <<>>,  \* signals
               kern |-> [i \in Ifaces |-> [link |-> links[i], index |-> 1, there |-> TRUE]],
               nl |-> <<>>,          \* the link socket
               overflow |-> FALSE,   \* ... and it has lost a message
               changes |-> 0, commands |-> 0,
               noted |-> [i \in Ifaces |-> "off"],  \* history: link at the start
               lost |-> FALSE,       \* history: the link socket has overflowed
               stale |-> FALSE]      \* history: ... while an interface was replaced
----------------------------------------------------------------------------
(* Going to the background                                                  *)

\* Wrong: an address of either family will do.
BugIfafwaiting(t, i) ==
    t.ifs[i].active = "user" /\ IfWait # {} /\ t.ifs[i].addr = {}

\* dhcpcd_ifafwaiting # AF_MAX.
dhcpcd_ifafwaiting(t, i) ==
    /\ t.ifs[i].active = "user"
    /\ \/ ~(IfWait \cap {"4", "6"}) \subseteq t.ifs[i].addr
       \/ IfWait = {"ip"} /\ t.ifs[i].addr = {}

\* dhcpcd_afwaiting # AF_MAX: over all interfaces, one address of a family will do.
dhcpcd_afwaiting(t) ==
    LET has == UNION {t.ifs[i].addr : i \in Ifaces}
    IN  t.wait \ (has \cup (IF has = {} THEN {} ELSE {"ip"})) # {}

dhcpcd_ipwaited(t) ==
    ~dhcpcd_afwaiting(t) /\ \A i \in Ifaces : ~dhcpcd_ifafwaiting(t, i)

eloop_exit(t, code) == [t EXCEPT !.exitnow = TRUE, !.code = code]

\* dhcpcd_daemonise: unless there is still something to wait for, the launcher is
\* told that all is well.
dhcpcd_daemonise(t) ==
    IF Has("daemonise") /\ ~t.daemonised /\ ~t.nowaitip /\ ~dhcpcd_ipwaited(t) THEN t
    ELSE IF Has("oneshot") THEN eloop_exit(t, EXIT_SUCCESS)
    ELSE IF t.daemonised \/ ~Has("daemonise") THEN [t EXCEPT !.timer = FALSE]
    ELSE [t EXCEPT !.timer = FALSE, !.daemonised = TRUE, !.fork_fd = FALSE,
                   !.tolauncher = IF t.fork_fd THEN Append(@, EXIT_SUCCESS) ELSE @]

\* Wrong: goes on waiting for addresses.
BugExitTimeout(t) ==
    IF Has("single") THEN eloop_exit([t EXCEPT !.timer = FALSE], EXIT_FAILURE)
    ELSE dhcpcd_daemonise([t EXCEPT !.timer = FALSE])

\* handle_exit_timeout.
handle_exit_timeout(t) ==
    IF Has("single") THEN eloop_exit([t EXCEPT !.timer = FALSE], EXIT_FAILURE)
    ELSE dhcpcd_daemonise([t EXCEPT !.timer = FALSE, !.nowaitip = TRUE])
----------------------------------------------------------------------------
(* Interfaces                                                               *)

\* dhcpcd_drop_af: the protocols of a family give up what they have configured.
dhcpcd_drop_af(t, i, afs) == [t EXCEPT !.ifs[i].addr = @ \ afs]

\* dhcpcd_drop: all of them end.
dhcpcd_drop(t, i) == [dhcpcd_drop_af(t, i, {"4", "6"}) EXCEPT !.ifs[i].run = FALSE]

\* The timeouts whose argument is the interface; dhcpcd_checkcarrier has a copy.
Without(q, i) == SelectSeq(q, LAMBDA e : e.i # i \/ e.fn = "checkcarrier")

\* Wrong: the timeouts of the interface stay queued.
BugStop(t, i) ==
    LET u == [dhcpcd_drop(t, i) EXCEPT !.ifs[i].active = "no"]
    IN  IF Has("single") THEN eloop_exit(u, EXIT_FAILURE) ELSE u

\* stop_interface.
stop_interface(t, i) ==
    LET u == [dhcpcd_drop(t, i) EXCEPT !.ifs[i].active = "no", !.tq = Without(@, i)]
    IN  IF Has("single") THEN eloop_exit(u, EXIT_FAILURE) ELSE u

\* stop_all_interfaces; the order does not matter here.
stop_all_interfaces(t) ==
    FoldSet(LAMBDA i, u : IF u.ifs[i].active = "no" THEN u ELSE stop_interface(u, i),
            t, Ifaces)

\* dhcpcd_startinterface: the protocols of an interface the user wants.
dhcpcd_startinterface(t, i) ==
    IF Has("link") /\ ~if_is_link_up(t.ifs[i].link) THEN t
    ELSE [t EXCEPT !.ifs[i].run = @ \/ t.ifs[i].active = "user"]

\* A change in the kernel, and its message on the link socket: lost when that is full.
Tell(t, i, what) ==
    LET m == [what |-> what, i |-> i, link |-> t.kern[i].link, index |-> t.kern[i].index]
    IN  IF Len(t.nl) < LinkQueue THEN [t EXCEPT !.nl = Append(@, m)]
        ELSE [t EXCEPT !.overflow = TRUE]

\* dhcpcd_prestartinterface: brings up an interface that is off, unless dhcpcd runs
\* on all of them.
dhcpcd_prestartinterface(t, i) ==
    LET u == IF Has("single") /\ t.ifs[i].link = "off" /\ t.kern[i].there
                /\ t.kern[i].link = "off"
             THEN Tell([t EXCEPT !.kern[i].link = "down"], i, "NEWLINK")
             ELSE t
    IN  dhcpcd_startinterface(u, i)

\* Wrong: what the link was is read after it has changed.
BugHandlecarrier(t, i, l, ssid) ==
    LET u == [t EXCEPT !.ifs[i].link = l]
    IN  IF ~if_is_link_up(l) \/ u.ifs[i].active = "no" THEN u
        ELSE dhcpcd_startinterface(u, i)

\* dhcpcd_handlecarrier; ssid says that a wireless link is on another network now.
dhcpcd_handlecarrier(t, i, l, ssid) ==
    LET was == t.ifs[i].link
        u == [t EXCEPT !.ifs[i].link = l]
    IN  CASE ~if_is_link_up(l) ->
               IF u.ifs[i].active = "no" \/ (~if_is_link_up(was) /\ was # "roam") THEN u
               ELSE IF l = "roam" THEN [u EXCEPT !.ifs[i].run = FALSE]
               ELSE dhcpcd_drop(u, i)
          [] if_is_link_up(l) /\ if_is_link_up(was) -> u
          [] OTHER ->
               IF u.ifs[i].active = "no" THEN u
               ELSE dhcpcd_startinterface(IF ssid THEN dhcpcd_drop(u, i) ELSE u, i)

\* dhcpcd_handleinterface with action -1.
Depart(t, i) ==
    IF ~t.ifs[i].known THEN t
    ELSE [(IF t.ifs[i].active = "no" THEN t ELSE stop_interface(t, i))
             EXCEPT !.ifs[i] = Unknown]

\* An interface of if_discover's list becomes one of ctx->ifaces.
Add(t, i) ==
    [t EXCEPT !.ifs[i] = [Unknown EXCEPT !.known = TRUE, !.link = t.kern[i].link,
                                         !.index = t.kern[i].index,
                                         !.active = IF Wanted(i) THEN "user" ELSE "no"]]

\* ... or only its flags are taken over; the carrier is not.
Update(t, i) ==
    [t EXCEPT !.ifs[i].link =
        IF t.kern[i].link \in {"off", "roam"} THEN t.kern[i].link
        ELSE IF @ = "up" THEN "up" ELSE "down"]

\* dhcpcd_handleinterface with action 1: what the kernel has by now.
Arrive(t, i) ==
    IF ~t.kern[i].there THEN t
    ELSE LET u == IF t.ifs[i].known THEN Update(t, i) ELSE Add(t, i)
         IN  IF u.ifs[i].active = "no" THEN u ELSE dhcpcd_prestartinterface(u, i)

\* link_netlink.
link_netlink(t, m, ssid) ==
    CASE m.what = "DELLINK" -> Depart(t, m.i)
      [] m.what = "NEWLINK" /\ ~(t.ifs[m.i].known /\ t.ifs[m.i].index = m.index) ->
             Arrive(t, m.i)
      [] OTHER -> dhcpcd_handlecarrier(t, m.i, m.link, ssid)

\* Wrong: interfaces that are known are not looked at again.
BugLinkoverflow(t) ==
    LET gone == {i \in Ifaces : t.ifs[i].known /\ ~t.kern[i].there}
        new == {i \in Ifaces : ~t.ifs[i].known /\ t.kern[i].there}
        u == FoldSet(LAMBDA i, v : Depart(v, i), [t EXCEPT !.nl = <<>>, !.overflow = FALSE],
                     gone)
    IN  FoldSet(LAMBDA i, v : Add(v, i), u, new)

\* dhcpcd_linkoverflow: forget what is in the socket and look at the interfaces.
\* Those that are known have their carrier checked, those that are new are started,
\* both in timeouts of 0 seconds.
dhcpcd_linkoverflow(t) ==
    LET gone == {i \in Ifaces : t.ifs[i].known /\ ~t.kern[i].there}
        new == {i \in Ifaces : ~t.ifs[i].known /\ t.kern[i].there}
        same == {i \in Ifaces : t.ifs[i].known /\ t.kern[i].there}
        Queue(fn, is, v) ==
            FoldSet(LAMBDA i, w :
                       [w EXCEPT !.tq = Append(@, [fn |-> fn, i |-> i,
                                                   link |-> t.kern[i].link])], v, is)
        u == FoldSet(LAMBDA i, v : Depart(v, i), [t EXCEPT !.nl = <<>>, !.overflow = FALSE],
                     gone)
        w == FoldSet(LAMBDA i, v : Add(v, i), Queue("checkcarrier", same, u), new)
    IN  [Queue("runprestart", {i \in new : w.ifs[i].active # "no"}, w) EXCEPT
            !.lost = TRUE, !.stale = @ \/ \E i \in same : t.ifs[i].index # t.kern[i].index]

\* dhcpcd_checkcarrier: with the interface of that name, if there still is one.
dhcpcd_checkcarrier(t, e) ==
    IF ~t.ifs[e.i].known \/ (t.ifs[e.i].link = "up") = (e.link = "up") THEN t
    ELSE dhcpcd_handlecarrier(t, e.i, e.link, FALSE)
----------------------------------------------------------------------------
(* main(), and its loop                                                     *)

InLoop == s.pc = "loop" /\ ~s.exitnow

\* What main() does before the loop.
Start ==
    LET u == FoldSet(LAMBDA i, v : Add(v, i),
                     [s EXCEPT !.pc = "loop", !.noted = [i \in Ifaces |-> s.kern[i].link],
                               !.wait = Waits("waitip") \cup
                                   (IF Has("single") /\ ~Has("background") THEN {"ip"}
                                    ELSE {})],
                     {i \in Ifaces : s.kern[i].there})
        active == {i \in Ifaces : u.ifs[i].active # "no"}
        carrier == \E i \in active : if_is_link_up(u.ifs[i].link)
        v == IF Has("background") \/ (active = {} /\ ~Has("single"))
             THEN dhcpcd_daemonise(u) ELSE u
        w == CASE Has("background") -> v
               [] ~Has("background") /\ ~carrier /\ Has("link") /\ v.wait = {} ->
                      dhcpcd_daemonise(v)
               [] OTHER -> [v EXCEPT !.timer = Has("timeout") /\ Has("daemonise")]
    IN  /\ s.pc = "main"
        /\ Handler(IF active = {} /\ (Has("single") \/ ~Has("link"))
                   THEN eloop_exit(IF Has("single") THEN u ELSE v, EXIT_FAILURE)
                   ELSE FoldSet(LAMBDA i, x :
                           [x EXCEPT !.tq = Append(@, [fn |-> "prestart", i |-> i,
                                                       link |-> x.ifs[i].link])], w, active))

\* Timeouts of 0 seconds come before anything that is read.
ZeroTimeout ==
    /\ InLoop /\ s.tq # <<>>
    /\ LET e == Head(s.tq)
           u == [s EXCEPT !.tq = Tail(@)]
       IN  Handler(IF e.fn = "checkcarrier" THEN dhcpcd_checkcarrier(u, e)
                   ELSE dhcpcd_prestartinterface(u, e.i))

ExitTimeout == InLoop /\ s.tq = <<>> /\ s.timer /\ Handler(handle_exit_timeout(s))

\* dhcpcd_handlelink.
dhcpcd_handlelink ==
    /\ InLoop /\ s.tq = <<>>
    /\ \/ s.overflow /\ Handler(dhcpcd_linkoverflow(s))
       \/ /\ ~s.overflow /\ s.nl # <<>>
          /\ \E ssid \in IF Has("wireless") THEN BOOLEAN ELSE {FALSE} :
                Handler(link_netlink([s EXCEPT !.nl = Tail(@)], Head(s.nl), ssid))

\* A protocol gets or loses an address: dhcp_bind, ipv4ll_found, ipv6nd_scriptrun...
Address(i, af) ==
    /\ InLoop /\ s.tq = <<>> /\ s.ifs[i].run
    /\ \/ /\ af \notin s.ifs[i].addr
          /\ Handler(dhcpcd_daemonise([s EXCEPT !.ifs[i].addr = @ \cup {af}]))
       \/ /\ Has("expire") /\ af \in s.ifs[i].addr
          /\ Handler([s EXCEPT !.ifs[i].addr = @ \ {af}])

\* dhcpcd_activateinterface, for a delegated prefix.
dhcpcd_activateinterface(i) ==
    /\ InLoop /\ s.tq = <<>> /\ Has("delegate")
    /\ s.ifs[i].known /\ s.ifs[i].active = "no"
    /\ Handler(dhcpcd_prestartinterface([s EXCEPT !.ifs[i].active = "if"], i))
----------------------------------------------------------------------------
(* Signals and commands                                                     *)

\* reload_config: options that main() or a timeout has set are lost.
reload_config(t) == [t EXCEPT !.wait = Waits("waitip"), !.nowaitip = FALSE]

\* reconf_reboot of the interfaces that were named, or of all of them.  changed
\* says that the configuration has, which expires what was leased.
reconf_reboot(t, named, changed) ==
    FoldSet(LAMBDA i, u :
               IF u.ifs[i].active # "user" /\ (named = {} \/ ~u.ifs[i].known) THEN u
               ELSE dhcpcd_prestartinterface(
                       [(IF changed THEN dhcpcd_drop(u, i) ELSE u)
                           EXCEPT !.ifs[i].active = "user"], i),
            t, IF named = {} THEN Ifaces ELSE named)

\* dhcpcd_signal_cb.
dhcpcd_signal_cb(t, sig, changed) ==
    CASE sig = "TERM" -> eloop_exit(stop_all_interfaces(t), EXIT_SUCCESS)
      [] sig = "INT" -> eloop_exit(stop_all_interfaces(t), EXIT_FAILURE)
      [] sig = "HUP" -> reconf_reboot(reload_config(t),
                                      IF Has("single") THEN {Named} ELSE {}, changed)

\* Signals come before timeouts.
Signal(sig, changed) ==
    /\ InLoop /\ Has(sig) /\ s.commands < MaxCommands
    /\ Handler(dhcpcd_signal_cb([s EXCEPT !.commands = @ + 1], sig, changed))

\* dhcpcd_handleargs: --exit, also of one address family, and --rebind of one
\* interface.
dhcpcd_handleargs(i, changed) ==
    /\ InLoop /\ s.tq = <<>> /\ Has("control") /\ s.commands < MaxCommands
    /\ LET t == [s EXCEPT !.commands = @ + 1]
       IN  \/ s.ifs[i].active # "no" /\ Handler(stop_interface(t, i))
           \/ \E af \in s.ifs[i].addr : Handler(dhcpcd_drop_af(t, i, {af}))
           \/ Handler(reconf_reboot(reload_config(t), {i}, changed))
----------------------------------------------------------------------------
(* The launcher, and the end                                                *)

\* dhcpcd_fork_cb in the manager: the launcher passes signals on, or has gone.
ForkCb ==
    /\ InLoop /\ s.tq = <<>> /\ s.fork_fd
    /\ \/ /\ s.fromlauncher # <<>>
          /\ Handler(dhcpcd_signal_cb([s EXCEPT !.fromlauncher = Tail(@)],
                                      Head(s.fromlauncher), FALSE))
       \/ /\ s.fromlauncher = <<>> /\ s.launcher # "wait"
          /\ Handler([s EXCEPT !.fork_fd = FALSE])

\* Wrong: the launcher always gets success.
BugExit ==
    /\ s.pc = "loop" /\ s.exitnow
    /\ Handler([s EXCEPT !.pc = "gone", !.fork_fd = FALSE, !.nl = <<>>, !.overflow = FALSE,
                         !.tolauncher = IF s.fork_fd THEN Append(@, EXIT_SUCCESS) ELSE @])

\* The end of main(): if still attached, the launcher gets the exit code.
Exit ==
    /\ s.pc = "loop" /\ s.exitnow
    /\ Handler([s EXCEPT !.pc = "gone", !.fork_fd = FALSE, !.nl = <<>>, !.overflow = FALSE,
                         !.tolauncher = IF s.fork_fd THEN Append(@, s.code) ELSE @])

\* dhcpcd_fork_cb in the launcher: an exit code, or the manager has hung up.
Launcher ==
    /\ s.launcher = "wait"
    /\ \/ /\ s.tolauncher # <<>>
          /\ Handler([s EXCEPT !.tolauncher = Tail(@),
                               !.launcher = IF Head(s.tolauncher) = EXIT_SUCCESS
                                            THEN "ok" ELSE "failed"])
       \/ /\ s.tolauncher = <<>> /\ s.pc = "gone"
          /\ Handler([s EXCEPT !.launcher = "failed"])

\* dhcpcd_signal_cb in the launcher.
Relay(sig) ==
    /\ s.launcher = "wait" /\ Has("relay") /\ s.commands < MaxCommands /\ s.pc # "gone"
    /\ Handler([s EXCEPT !.commands = @ + 1, !.fromlauncher = Append(@, sig)])

Killed == s.launcher = "wait" /\ Has("kill") /\ Handler([s EXCEPT !.launcher = "killed"])

\* The kernel changes a link, and adds and removes interfaces.
Kernel(i) ==
    /\ s.changes < (IF Has("calm") THEN 1 ELSE MaxChanges) /\ s.pc # "gone" /\ ~s.exitnow
    /\ LET t == [s EXCEPT !.changes = @ + 1]
       IN  \/ \E l \in {"off", "down", "roam", "up"} \ {s.kern[i].link} :
                /\ s.kern[i].there /\ (l = "roam" => Has("wireless"))
                /\ Handler(Tell([t EXCEPT !.kern[i].link = l], i, "NEWLINK"))
           \/ /\ s.kern[i].there /\ Has("departs")
              /\ Handler(Tell([t EXCEPT !.kern[i].there = FALSE], i, "DELLINK"))
           \/ /\ ~s.kern[i].there
              /\ Handler(Tell([t EXCEPT !.kern[i] = [there |-> TRUE, link |-> "down",
                                                     index |-> @.index + 1]], i, "NEWLINK"))

Loop == ZeroTimeout \/ ExitTimeout \/ dhcpcd_handlelink \/ ForkCb

Next ==
    \/ Start \/ Loop \/ Exit \/ Launcher \/ Killed
    \/ \E i \in Ifaces : \/ Kernel(i) \/ dhcpcd_activateinterface(i)
                        \/ \E af \in Families : Address(i, af)
                        \/ \E changed \in BOOLEAN : dhcpcd_handleargs(i, changed)
    \/ \E sig \in {"TERM", "INT", "HUP"}, changed \in BOOLEAN : Signal(sig, changed)
    \/ \E sig \in {"TERM", "INT"} : Relay(sig)

Spec == Init /\ [][Next]_vars

\* The loop goes on, time passes, and the launcher is scheduled.
FairSpec == Spec /\ WF_vars(Start) /\ WF_vars(ZeroTimeout) /\ WF_vars(ExitTimeout)
                 /\ WF_vars(dhcpcd_handlelink) /\ WF_vars(Exit) /\ WF_vars(Launcher)
----------------------------------------------------------------------------
(* Properties                                                               *)

\* The manager has nothing left to do.
Idle == InLoop /\ s.tq = <<>> /\ s.nl = <<>> /\ ~s.overflow

\* Once every link message is handled, ctx->ifaces are the interfaces the kernel
\* has, with their carrier (link_netlink, dhcpcd_linkoverflow).  After an overflow
\* dhcpcd_checkcarrier compares only the carrier, and an interface that was replaced
\* by one of the same name keeps its old index.
KnowsKernel ==
    Idle /\ ~s.stale => \A i \in Ifaces :
        /\ s.ifs[i].known = s.kern[i].there
        /\ s.ifs[i].known => /\ s.ifs[i].index = s.kern[i].index
                             /\ (s.ifs[i].link = "up") = (s.kern[i].link = "up")
                             /\ s.ifs[i].link = s.kern[i].link \/ s.lost

\* The protocols run on an interface exactly when the user wants it and its link is
\* up, whatever the order of carrier changes, commands, restarts and overflows; when
\* the carrier does not count, also on one that is not up yet (dhcpcd_startinterface,
\* dhcpcd_handlecarrier, stop_interface).
RunsWhenUp ==
    Idle /\ ~s.stale => \A i \in Ifaces :
        /\ s.ifs[i].active = "user" /\ if_is_link_up(s.ifs[i].link) => s.ifs[i].run
        /\ s.ifs[i].run => /\ s.ifs[i].active = "user"
                           /\ Has("link") => if_is_link_up(s.ifs[i].link)

\* No timeout is left for an interface that was stopped or freed (stop_interface,
\* dhcpcd_handleinterface).
NoFreedInterface ==
    \A n \in DOMAIN s.tq :
        s.tq[n].fn # "checkcarrier" => s.ifs[s.tq[n].i].active # "no"

\* The launcher exits with success only when the manager is in the background or
\* has ended with success, and with failure only when it has ended with failure.
LauncherTellsTruth ==
    /\ s.launcher = "ok" => s.daemonised \/ (s.pc = "gone" /\ s.code = EXIT_SUCCESS)
    /\ s.launcher = "failed" => /\ s.pc = "gone" /\ s.code = EXIT_FAILURE
                                /\ ~s.daemonised

\* The manager goes to the background only when each interface, and all together,
\* have every address that is waited for, or when the timeout gave up waiting
\* (dhcpcd_daemonise).
WaitsForAddresses ==
    [][s'.daemonised /\ ~s.daemonised =>
          \/ s'.nowaitip
          \/ /\ \A i \in Ifaces : s'.ifs[i].active = "user" =>
                   /\ (IfWait \cap {"4", "6"}) \subseteq s'.ifs[i].addr
                   /\ IfWait # {} => s'.ifs[i].addr # {}
             /\ (s'.wait \cap {"4", "6"}) \subseteq UNION {s'.ifs[i].addr : i \in Ifaces}
             /\ s'.wait # {} => \E i \in Ifaces : s'.ifs[i].addr # {}]_vars

\* Nobody queues the exit timeout when the interfaces wait for addresses and either
\* -b is given, or no interface had a carrier and only interfaces wait.
Untimed ==
    /\ IfWait # {}
    /\ Has("background") \/ (s.wait = {} /\ \A i \in Ifaces : ~if_is_link_up(s.noted[i]))

\* With a timeout the launcher does not wait for ever (handle_exit_timeout).
LauncherReleased ==
    Has("timeout") => <>(s.launcher # "wait" \/ (s.pc # "main" /\ Untimed))

\* dhcpcd.8, -t: "If dhcpcd is working on a single interface then dhcpcd will exit
\* when a timeout occurs, otherwise dhcpcd will fork into the background."
TimeoutReleases == Has("timeout") => <>(s.launcher # "wait")

\* The manager follows the kernel: it knows its interfaces and runs the protocols on the
\* right ones, and nothing is queued for one that is gone.
FollowsKernel == KnowsKernel /\ RunsWhenUp /\ NoFreedInterface

\* The user's shell gets its prompt back, with the right exit status, and neither before
\* the addresses that are waited for are there nor later than the timeout.
LauncherIsTold == []LauncherTellsTruth /\ WaitsForAddresses /\ LauncherReleased
=============================================================================
