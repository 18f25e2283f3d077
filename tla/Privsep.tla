------------------------------ MODULE Privsep ------------------------------
(***************************************************************************)
(* Privilege separation (privsep.c, privsep-root.c, privsep-bpf.c,         *)
(* privsep-inet.c).  The manager runs the protocols without privileges.    *)
(* It asks the privileged proxy (root) to do what it may not, over one     *)
(* socket pair, and waits for each answer in an inner event loop that      *)
(* still handles signals.  Root also starts a process per BPF or UDP       *)
(* socket; the manager itself starts the network proxy and the control     *)
(* proxy.  A process stops when its socket is shut down, and its parent    *)
(* reaps it on SIGCHLD.                                                    *)
(*                                                                         *)
(* A message is a record: cmd says what root is to do, id names a helper   *)
(* process, n numbers a request that is answered.  What a request does in  *)
(* the kernel or to a file is left out: it succeeds or fails, and both are *)
(* an answer.                                                              *)
(***************************************************************************)
EXTENDS Naturals, Sequences, FiniteSets, SequencesExt

CONSTANTS
    Ids,        \* helper processes root can start: a socket of an interface
    Pids,       \* process ids of the helpers
    MaxOps,     \* bound: commands of the manager, crashes excluded
    Setups      \* sets of what is configured and of what may happen

VARIABLES
    setup,      \* one of Setups
    s           \* everything else, see Init

vars == <<setup, s>>

\* The processes the manager starts itself, in the order of ctx->ps_processes.
Proxies == {"root", "inet", "ctl"}

Top == s.stack[Len(s.stack)]
Waiting == s.stack # <<>>
Handler(t) == s' = t /\ UNCHANGED setup
----------------------------------------------------------------------------
(* Sockets.  The root process hears the end of its socket once the manager  *)
(* has shut it down, closed it or gone.                                     *)

rootHasGone == s.root \in {"none", "zombie", "gone"}

\* ps_sendpsmmsg from the manager: the write fails when root is no longer there.
Post(t, m) ==
    IF "root" \in t.list /\ t.root \notin {"none", "zombie", "gone"}
       /\ ~t.shutroot
    THEN [t EXCEPT !.q = Append(@, m)]
    ELSE t

\* ps_root_*() and ps_root_readerror: send a request, put its reader on the
\* socket, and run the inner loop until something ends it.  A request that cannot
\* be sent fails at once.
Ask(t, cmd, k) ==
    LET n == t.asked + 1
        sent == Post(t, [cmd |-> cmd, id |-> "", n |-> n])
        frame == [n |-> n, got |-> 0, k |-> k, done |-> sent.q = t.q]
    IN  [sent EXCEPT !.asked = n,
                     !.stack = Append(@, frame),
                     !.exitnow = IF frame.done THEN @ ELSE FALSE,
                     !.nested = @ \/ t.stack # <<>>]

\* Wrong: waits for any process, the one that is to stay included.
BugWaitforprocs(t) == t.list # {}

\* ps_waitforprocs in the manager.
ps_waitforprocs(t) ==
    \/ Cardinality(t.list) > 1
    \/ t.list # {} /\ t.list \cap t.started = {}

\* ps_stopwait in the manager: run the inner loop until the last process is
\* reaped, or for PS_PROCESS_TIMEOUT.
ps_stopwait(t) ==
    IF ps_waitforprocs(t)
    THEN [t EXCEPT !.exiting = TRUE, !.exitnow = FALSE,
                   !.stack = Append(@, [n |-> 0, got |-> 0, k |-> "main",
                                        done |-> FALSE])]
    ELSE t

\* ps_stopprocess of one of the manager's own processes.
ps_stopprocess(t, p) ==
    [t EXCEPT !.started = @ \ {p},
              !.shutroot = @ \/ p = "root",
              !.proxy = IF p = "root" THEN @ ELSE [@ EXCEPT ![p].shut = TRUE]]

\* ps_freeprocess in the manager: the process is forgotten and its socket closed.
ps_freeprocess(t, p) ==
    [t EXCEPT !.list = @ \ {p}, !.started = @ \ {p},
              !.shutroot = @ \/ p = "root",
              !.proxy = IF p = "root" THEN @ ELSE [@ EXCEPT ![p].shut = TRUE]]
----------------------------------------------------------------------------
(* The manager                                                              *)

Init ==
    /\ setup \in Setups
    /\ s = [phase |-> "start",   \* how far main() has come
            stack |-> <<>>,      \* waits of the inner loop, innermost last
            exitnow |-> FALSE,   \* ps_eloop->exitnow
            mexit |-> FALSE,     \* ctx->eloop->exitnow
            exiting |-> FALSE,   \* DHCPCD_EXITING
            term |-> FALSE,      \* dhcpcd_exiting
            asked |-> 0,         \* requests made so far
            list |-> {},         \* ctx->ps_processes of the manager
            started |-> {},      \* ... with psp_started
            proxy |-> [p \in {"inet", "ctl"} |->
                          [st |-> "none", shut |-> FALSE, bg |-> FALSE, q |-> FALSE]],
            up |-> TRUE,         \* the interfaces are active
            want |-> {},         \* helpers the manager has asked for
            bg |-> FALSE,        \* DHCPCD_DAEMONISED in the manager
            ops |-> 0,
            sigs |-> {},         \* signals sent to the manager
            root |-> "none",     \* the root process
            shutroot |-> FALSE,  \* the manager's end of its socket is closed
            q |-> <<>>,          \* manager -> root
            answers |-> <<>>,    \* root -> manager
            rlist |-> <<>>,      \* ctx->ps_processes of root, itself left out
            rexiting |-> FALSE, rbg |-> FALSE, rn |-> 0,
            child |-> [p \in Pids |-> [st |-> "none", shut |-> FALSE, bg |-> FALSE]],
            nested |-> FALSE,    \* history: a wait was entered inside a wait, or cut short
            crossed |-> FALSE,   \* history: a request got another one's answer
            died |-> {}]         \* history: what has crashed

canstart(p) ==
    \/ p = "root"
    \/ p = "inet" /\ "noinet" \notin setup
    \/ p = "ctl" /\ "test" \notin setup

\* ps_start: the proxies are started in order; a fork that fails ends the start,
\* and the process it was for stays listed.
ps_start ==
    /\ s.phase = "start"
    /\ LET up == IF "forkfails" \in setup THEN {"root"}
                 ELSE {p \in Proxies : canstart(p)}
           broken == IF "forkfails" \in setup /\ canstart("inet") THEN {"inet"} ELSE {}
       IN  Handler([s EXCEPT
             !.phase = IF broken = {} THEN "loop" ELSE "unlink",
             !.list = up \cup broken, !.started = up, !.root = "idle",
             !.proxy = [p \in {"inet", "ctl"} |->
                           IF p \in up THEN [@[p] EXCEPT !.st = "run"] ELSE @[p]]])

InLoop == s.phase = "loop" /\ ~Waiting /\ ~s.mexit

\* ps_bpf_open*, ps_inet_open*, ps_bpf_close*, ps_inet_close*, ps_bpf_send*: commands
\* for a helper, which are not answered.
Command(cmd, id) ==
    /\ InLoop
    /\ s.ops < MaxOps
    /\ CASE cmd = "START" -> id \notin s.want
         [] cmd = "STOP" -> id \in s.want
         [] cmd = "SEND" -> id \in s.want /\ "sends" \in setup
    /\ Handler([Post(s, [cmd |-> cmd, id |-> id, n |-> 0]) EXCEPT
         !.ops = @ + 1,
         !.want = CASE cmd = "START" -> @ \cup {id}
                    [] cmd = "STOP" -> @ \ {id}
                    [] cmd = "SEND" -> @])

\* ps_root_script, ps_root_ioctl, ps_root_unlink, ps_root_readfile and the others.
Request ==
    /\ InLoop
    /\ s.ops < MaxOps
    /\ Handler([Ask(s, "OP", "main") EXCEPT !.ops = @ + 1])

\* dhcpcd_daemonise: ps_daemonised tells every process of the manager.
Daemonise ==
    /\ InLoop
    /\ ~s.bg
    /\ "daemonise" \in setup
    /\ Handler([Post(s, [cmd |-> "DAEMONISED", id |-> "", n |-> 0]) EXCEPT
         !.bg = TRUE,
         !.proxy = [p \in {"inet", "ctl"} |->
                       [@[p] EXCEPT !.q = p \in s.list /\ s.proxy[p].st = "run"]]])

\* ps_root_readerrorcb: the innermost wait reads the first answer in the socket.
ReadAnswer ==
    /\ Waiting
    /\ ~s.exitnow /\ ~Top.done
    /\ Top.n # 0
    /\ s.answers # <<>>
    /\ Handler([s EXCEPT !.answers = Tail(@), !.exitnow = TRUE,
                         !.stack[Len(s.stack)].got = Head(s.answers)])

\* ps_root_readerrorcb when the socket is at its end, or closed.
ReadEnd ==
    /\ Waiting
    /\ ~s.exitnow /\ ~Top.done
    /\ Top.n # 0
    /\ s.answers = <<>> \/ "root" \notin s.list
    /\ rootHasGone
    /\ Handler([s EXCEPT !.exitnow = TRUE, !.stack[Len(s.stack)].done = TRUE])

\* ps_process_timeout: nothing is left to wait for in the inner loop, so it ends;
\* eloop_exit is called for the outer one.
ps_process_timeout ==
    /\ Waiting
    /\ ~s.exitnow /\ ~Top.done
    /\ Top.n = 0
    /\ "slow" \in setup
    /\ Handler([s EXCEPT !.stack[Len(s.stack)].done = TRUE, !.mexit = TRUE])

\* The inner loop ends and the wait returns to its caller.  For the SIGTERM handler
\* that is the end of stop_all_interfaces.
Return ==
    /\ Waiting
    /\ s.exitnow \/ Top.done
    /\ Handler([s EXCEPT
         !.stack = Front(@),
         !.crossed = @ \/ (Top.n # 0 /\ ~Top.done /\ Top.got # Top.n),
         !.up = @ /\ Top.k # "term",
         !.mexit = @ \/ Top.k = "term",
         !.term = IF Top.k = "term" THEN FALSE ELSE @])

\* The inner loop and the main loop both call dhcpcd_signal_cb.
Interruptible == IF Waiting THEN ~s.exitnow /\ ~Top.done ELSE InLoop

\* dhcpcd_signal_cb for SIGTERM: stop_all_interfaces closes the sockets of the
\* interfaces and runs their scripts.
SigTerm ==
    /\ Interruptible
    /\ "TERM" \in s.sigs
    /\ LET t == [s EXCEPT !.sigs = @ \ {"TERM"}]
           stops == [i \in 1..Cardinality(s.want) |->
                       [cmd |-> "STOP", id |-> SetToSeq(s.want)[i], n |-> 0]]
       IN  Handler(
             IF s.term THEN t
             ELSE IF ~s.up \/ "test" \in setup THEN [t EXCEPT !.mexit = TRUE]
             ELSE Ask([FoldLeft(Post, t, stops) EXCEPT
                         !.exiting = TRUE, !.term = TRUE, !.want = {}], "OP", "term"))

\* dhcpcd_signal_cb for SIGUSR2: ps_root_logreopen.
SigUsr2 ==
    /\ Interruptible
    /\ "USR2" \in s.sigs
    /\ Handler(Ask([s EXCEPT !.sigs = @ \ {"USR2"}], "OP", "usr2"))

deadProxies ==
    {p \in Proxies : IF p = "root" THEN s.root = "zombie" ELSE s.proxy[p].st = "zombie"}

\* ps_root_signalcb in the manager: every process that has ended is reaped and
\* forgotten.  While dhcpcd is exiting, the last one ends the inner loop, whatever
\* that is waiting for.
SigChld ==
    /\ Interruptible
    /\ deadProxies # {}
    /\ LET t == FoldLeft(ps_freeprocess, s, SetToSeq(deadProxies \cap s.list))
           u == [t EXCEPT
                   !.root = IF "root" \in deadProxies THEN "gone" ELSE @,
                   !.proxy = [p \in {"inet", "ctl"} |->
                       IF p \in deadProxies THEN [@[p] EXCEPT !.st = "gone"] ELSE @[p]]]
           ends == s.exiting /\ ~ps_waitforprocs(u)
       IN  Handler([u EXCEPT !.exitnow = @ \/ ends,
                             !.nested = @ \/ (ends /\ Waiting /\ Top.n # 0)])

\* ps_recvpsmsg in the manager at the end of a proxy's socket, or of the one root and
\* its children send packets on: dhcpcd is to exit, and forgets its processes.
SeesEnd ==
    /\ InLoop
    /\ \/ \E p \in (s.list \cap s.started) \ {"root"} : s.proxy[p].st \in {"zombie", "gone"}
       \/ rootHasGone /\ \A p \in Pids : s.child[p].st # "run"
    /\ Handler([FoldLeft(ps_freeprocess, s, SetToSeq(s.list)) EXCEPT
                  !.exiting = TRUE, !.mexit = TRUE])

\* The end of main(): control_stop, ps_stop, ps_stopwait and ps_root_stop.
Exit ==
    /\ ~Waiting
    /\ \/ /\ s.phase = "unlink" \/ (s.phase = "loop" /\ s.mexit)
          /\ Handler([IF "test" \in setup THEN s ELSE Ask(s, "OP", "main")
                      EXCEPT !.phase = "stop"])
       \/ /\ s.phase = "stop"
          /\ LET t == FoldLeft(ps_stopprocess, s, SetToSeq(s.list \ {"root"}))
             IN  Handler([IF "root" \in s.list THEN Ask(t, "STOPPROCS", "main") ELSE t
                          EXCEPT !.phase = "wait"])
       \/ /\ s.phase = "wait"
          /\ Handler([ps_stopwait(s) EXCEPT !.phase = "stoproot"])
       \/ /\ s.phase = "stoproot"
          /\ Handler([ps_stopwait(IF "root" \in s.list THEN ps_stopprocess(s, "root")
                                  ELSE s) EXCEPT !.phase = "end"])
       \/ /\ s.phase = "end"
          /\ Handler([FoldLeft(ps_freeprocess, s, SetToSeq(s.list))
                      EXCEPT !.phase = "gone"])
----------------------------------------------------------------------------
(* The root process                                                         *)

\* Wrong: a process that is being stopped still counts.
BugFindprocess(id) == {i \in DOMAIN s.rlist : s.rlist[i].id = id}

\* ps_findprocess: the process that serves an id, unless it is being stopped.
ps_findprocess(id) ==
    {i \in DOMAIN s.rlist : s.rlist[i].id = id /\ s.rlist[i].started}

freePids == {p \in Pids : s.child[p].st = "none"}

\* ps_bpf_cmd and ps_inet_cmd, ps_startprocess: fork a helper.  It starts with the
\* options of root.
StartChild(id) ==
    LET p == CHOOSE p \in freePids : TRUE
    IN  [s EXCEPT !.child[p] = [st |-> "run", shut |-> FALSE, bg |-> s.rbg],
                  !.rlist = Append(@, [id |-> id, pid |-> p, started |-> TRUE])]

\* Wrong: the process is forgotten and its socket left open.
BugStopChild(i) == [s EXCEPT !.rlist = RemoveAt(@, i)]

\* ps_stopprocess in root.
StopChild(i) ==
    [s EXCEPT !.rlist[i].started = FALSE,
              !.child[s.rlist[i].pid].shut = TRUE]

\* ps_sendpsmmsg to a helper: when it is no longer there it is forgotten, before it
\* is reaped.
SendChild(i) ==
    IF s.child[s.rlist[i].pid].st = "run" THEN s
    ELSE [s EXCEPT !.rlist = RemoveAt(@, i)]

\* Wrong: returns without an answer when there is nothing to stop.
BugStopProcs(n) ==
    IF s.rlist = <<>> THEN [s EXCEPT !.rexiting = TRUE]
    ELSE [s EXCEPT !.rexiting = TRUE, !.root = "stopwait", !.rn = n,
                   !.child = [p \in Pids |-> [@[p] EXCEPT !.shut = TRUE]]]

\* PS_STOPPROCS: stop every helper and wait for them in the inner loop.
StopProcs(n) ==
    LET t == [s EXCEPT !.rexiting = TRUE,
                       !.rlist = [i \in DOMAIN @ |-> [@[i] EXCEPT !.started = FALSE]],
                       !.child = [p \in Pids |->
                           IF \E i \in DOMAIN s.rlist : s.rlist[i].pid = p
                           THEN [@[p] EXCEPT !.shut = TRUE] ELSE @[p]]]
    IN  IF s.rlist = <<>> THEN [t EXCEPT !.answers = Append(@, n)]
        ELSE [t EXCEPT !.root = "stopwait", !.rn = n]

\* Wrong: root keeps the message to itself.
BugDaemonised == [s EXCEPT !.rbg = TRUE]

\* ps_daemonised in root, for itself and its helpers.
Daemonised ==
    [s EXCEPT !.rbg = TRUE,
              !.child = [p \in Pids |->
                  IF /\ \E i \in DOMAIN s.rlist : s.rlist[i].pid = p
                     /\ ~@[p].shut
                  THEN [@[p] EXCEPT !.bg = TRUE] ELSE @[p]]]

\* Wrong: a command for a helper that is not running is answered.
BugRecvmsgcb(m) ==
    IF m.cmd = "START" THEN [StartChild(m.id) EXCEPT !.answers = Append(@, m.n)]
    ELSE IF m.cmd = "OP" THEN [s EXCEPT !.answers = Append(@, m.n)]
    ELSE s

\* ps_root_recvmsgcb: what root makes of a message.  A request is answered whether
\* it succeeds or fails; a command for a helper never is.
ps_root_recvmsgcb(m) ==
    LET found == ps_findprocess(m.id)
        i == CHOOSE i \in found : TRUE
    IN  IF m.cmd = "DAEMONISED" THEN Daemonised
        ELSE IF m.cmd = "OP" THEN [s EXCEPT !.answers = Append(@, m.n)]
        ELSE IF m.cmd = "STOPPROCS" THEN StopProcs(m.n)
        ELSE IF found = {} THEN IF m.cmd = "START" THEN StartChild(m.id) ELSE s
        ELSE IF m.cmd = "STOP" THEN StopChild(i)
        ELSE IF m.cmd = "SEND" THEN SendChild(i)
        ELSE s

\* ps_recvpsmsg in root.
RootRecv ==
    /\ s.root = "idle"
    /\ s.q # <<>>
    /\ Head(s.q).cmd = "START" => freePids # {}
    /\ Handler([ps_root_recvmsgcb(Head(s.q)) EXCEPT !.q = Tail(@)])

Orphaned(t) ==
    [t EXCEPT !.rlist = <<>>, !.root = "zombie",
              !.child = [p \in Pids |-> [@[p] EXCEPT !.shut = TRUE]]]

\* ps_recvpsmsg in root at the end of the socket: ps_free stops and forgets every
\* helper, and root exits.
RootEnd ==
    /\ s.root = "idle"
    /\ s.q = <<>>
    /\ s.shutroot
    /\ Handler(Orphaned(s))

\* Wrong: reaps without forgetting.
BugRootSigChld ==
    /\ s.root \in {"idle", "stopwait", "exitwait"}
    /\ Handler([s EXCEPT !.child = [p \in Pids |->
                   IF @[p].st = "zombie" THEN [@[p] EXCEPT !.st = "none"] ELSE @[p]]])

\* ps_root_signalcb in root.
RootSigChld ==
    LET dead == {p \in Pids : s.child[p].st = "zombie"}
        rest == SelectSeq(s.rlist, LAMBDA e : e.pid \notin dead)
        t == [s EXCEPT !.rlist = rest,
                       !.child = [p \in Pids |->
                           IF p \in dead
                           THEN [st |-> "none", shut |-> FALSE, bg |-> FALSE] ELSE @[p]]]
    IN  /\ s.root \in {"idle", "stopwait", "exitwait"}
        /\ dead # {}
        /\ Handler(CASE s.root = "stopwait" /\ rest = <<>> ->
                            [t EXCEPT !.root = "idle", !.answers = Append(@, s.rn)]
                     [] s.root = "exitwait" /\ rest = <<>> -> Orphaned(t)
                     [] OTHER -> t)

\* ps_process_timeout in root: the wait ends, the answer is sent, and the outer loop
\* ends too, which leads to a second wait.
RootTimeout ==
    /\ "slow" \in setup
    /\ \/ /\ s.root = "stopwait"
          /\ Handler([s EXCEPT !.root = "exitwait", !.answers = Append(@, s.rn)])
       \/ /\ s.root = "exitwait"
          /\ Handler(Orphaned(s))
----------------------------------------------------------------------------
(* The other processes, and what happens to them                            *)

\* ps_recvpsmsg in a helper of root: it exits at the end of its socket.
ChildExits(p) ==
    /\ s.child[p].st = "run"
    /\ s.child[p].shut
    /\ "stuck" \notin setup
    /\ Handler([s EXCEPT !.child[p].st = "zombie"])

\* ps_recvpsmsg in the network and the control proxy.
ProxyRecv(p) ==
    /\ s.proxy[p].st = "run"
    /\ \/ /\ s.proxy[p].q
          /\ Handler([s EXCEPT !.proxy[p].q = FALSE, !.proxy[p].bg = TRUE])
       \/ /\ ~s.proxy[p].q
          /\ s.proxy[p].shut
          /\ Handler([s EXCEPT !.proxy[p].st = "zombie"])

\* A process is killed.
Dies(p) ==
    /\ p \in setup
    /\ p \notin s.died
    /\ \/ /\ p = "root"
          /\ s.root \in {"idle", "stopwait", "exitwait"}
          /\ Handler([Orphaned(s) EXCEPT !.died = @ \cup {p}])
       \/ /\ p = "inet"
          /\ s.proxy[p].st = "run"
          /\ Handler([s EXCEPT !.proxy[p].st = "zombie", !.died = @ \cup {p}])
       \/ /\ p \in Ids
          /\ \E i \in DOMAIN s.rlist :
                /\ s.rlist[i].id = p
                /\ s.child[s.rlist[i].pid].st = "run"
                /\ Handler([s EXCEPT !.child[s.rlist[i].pid].st = "zombie",
                                     !.died = @ \cup {p}])

\* A user sends the manager a signal.
Kill(sig) ==
    /\ sig \in setup
    /\ sig \notin s.sigs
    /\ s.phase # "gone"
    /\ s.ops < MaxOps
    /\ Handler([s EXCEPT !.sigs = @ \cup {sig}, !.ops = @ + 1])

Manager ==
    \/ ps_start \/ ReadAnswer \/ ReadEnd \/ ps_process_timeout \/ Return
    \/ SigTerm \/ SigUsr2 \/ SigChld \/ SeesEnd \/ Exit

Root == RootRecv \/ RootEnd \/ RootSigChld \/ RootTimeout

Others ==
    \/ \E p \in Pids : ChildExits(p)
    \/ \E p \in {"inet", "ctl"} : ProxyRecv(p)

Outside ==
    \/ \E id \in Ids, cmd \in {"START", "STOP", "SEND"} : Command(cmd, id)
    \/ Request
    \/ Daemonise
    \/ \E p \in {"root", "inet"} \cup Ids : Dies(p)
    \/ \E sig \in {"TERM", "USR2"} : Kill(sig)

Next == Manager \/ Root \/ Others \/ Outside

Spec == Init /\ [][Next]_vars
FairSpec ==
    /\ Spec
    /\ WF_vars(Manager)
    /\ WF_vars(Root)
    /\ \A p \in Pids : WF_vars(ChildExits(p))
    /\ \A p \in {"inet", "ctl"} : WF_vars(ProxyRecv(p))
----------------------------------------------------------------------------
(* Properties                                                               *)

Frames == [n : Nat, got : Nat, k : {"main", "term", "usr2"}, done : BOOLEAN]

\* The state of the manager, of root and of the helpers stays within its type: root
\* never lists a process twice, nor one that does not exist, and the manager's inner
\* loop is nested at most once for each signal.
TypeOK ==
    /\ s.stack \in Seq(Frames) /\ Len(s.stack) <= 3
    /\ s.started \subseteq s.list /\ s.list \subseteq Proxies
    /\ \A i \in DOMAIN s.rlist :
          /\ s.child[s.rlist[i].pid].st \in {"run", "zombie"}
          /\ \A j \in DOMAIN s.rlist : s.rlist[i].pid = s.rlist[j].pid => i = j

\* What ps_root_readerror returns is the answer to the request its caller made.
\* Answers are matched by their order alone, so this ends with the first handler
\* that asks for something from inside a wait, or that cuts one short.
AnswersMatch == ~s.nested => ~s.crossed

\* A wait for an answer ends: the request is still to be read, root is busy with it,
\* its answer is in the socket, or root is no longer there.
WaitIsAnswered ==
    Waiting /\ Top.n # 0 /\ ~s.exitnow /\ ~Top.done =>
        \/ s.answers # <<>>
        \/ s.root \notin {"idle"}
        \/ \E i \in DOMAIN s.q : s.q[i].n # 0

\* Once root has read everything it was sent, it serves the sockets the manager has
\* open and no others, with one process each: a helper that is restarted before
\* the old one has exited is not mistaken for it.
ServesWhatIsWanted ==
    s.root = "idle" /\ s.q = <<>> /\ ~s.rexiting /\ ~s.shutroot =>
        \A id \in Ids \ s.died :
            Cardinality(ps_findprocess(id)) = IF id \in s.want THEN 1 ELSE 0

\* A helper root no longer lists, or no longer serves, has been told to stop: nothing
\* is left that listens for nobody.
NoStrays ==
    \A p \in Pids :
        s.child[p].st = "run" /\ ~s.child[p].shut =>
            \E i \in DOMAIN s.rlist : s.rlist[i].pid = p /\ s.rlist[i].started

\* Once the manager has daemonised and its message has gone round, no process is left
\* that writes to the terminal, whenever it was started.
AllDaemonised ==
    s.bg /\ s.q = <<>> /\ ~s.proxy["inet"].q /\ ~s.proxy["ctl"].q =>
        /\ rootHasGone \/ s.shutroot \/ s.rbg
        /\ \A p \in {"inet", "ctl"} :
              s.proxy[p].st = "run" => s.proxy[p].bg \/ s.proxy[p].shut
        /\ \A p \in Pids :
              s.child[p].st = "run" => s.child[p].bg \/ s.child[p].shut

Ended(st) == st \notin {"run", "idle", "stopwait", "exitwait"}

\* When dhcpcd is told to stop, or loses one of its processes, all of them end, though
\* signals keep coming, a helper may not react, and any of them may be killed.
EverythingEnds ==
    s.mexit ~> /\ s.phase = "gone"
               /\ Ended(s.root)
               /\ \A p \in {"inet", "ctl"} : Ended(s.proxy[p].st)
               /\ "stuck" \in setup \/ \A p \in Pids : Ended(s.child[p].st)

\* The helpers are those the manager wants, each once, and all processes follow the
\* manager into the background.
HelpersAreRight == TypeOK /\ ServesWhatIsWanted /\ NoStrays /\ AllDaemonised

\* A request to root is answered, and by its own answer.
RequestsAreAnswered == WaitIsAnswered /\ AnswersMatch
=============================================================================
