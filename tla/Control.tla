------------------------------ MODULE Control ------------------------------
(***************************************************************************)
(* The control socket (control.c, privsep-control.c and the dispatch of    *)
(* commands in dhcpcd.c).  A client connects, sends a command and, when it *)
(* asked for the state of the interfaces, waits for the answer; a listener *)
(* is sent the environment of every script that is run.                    *)
(*                                                                         *)
(* With privilege separation the clients are connected to the control      *)
(* proxy.  It passes commands on to the manager over one socket and gets   *)
(* the answers to all clients back over one other socket, the work socket; *)
(* so both sides keep a current client.  Without privilege separation the  *)
(* one process does everything.                                            *)
(***************************************************************************)
EXTENDS Naturals, Sequences, FiniteSets, SequencesExt

CONSTANTS
    Clients,            \* connections
    Modes,              \* a subset of {"privsep", "single"}
    Wire,               \* bound: what the socket of a client holds
    Plans,              \* the sequences of Commands that clients send
    MaxEvents,          \* bound: scripts that are run
    CONTROL_QUEUE_MAX,
    None                \* no client

\* version: also --getconfigfile.  dump: --dumplease or --getinterfaces.  act: a
\* command that changes something.
Commands == {"version", "listen", "dump", "act"}

VARIABLE c

\* What a client is sent: a part of an answer, or the n-th script's environment.
Part(k, what) == [for |-> k, what |-> what, n |-> 0]
Event(n) == [for |-> None, what |-> "event", n |-> n]
IsEvent(m) == m.what = "event"
Answer(k) == <<Part(k, "count"), Part(k, "carrier"), Part(k, "lease")>>
Own(k, q) == SelectSeq(q, LAMBDA m : ~IsEvent(m))
Heard(q) == SelectSeq(q, IsEvent)

Unused == [used |-> FALSE, unpriv |-> FALSE, listen |-> FALSE, write |-> FALSE,
           queue |-> <<>>]

Init ==
    c \in [mode : Modes,
           client : {[k \in Clients |-> [st |-> "new", waits |-> "", plan |-> <<>>,
                                        out |-> <<>>, in |-> <<>>, got |-> <<>>]]},
           fds : {[k \in Clients |-> Unused]},    \* ctx->control_fds
           current : {None},     \* ps_control_client of the proxy
           tomanager : {<<>>},   \* proxy -> manager: PS_CTL and PS_CTL_EOF
           work : {<<>>},        \* manager -> proxy: answers
           listen : {<<>>},      \* manager -> proxy: events
           busy : {FALSE},       \* ps_control_client of the manager is set
           wqueue : {<<>>},      \* the queue that the work socket is watched for
           workopen : {TRUE},    \* the manager's end of the work socket
           events : {0},         \* scripts run
           shared : {0},         \* ... and given to the listeners
           since : {[k \in Clients |-> 0]},  \* history: shared, when k began to listen
           left : {FALSE},       \* history: a client left without its whole answer
           refused : {{}},       \* history: clients that had a command dropped
           dangling : {FALSE}]   \* history: a freed connection was used
----------------------------------------------------------------------------
(* Connections of the process that accepts clients: c.fds[k] is the struct  *)
(* fd_list of the connection to client k.                                   *)

\* Wrong: the newest data goes first.
BugQueue(t, k, data) ==
    [t EXCEPT !.fds[k].queue = data \o @, !.fds[k].write = TRUE]

\* control_queue: append, and watch for room to write.
control_queue(t, k, data) ==
    [t EXCEPT !.fds[k].queue = @ \o data, !.fds[k].write = TRUE]

\* Wrong: the freed connection stays the current client.
BugFree(t, k) ==
    [t EXCEPT !.fds[k] = Unused, !.since[k] = 0, !.dangling = @ \/ ~t.fds[k].used]

\* control_free: the connection is closed and forgotten with all that is queued.
control_free(t, k) ==
    [t EXCEPT !.fds[k] = Unused, !.since[k] = 0,
              !.current = IF @ = k THEN None ELSE @,
              !.dangling = @ \/ ~t.fds[k].used]

\* ps_ctl_sendeof: the manager is told that a client has gone, not which.
ps_ctl_sendeof(t) ==
    IF t.mode = "privsep"
    THEN [t EXCEPT !.tomanager = Append(@, [cmd |-> "EOF", k |-> None, unpriv |-> FALSE])]
    ELSE t

control_hangup(t, k) == control_free(ps_ctl_sendeof(t), k)

\* control_handle_write: one piece of the queue; the last stops the watch.
control_handle_write(t, k) ==
    [t EXCEPT !.client[k].in = Append(@, Head(t.fds[k].queue)),
              !.fds[k].queue = Tail(@),
              !.fds[k].write = Len(t.fds[k].queue) > 1]

\* What both kinds of process answer themselves: --version and --getconfigfile,
\* and --listen.
Special(t, k, cmd) ==
    IF cmd = "version" THEN control_queue(t, k, <<Part(k, "version")>>)
    ELSE [t EXCEPT !.fds[k].listen = TRUE,
                   !.since[k] = IF t.fds[k].listen THEN @ ELSE t.shared]

Refuse(t, k) == [t EXCEPT !.refused = @ \cup {k}]

\* dhcpcd_handleargs in the one process, and control_recvdata after it: the number
\* of parts is written at once, the parts are queued.  An error closes the
\* connection, unless it was for want of room.
control_recvdata(t, k, cmd) ==
    LET gone == t.client[k].st = "gone"
        full == Len(t.client[k].in) >= Wire
    IN  CASE cmd \in {"version", "listen"} -> Special(t, k, cmd)
          [] cmd = "dump" /\ ~gone /\ ~full ->
                 control_queue([t EXCEPT !.client[k].in = Append(@, Head(Answer(k)))],
                               k, Tail(Answer(k)))
          [] cmd = "dump" /\ ~gone /\ full -> Refuse(t, k)
          [] cmd = "act" /\ ~t.fds[k].unpriv -> t
          [] OTHER -> control_free(Refuse(t, k), k)

\* Wrong: a client is passed on while another one's answer is under way.
BugHandleargs(t, k, cmd) ==
    CASE cmd \in {"version", "listen"} -> Special(t, k, cmd)
      [] OTHER -> [t EXCEPT !.current = k,
                            !.tomanager = Append(@, [cmd |-> cmd, k |-> k, unpriv |-> t.fds[k].unpriv])]

\* ps_ctl_handleargs and ps_ctl_sendargs: what the proxy does not answer itself it
\* passes on, for one client at a time.
ps_ctl_handleargs(t, k, cmd) ==
    CASE cmd \in {"version", "listen"} -> Special(t, k, cmd)
      [] cmd \in {"dump", "act"} /\ t.current \in {None, k} ->
             [t EXCEPT !.current = k,
                       !.tomanager = Append(@, [cmd |-> cmd, k |-> k, unpriv |-> t.fds[k].unpriv])]
      [] OTHER -> Refuse(t, k)

\* control_handle_read of a command.
control_handle_read(t, k) ==
    IF t.mode = "privsep"
    THEN ps_ctl_handleargs([t EXCEPT !.client[k].out = <<>>], k, t.client[k].out[1])
    ELSE control_recvdata([t EXCEPT !.client[k].out = <<>>], k, t.client[k].out[1])

\* control_handle: a client has connected, over one of the two sockets.
control_handle1(k, unpriv, plan) ==
    /\ c.client[k].st = "new"
    /\ c' = [c EXCEPT !.client[k].st = "open", !.client[k].plan = plan,
                      !.fds[k] = [Unused EXCEPT !.used = TRUE, !.unpriv = unpriv]]

\* While data is queued only a listener's commands are read.
reads(k) == ~c.fds[k].write \/ c.fds[k].listen

\* control_handle_data while the client is there: write, then read.
control_handle_data(k) ==
    /\ c.fds[k].used /\ c.client[k].st = "open"
    /\ LET w == c.fds[k].write /\ Len(c.client[k].in) < Wire
           r == reads(k) /\ c.client[k].out # <<>>
           t == IF w THEN control_handle_write(c, k) ELSE c
       IN  /\ w \/ r
           /\ c' = IF r THEN control_handle_read(t, k) ELSE t

\* control_handle_data once the client has closed its end: nothing is written; a
\* command it sent before is still read, and then the connection is freed.
HangUp(k) ==
    /\ c.fds[k].used /\ c.client[k].st = "gone"
    /\ c' = control_hangup(IF reads(k) /\ c.client[k].out # <<>>
                           THEN control_handle_read(c, k) ELSE c, k)
----------------------------------------------------------------------------
(* The proxy's two sockets from the manager                                 *)

\* ps_ctl_recv: whatever answers have come are the current client's.
ps_ctl_recv ==
    /\ c.work # <<>>
    /\ c' = IF c.current = None THEN [c EXCEPT !.work = <<>>]
            ELSE [control_queue(c, c.current, c.work) EXCEPT !.work = <<>>]

\* ps_ctl_listen in the proxy, script_runreason in the one process.
Share(t, n) ==
    [t EXCEPT !.shared = n,
              !.fds = [k \in Clients |->
                  IF t.fds[k].listen THEN control_queue(t, k, <<Event(n)>>).fds[k]
                  ELSE t.fds[k]]]

ps_ctl_listen ==
    /\ c.listen # <<>>
    /\ c' = Share([c EXCEPT !.listen = Tail(@)], Head(c.listen))
----------------------------------------------------------------------------
(* The manager                                                              *)

\* control_free of a connection made for a command: the work socket is closed.
FreeWork(t) == [t EXCEPT !.busy = FALSE, !.workopen = FALSE, !.wqueue = <<>>]

\* Wrong: the hang-up of any client ends the answer to the current one.
BugDispatch(t, m) ==
    CASE m.cmd = "EOF" -> [t EXCEPT !.busy = FALSE, !.wqueue = <<>>]
      [] m.cmd # "EOF" /\ t.busy -> Refuse(t, m.k)
      [] m.cmd = "dump" /\ ~t.busy /\ t.workopen ->
             [t EXCEPT !.busy = TRUE,
                       !.work = Append(@, Head(Answer(m.k))),
                       !.wqueue = Tail(Answer(m.k))]
      [] m.cmd = "act" /\ ~t.busy /\ ~m.unpriv -> [t EXCEPT !.busy = TRUE]
      [] OTHER -> FreeWork(Refuse(t, m.k))

\* ps_ctl_dispatch, control_recvdata and dhcpcd_handleargs: each command gets a
\* connection of its own on the work socket, and its answer a queue of its own.
ps_ctl_dispatch(t, m) ==
    CASE m.cmd = "EOF" -> [t EXCEPT !.busy = FALSE]
      [] m.cmd # "EOF" /\ t.busy -> Refuse(t, m.k)
      [] m.cmd = "dump" /\ ~t.busy /\ t.workopen ->
             [t EXCEPT !.busy = TRUE,
                       !.work = Append(@, Head(Answer(m.k))),
                       !.wqueue = Tail(Answer(m.k))]
      [] m.cmd = "act" /\ ~t.busy /\ ~m.unpriv -> [t EXCEPT !.busy = TRUE]
      [] OTHER -> FreeWork(Refuse(t, m.k))

ps_ctl_dodispatch ==
    /\ c.tomanager # <<>>
    /\ c' = ps_ctl_dispatch([c EXCEPT !.tomanager = Tail(@)], Head(c.tomanager))

\* control_handle_write on the work socket.
WriteWork ==
    /\ c.wqueue # <<>>
    /\ c' = [c EXCEPT !.work = Append(@, Head(c.wqueue)), !.wqueue = Tail(@)]

\* script_runreason: what the script was given goes to the listeners.
script_runreason ==
    /\ c.events < MaxEvents
    /\ c' = IF c.mode = "privsep"
            THEN [c EXCEPT !.events = @ + 1, !.listen = Append(@, c.events + 1)]
            ELSE Share([c EXCEPT !.events = @ + 1], c.events + 1)
----------------------------------------------------------------------------
(* Clients                                                                  *)

\* control_send.  A client waits for an answer before its next command.
control_send(k) ==
    /\ c.client[k].st = "open" /\ c.fds[k].used
    /\ c.client[k].waits = "" /\ c.client[k].out = <<>>
    /\ c.client[k].plan # <<>>
    /\ LET cmd == Head(c.client[k].plan)
       IN  c' = [c EXCEPT !.client[k].out = <<cmd>>, !.client[k].plan = Tail(@),
                          !.client[k].waits = IF cmd \in {"version", "dump"} THEN cmd
                                              ELSE ""]

\* dhcpcd_readdump0 to 2: the answer is complete with as many parts as announced.
dhcpcd_readdump(k) ==
    /\ c.client[k].st = "open" /\ c.client[k].in # <<>>
    /\ LET m == Head(c.client[k].in)
           got == Append(c.client[k].got, m)
           all == IF c.client[k].waits = "dump" THEN Len(Answer(k)) ELSE 1
           whole == Len(Own(k, got)) >= all
       IN  c' = [c EXCEPT !.client[k].in = Tail(@),
                          !.client[k].got = IF whole THEN Heard(got) ELSE got,
                          !.client[k].waits = IF whole /\ ~IsEvent(m) THEN "" ELSE @]

\* The client is done, or was told that the connection is closed, or
\* dhcpcd_readdumptimeout ended its wait.
dhcpcd_readdumptimeout(k) ==
    /\ c.client[k].st = "open"
    /\ c' = [c EXCEPT !.client[k] = [@ EXCEPT !.st = "gone", !.waits = "", !.plan = <<>>,
                                               !.in = <<>>, !.got = <<>>],
                      !.left = @ \/ c.client[k].waits = "dump"]

Manager == ps_ctl_dodispatch \/ WriteWork \/ script_runreason
Proxy == \/ ps_ctl_recv \/ ps_ctl_listen
         \/ \E k \in Clients : control_handle_data(k) \/ HangUp(k)
         \/ \E k \in Clients, unpriv \in BOOLEAN, plan \in Plans :
                control_handle1(k, unpriv, plan)
Client == \E k \in Clients : \/ control_send(k)
                            \/ dhcpcd_readdump(k)
                            \/ dhcpcd_readdumptimeout(k)

Next == Manager \/ Proxy \/ Client
Spec == Init /\ [][Next]_c
----------------------------------------------------------------------------
(* Properties                                                               *)

Sent(k) == c.client[k].got \o c.client[k].in \o c.fds[k].queue

\* A client gets parts of its own answer only, although all answers come over the
\* one work socket (ps_ctl_recv).  What a client that gave up waiting was still to
\* get goes to the next client: then nothing is promised.
RepliesAreOwn ==
    c.left \/ \A k \in Clients : \A i \in DOMAIN Sent(k) :
                  Sent(k)[i].for \in {k, None}

\* Whoever waits for a dump (dhcpcd_readdump) and had no command dropped has its
\* command on the way, or the rest of its answer, complete and in order, whichever
\* of the queues and sockets between the manager and the client the parts are in.
WaitIsServed ==
    \A k \in Clients \ c.refused :
        c.client[k].st = "open" /\ c.client[k].waits = "dump" /\ ~c.left =>
            \/ c.client[k].out # <<>>
            \/ \E i \in DOMAIN c.tomanager :
                  c.tomanager[i].k = k /\ c.tomanager[i].cmd = "dump"
            \/ Own(k, Sent(k)) \o (IF c.current = k THEN c.work \o c.wqueue ELSE <<>>)
                  = Answer(k)

\* A listener is sent every event from its --listen on, once and in the order in
\* which the scripts were run (script_runreason, ps_ctl_listen).
ListenersHearAll ==
    /\ \A k \in Clients :
          c.fds[k].listen /\ c.client[k].st = "open" =>
              Heard(Sent(k)) = [i \in 1 .. c.shared - c.since[k] |->
                                    Event(c.since[k] + i)]
    /\ c.listen = [i \in 1 .. c.events - c.shared |-> c.shared + i]

\* ps_control_client of the proxy is never a freed connection, and control_hangup
\* frees no connection that control_recvdata has freed: that takes a command that
\* fails in the same wake-up that reports the hang-up of its client, without
\* privilege separation.
NoDangling ==
    /\ c.current # None => c.fds[c.current].used
    /\ c.dangling => c.mode = "single" /\ c.refused # {}

\* control.h limits the queue of a connection.
QueueIsLimited == \A k \in Clients : Len(c.fds[k].queue) <= CONTROL_QUEUE_MAX

\* Clients get what is theirs: whoever waits its own answer, whole and in order, and a
\* listener every event; no queue or socket on the way belongs to one that is gone.
ClientsAreServed == RepliesAreOwn /\ WaitIsServed /\ ListenersHearAll /\ NoDangling
=============================================================================
