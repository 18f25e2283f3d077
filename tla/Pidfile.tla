------------------------------ MODULE Pidfile ------------------------------
(***************************************************************************)
(* The pid file, src/compat/pidfile.c as main in src/src/dhcpcd.c uses it: *)
(* dhcpcd is invoked several times at once for the same interfaces, to     *)
(* start, to tell the running one to exit, or to have it rebind.           *)
(*                                                                         *)
(* A step is a system call on the file.  The lock belongs to the file that *)
(* was opened, which need no longer be the one the path names, and is      *)
(* shared by the launcher and the manager it forks.                        *)
(***************************************************************************)
EXTENDS Naturals, FiniteSets

CONSTANTS
    Invocations,
    Plans,        \* what each is invoked for: start, exit or rebind
    None

VARIABLE p

Init ==
    \E cmd \in Plans, ps \in BOOLEAN, crash \in BOOLEAN :
    p = [cmd |-> cmd,
         privsep |-> ps, crash |-> crash,
         inv |-> [i \in Invocations |-> IF cmd[i] = "start" THEN "contact" ELSE "signal"],
         mgr |-> [i \in Invocations |-> "none"],     \* the manager it forks
         root |-> [i \in Invocations |-> FALSE],     \* ... and its root process runs
         told |-> [i \in Invocations |-> FALSE],     \* it is sent SIGTERM, or a command
         pid |-> [i \in Invocations |-> None],       \* what was read from the file
         ok |-> [i \in Invocations |-> FALSE],
         path |-> None,                              \* the file, by who created it
         text |-> [i \in Invocations |-> None],      \* the pid in a file
         fd |-> [i \in Invocations |-> None],        \* pidfile_fd
         locked |-> [i \in Invocations |-> FALSE],
         holders |-> [i \in Invocations |-> {}],     \* processes that have it open
         sock |-> None,                              \* who bound the control socket
         raced |-> FALSE]     \* history: a file was unlinked while others had it open

Alive(pid) ==
    IF pid[2] = "L" THEN p.inv[pid[1]] # "gone" ELSE p.mgr[pid[1]] \notin {"none", "gone"}
----------------------------------------------------------------------------
(* pidfile.c                                                                *)

pidfile_read == IF p.path = None THEN None ELSE p.text[p.path]

\* unlink, by a process of invocation i.
Unlink(t, i) ==
    [t EXCEPT !.path = None,
              !.raced = @ \/ \E j \in Invocations \ {i} : t.path # None /\ t.fd[j] = t.path]

\* A process ends or closes the file: the lock goes with the last one.
Close(t, i, who) ==
    LET left == t.holders[i] \ {who}
    IN  [t EXCEPT !.holders[i] = left,
                  !.fd[i] = IF left = {} THEN None ELSE @,
                  !.locked[i] = @ /\ left # {}]

\* pidfile_lock: opens the file, which it creates if it must.
Open(i) ==
    /\ p.inv[i] = "open"
    /\ LET file == IF p.path = None THEN i ELSE p.path
       IN  p' = [p EXCEPT !.inv[i] = "flock", !.path = file, !.fd[i] = file,
                          !.holders[i] = {"L"}]

\* ... locks it, or says who runs already.
Flock(i) ==
    /\ p.inv[i] = "flock"
    /\ p' = IF \E j \in Invocations : p.locked[j] /\ p.fd[j] = p.fd[i]
            THEN [Close(p, i, "L") EXCEPT !.inv[i] = "gone"]
            ELSE [p EXCEPT !.inv[i] = "truncate", !.locked[i] = TRUE]

\* ... and writes who has it: the launcher, then the manager.
Truncate(i) ==
    \/ /\ p.inv[i] = "truncate"
       /\ p' = [p EXCEPT !.inv[i] = "write", !.text[p.fd[i]] = None]
    \/ /\ p.mgr[i] = "truncate"
       /\ p' = [p EXCEPT !.mgr[i] = "write", !.text[p.fd[i]] = None]

\* Wrong: the manager does not write its own.
BugWrite(i) ==
    \/ /\ p.inv[i] = "write"
       /\ p' = [p EXCEPT !.inv[i] = "fork", !.text[p.fd[i]] = <<i, "L">>]
    \/ /\ p.mgr[i] = "write"
       /\ p' = [p EXCEPT !.mgr[i] = "control", !.text[p.fd[i]] = <<i, "L">>]

Write(i) ==
    \/ /\ p.inv[i] = "write"
       /\ p' = [p EXCEPT !.inv[i] = "fork", !.text[p.fd[i]] = <<i, "L">>]
    \/ /\ p.mgr[i] = "write"
       /\ p' = [p EXCEPT !.mgr[i] = "control", !.text[p.fd[i]] = <<i, "M">>]

\* pidfile_clean, at exit of the process that wrote its pid: truncates, unlinks, closes.
pidfile_clean(i) ==
    \/ /\ p.mgr[i] = "clean"
       /\ p' = [p EXCEPT !.mgr[i] = "unlink", !.text[p.fd[i]] = None]
    \/ /\ p.mgr[i] = "unlink"
       /\ p' = [Close(Unlink(p, i), i, "M") EXCEPT !.mgr[i] = "gone"]
----------------------------------------------------------------------------
(* main: a command for the dhcpcd that runs                                 *)

Signal(i) ==
    /\ p.inv[i] = "signal"
    /\ p' = [p EXCEPT !.pid[i] = pidfile_read,
                      !.inv[i] = IF pidfile_read = None THEN "unlink" ELSE "kill"]

Kill(i) ==
    /\ p.inv[i] = "kill"
    /\ p' = IF ~Alive(p.pid[i]) THEN [p EXCEPT !.inv[i] = "unlink"]
            ELSE IF p.cmd[i] = "rebind" THEN [p EXCEPT !.inv[i] = "gone", !.ok[i] = TRUE]
            ELSE [p EXCEPT !.inv[i] = "wait", !.told[p.pid[i][1]] = TRUE]

UnlinkStale(i) ==
    /\ p.inv[i] = "unlink"
    /\ p' = [Unlink(p, i) EXCEPT !.inv[i] = "contact"]

\* Wrong: only looks whether the process may be told.
BugTimeout(i) ==
    /\ p.inv[i] = "wait"
    /\ p' = [p EXCEPT !.inv[i] = "gone", !.ok[i] = TRUE]

\* dhcpcd_pidfile_timeout: until the file is empty or gone, or it was tried too often.
dhcpcd_pidfile_timeout(i) ==
    /\ p.inv[i] = "wait"
    /\ \/ pidfile_read = None /\ p' = [p EXCEPT !.inv[i] = "gone", !.ok[i] = TRUE]
       \/ pidfile_read # None /\ p' = [p EXCEPT !.inv[i] = "gone"]

\* control_open, control_send: the command goes to the one that listens, if any does;
\* otherwise nothing is there to exit, or it starts.
Contact(i) ==
    /\ p.inv[i] = "contact"
    /\ p' = IF p.sock # None /\ p.mgr[p.sock] = "running"
            THEN [p EXCEPT !.inv[i] = "gone", !.ok[i] = TRUE,
                           !.told[p.sock] = @ \/ p.cmd[i] = "exit"]
            ELSE [p EXCEPT !.inv[i] = IF p.cmd[i] = "exit" THEN "gone" ELSE "open"]
----------------------------------------------------------------------------
(* main: the launcher and the manager                                       *)

\* fork; when it fails the process ends, and cleans up unless it is privilege separated.
Fork(i) ==
    /\ p.inv[i] = "fork"
    /\ \/ p' = [p EXCEPT !.inv[i] = "launcher", !.mgr[i] = "truncate",
                         !.holders[i] = {"L", "M"}]
       \/ p' = [Close(IF p.privsep THEN p ELSE Unlink([p EXCEPT !.text[p.fd[i]] = None], i),
                      i, "L") EXCEPT !.inv[i] = "gone"]

\* Wrong: the launcher cleans up after itself.
BugLauncher(i) ==
    /\ p.inv[i] = "launcher" /\ p.mgr[i] \notin {"truncate", "write", "control"}
    /\ p' = [Close(Unlink([p EXCEPT !.text[p.fd[i]] = None], i), i, "L")
                EXCEPT !.inv[i] = "gone"]

\* The launcher ends with _exit "so atexit won't remove our pidfile", once the
\* manager lets go of it or ends.
Launcher(i) ==
    /\ p.inv[i] = "launcher" /\ p.mgr[i] \notin {"truncate", "write", "control"}
    /\ p' = [Close(p, i, "L") EXCEPT !.inv[i] = "gone"]

\* ps_start and control_start, which binds the socket in place of any other.
Control(i) ==
    /\ p.mgr[i] = "control"
    /\ p' = [p EXCEPT !.mgr[i] = "running", !.root[i] = p.privsep, !.sock = i]

\* A signal or a command to exit: control_stop unlinks the socket.
Stop(i) ==
    /\ p.mgr[i] = "running" /\ p.told[i]
    /\ p' = [p EXCEPT !.mgr[i] = IF p.privsep THEN "root" ELSE "clean", !.sock = None]

\* ps_root_stop in the root process, when the manager stops it or has died.
ps_root_stop(i) ==
    /\ p.root[i] /\ p.mgr[i] \in {"root", "gone"}
    /\ p' = [Unlink(p, i) EXCEPT !.root[i] = FALSE]

\* ... and the manager, which has waited for it, ends with _exit.
Exit(i) ==
    /\ p.mgr[i] = "root" /\ ~p.root[i]
    /\ p' = [Close(p, i, "M") EXCEPT !.mgr[i] = "gone"]

Crash(i) ==
    /\ p.crash /\ p.mgr[i] = "running"
    /\ p' = [Close(p, i, "M") EXCEPT !.mgr[i] = "gone"]

Next ==
    \E i \in Invocations :
        \/ Signal(i) \/ Kill(i) \/ UnlinkStale(i) \/ dhcpcd_pidfile_timeout(i) \/ Contact(i)
        \/ Open(i) \/ Flock(i) \/ Truncate(i) \/ Write(i) \/ Fork(i) \/ Launcher(i)
        \/ Control(i) \/ Stop(i) \/ pidfile_clean(i) \/ ps_root_stop(i) \/ Exit(i) \/ Crash(i)

Spec == Init /\ [][Next]_p
----------------------------------------------------------------------------
(* Properties                                                               *)

Runs(i) == p.mgr[i] \in {"truncate", "write", "control", "running"}

\* Two managers never run at once (one that ends has stopped), unless a file was unlinked while another invocation
\* had it open, which flock cannot see: in particular neither the launcher that ends
\* nor a stale file that a crash leaves lets a second one in (pidfile_lock, the _exit
\* at the end of main).
OneInstance ==
    ~p.raced => \A i, j \in Invocations : Runs(i) /\ Runs(j) => i = j

\* While a manager runs the path names its file, and the file names the manager, so
\* that a signal reaches it; unless a file was unlinked as above (the second
\* pidfile_lock of main).
PidIsManager ==
    ~p.raced => \A i \in Invocations :
        p.mgr[i] = "running" => p.path = p.fd[i] /\ p.text[p.path] = <<i, "M">>

\* When an invocation that was to end the manager says that it did, the manager it sent
\* the signal to is no longer running (dhcpcd_pidfile_timeout takes an empty or missing
\* file for the end).
ExitIsTrue ==
    ~p.raced => \A i, j \in Invocations :
        p.inv[i] = "gone" /\ p.ok[i] /\ p.cmd[i] = "exit" /\ p.pid[i] = <<j, "M">>
            => p.mgr[j] # "running"

\* The pid file does its work among invocations that race: one manager runs, the file
\* has its pid, and dhcpcd -x tells the truth.
PidfileHolds == OneInstance /\ PidIsManager /\ ExitIsTrue
=============================================================================
