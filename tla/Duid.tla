-------------------------------- MODULE Duid --------------------------------
(***************************************************************************)
(* The DHCP unique identifier of the host, src/src/duid.c: made from the   *)
(* hardware address of an interface the first time one is needed, kept in  *)
(* a file, and used by every dhcpcd that runs after.  The file may fail to *)
(* be written, entirely or in part.                                        *)
(***************************************************************************)
EXTENDS Naturals, Sequences, SequencesExt

CONSTANTS
    Interfaces,    \* names of the interfaces that may come
    Hardware,      \* ... of those that have a hardware address
    Files,         \* what the file may hold at first
    Types,         \* the type of identifier that is asked for: LL, LLT or default
    Values,        \* the identifier that is configured, or None
    MaxStarts,     \* bound: times dhcpcd is started
    Empty, Big, None

VARIABLE u

Init ==
    \E file \in Files, type \in Types, value \in Values :
    u = [file |-> file, duid_type |-> type, value |-> value,
         runs |-> FALSE, starts |-> 0,
         ifaces |-> <<>>,
         duid |-> None,        \* ctx->duid: not made, Empty (no octet) or made
         stored |-> IF file \in {None, Empty, Big} THEN None ELSE file]
                               \* history: what the file was given as a whole

\* duid_make: from an interface, and when it is of type LLT from the time.
duid_make(t, ifp, type) ==
    IF ifp \notin Hardware THEN Empty
    ELSE [type |-> type, hw |-> ifp, time |-> IF type = "LLT" THEN t.starts ELSE 0,
          torn |-> FALSE]

\* dhcp_read_hwaddr_aton: an empty file is as good as none.
dhcp_read_hwaddr_aton(t) == IF t.file \in {None, Empty} THEN None ELSE t.file

\* dhcp_writefile, and what duid_get makes of its failure.  The file is truncated
\* before it is written, and a short write is no failure.
Write(t, ifp, d, result) ==
    LET failed == IF t.duid_type = "LL" THEN d ELSE duid_make(t, ifp, "LL")
    IN  CASE result = "ok" -> [t EXCEPT !.duid = d, !.file = d, !.stored = d]
          [] result = "short" -> [t EXCEPT !.duid = d, !.file = [d EXCEPT !.torn = TRUE]]
          [] result = "full" -> [t EXCEPT !.duid = failed, !.file = Empty]
          [] result = "denied" -> [t EXCEPT !.duid = failed]

\* Wrong: makes a new one for an interface.
BugGet(t, ifp, result) ==
    LET type == IF t.duid_type = "LL" THEN "LL" ELSE "LLT"
    IN  IF ifp = None \/ ifp \notin Hardware THEN t
        ELSE Write(t, ifp, duid_make(t, ifp, type), result)

\* duid_get: the file, or one made from the interface or from another that has a
\* hardware address.  (It is built without the UUID of the machine.)
duid_get(t, ifp, result) ==
    LET old == dhcp_read_hwaddr_aton(t)
        others == SelectSeq(t.ifaces, LAMBDA i : i \in Hardware)
        from == IF ifp \in Hardware \/ others = <<>> THEN ifp ELSE Head(others)
        type == IF t.duid_type = "LL" THEN "LL" ELSE "LLT"
    IN  IF old \notin {None, Big} THEN [t EXCEPT !.duid = old]
        ELSE IF ifp = None THEN t
        ELSE IF from \notin Hardware THEN [t EXCEPT !.duid = duid_make(t, from, "LL")]
        ELSE Write(t, from, duid_make(t, from, type), result)

\* Wrong: asks again.
BugInit(t, ifp, result) == duid_get(t, ifp, result)

\* duid_init
duid_init(t, ifp, result) == IF t.duid # None THEN t ELSE duid_get(t, ifp, result)

Results == {"ok", "short", "full", "denied"}

\* main: the configuration is read, then dhcpcd_initduid without an interface.
Start ==
    /\ ~u.runs /\ u.starts < MaxStarts
    /\ u' = duid_init([u EXCEPT !.runs = TRUE, !.starts = @ + 1, !.duid = u.value], None, "ok")

\* An interface is listed.
Arrive(ifp) ==
    /\ u.runs /\ ifp \notin ToSet(u.ifaces)
    /\ u' = [u EXCEPT !.ifaces = Append(@, ifp)]

\* dhcpcd_startinterface calls dhcpcd_initduid.
dhcpcd_initduid(ifp, result) ==
    /\ u.runs /\ ifp \in ToSet(u.ifaces)
    /\ u' = duid_init(u, ifp, result)

\* dhcpcd ends or crashes.
Stop == u.runs /\ u' = [u EXCEPT !.runs = FALSE, !.duid = None, !.ifaces = <<>>]

Next ==
    \/ Start \/ Stop
    \/ \E ifp \in Interfaces :
          Arrive(ifp) \/ \E result \in Results : dhcpcd_initduid(ifp, result)

Spec == Init /\ [][Next]_u
----------------------------------------------------------------------------
(* Properties                                                               *)

\* Once an identifier was stored as a whole, every dhcpcd uses that one, whichever
\* interfaces it finds and in whatever order, unless one is configured: "it's never
\* supposed to change once we have one even if the interfaces do" (duid_get).
DuidIsKept ==
    u.stored # None /\ u.value = None => u.duid \in {None, u.stored}

KeepsOne == u.runs /\ u'.runs /\ u.duid # None => u'.duid = u.duid

\* One that runs uses the same identifier for all its interfaces, also when it could
\* not be stored (duid_init).
DuidIsOne == [][KeepsOne]_u
=============================================================================
