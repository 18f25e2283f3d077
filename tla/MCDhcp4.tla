------------------------------ MODULE MCDhcp4 ------------------------------
(***************************************************************************)
(* Instances of Dhcp4 for TLC.  An option set is a configuration; TLC      *)
(* starts from each one a run names.                                       *)
(***************************************************************************)
EXTENDS Dhcp4

CONSTANTS a1, a2

BothAddr == {a1, a2}
OneAddr == {a1}
NoArping == <<>>
GatewayArping == <<a2>>

\* The default configuration of one interface, and variations of it.
Usual == {"ARP", "CONFIGURE", "DHCP", "REBOOT", "REQUEST_TIME"}
UsualOptions == {Usual}
LeaseOptions == {Usual \cup {"IPV4LL"}, Usual \cup {"PRIVSEP"}}
CommandOptions ==
    {Usual \cup {"IPV4LL", "PRIVSEP", "MANAGER"},
     Usual \cup {"RELEASE", "DELAY", "V6ONLY", "RAPID_COMMIT"},
     Usual \cup {"LASTLEASE", "XID_HWADDR"},
     (Usual \ {"REBOOT"}) \cup {"LASTLEASE_EXTEND", "ANONYMOUS"}}
FaultOptions ==
    {Usual, Usual \cup {"RELEASE", "DELAY"},
     Usual \cup {"PERSISTENT", "RAPID_COMMIT"}}
FixedOptions ==
    {Usual \cup o : o \in {{"INFORM"}, {"INFORM", "REQADDR"},
                           {"STATIC"}, {"STATIC", "REQADDR"}}}
AnyOptions == CommandOptions \cup FixedOptions
LivenessOptions == {Usual, Usual \cup {"IPV4LL", "DELAY"}}
LinkLocalOptions == {Usual \cup {"IPV4LL"}}
LastLeaseOptions == {Usual \cup {"LASTLEASE"}}
NoArpInformOptions == {(Usual \ {"ARP"}) \cup {"INFORM", "REQADDR"}}
NoConfigureOptions == {(Usual \ {"CONFIGURE"}) \cup {"PRIVSEP"}}

AllEvents == EventNames
\* Without the events that restart the client, or apply its lease, in the middle
\* of a probe.
FaultEvents == EventNames \ {"reboot", "reconfigure", "roam"}
LeaseEvents == FaultEvents \ {"bootp", "defend"}
ConflictNak == {"conflict", "nak"}
LossEvents == {"nak", "lost", "forcerenew", "autoconf"}
Conflict == {"conflict"}
Reboot == {"reboot"}
Reconfigure == {"reboot", "reconfigure"}
ThirdParty == {"deladdr"}
AddrEvents == {"newaddr"}
Restarts == {"restart"}

Fine ==
    [send |-> "ok", note |-> "ok", add |-> TRUE, arp |-> TRUE, udp |-> TRUE,
     expired |-> FALSE, junk |-> a1]
AllFine == {Fine}
\* A stored lease may have run out.
FineOrExpired == {Fine, [Fine EXCEPT !.expired = TRUE]}
\* One system call fails, except that ARP states can be opened.
OneFault ==
    {Fine}
    \cup {[Fine EXCEPT !.send = r] : r \in {"bpf", "soft", "down", "hard"}}
    \cup {[Fine EXCEPT !.note = r] : r \in {"soft", "hard"}}
    \cup {[Fine EXCEPT !.add = FALSE], [Fine EXCEPT !.udp = FALSE]}
AddFault == {Fine, [Fine EXCEPT !.add = FALSE]}
UdpFault == {Fine, [Fine EXCEPT !.udp = FALSE]}
=============================================================================
