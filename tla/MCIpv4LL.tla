------------------------------ MODULE MCIpv4LL ------------------------------
(***************************************************************************)
(* Ipv4LL for TLC: three addresses, so that one can be in use, one taken   *)
(* by somebody else and one left to pick; short intervals in the order of  *)
(* the code's.                                                             *)
(***************************************************************************)
EXTENDS Ipv4LL

Usual == {"DHCP", "CONFIGURE", "ARP"}

SomeSetups ==
    {<<Usual, {}>>, <<{"CONFIGURE", "ARP", "PERSISTDEFENCE"}, {}>>,
     <<{"DHCP"}, {"roaming"}>>, <<Usual, {"networks"}>>,
     <<{"CONFIGURE", "ARP", "PERSISTDEFENCE"}, {"roaming", "faults"}>>,
     <<{"CONFIGURE"}, {"coincidence"}>>}
UsualSetup == {<<Usual, {}>>}
=============================================================================
