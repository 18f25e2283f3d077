---------------------------- MODULE MCDhcp4Lease ----------------------------
(***************************************************************************)
(* One interface from its first DISCOVER on, in one of three worlds:       *)
(*   lease   two servers' addresses, and every message a server sends;     *)
(*   faults  one address, and any one system call failing at any time;     *)
(*   live    a fair network, for what has to happen in the end.            *)
(***************************************************************************)
EXTENDS MCDhcp4

VARIABLE part

all == <<part, vars>>

Worlds == {"lease", "faults", "live"}
LeaseFaultLiveOptions == LeaseOptions \cup FaultOptions \cup LivenessOptions
FineExpiredOrFault == FineOrExpired \cup OneFault

Lease == INSTANCE Dhcp4 WITH
    OptionSets <- LeaseOptions, Outcomes <- FineOrExpired, Events <- LeaseEvents
Faults == INSTANCE Dhcp4 WITH
    Pool <- OneAddr, OptionSets <- FaultOptions, Outcomes <- OneFault
Live == INSTANCE Dhcp4 WITH
    Pool <- OneAddr, OptionSets <- LivenessOptions, Outcomes <- AllFine,
    Events <- LossEvents

In(world, A) == part = world /\ A /\ part' = part

MCInit ==
    /\ part \in Worlds
    /\ part = "lease" => Lease!Init
    /\ part = "faults" => Faults!Init
    /\ part = "live" => Live!Init

MCNext == In("lease", Lease!Next) \/ In("faults", Faults!Next) \/ In("live", Live!Next)

\* Dhcp4's Fairness, of the live world.
LiveFairness ==
    /\ SF_all(In("live", Live!FireStart1)) /\ WF_all(In("live", Live!FireDiscover))
    /\ WF_all(In("live", Live!FireRequestFailed))
    /\ WF_all(In("live", Live!FireStartRenew))
    /\ WF_all(In("live", Live!FireRebind)) /\ WF_all(In("live", Live!FireExpire))
    /\ WF_all(In("live", Live!FireSend("send_discover", "DISCOVER")))
    /\ WF_all(In("live", Live!FireSend("send_request", "REQUEST")))
    /\ WF_all(In("live", Live!FireSend("send_renew", "REQUEST")))
    /\ WF_all(In("live", Live!FireSend("send_rebind", "REQUEST")))
    /\ WF_all(In("live", Live!CarrierUp))
    /\ SF_all(In("live", s.link = "up" /\ Live!RecvOffer))
    /\ SF_all(In("live", s.link = "up" /\ Live!RecvAck))
    /\ SF_all(In("live", \E a \in Addr : Live!ArpNotFound(a)))

MCSpec == MCInit /\ [][MCNext]_all /\ LiveFairness

\* While an answer is awaited, some open socket delivers it, unless opening one
\* failed (send_message, dhcp_openudp).
AnswersAreHeardIfOpened == part = "lease" => AnswersAreHeard

\* No path through NAK, conflict, expiry or carrier loss ends the attempts to get
\* a lease, when the network is fair.
LiveBoundAgain == part = "live" => AlwaysBoundAgain

\* The client always waits for something that will come: a timeout is pending, the
\* retransmission is that of its state, and an open socket delivers the answer.
ExchangeGoesOn ==
    NeverStuck /\ RetransmitMatchesState /\ AnswersAreHeardIfOpened
=============================================================================
