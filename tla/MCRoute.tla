------------------------------ MODULE MCRoute ------------------------------
(***************************************************************************)
(* Instances for TLC of Route (two interfaces, on one network or two, with *)
(* a router inside or outside the subnet) and of RbTree, which holds the   *)
(* routes (eight items, two of the same key), one or the other from the    *)
(* start.                                                                  *)
(***************************************************************************)
EXTENDS Route

VARIABLES part, t, ret

L(a, n, r, m) == [addr |-> a, net |-> n, router |-> r, mtu |-> m]

SomeLeases ==
    << {L(11, "net1", "r1", 0), L(12, "net1", "r1", 0), L(11, "none", "x1", 1)},
       {L(21, "net1", "r1", 0), L(22, "net2", "r2", 0)} >>

Usual == {"configure", "gateway"}

SomeSetups ==
    { <<Usual, {"notify", "leftover"}>>,
      <<Usual, {"others"}>>,
      <<Usual \cup {"ipv4ll"}, {"others"}>>,
      <<Usual \cup {"samemetric", "ipv4ll"}, {}>>,
      <<Usual \cup {"wireless", "ipv4ll"}, {"departs"}>>,
      <<Usual \cup {"persistent", "static"}, {}>>,
      <<{"configure", "ipv4ll"}, {}>>,
      <<Usual \cup {"noarp"}, {"leftover"}>>,
      <<Usual \cup {"p2p"}, {}>> }

R == INSTANCE RbTree WITH N <- 8, key <- [x \in 1..8 |-> IF x = 8 THEN 1 ELSE x]

all == <<part, t, ret, vars>>
AnySetup == CHOOSE x \in SomeSetups : TRUE
MCInit ==
    /\ part \in {"routes", "tree"} /\ Init /\ R!Init
    /\ part = "tree" => <<opt, world>> = AnySetup
Routing(A) == part = "routes" /\ A /\ UNCHANGED <<part, t, ret>>
Keeping(A) == part = "tree" /\ A /\ UNCHANGED <<part, vars>>
MCNext == Routing(Next) \/ Keeping(R!Next)
MCSpec == MCInit /\ [][MCNext]_all

\* RbTree: the tree passes rb_tree_check_node, and walks and searches find what is in it.
TreeIsSearchTree == R!TreeIsSearchTree

\* RbTree: whatever is inserted and removed, it is a set of items with distinct keys
\* (rb_tree_insert_node, rb_tree_remove_node).
IsKeyedSet == R!IsKeyedSet
=============================================================================
