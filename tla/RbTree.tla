------------------------------- MODULE RbTree -------------------------------
(***************************************************************************)
(* The red-black tree of compat/rb.c, which holds dhcpcd's routes.  The     *)
(* nodes are the items 1..N; RbtRoot is the address of rbt_root, which the  *)
(* code uses as the father of the root: its left child is the root.  A node *)
(* has two children (kid), a father, a position and a colour.  The fields   *)
(* of a node that is not in the tree are not read and are kept cleared.     *)
(***************************************************************************)
EXTENDS Integers, Sequences

CONSTANTS N, key

VARIABLES t,    \* struct rb_tree and its nodes
          ret   \* what the last insertion returned

vars == <<t, ret>>

Null == -1
RbtRoot == 0
Item == 1..N
LEFT == 0
RIGHT == 1
Dir == {LEFT, RIGHT}

RED_P(tr, n) == n # Null /\ tr.red[n]
BLACK_P(tr, n) == ~RED_P(tr, n)
ROOT_P(tr, n) == tr.kid[RbtRoot][LEFT] = n
CHILDLESS_P(tr, n) == n = Null \/ \A d \in Dir : tr.kid[n][d] = Null
TWOCHILDREN_P(tr, n) == n # Null /\ \A d \in Dir : tr.kid[n][d] # Null

MARK_RED(tr, n) == [tr EXCEPT !.red[n] = TRUE]
MARK_BLACK(tr, n) == [tr EXCEPT !.red[n] = FALSE]
SET_FATHER(tr, n, f) == [tr EXCEPT !.father[n] = f]

rb_tree_init ==
    [kid |-> [n \in 0..N |-> [d \in Dir |-> Null]], father |-> [n \in 0..N |-> Null],
     pos |-> [n \in 0..N |-> LEFT], red |-> [n \in 0..N |-> FALSE],
     minmax |-> [d \in Dir |-> Null]]

----------------------------------------------------------------------------
(* Searching. *)

RECURSIVE FindFrom(_, _, _)
FindFrom(tr, n, k) ==
    IF n = Null \/ key[n] = k THEN n
    ELSE FindFrom(tr, tr.kid[n][IF key[n] < k THEN RIGHT ELSE LEFT], k)

rb_tree_find_node(tr, k) == FindFrom(tr, tr.kid[RbtRoot][LEFT], k)

\* The node with key k, or the last one passed that lies beyond it: on the
\* right of k if d is RIGHT, on its left if d is LEFT.
RECURSIVE NearFrom(_, _, _, _, _)
NearFrom(tr, n, k, d, last) ==
    IF n = Null THEN last
    ELSE IF key[n] = k THEN n
    ELSE LET beyond == (key[n] > k) = (d = RIGHT)
         IN NearFrom(tr, tr.kid[n][IF key[n] < k THEN RIGHT ELSE LEFT], k, d, IF beyond THEN n ELSE last)

\* Wrong: the last node passed on the other side is kept.
BugGeq(tr, k) == NearFrom(tr, tr.kid[RbtRoot][LEFT], k, LEFT, Null)

rb_tree_find_node_geq(tr, k) == NearFrom(tr, tr.kid[RbtRoot][LEFT], k, RIGHT, Null)

rb_tree_find_node_leq(tr, k) == NearFrom(tr, tr.kid[RbtRoot][LEFT], k, LEFT, Null)

RECURSIVE Up(_, _, _)
Up(tr, n, d) ==
    IF ROOT_P(tr, n) THEN Null
    ELSE IF tr.pos[n] = 1 - d THEN tr.father[n] ELSE Up(tr, tr.father[n], d)

RECURSIVE Down(_, _, _)
Down(tr, n, d) == IF tr.kid[n][d] = Null THEN n ELSE Down(tr, tr.kid[n][d], d)

rb_tree_iterate(tr, n, d) ==
    IF n = Null THEN IF tr.kid[RbtRoot][LEFT] = Null THEN Null ELSE tr.minmax[d]
    ELSE IF tr.kid[n][d] = Null THEN Up(tr, n, d)
    ELSE Down(tr, tr.kid[n][d], 1 - d)

\* RB_TREE_FOREACH and RB_TREE_FOREACH_REVERSE.
RECURSIVE WalkFrom(_, _, _)
WalkFrom(tr, n, d) == IF n = Null THEN <<>> ELSE <<n>> \o WalkFrom(tr, rb_tree_iterate(tr, n, d), d)

FOREACH(tr, d) == WalkFrom(tr, rb_tree_iterate(tr, Null, 1 - d), d)

----------------------------------------------------------------------------
(* Rotation. *)

\* Wrong: the two nodes keep their colours.
BugReparent(tr, old_father, which) ==
    LET other == 1 - which
        grandpa == tr.father[old_father]
        child == tr.kid[old_father][which]
        inner == tr.kid[child][other]
        t1 == [tr EXCEPT !.kid[grandpa][tr.pos[old_father]] = child,
                         !.kid[old_father][which] = inner, !.kid[child][other] = old_father,
                         !.father[child] = grandpa, !.father[old_father] = child,
                         !.pos[child] = tr.pos[old_father], !.pos[old_father] = other]
    IN IF inner = Null THEN t1 ELSE [t1 EXCEPT !.father[inner] = old_father, !.pos[inner] = which]

\* The child on side which of old_father takes its place, colour and position.
rb_tree_reparent_nodes(tr, old_father, which) ==
    LET other == 1 - which
        grandpa == tr.father[old_father]
        child == tr.kid[old_father][which]
        inner == tr.kid[child][other]
        t1 == [tr EXCEPT !.kid[grandpa][tr.pos[old_father]] = child,
                         !.kid[old_father][which] = inner, !.kid[child][other] = old_father,
                         !.father[child] = grandpa, !.father[old_father] = child,
                         !.pos[child] = tr.pos[old_father], !.pos[old_father] = other,
                         !.red[child] = tr.red[old_father], !.red[old_father] = tr.red[child]]
    IN IF inner = Null THEN t1 ELSE [t1 EXCEPT !.father[inner] = old_father, !.pos[inner] = which]

----------------------------------------------------------------------------
(* Insertion. *)

\* Cases 2 and 3: the uncle is black.
Rotate(tr, self, father, grandpa, which) ==
    LET inside == self = tr.kid[father][1 - which]
        t1 == IF inside THEN rb_tree_reparent_nodes(tr, father, 1 - which) ELSE tr
        t2 == rb_tree_reparent_nodes(t1, grandpa, which)
    IN MARK_BLACK(t2, t2.kid[RbtRoot][LEFT])

RECURSIVE rb_tree_insert_rebalance(_, _)
rb_tree_insert_rebalance(tr, self) ==
    LET father == tr.father[self]
        grandpa == tr.father[father]
        which == IF father = tr.kid[grandpa][RIGHT] THEN RIGHT ELSE LEFT
        uncle == tr.kid[grandpa][1 - which]
        t1 == MARK_BLACK(MARK_BLACK(tr, uncle), father)
        t2 == MARK_RED(t1, grandpa)
    IN IF BLACK_P(tr, uncle) THEN Rotate(tr, self, father, grandpa, which)
       ELSE IF ROOT_P(tr, grandpa) THEN t1
       ELSE IF BLACK_P(t2, t2.father[grandpa]) THEN t2
       ELSE rb_tree_insert_rebalance(t2, grandpa)

\* Where a new leaf goes: under which node, on which side; or the node that is
\* there already, with side Null.
RECURSIVE PlaceFrom(_, _, _, _)
PlaceFrom(tr, parent, position, x) ==
    LET n == tr.kid[parent][position]
    IN IF n = Null THEN <<parent, position>>
       ELSE IF key[n] = key[x] THEN <<n, Null>>
       ELSE PlaceFrom(tr, n, IF key[n] < key[x] THEN RIGHT ELSE LEFT, x)

Leaf(tr, self, parent, position) ==
    LET root == parent = RbtRoot
        t1 == [tr EXCEPT !.father[self] = parent, !.pos[self] = position, !.red[self] = ~root,
                         !.kid[parent][position] = self,
                         !.minmax = [d \in Dir |-> IF root \/ (d = position /\ @[d] = parent)
                                                   THEN self ELSE @[d]]]
    IN IF ~root /\ RED_P(tr, parent) THEN rb_tree_insert_rebalance(t1, self) ELSE t1

\* Wrong: an item with a key that is there is inserted all the same.
BugInsert(tr, x) ==
    LET at == PlaceFrom(tr, RbtRoot, LEFT, x)
    IN IF at[2] = Null THEN [tr |-> tr, ret |-> x]
       ELSE [tr |-> Leaf(tr, x, at[1], at[2]), ret |-> x]

rb_tree_insert_node(tr, x) ==
    LET at == PlaceFrom(tr, RbtRoot, LEFT, x)
    IN IF at[2] = Null THEN [tr |-> tr, ret |-> at[1]]
       ELSE [tr |-> Leaf(tr, x, at[1], at[2]), ret |-> x]

----------------------------------------------------------------------------
(* Removal. *)

\* Case 4, after case 3 if the far nephew is black.
FarNephew(tr, parent, which) ==
    LET other == 1 - which
        brother == tr.kid[parent][other]
        t1 == IF BLACK_P(tr, tr.kid[brother][other])
              THEN rb_tree_reparent_nodes(tr, brother, which) ELSE tr
        far == t1.kid[t1.kid[parent][other]][other]
    IN rb_tree_reparent_nodes(MARK_BLACK(t1, far), parent, other)

\* Case 2b, or cases 3 and 4.
Terminal(tr, parent, which) ==
    LET brother == tr.kid[parent][1 - which]
    IN IF /\ RED_P(tr, parent) /\ BLACK_P(tr, brother)
          /\ \A d \in Dir : BLACK_P(tr, tr.kid[brother][d])
       THEN MARK_RED(MARK_BLACK(tr, parent), brother)
       ELSE FarNephew(tr, parent, which)

RECURSIVE rb_tree_removal_rebalance(_, _, _)
rb_tree_removal_rebalance(tr, parent, which) ==
    LET other == 1 - which
        brother == tr.kid[parent][other]
        paired == BLACK_P(tr, parent) /\ \A d \in Dir : BLACK_P(tr, tr.kid[brother][d])
        t1 == MARK_RED(tr, brother)
    IN IF RED_P(tr, tr.kid[parent][which]) THEN tr
       ELSE IF paired /\ BLACK_P(tr, brother)
       THEN IF ROOT_P(tr, parent) THEN t1
            ELSE rb_tree_removal_rebalance(t1, tr.father[parent], tr.pos[parent])
       ELSE Terminal(IF paired THEN rb_tree_reparent_nodes(tr, parent, other) ELSE tr, parent, which)

\* The fields of a node that was taken out.
Clear(tr, n) ==
    [tr EXCEPT !.father[n] = Null, !.kid[n] = [d \in Dir |-> Null], !.pos[n] = LEFT, !.red[n] = FALSE]

\* Wrong: the father becomes the end of the tree though another node was.
BugPrune(tr, self, rebalance) ==
    LET which == tr.pos[self]
        father == tr.father[self]
        t1 == [tr EXCEPT !.kid[father][which] = Null,
                         !.minmax = [d \in Dir |-> IF d = which \/ ROOT_P(tr, self)
                                                   THEN father ELSE @[d]]]
        t2 == Clear(t1, self)
    IN IF rebalance THEN rb_tree_removal_rebalance(t2, father, which) ELSE t2

rb_tree_prune_node(tr, self, rebalance) ==
    LET which == tr.pos[self]
        father == tr.father[self]
        last == tr.minmax[which] = self
        t1 == [tr EXCEPT !.kid[father][which] = Null,
                         !.minmax = [d \in Dir |-> IF last /\ (d = which \/ ROOT_P(tr, self))
                                                   THEN father ELSE @[d]]]
        t2 == Clear(t1, self)
    IN IF rebalance THEN rb_tree_removal_rebalance(t2, father, which) ELSE t2

rb_tree_prune_blackred_branch(tr, self, which) ==
    LET father == tr.father[self]
        son == tr.kid[self][which]
        d == IF ROOT_P(tr, self) THEN 1 - which ELSE tr.pos[self]
        t1 == [tr EXCEPT !.red[son] = tr.red[self], !.pos[son] = tr.pos[self],
                         !.kid[father][tr.pos[self]] = son, !.father[son] = father,
                         !.minmax[d] = IF ROOT_P(tr, self) \/ @ = self THEN son ELSE @]
    IN Clear(t1, self)

\* The standin is a child of self: it keeps its own son.
StandinIsSon(tr, self, standin) ==
    LET other == 1 - tr.pos[standin]
    IN SET_FATHER([tr EXCEPT !.kid[standin][other] = tr.kid[self][other]], tr.kid[self][other], standin)

\* The standin is further down: its son takes its place.
StandinIsFar(tr, self, standin, son) ==
    LET t1 == [tr EXCEPT !.kid[tr.father[standin]][tr.pos[standin]] = son]
        kids == [t1 EXCEPT !.kid[standin] = t1.kid[self]]
    IN SET_FATHER(SET_FATHER(kids, t1.kid[self][LEFT], standin), t1.kid[self][RIGHT], standin)

\* A red son of the standin becomes black, and moves up if the standin is not
\* a child of self.
BlackSon(tr, self, standin, son) ==
    IF tr.father[standin] = self THEN MARK_BLACK(tr, son)
    ELSE [MARK_BLACK(tr, son) EXCEPT !.father[son] = tr.father[standin], !.pos[son] = tr.pos[standin]]

rb_tree_swap_prune_and_rebalance(tr, self, standin) ==
    LET which == tr.pos[standin]
        near == tr.father[standin] = self
        son == tr.kid[standin][IF near THEN which ELSE 1 - which]
        t1 == IF RED_P(tr, son) THEN BlackSon(tr, self, standin, son) ELSE tr
        t2 == IF near THEN StandinIsSon(t1, self, standin) ELSE StandinIsFar(t1, self, standin, son)
        t3 == [t2 EXCEPT !.red[standin] = tr.red[self], !.pos[standin] = tr.pos[self],
                         !.father[standin] = tr.father[self], !.kid[tr.father[self]][tr.pos[self]] = standin,
                         !.minmax[tr.pos[self]] = IF @ = self THEN tr.father[self] ELSE @]
        t4 == Clear(t3, self)
    IN IF BLACK_P(tr, standin) /\ ~RED_P(tr, son)
       THEN rb_tree_removal_rebalance(t4, IF near THEN standin ELSE tr.father[standin], which)
       ELSE t4

rb_tree_remove_node(tr, self) ==
    IF CHILDLESS_P(tr, self) THEN rb_tree_prune_node(tr, self, BLACK_P(tr, self) /\ ~ROOT_P(tr, self))
    ELSE IF ~TWOCHILDREN_P(tr, self)
    THEN rb_tree_prune_blackred_branch(tr, self, IF tr.kid[self][LEFT] = Null THEN RIGHT ELSE LEFT)
    ELSE rb_tree_swap_prune_and_rebalance(tr, self, rb_tree_iterate(tr, self, 1 - tr.pos[self]))

----------------------------------------------------------------------------
(* Every sequence of insertions and removals. *)

\* The nodes in the tree: those reached from the root.
RECURSIVE NodesFrom(_, _)
NodesFrom(tr, n) == IF n = Null THEN {} ELSE {n} \cup UNION {NodesFrom(tr, tr.kid[n][d]) : d \in Dir}

Nodes(tr) == NodesFrom(tr, tr.kid[RbtRoot][LEFT])

Init == t = rb_tree_init /\ ret = Null

Insert(x) ==
    /\ x \notin Nodes(t)
    /\ LET r == rb_tree_insert_node(t, x) IN t' = r.tr /\ ret' = r.ret

Remove(x) == x \in Nodes(t) /\ t' = rb_tree_remove_node(t, x) /\ UNCHANGED ret

Next == \E x \in Item : Insert(x) \/ Remove(x)

Spec == Init /\ [][Next]_vars

----------------------------------------------------------------------------
(* What rb_tree_check asserts of every node when compiled with RBDEBUG. *)

RECURSIVE rb_tree_count_black(_, _)
rb_tree_count_black(tr, n) ==
    IF n = Null THEN 0
    ELSE rb_tree_count_black(tr, tr.kid[n][LEFT]) + (IF tr.red[n] THEN 0 ELSE 1)

CheckFather(tr, n) ==
    LET f == tr.father[n]
    IN /\ tr.kid[f][tr.pos[n]] = n
       /\ IF ROOT_P(tr, n) THEN f = RbtRoot /\ tr.pos[n] = LEFT
          ELSE f \in Item /\ (IF tr.pos[n] = LEFT THEN key[n] < key[f] ELSE key[n] > key[f])

CheckEnds(tr, n) == \A d \in Dir : rb_tree_iterate(tr, n, d) = Null => tr.minmax[d] = n

CheckColours(tr, n) ==
    LET f == tr.father[n]
        brother == tr.kid[f][1 - tr.pos[n]]
        Family(m) == TWOCHILDREN_P(tr, m) /\ \A d \in Dir : BLACK_P(tr, tr.kid[m][d])
    IN /\ rb_tree_count_black(tr, tr.kid[n][LEFT]) = rb_tree_count_black(tr, tr.kid[n][RIGHT])
       /\ ROOT_P(tr, n) => BLACK_P(tr, n)
       /\ IF RED_P(tr, n)
          THEN /\ BLACK_P(tr, f)
               /\ IF CHILDLESS_P(tr, n) THEN RED_P(tr, brother) \/ CHILDLESS_P(tr, brother)
                  ELSE Family(n) /\ (BLACK_P(tr, brother) \/ Family(brother))
          ELSE \/ CHILDLESS_P(tr, n) \/ TWOCHILDREN_P(tr, n)
               \/ \E d \in Dir : /\ tr.kid[n][1 - d] = Null /\ RED_P(tr, tr.kid[n][d])
                                 /\ CHILDLESS_P(tr, tr.kid[n][d])

CheckRelatives(tr, n) ==
    /\ ROOT_P(tr, n) \/ ROOT_P(tr, tr.father[n]) \/ TWOCHILDREN_P(tr, tr.father[tr.father[n]])
    /\ \A d \in Dir : tr.kid[n][d] = Null => CHILDLESS_P(tr, tr.kid[n][1 - d])
    /\ TWOCHILDREN_P(tr, n) => \A d \in Dir : tr.kid[rb_tree_iterate(tr, n, d)][1 - d] = Null

rb_tree_check_node(tr, n) ==
    CheckFather(tr, n) /\ CheckEnds(tr, n) /\ CheckColours(tr, n) /\ CheckRelatives(tr, n)

----------------------------------------------------------------------------
(* Properties. *)

\* After every sequence of insertions and removals, every node passes the
\* checks rb.c makes of itself when it is debugged: it is its father's child
\* on the side its key says, the two ends of the tree are the ones remembered,
\* no red node has a red child, every way down has as many black nodes, and
\* no branch is more than a red node longer than its brother.
TreeIsRedBlack == \A n \in Nodes(t) : rb_tree_check_node(t, n)

\* A walk, which starts at a remembered end, meets every node of the tree once
\* in the order of the keys, and in the other direction backwards, so that
\* RB_TREE_FOREACH over the routes ends and sees them all.
WalksMeet ==
    LET to == FOREACH(t, RIGHT)
        from == FOREACH(t, LEFT)
    IN /\ {to[i] : i \in DOMAIN to} = Nodes(t)
       /\ \A i \in 2..Len(to) : key[to[i - 1]] < key[to[i]]
       /\ \A i \in DOMAIN to : from[Len(to) + 1 - i] = to[i]

\* The searches find the node with a key, or its nearest neighbour above or
\* below, if there is one.
SearchesFind ==
    \A k \in 0..(N + 1) :
        LET above == {n \in Nodes(t) : key[n] >= k}
            below == {n \in Nodes(t) : key[n] <= k}
            geq == rb_tree_find_node_geq(t, k)
            leq == rb_tree_find_node_leq(t, k)
            Same(S) == IF S = {} THEN Null ELSE CHOOSE n \in S : TRUE
        IN /\ rb_tree_find_node(t, k) = Same(above \cap below)
           /\ geq = Same({n \in above : \A m \in above : key[n] <= key[m]})
           /\ leq = Same({n \in below : \A m \in below : key[n] >= key[m]})

\* The tree is balanced, in order and linked both ways, so that walks and searches find
\* what is in it.
TreeIsSearchTree == TreeIsRedBlack /\ WalksMeet /\ SearchesFind

\* The tree is the set its callers take it for: an insertion adds the item or
\* returns the one that has its key, and a removal takes out the item and no
\* other, whatever node stands in for it.
Set == INSTANCE KeyedSet WITH Nothing <- Null, set <- Nodes(t), ret <- ret

IsKeyedSet == Set!Spec
=============================================================================
