------------------------------ MODULE KeyedSet ------------------------------
(***************************************************************************)
(* What rb_tree_insert_node and rb_tree_remove_node promise their callers:  *)
(* a set of items with different keys.                                      *)
(***************************************************************************)
EXTENDS Integers

CONSTANTS N,        \* the items are 1..N
          key,      \* the key of an item
          Nothing   \* the null pointer

VARIABLES set,      \* the items inserted and not removed
          ret       \* what the last insertion returned

Init == set = {} /\ ret = Nothing

Insert(x) ==
    /\ x \notin set
    /\ \/ /\ \A y \in set : key[y] # key[x]
          /\ set' = set \cup {x} /\ ret' = x
       \/ \E y \in set : key[y] = key[x] /\ ret' = y /\ set' = set

Remove(x) == x \in set /\ set' = set \ {x} /\ ret' = ret

Next == \E x \in 1..N : Insert(x) \/ Remove(x)

Spec == Init /\ [][Next]_<<set, ret>>
=============================================================================
