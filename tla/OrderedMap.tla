----------------------------- MODULE OrderedMap -----------------------------
(***************************************************************************)
(* What lib/rbtree.c promises its callers: a multiset of entries, each a   *)
(* key and a value, that rbtree_insert adds to and rbtree_delete takes one *)
(* entry from.                                                             *)
(*                                                                         *)
(* One liberty is part of the promise, because the code takes it: an entry *)
(* whose place the deletion fills from below leaves its value behind.      *)
(* rbtree_delete moves the key of the predecessor there and not its value. *)
(***************************************************************************)
EXTENDS Integers, Bags

CONSTANT Items        \* the pairs <<key, value>> that callers insert

VARIABLE entries

Init == entries = EmptyBag

One(e) == SetToBag({e})

Insert(e) == entries' = entries (+) One(e)

\* p is an entry in front of the removed one, with no other key in between.
Precedes(p, k, rest) ==
  /\ p[1] <= k
  /\ \A q \in BagToSet(rest) : q[1] < k => q[1] <= p[1]

Delete(e) ==
  LET rest == entries (-) One(e) IN
  /\ BagIn(e, entries)
  /\ \/ entries' = rest
     \/ \E p \in BagToSet(rest) :
          /\ Precedes(p, e[1], rest)
          /\ entries' = (rest (-) One(p)) (+) One(<<p[1], e[2]>>)

Next == (\E e \in Items : Insert(e)) \/ (\E e \in BagToSet(entries) : Delete(e))

Spec == Init /\ [][Next]_entries
=============================================================================
