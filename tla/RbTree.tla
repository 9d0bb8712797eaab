------------------------------- MODULE RbTree -------------------------------
(***************************************************************************)
(* The red-black tree of lib/rbtree.c, over a pool of nodes.               *)
(*                                                                         *)
(* The callers' operations are TreeInsert and TreeDelete.  Each starts     *)
(* with everything up to its repair loop; one pass of that loop is one     *)
(* step.  A node is a record, 0 is NULL, the key and the value of a node   *)
(* are the pair kv because the code moves them together (but for once).    *)
(* The comparison that the callers supply is any total order: here that    *)
(* of the integers, tree->comp(a, b) > 0 being a < b.                      *)
(***************************************************************************)
EXTENDS Integers, Sequences, FiniteSets, SequencesExt

CONSTANTS
  RBTREE_NODE_POOL_NUM,
  Items                   \* the pairs <<key, value>> that callers insert

ASSUME RbTreeAssumption ==
  /\ RBTREE_NODE_POOL_NUM \in Nat \ {0}
  /\ Items \subseteq Int \X Int

NULL == 0
Nodes == 1 .. RBTREE_NODE_POOL_NUM
Sides == {"left", "right"}
Other(d) == IF d = "left" THEN "right" ELSE "left"

VARIABLES
  head,         \* tree->head
  node,         \* node_pool
  pool_count,
  ls,           \* the queue of nodes that were freed
  op,           \* "idle", "insert" or "delete" (in its loop), "abort"
  tar, flag,    \* local variables of the loop
  del_tar       \* the node that rbtree_delete will free

treeVars == <<head, node, pool_count, ls, op, tar, flag, del_tar>>

Unused == [kv |-> <<0, 0>>, par |-> NULL, left |-> NULL, right |-> NULL, color |-> "RED"]

TreeInit ==
  /\ head = NULL
  /\ node = [n \in Nodes |-> Unused]
  /\ pool_count = 0 /\ ls = <<>>
  /\ op = "idle" /\ tar = NULL /\ flag = FALSE /\ del_tar = NULL

-----------------------------------------------------------------------------
(* Assignments to nodes, on a heap h *)

Set(h, n, d, m) == [h EXCEPT ![n][d] = m]          \* n->d = m;

Adopt(h, m, n) == IF m = NULL THEN h ELSE [h EXCEPT ![m].par = n]

\* n->d = m; if (m) m->par = n;
Link(h, n, d, m) == Adopt(Set(h, n, d, m), m, n)

Paint(h, n, c) == [h EXCEPT ![n].color = c]

Swap(h, n, m) == [h EXCEPT ![n].kv = h[m].kv, ![m].kv = h[n].kv]

IsRed(h, n) == n # NULL /\ h[n].color = "RED"

SideOf(h, n) == IF h[h[n].par].left = n THEN "left" ELSE "right"

-----------------------------------------------------------------------------
(* Walks *)

Toward(n, k) == IF node[n].kv[1] < k THEN "right" ELSE "left"

\* rbtree_search: the node it returns.
Search(k) ==
  LET from[n \in {NULL} \cup Nodes] ==
        IF n = NULL \/ node[n].kv[1] = k THEN n ELSE from[node[n][Toward(n, k)]]
  IN from[head]

\* The descent of rbtree_insert: the node under which the new one belongs.
Leaf(k) ==
  LET from[n \in Nodes] ==
        LET next == node[n][Toward(n, k)] IN IF next = NULL THEN n ELSE from[next]
  IN from[head]

\* The descent of rbtree_delete to max_node.
Rightmost(m) ==
  LET from[n \in Nodes] == IF node[n].right = NULL THEN n ELSE from[node[n].right]
  IN from[m]

\* The nodes of the tree from left to right.
InOrder ==
  LET walk[n \in {NULL} \cup Nodes] ==
        IF n = NULL THEN <<>> ELSE walk[node[n].left] \o <<n>> \o walk[node[n].right]
  IN walk[head]

-----------------------------------------------------------------------------
(* rotate: the heap it leaves, and the node it returns *)

\* Left child of a left child: the nodes change places.
RotateLeftLeft(h, p, g) ==
  LET gg == h[g].par
      h1 == [h EXCEPT ![p].par = gg]
      h2 == IF gg = NULL THEN h1 ELSE Set(h1, gg, SideOf(h, g), p)
  IN [heap |-> Link(Link(h2, g, "left", h[p].right), p, "right", g), top |-> p]

\* Variant: the subtree that moves keeps its old parent.
RotateInnerOrphan(h, t, p, g, d) ==
  LET o  == Other(d)
      h1 == Paint(Swap(h, g, t), t, "BLACK")
      h2 == Set(Set(h1, p, o, h[t][d]), t, d, h[t][o])
  IN [heap |-> Link(Link(h2, t, o, h[g][o]), g, o, t), top |-> g]

\* Inner grandchild, on either side: the entries of tar and gpar change places,
\* and tar moves to the other side of gpar.
RotateInner(h, t, p, g, d) ==
  LET o  == Other(d)
      h1 == Paint(Swap(h, g, t), t, "BLACK")
      h2 == Set(Link(h1, p, o, h[t][d]), t, d, h[t][o])
  IN [heap |-> Link(Link(h2, t, o, h[g][o]), g, o, t), top |-> g]

\* Right child of a right child: three entries move round.
RotateRightRight(h, t, p, g) ==
  LET h1 == [h EXCEPT ![g].kv = h[p].kv, ![p].kv = h[t].kv, ![t].kv = h[g].kv]
      h2 == Link(Link(h1, p, "right", h[t].right), t, "right", h[p].left)
      h3 == Link(Link(Link(h2, p, "left", h[t].left), t, "left", h[g].left), g, "left", t)
  IN [heap |-> Paint(Paint(h3, g, "BLACK"), p, "RED"), top |-> g]

rotate(h, t) ==
  LET p == h[t].par
      g == h[p].par
      d == SideOf(h, p)
  IN CASE d # SideOf(h, t) -> RotateInner(h, t, p, g, d)
       [] d = "left" /\ d = SideOf(h, t) -> RotateLeftLeft(h, p, g)
       [] d = "right" /\ d = SideOf(h, t) -> RotateRightRight(h, t, p, g)

-----------------------------------------------------------------------------
(* rbtree_insert *)

\* rbtree_node_alloc: a freed node if there is one, or a fresh one.
PoolEmpty == ls = <<>> /\ pool_count >= RBTREE_NODE_POOL_NUM
NewNode == IF ls = <<>> THEN pool_count + 1 ELSE Head(ls)
Alloc ==
  /\ pool_count' = IF ls = <<>> THEN pool_count + 1 ELSE pool_count
  /\ ls' = IF ls = <<>> THEN ls ELSE Tail(ls)

\* tv_abort, which is not part of the sources, is taken not to return.
InsertFails ==
  /\ op = "idle" /\ PoolEmpty
  /\ op' = "abort"
  /\ UNCHANGED <<head, node, pool_count, ls, tar, flag, del_tar>>

InsertRoot(e) ==
  /\ op = "idle" /\ ~PoolEmpty /\ head = NULL
  /\ Alloc
  /\ head' = NewNode
  /\ node' = [node EXCEPT ![NewNode] = [Unused EXCEPT !.kv = e, !.color = "BLACK"]]
  /\ UNCHANGED <<op, tar, flag, del_tar>>

InsertLeaf(e) ==
  LET p == Leaf(e[1]) IN
  /\ op = "idle" /\ ~PoolEmpty /\ head # NULL
  /\ Alloc
  /\ node' = [node EXCEPT ![NewNode] = [Unused EXCEPT !.kv = e, !.par = p],
                          ![p][Toward(p, e[1])] = NewNode]
  /\ tar' = NewNode
  /\ op' = "insert"
  /\ UNCHANGED <<head, flag, del_tar>>

\* One pass of the loop after the test that found red under red.
Recoloured(h, t) ==
  Paint(Paint(h, h[t].par, "BLACK"), h[h[t].par].par, "RED")
Uncle(h, t) == LET g == h[h[t].par].par IN h[g][Other(SideOf(h, h[t].par))]

\* Variant: the colour of the uncle is not looked at.
InsertPassAlwaysRotates(h, t) == rotate(Recoloured(h, t), t)

InsertPass(h, t) ==
  IF IsRed(h, Uncle(h, t))
  THEN [heap |-> Paint(Recoloured(h, t), Uncle(h, t), "BLACK"), top |-> h[h[t].par].par]
  ELSE rotate(Recoloured(h, t), t)

InsertRepair ==
  LET pass == InsertPass(node, tar) IN
  /\ op = "insert"
  /\ node[tar].color = "RED" /\ node[node[tar].par].color = "RED"
  /\ IF pass.heap[pass.top].par = NULL
     THEN /\ head' = pass.top
          /\ node' = Paint(pass.heap, pass.top, "BLACK")
          /\ op' = "idle" /\ tar' = NULL
     ELSE /\ node' = pass.heap
          /\ tar' = pass.top
          /\ UNCHANGED <<head, op>>
  /\ UNCHANGED <<pool_count, ls, flag, del_tar>>

InsertDone ==
  /\ op = "insert"
  /\ ~ (node[tar].color = "RED" /\ node[node[tar].par].color = "RED")
  /\ op' = "idle" /\ tar' = NULL
  /\ UNCHANGED <<head, node, pool_count, ls, flag, del_tar>>

-----------------------------------------------------------------------------
(* rbtree_delete *)

\* Variant: max_node keeps its entry when its only child takes its place.
VacatedKeepsMax(t) ==
  LET m == Rightmost(node[t].left)
      up == [node EXCEPT ![t].kv = <<node[m].kv[1], @[2]>>]
  IN IF node[t].left = NULL
     THEN IF node[t].right = NULL
          THEN [heap |-> node, del |-> t]
          ELSE [heap |-> [node EXCEPT ![t].kv = node[node[t].right].kv], del |-> node[t].right]
     ELSE [heap |-> up, del |-> IF node[m].left = NULL THEN m ELSE node[m].left]

\* What is copied upwards, and the node that goes.  Of max_node only the key is
\* copied: the value stays that of the deleted entry.
Vacated(t) ==
  LET m == Rightmost(node[t].left)
      up == [node EXCEPT ![t].kv = <<node[m].kv[1], @[2]>>]
  IN IF node[t].left = NULL
     THEN IF node[t].right = NULL
          THEN [heap |-> node, del |-> t]
          ELSE [heap |-> [node EXCEPT ![t].kv = node[node[t].right].kv], del |-> node[t].right]
     ELSE IF node[m].left = NULL
          THEN [heap |-> up, del |-> m]
          ELSE [heap |-> [up EXCEPT ![m].kv = node[node[m].left].kv], del |-> node[m].left]

\* For a key that is not in the tree the code dereferences NULL: callers search first.
TreeDelete(k) ==
  LET v == Vacated(Search(k)) IN
  /\ op = "idle" /\ Search(k) # NULL
  /\ node' = v.heap
  /\ head' = IF v.del = head THEN NULL ELSE head
  /\ del_tar' = v.del /\ tar' = v.del
  /\ flag' = (v.heap[v.del].color = "BLACK")
  /\ op' = "delete"
  /\ UNCHANGED <<pool_count, ls>>

\* The cases of the loop; d is the side of tar, t its parent, v its sibling.
NearRed(h, t, v, d) ==
  LET o  == Other(d)
      w  == h[v][d]
      h1 == Set(Link(Swap(h, t, w), v, d, h[w][o]), w, o, h[w][d])
  IN Paint(Link(Link(h1, w, d, h[t][d]), t, d, w), w, "BLACK")

FarRed(h, t, v, d) ==
  LET o  == Other(d)
      w  == h[v][o]
      h1 == Set(Link(Swap(h, t, v), t, o, w), v, o, h[v][d])
  IN Paint(Link(Link(h1, v, d, h[t][d]), t, d, v), w, "BLACK")

SiblingRed(h, t, v, d) ==
  LET o  == Other(d)
      h1 == Set(Link(Swap(h, t, v), t, o, h[v][o]), v, o, h[v][d])
  IN Link(Link(h1, v, d, h[t][d]), t, d, v)

DeleteRepair ==
  LET t == node[tar].par
      d == SideOf(node, tar)
      v == node[t][Other(d)]
  IN /\ op = "delete" /\ flag /\ t # NULL
     /\ \/ /\ IsRed(node, v)
           /\ node' = SiblingRed(node, t, v, d)
           /\ UNCHANGED <<tar, flag>>
        \/ /\ ~IsRed(node, v) /\ IsRed(node, node[v][d])
           /\ node' = NearRed(node, t, v, d)
           /\ flag' = FALSE /\ tar' = t
        \/ /\ ~IsRed(node, v) /\ ~IsRed(node, node[v][d]) /\ IsRed(node, node[v][Other(d)])
           /\ node' = FarRed(node, t, v, d)
           /\ flag' = FALSE /\ tar' = t
        \/ /\ ~IsRed(node, v) /\ ~IsRed(node, node[v][d]) /\ ~IsRed(node, node[v][Other(d)])
           /\ node' = Paint(Paint(node, v, "RED"), t, "BLACK")
           /\ flag' = (node[t].color = "BLACK") /\ tar' = t
     /\ UNCHANGED <<head, pool_count, ls, op, del_tar>>

\* Variant: the loop does not end at the root.
DeleteDoneBelowRoot ==
  LET p == node[del_tar].par IN
  /\ op = "delete" /\ ~flag
  /\ node' = [IF p = NULL THEN node ELSE Set(node, p, SideOf(node, del_tar), NULL)
                EXCEPT ![del_tar] = Unused]
  /\ ls' = Append(ls, del_tar)
  /\ op' = "idle" /\ tar' = NULL /\ flag' = FALSE /\ del_tar' = NULL
  /\ UNCHANGED <<head, pool_count>>

\* rbtree_node_free, after the loop.  What a freed node holds is forgotten:
\* rbtree_insert writes all of it again.
DeleteDone ==
  LET p == node[del_tar].par IN
  /\ op = "delete" /\ (~flag \/ node[tar].par = NULL)
  /\ node' = [IF p = NULL THEN node ELSE Set(node, p, SideOf(node, del_tar), NULL)
                EXCEPT ![del_tar] = Unused]
  /\ ls' = Append(ls, del_tar)
  /\ op' = "idle" /\ tar' = NULL /\ flag' = FALSE /\ del_tar' = NULL
  /\ UNCHANGED <<head, pool_count>>

TreeStep == InsertRepair \/ InsertDone \/ DeleteRepair \/ DeleteDone

TreeNext ==
  \/ \E e \in Items : InsertRoot(e) \/ InsertLeaf(e)
  \/ InsertFails
  \/ \E e \in Items : TreeDelete(e[1])
  \/ TreeStep

TreeFairness == WF_treeVars(TreeStep)
TreeSpec == TreeInit /\ [][TreeNext]_treeVars /\ TreeFairness

-----------------------------------------------------------------------------
(* Properties *)

Stored == ToSet(InOrder) \ {del_tar}

\* At every pass of every loop: the nodes in use are exactly those that can be
\* reached, each once and in the order of the keys, so that rbtree_search finds
\* what is there, and the way back up is the way down.
LinksSound ==
  /\ Stored = (1 .. pool_count) \ (ToSet(ls) \cup {del_tar})
  /\ IsInjective(InOrder) /\ IsInjective(ls)
  /\ \A i \in 1 .. Len(InOrder) - 1 : node[InOrder[i]].kv[1] <= node[InOrder[i + 1]].kv[1]
  /\ head # NULL => node[head].par = NULL
  /\ \A n \in ToSet(InOrder), d \in Sides :
       node[n][d] # NULL => node[node[n][d]].par = n

\* Between operations the tree is balanced: the root is black, no red node has
\* a red child, and every way down passes as many black nodes.
RedBlack ==
  LET height[n \in {NULL} \cup Nodes] ==
        IF n = NULL THEN {1}
        ELSE {h + (IF IsRed(node, n) THEN 0 ELSE 1) : h \in height[node[n].left] \cup height[node[n].right]}
  IN op = "idle" =>
       /\ ~IsRed(node, head)
       /\ \A n \in ToSet(InOrder) :
            IsRed(node, n) => ~IsRed(node, node[n].left) /\ ~IsRed(node, node[n].right)
       /\ \A n \in {NULL} \cup ToSet(InOrder) : \A h1, h2 \in height[n] : h1 = h2

\* The tree is sound in every pass, and balanced when an operation has ended.
TreeSound == LinksSound /\ RedBlack

\* The tree implements the multiset that OrderedMap describes: an insertion
\* adds its entry, a deletion takes one, and no rotation changes any.
BagOfEntries ==
  [e \in {node[n].kv : n \in Stored} |-> Cardinality({n \in Stored : node[n].kv = e})]
Map == INSTANCE OrderedMap WITH entries <- BagOfEntries
ImplementsOrderedMap == Map!Spec

\* Both repair loops come to an end.
OperationsEnd == (op \in {"insert", "delete"}) ~> (op = "idle")
=============================================================================
