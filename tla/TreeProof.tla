----------------------------- MODULE TreeProof -----------------------------
(***************************************************************************)
(* The red-black tree for a pool of any size, any entries and any sequence *)
(* of calls: it is sound in every pass and balanced between operations, it *)
(* implements OrderedMap, and rbtree_search finds what is stored.          *)
(*                                                                         *)
(* A tree is described without recursion.  Every node n has a place pos[n] *)
(* in the order from left to right, and the nodes below it fill the places *)
(* lo[n] to hi[n]; a link is sound when the places of the child are those  *)
(* next to the place of the parent.  What a pass does to the tree is then  *)
(* an assignment to the measures of two or three nodes, and that all keys  *)
(* are sorted follows from which nodes exchange their entries.  The black  *)
(* heights are a function bh with one equation per node, and a pass in the *)
(* middle of an operation is one where a single equation fails: that of a  *)
(* red node under a red one while an entry is inserted, that of the parent *)
(* of a subtree which is one black node short while one is deleted.        *)
(*                                                                         *)
(* The cases of the code come in pairs that are mirror images.  A heap is  *)
(* seen from a side (View), and each case is proved once.  The walks of    *)
(* the model recur over the links: that they are what they are meant to be *)
(* is shown with the least counterexample in the order of Rank.            *)
(***************************************************************************)
EXTENDS RbTree, FiniteSetTheorems, SequenceTheorems, WellFoundedInduction, TLAPS

-----------------------------------------------------------------------------
(* A heap, one field at a time *)

Places == {NULL} \cup Nodes
Colors == {"RED", "BLACK"}
Heap == [Nodes -> [kv : Int \X Int, par : Places, left : Places, right : Places, color : Colors]]

Field(h, f) == [n \in Nodes |-> h[n][f]]

Links == [Nodes -> Places]

\* h is the heap with children A on side a and B on side b, parents P, entries K
\* and colours C.
View(h, a, b, A, B, P, K, C) ==
  /\ h \in Heap
  /\ A = Field(h, a) /\ B = Field(h, b) /\ P = Field(h, "par")
  /\ K = Field(h, "kv") /\ C = Field(h, "color")

Facing(a, b) == \/ a = "left" /\ b = "right"
                \/ a = "right" /\ b = "left"

Adopted(P, m, n) == IF m = NULL THEN P ELSE [P EXCEPT ![m] = n]

\* The two sides of a view change places.
LEMMA ViewMirror ==
  ASSUME NEW h, NEW a, NEW b, NEW A, NEW B, NEW P, NEW K, NEW C, View(h, a, b, A, B, P, K, C)
  PROVE  View(h, b, a, B, A, P, K, C)
BY DEF View

\* The parts of a view are links, entries and colours of nodes.
LEMMA ViewTypes ==
  ASSUME NEW h, NEW a, NEW b, NEW A, NEW B, NEW P, NEW K, NEW C, Facing(a, b),
         View(h, a, b, A, B, P, K, C)
  PROVE  /\ A \in Links /\ B \in Links /\ P \in Links
         /\ K \in [Nodes -> Int \X Int] /\ C \in [Nodes -> Colors]
BY DEF View, Facing, Heap, Field, Links

\* What the fields of one node are.
LEMMA ViewNode ==
  ASSUME NEW h, NEW a, NEW b, NEW A, NEW B, NEW P, NEW K, NEW C, Facing(a, b),
         View(h, a, b, A, B, P, K, C), NEW n \in Nodes
  PROVE  /\ h[n][a] = A[n] /\ h[n][b] = B[n] /\ h[n].par = P[n]
         /\ h[n].kv = K[n] /\ h[n].color = C[n]
BY DEF View, Field

\* n->a = m;
LEMMA ViewSet ==
  ASSUME NEW h, NEW a, NEW b, NEW A, NEW B, NEW P, NEW K, NEW C, Facing(a, b),
         View(h, a, b, A, B, P, K, C), NEW n \in Nodes, NEW m \in Places
  PROVE  View(Set(h, n, a, m), a, b, [A EXCEPT ![n] = m], B, P, K, C)
<1>1. CASE a = "left" /\ b = "right"
  BY <1>1, ZenonT(60), SMTT(60) DEF View, Heap, Field, Set
<1>2. CASE a = "right" /\ b = "left"
  BY <1>2, ZenonT(60), SMTT(60) DEF View, Heap, Field, Set
<1> QED BY <1>1, <1>2 DEF Facing

\* if (m) m->par = n;
LEMMA ViewAdopt ==
  ASSUME NEW h, NEW a, NEW b, NEW A, NEW B, NEW P, NEW K, NEW C, Facing(a, b),
         View(h, a, b, A, B, P, K, C), NEW n \in Places, NEW m \in Places
  PROVE  View(Adopt(h, m, n), a, b, A, B, Adopted(P, m, n), K, C)
<1>1. CASE m = NULL
  BY <1>1 DEF Adopt, Adopted
<1>2. CASE m \in Nodes /\ a = "left" /\ b = "right"
  BY <1>2, ZenonT(60), SMTT(60) DEF View, Heap, Field, Adopt, Adopted, Nodes, NULL
<1>3. CASE m \in Nodes /\ a = "right" /\ b = "left"
  BY <1>3, ZenonT(60), SMTT(60) DEF View, Heap, Field, Adopt, Adopted, Nodes, NULL
<1> QED BY <1>1, <1>2, <1>3 DEF Facing, Places

\* What Link assigns, seen in a view.
LEMMA ViewLink ==
  ASSUME NEW h, NEW a, NEW b, NEW A, NEW B, NEW P, NEW K, NEW C, Facing(a, b),
         View(h, a, b, A, B, P, K, C), NEW n \in Nodes, NEW m \in Places
  PROVE  View(Link(h, n, a, m), a, b, [A EXCEPT ![n] = m], B, Adopted(P, m, n), K, C)
BY ViewSet, ViewAdopt DEF Link, Places

\* What Paint assigns, seen in a view.
LEMMA ViewPaint ==
  ASSUME NEW h, NEW a, NEW b, NEW A, NEW B, NEW P, NEW K, NEW C, Facing(a, b),
         View(h, a, b, A, B, P, K, C), NEW n \in Nodes, NEW c \in Colors
  PROVE  View(Paint(h, n, c), a, b, A, B, P, K, [C EXCEPT ![n] = c])
<1>1. CASE a = "left" /\ b = "right"
  BY <1>1 DEF View, Heap, Field, Paint
<1>2. CASE a = "right" /\ b = "left"
  BY <1>2, SMTT(60), ZenonT(60) DEF View, Heap, Field, Paint
<1> QED BY <1>1, <1>2 DEF Facing

\* What Swap assigns, seen in a view.
LEMMA ViewSwap ==
  ASSUME NEW h, NEW a, NEW b, NEW A, NEW B, NEW P, NEW K, NEW C, Facing(a, b),
         View(h, a, b, A, B, P, K, C), NEW n \in Nodes, NEW m \in Nodes
  PROVE  View(Swap(h, n, m), a, b, A, B, P, [K EXCEPT ![n] = K[m], ![m] = K[n]], C)
<1>1. CASE a = "left" /\ b = "right"
  BY <1>1, ZenonT(60), SMTT(60) DEF View, Heap, Field, Swap
<1>2. CASE a = "right" /\ b = "left"
  BY <1>2, ZenonT(60), SMTT(60) DEF View, Heap, Field, Swap
<1> QED BY <1>1, <1>2 DEF Facing

-----------------------------------------------------------------------------
(* The fields after each rotation *)

\* What the red-sibling case of rbtree_delete assigns.
LEMMA ViewSibling ==
  ASSUME NEW h, NEW a, NEW b, NEW A, NEW B, NEW P, NEW K, NEW C, Facing(a, b),
         View(h, a, b, A, B, P, K, C), NEW t \in Nodes, NEW v \in Nodes
  PROVE  View(SiblingRed(h, t, v, a), a, b,
              [A EXCEPT ![v] = A[t], ![t] = v], [B EXCEPT ![t] = B[v], ![v] = A[v]],
              Adopted(Adopted(Adopted(P, B[v], t), A[t], v), v, t),
              [K EXCEPT ![t] = K[v], ![v] = K[t]], C)
<1>0. /\ Other(a) = b /\ Facing(b, a)
      /\ A[t] \in Places /\ A[v] \in Places /\ B[v] \in Places /\ v \in Places
  BY ViewTypes DEF Facing, Other, Links, Places
<1>1. h[v][b] = B[v] /\ h[v][a] = A[v] /\ h[t][a] = A[t]
  BY ViewNode
<1> DEFINE K1 == [K EXCEPT ![t] = K[v], ![v] = K[t]]
           h1 == Swap(h, t, v)
           h2 == Link(h1, t, b, B[v])
           h3 == Set(h2, v, b, A[v])
           h4 == Link(h3, v, a, A[t])
           h5 == Link(h4, t, a, v)
           P2 == Adopted(P, B[v], t)
           P4 == Adopted(P2, A[t], v)
           P5 == Adopted(P4, v, t)
           B2 == [B EXCEPT ![t] = B[v]]
           B3 == [B2 EXCEPT ![v] = A[v]]
           A4 == [A EXCEPT ![v] = A[t]]
           A5 == [A4 EXCEPT ![t] = v]
<1>2. SiblingRed(h, t, v, a) = h5
  BY <1>0, <1>1 DEF SiblingRed
<1>3. View(h1, b, a, B, A, P, K1, C)
  BY ViewSwap, ViewMirror
<1> HIDE DEF h1, K1
<1>4. View(h2, b, a, B2, A, P2, K1, C)
  BY <1>0, <1>3, ViewLink
<1> HIDE DEF h2, B2, P2
<1>5. View(h3, a, b, A, B3, P2, K1, C)
  BY <1>0, <1>4, ViewSet, ViewMirror
<1> HIDE DEF h3, B3
<1>6. View(h4, a, b, A4, B3, P4, K1, C)
  BY <1>0, <1>5, ViewLink
<1> HIDE DEF h4, A4, P4
<1>7. View(h5, a, b, A5, B3, P5, K1, C)
  BY <1>0, <1>6, ViewLink
<1> USE DEF B2, B3, P2, A4, P4, K1
<1> HIDE DEF h5
<1> QED BY <1>2, <1>7, Zenon
\* RotateInner, and NearRed, which is its mirror image.
InnerView(hh, h, a, b, A, B, P, K, C, t, p, g) ==
  View(hh, a, b, [A EXCEPT ![t] = B[t]], [B EXCEPT ![p] = A[t], ![t] = B[g], ![g] = t],
       Adopted(Adopted(Adopted(P, A[t], p), B[g], t), t, g),
       [K EXCEPT ![g] = K[t], ![t] = K[g]], [C EXCEPT ![t] = "BLACK"])

\* What rotate assigns for an inner grandchild.
LEMMA ViewInner ==
  ASSUME NEW h, NEW a, NEW b, NEW A, NEW B, NEW P, NEW K, NEW C, Facing(a, b),
         View(h, a, b, A, B, P, K, C), NEW t \in Nodes, NEW p \in Nodes, NEW g \in Nodes
  PROVE  InnerView(RotateInner(h, t, p, g, a).heap, h, a, b, A, B, P, K, C, t, p, g)
<1>0. /\ Other(a) = b /\ Facing(b, a)
      /\ A[t] \in Places /\ B[t] \in Places /\ B[g] \in Places /\ t \in Places
  BY ViewTypes DEF Facing, Other, Links, Places
<1>1. h[t][b] = B[t] /\ h[t][a] = A[t] /\ h[g][b] = B[g]
  BY ViewNode
<1> DEFINE K1 == [K EXCEPT ![g] = K[t], ![t] = K[g]]
           C1 == [C EXCEPT ![t] = "BLACK"]
           h0 == Swap(h, g, t)
           h1 == Paint(h0, t, "BLACK")
           h2 == Link(h1, p, b, A[t])
           h3 == Set(h2, t, a, B[t])
           h4 == Link(h3, t, b, B[g])
           h5 == Link(h4, g, b, t)
           P2 == Adopted(P, A[t], p)
           P4 == Adopted(P2, B[g], t)
           P5 == Adopted(P4, t, g)
           B2 == [B EXCEPT ![p] = A[t]]
           A3 == [A EXCEPT ![t] = B[t]]
           B4 == [B2 EXCEPT ![t] = B[g]]
           B5 == [B4 EXCEPT ![g] = t]
<1>2. RotateInner(h, t, p, g, a).heap = h5
  BY <1>0, <1>1 DEF RotateInner
<1>3. View(h0, b, a, B, A, P, K1, C)
  BY ViewSwap, ViewMirror
<1> HIDE DEF h0, K1
<1>4. View(h1, b, a, B, A, P, K1, C1)
  BY <1>0, <1>3, ViewPaint DEF Colors
<1> HIDE DEF h1, C1
<1>5. View(h2, b, a, B2, A, P2, K1, C1)
  BY <1>0, <1>4, ViewLink
<1> HIDE DEF h2, B2, P2
<1>6. View(h3, b, a, B2, A3, P2, K1, C1)
  BY <1>0, <1>5, ViewSet, ViewMirror
<1> HIDE DEF h3, A3
<1>7. View(h4, b, a, B4, A3, P4, K1, C1)
  BY <1>0, <1>6, ViewLink
<1> HIDE DEF h4, B4, P4
<1>8. View(h5, a, b, A3, B5, P5, K1, C1)
  BY <1>0, <1>7, ViewLink, ViewMirror
<1> USE DEF B2, A3, B4, P2, P4, K1, C1
<1> HIDE DEF h5
<1> QED BY <1>2, <1>8, Zenon DEF InnerView

\* The near-red case of rbtree_delete assigns what an inner rotation on the other side does.
LEMMA ViewNear ==
  ASSUME NEW h, NEW a, NEW b, NEW A, NEW B, NEW P, NEW K, NEW C, Facing(a, b),
         View(h, a, b, A, B, P, K, C), NEW t \in Nodes, NEW v \in Nodes, A[v] \in Nodes
  PROVE  InnerView(NearRed(h, t, v, a), h, b, a, B, A, P, K, C, A[v], v, t)
<1> DEFINE w == A[v]
<1>0. /\ Other(a) = b /\ Facing(b, a) /\ w \in Nodes
      /\ A[t] \in Places /\ A[w] \in Places /\ B[w] \in Places /\ w \in Places
  BY ViewTypes DEF Facing, Other, Links, Places
<1>1. h[v][a] = w
  BY ViewNode
<1>a. h[w][a] = A[w] /\ h[w][b] = B[w] /\ h[t][a] = A[t]
  BY <1>0, ViewNode
<1> HIDE DEF w
<1> DEFINE K1 == [K EXCEPT ![t] = K[w], ![w] = K[t]]
           C6 == [C EXCEPT ![w] = "BLACK"]
           h1 == Swap(h, t, w)
           h2 == Link(h1, v, a, B[w])
           h3 == Set(h2, w, b, A[w])
           h4 == Link(h3, w, a, A[t])
           h5 == Link(h4, t, a, w)
           h6 == Paint(h5, w, "BLACK")
           P2 == Adopted(P, B[w], v)
           P4 == Adopted(P2, A[t], w)
           P5 == Adopted(P4, w, t)
           A2 == [A EXCEPT ![v] = B[w]]
           B3 == [B EXCEPT ![w] = A[w]]
           A4 == [A2 EXCEPT ![w] = A[t]]
           A5 == [A4 EXCEPT ![t] = w]
<1>2. NearRed(h, t, v, a) = h6
  BY <1>0, <1>1, <1>a DEF NearRed
<1>3. View(h1, a, b, A, B, P, K1, C)
  BY <1>0, ViewSwap
<1> HIDE DEF h1, K1
<1>4. View(h2, b, a, B, A2, P2, K1, C)
  BY <1>0, <1>3, ViewLink, ViewMirror
<1> HIDE DEF h2, A2, P2
<1>5. View(h3, a, b, A2, B3, P2, K1, C)
  BY <1>0, <1>4, ViewSet, ViewMirror
<1> HIDE DEF h3, B3
<1>6. View(h4, a, b, A4, B3, P4, K1, C)
  BY <1>0, <1>5, ViewLink
<1> HIDE DEF h4, A4, P4
<1>7. View(h5, b, a, B3, A5, P5, K1, C)
  BY <1>0, <1>6, ViewLink, ViewMirror
<1> HIDE DEF h5, A5, P5
<1>8. View(h6, b, a, B3, A5, P5, K1, C6)
  BY <1>0, <1>7, ViewPaint DEF Colors
<1> USE DEF A2, B3, A4, A5, P2, P4, P5, K1
<1> HIDE DEF h6
<1>9. InnerView(h6, h, b, a, B, A, P, K, C, w, v, t)
  BY <1>8, Zenon DEF InnerView
<1> QED BY <1>2, <1>9, Zenon DEF w

\* FarRed is SiblingRed with the outer nephew painted black.
LEMMA ViewFar ==
  ASSUME NEW h, NEW a, NEW b, NEW A, NEW B, NEW P, NEW K, NEW C, Facing(a, b),
         View(h, a, b, A, B, P, K, C), NEW t \in Nodes, NEW v \in Nodes, B[v] \in Nodes
  PROVE  FarRed(h, t, v, a) = Paint(SiblingRed(h, t, v, a), B[v], "BLACK")
<1>1. Other(a) = b /\ h[v][b] = B[v]
  BY ViewNode DEF Facing, Other
<1> QED BY <1>1 DEF FarRed, SiblingRed

\* Right child of a right child.
LEMMA ViewRightRight ==
  ASSUME NEW h, NEW A, NEW B, NEW P, NEW K, NEW C, View(h, "left", "right", A, B, P, K, C),
         NEW t \in Nodes, NEW p \in Nodes, NEW g \in Nodes, t # p, p # g, t # g
  PROVE  View(RotateRightRight(h, t, p, g).heap, "left", "right",
              [A EXCEPT ![p] = A[t], ![t] = A[g], ![g] = t], [B EXCEPT ![p] = B[t], ![t] = A[p]],
              Adopted(Adopted(Adopted(Adopted(Adopted(P, B[t], p), A[p], t), A[t], p), A[g], t), t, g),
              [K EXCEPT ![g] = K[p], ![p] = K[t], ![t] = K[g]],
              [C EXCEPT ![g] = "BLACK", ![p] = "RED"])
<1>0. /\ Facing("left", "right") /\ Facing("right", "left")
      /\ A[t] \in Places /\ B[t] \in Places /\ A[g] \in Places /\ A[p] \in Places /\ t \in Places
  BY ViewTypes DEF Facing, Links, Places
<1>1. h[t]["right"] = B[t] /\ h[t]["left"] = A[t] /\ h[g]["left"] = A[g] /\ h[p]["left"] = A[p]
  BY <1>0, ViewNode
<1> DEFINE K1 == [K EXCEPT ![g] = K[p], ![p] = K[t], ![t] = K[g]]
           h1 == [h EXCEPT ![g].kv = h[p].kv, ![p].kv = h[t].kv, ![t].kv = h[g].kv]
           h2 == Link(h1, p, "right", B[t])
           h3 == Link(h2, t, "right", A[p])
           h4 == Link(h3, p, "left", A[t])
           h5 == Link(h4, t, "left", A[g])
           h6 == Link(h5, g, "left", t)
           h7 == Paint(h6, g, "BLACK")
           h8 == Paint(h7, p, "RED")
           P2 == Adopted(P, B[t], p)
           P3 == Adopted(P2, A[p], t)
           P4 == Adopted(P3, A[t], p)
           P5 == Adopted(P4, A[g], t)
           P6 == Adopted(P5, t, g)
           B2 == [B EXCEPT ![p] = B[t]]
           B3 == [B2 EXCEPT ![t] = A[p]]
           A4 == [A EXCEPT ![p] = A[t]]
           A5 == [A4 EXCEPT ![t] = A[g]]
           A6 == [A5 EXCEPT ![g] = t]
           C7 == [C EXCEPT ![g] = "BLACK"]
           C8 == [C7 EXCEPT ![p] = "RED"]
<1>2. RotateRightRight(h, t, p, g).heap = h8
  BY <1>1 DEF RotateRightRight
<1>3. View(h1, "right", "left", B, A, P, K1, C)
  <2>1. h1 \in Heap
    BY DEF View, Heap
  <2>2. /\ Field(h1, "left") = A /\ Field(h1, "right") = B
        /\ Field(h1, "par") = P /\ Field(h1, "color") = C
    BY DEF View, Heap, Field
  <2>3. Field(h1, "kv") = K1
    BY DEF View, Heap, Field
  <2> QED BY <2>1, <2>2, <2>3 DEF View
<1> HIDE DEF h1, K1
<1>4. View(h2, "right", "left", B2, A, P2, K1, C)
  BY <1>0, <1>3, ViewLink
<1> HIDE DEF h2, B2, P2
<1>5. View(h3, "left", "right", A, B3, P3, K1, C)
  BY <1>0, <1>4, ViewLink, ViewMirror
<1> HIDE DEF h3, B3, P3
<1>6. View(h4, "left", "right", A4, B3, P4, K1, C)
  BY <1>0, <1>5, ViewLink
<1> HIDE DEF h4, A4, P4
<1>7. View(h5, "left", "right", A5, B3, P5, K1, C)
  BY <1>0, <1>6, ViewLink
<1> HIDE DEF h5, A5, P5
<1>8. View(h6, "left", "right", A6, B3, P6, K1, C)
  BY <1>0, <1>7, ViewLink
<1> HIDE DEF h6, A6, P6
<1>9. View(h7, "left", "right", A6, B3, P6, K1, C7)
  BY <1>0, <1>8, ViewPaint DEF Colors
<1> HIDE DEF h7, C7
<1>10. View(h8, "left", "right", A6, B3, P6, K1, C8)
  BY <1>0, <1>9, ViewPaint DEF Colors
<1> USE DEF B2, B3, P2, P3, P4, P5, P6, A4, A5, A6, K1, C7
<1> HIDE DEF h8
<1> QED BY <1>2, <1>10, Zenon

\* Left child of a left child: the place of g under its parent is taken by p.
LEMMA ViewLeftLeft ==
  ASSUME NEW h, NEW A, NEW B, NEW P, NEW K, NEW C, View(h, "left", "right", A, B, P, K, C),
         NEW p \in Nodes, NEW g \in Nodes
  PROVE  View(RotateLeftLeft(h, p, g).heap, "left", "right",
              [(IF P[g] # NULL /\ A[P[g]] = g THEN [A EXCEPT ![P[g]] = p] ELSE A) EXCEPT ![g] = B[p]],
              [(IF P[g] # NULL /\ A[P[g]] # g THEN [B EXCEPT ![P[g]] = p] ELSE B) EXCEPT ![p] = g],
              Adopted(Adopted(Adopted(P, p, P[g]), B[p], g), g, p), K, C)
<1>0. /\ Facing("left", "right") /\ Facing("right", "left") /\ p \in Places /\ p # NULL /\ g \in Places
      /\ B[p] \in Places /\ P[g] \in Places /\ (P[g] # NULL => P[g] \in Nodes)
  <2>1. p # NULL
    BY DEF Nodes, NULL
  <2>2. A \in Links /\ B \in Links /\ P \in Links
    BY ViewTypes DEF Facing
  <2> QED BY <2>1, <2>2 DEF Facing, Links, Places
<1>1. h[p]["right"] = B[p] /\ h[g].par = P[g] /\ (P[g] # NULL => h[P[g]]["left"] = A[P[g]])
  BY <1>0, ViewNode
<1> DEFINE gg == P[g]
           h1 == Adopt(h, p, gg)
           h2 == IF gg = NULL THEN h1 ELSE Set(h1, gg, SideOf(h, g), p)
           h3 == Link(h2, g, "left", B[p])
           h4 == Link(h3, p, "right", g)
           P1 == Adopted(P, p, gg)
           P3 == Adopted(P1, B[p], g)
           P4 == Adopted(P3, g, p)
           A2 == IF P[g] # NULL /\ A[P[g]] = g THEN [A EXCEPT ![P[g]] = p] ELSE A
           B2 == IF P[g] # NULL /\ A[P[g]] # g THEN [B EXCEPT ![P[g]] = p] ELSE B
           A3 == [A2 EXCEPT ![g] = B[p]]
           B4 == [B2 EXCEPT ![p] = g]
<1>2. RotateLeftLeft(h, p, g).heap = h4
  BY <1>0, <1>1 DEF RotateLeftLeft, Adopt
<1>3. View(h1, "left", "right", A, B, P1, K, C)
  BY <1>0, ViewAdopt
<1> HIDE DEF h1, P1
<1>4. View(h2, "left", "right", A2, B2, P1, K, C)
  <2>1. CASE gg = NULL
    BY <1>3, <2>1
  <2>2. CASE gg # NULL /\ A[gg] = g
    <3>1. SideOf(h, g) = "left"
      BY <1>1, <2>2 DEF SideOf
    <3> QED BY <1>0, <1>3, <2>2, <3>1, ViewSet
  <2>3. CASE gg # NULL /\ A[gg] # g
    <3>1. SideOf(h, g) = "right"
      BY <1>1, <2>3 DEF SideOf
    <3>2. View(Set(h1, gg, "right", p), "right", "left", [B EXCEPT ![gg] = p], A, P1, K, C)
      BY <1>0, <1>3, <2>3, ViewSet, ViewMirror
    <3> QED BY <2>3, <3>1, <3>2, ViewMirror
  <2> QED BY <2>1, <2>2, <2>3
<1> HIDE DEF h2, A2, B2
<1>5. View(h3, "right", "left", B2, A3, P3, K, C)
  BY <1>0, <1>4, ViewLink, ViewMirror
<1> HIDE DEF h3, A3, P3
<1>6. View(h4, "left", "right", A3, B4, P4, K, C)
  BY <1>0, <1>5, ViewLink, ViewMirror
<1> USE DEF A2, B2, A3, P1, P3
<1> HIDE DEF h4
<1> QED BY <1>2, <1>6, Zenon

-----------------------------------------------------------------------------
(* The shape of a tree: the node n is at place pos[n] of the order from left *)
(* to right, and the nodes below it fill the places from lo[n] to hi[n].     *)

Measures(U, N, pos, lo, hi) ==
  /\ U \subseteq Nodes /\ N \in Nat
  /\ pos \in [Nodes -> Int] /\ lo \in [Nodes -> Int] /\ hi \in [Nodes -> Int]

Fits(A, B, P, U, N, pos, lo, hi, n) ==
  /\ 1 <= lo[n] /\ lo[n] <= pos[n] /\ pos[n] <= hi[n] /\ hi[n] <= N
  /\ A[n] = NULL => lo[n] = pos[n]
  /\ A[n] # NULL => A[n] \in U /\ P[A[n]] = n /\ lo[A[n]] = lo[n] /\ hi[A[n]] = pos[n] - 1
  /\ B[n] = NULL => hi[n] = pos[n]
  /\ B[n] # NULL => B[n] \in U /\ P[B[n]] = n /\ lo[B[n]] = pos[n] + 1 /\ hi[B[n]] = hi[n]

\* n is the root or a child of its parent.
Hangs(A, B, P, U, r, n) == n # r => P[n] \in U /\ (A[P[n]] = n \/ B[P[n]] = n)

Rooted(P, U, N, r, lo, hi) ==
  /\ r = NULL => U = {} /\ N = 0
  /\ r # NULL => r \in U /\ P[r] = NULL /\ lo[r] = 1 /\ hi[r] = N

Shape(A, B, P, U, N, r, pos, lo, hi) ==
  /\ Measures(U, N, pos, lo, hi)
  /\ \A n \in U : Fits(A, B, P, U, N, pos, lo, hi, n)
  /\ \A n \in U : Hangs(A, B, P, U, r, n)
  /\ Rooted(P, U, N, r, lo, hi)

\* No two nodes are at the same place, and no place is empty.
Placed(U, N, pos) ==
  /\ \A n \in U : pos[n] \in 1 .. N
  /\ \A m, n \in U : pos[m] = pos[n] => m = n
  /\ \A i \in 1 .. N : \E n \in U : pos[n] = i

Sorted(U, pos, K) == \A m, n \in U : pos[m] < pos[n] => K[m][1] <= K[n][1]

\* A step that gives the nodes of S other measures: the node n comes to the place
\* of s[n], and the nodes below top fill what they filled before.
Moved(U, S, top, s, pos, lo, hi, pos1, lo1, hi1) ==
  /\ \A n \in U : pos1[n] = pos[s[n]]
  /\ \A n \in U \ S : lo1[n] = lo[n] /\ hi1[n] = hi[n]
  /\ lo1[top] = lo[top] /\ hi1[top] = hi[top]

Transposed(m, n) == [x \in Nodes |-> IF x = m THEN n ELSE IF x = n THEN m ELSE x]
Cycled(g, p, t) == [x \in Nodes |-> IF x = g THEN p ELSE IF x = p THEN t ELSE IF x = t THEN g ELSE x]

Flip(N, f) == [n \in Nodes |-> N + 1 - f[n]]

\* A mirror image.
LEMMA ShapeMirror ==
  ASSUME NEW A, NEW B, NEW P, NEW U, NEW N, NEW r, NEW pos, NEW lo, NEW hi,
         Shape(A, B, P, U, N, r, pos, lo, hi)
  PROVE  Shape(B, A, P, U, N, r, Flip(N, pos), Flip(N, hi), Flip(N, lo))
<1> DEFINE fp == Flip(N, pos)
           fl == Flip(N, lo)
           fh == Flip(N, hi)
<1>1. Measures(U, N, pos, lo, hi)
  BY DEF Shape
<1>2. Measures(U, N, fp, fh, fl)
  BY <1>1 DEF Measures, Flip
<1>3. \A n \in Nodes : fp[n] = N + 1 - pos[n] /\ fl[n] = N + 1 - lo[n] /\ fh[n] = N + 1 - hi[n]
  BY DEF Flip
<1> HIDE DEF fp, fl, fh
<1>4. ASSUME NEW n \in U PROVE Fits(B, A, P, U, N, fp, fh, fl, n)
  BY <1>1, <1>2, <1>3 DEF Shape, Fits, Measures
<1>5. \A n \in U : Hangs(B, A, P, U, r, n)
  BY DEF Shape, Hangs
<1>6. Rooted(P, U, N, r, fh, fl)
  BY <1>1, <1>2, <1>3 DEF Shape, Rooted, Measures
<1>7. Shape(B, A, P, U, N, r, fp, fh, fl)
  BY <1>2, <1>4, <1>5, <1>6 DEF Shape
<1> QED BY <1>7 DEF fp, fl, fh

AdoptedTo(P, m, n, Q) == \A x \in Nodes : Q[x] = IF x = m THEN n ELSE P[x]

\* The parents after an adoption.
LEMMA AdoptedIs ==
  ASSUME NEW P \in Links, NEW m \in Places, NEW n \in Places
  PROVE  Adopted(P, m, n) \in Links /\ AdoptedTo(P, m, n, Adopted(P, m, n))
<1>1. NULL \notin Nodes
  BY DEF NULL, Nodes
<1> QED BY <1>1 DEF Adopted, AdoptedTo, Links, Places

\* A measure stays one when a node gets another number.
LEMMA UpdateType ==
  ASSUME NEW f \in [Nodes -> Int], NEW n \in Nodes, NEW i \in Int
  PROVE  [f EXCEPT ![n] = i] \in [Nodes -> Int]
OBVIOUS

MovedShape(A1, B1, P1, U, N, r, S, top, s, pos, lo, hi) ==
  \E pos1, lo1, hi1 : /\ Shape(A1, B1, P1, U, N, r, pos1, lo1, hi1)
                      /\ Moved(U, S, top, s, pos, lo, hi, pos1, lo1, hi1)

InnerStep(A, B, P, A1, B1, P1, t, p, g) ==
  /\ A1 = [A EXCEPT ![t] = B[t]]
  /\ B1 = [B EXCEPT ![p] = A[t], ![t] = B[g], ![g] = t]
  /\ P1 = Adopted(Adopted(Adopted(P, A[t], p), B[g], t), t, g)

\* RotateInner and NearRed.
LEMMA InnerShape ==
  ASSUME NEW A \in Links, NEW B \in Links, NEW P \in Links,
         NEW U, NEW N, NEW r, NEW pos, NEW lo, NEW hi,
         Shape(A, B, P, U, N, r, pos, lo, hi),
         NEW g \in U, NEW p \in U, NEW t \in U, A[g] = p, B[p] = t,
         NEW A1, NEW B1, NEW P1,
         InnerStep(A, B, P, A1, B1, P1, t, p, g)
  PROVE  MovedShape(A1, B1, P1, U, N, r, {g, p, t}, g, Transposed(g, t), pos, lo, hi)
<1> USE DEF InnerStep
<1> DEFINE pos1 == [pos EXCEPT ![g] = pos[t], ![t] = pos[g]]
           lo1 == [lo EXCEPT ![t] = pos[t] + 1]
           hi1 == [hi EXCEPT ![p] = pos[t] - 1, ![t] = hi[g]]
<1> USE DEF Links, Places, NULL
<1>0. Measures(U, N, pos, lo, hi) /\ 0 \notin U
  BY DEF Shape, Nodes, Measures
<1>1. g # p /\ p # t /\ t # g /\ 0 \notin U /\ Measures(U, N, pos, lo, hi)
  BY <1>0 DEF Shape, Fits, Measures
<1> USE DEF Measures
<1>2. Measures(U, N, pos1, lo1, hi1)
  <2>1. pos1 \in [Nodes -> Int]
    BY <1>1
  <2>2. \A x \in U : x \in Nodes /\ pos[x] \in Int /\ lo[x] \in Int /\ hi[x] \in Int
    BY <1>1
  <2>3. \A x \in U : pos[x] + 1 \in Int /\ pos[x] - 1 \in Int
    BY <2>2
  <2>4. lo1 \in [Nodes -> Int]
    BY <1>1, <2>2, <2>3, UpdateType
  <2>5. hi1 \in [Nodes -> Int]
    BY <1>1, <2>2, <2>3, UpdateType
  <2> QED BY <1>1, <2>1, <2>4, <2>5
<1>3. ASSUME NEW n \in U PROVE Fits(A1, B1, P1, U, N, pos1, lo1, hi1, n)
  <2>1. CASE n = g
    BY <1>1, <2>1 DEF Shape, Fits, Adopted
  <2>2. CASE n = p
    BY <1>1, <2>2 DEF Shape, Fits, Adopted
  <2>3. CASE n = t
    BY <1>1, <2>3, SMTT(60), ZenonT(60) DEF Shape, Fits, Adopted
  <2>4. CASE n \notin {g, p, t}
    BY <1>1, <2>4, SMTT(60), ZenonT(60) DEF Shape, Fits, Adopted
  <2> QED BY <2>1, <2>2, <2>3, <2>4
<1>4. ASSUME NEW n \in U PROVE Hangs(A1, B1, P1, U, r, n)
  BY <1>1 DEF Shape, Fits, Hangs, Adopted
<1>5. Rooted(P1, U, N, r, lo1, hi1)
  BY <1>1 DEF Shape, Rooted, Fits, Adopted
<1>6. Shape(A1, B1, P1, U, N, r, pos1, lo1, hi1)
  BY <1>2, <1>3, <1>4, <1>5 DEF Shape
<1>7. Moved(U, {g, p, t}, g, Transposed(g, t), pos, lo, hi, pos1, lo1, hi1)
  BY <1>1 DEF Moved, Transposed
<1> QED BY <1>6, <1>7 DEF MovedShape

PivotStep(A, B, P, A1, B1, P1, t, v) ==
  /\ A1 = [A EXCEPT ![v] = A[t], ![t] = v]
  /\ B1 = [B EXCEPT ![t] = B[v], ![v] = A[v]]
  /\ P1 = Adopted(Adopted(Adopted(P, B[v], t), A[t], v), v, t)

\* SiblingRed and FarRed.
LEMMA PivotShape ==
  ASSUME NEW A \in Links, NEW B \in Links, NEW P \in Links,
         NEW U, NEW N, NEW r, NEW pos, NEW lo, NEW hi,
         Shape(A, B, P, U, N, r, pos, lo, hi),
         NEW t \in U, NEW v \in U, B[t] = v,
         NEW A1, NEW B1, NEW P1,
         PivotStep(A, B, P, A1, B1, P1, t, v)
  PROVE  MovedShape(A1, B1, P1, U, N, r, {t, v}, t, Transposed(t, v), pos, lo, hi)
<1> USE DEF PivotStep
<1> DEFINE pos1 == [pos EXCEPT ![t] = pos[v], ![v] = pos[t]]
           lo1 == [lo EXCEPT ![v] = lo[t]]
           hi1 == [hi EXCEPT ![v] = pos[v] - 1]
<1> USE DEF Links, Places, NULL
<1>1. t # v /\ 0 \notin U /\ Measures(U, N, pos, lo, hi)
  BY DEF Shape, Fits, Nodes, Measures
<1> USE DEF Measures
<1>2. Measures(U, N, pos1, lo1, hi1)
  <2>1. pos1 \in [Nodes -> Int]
    BY <1>1
  <2>2. \A x \in U : x \in Nodes /\ pos[x] \in Int /\ lo[x] \in Int /\ hi[x] \in Int
    BY <1>1
  <2>3. \A x \in U : pos[x] + 1 \in Int /\ pos[x] - 1 \in Int
    BY <2>2
  <2>4. lo1 \in [Nodes -> Int]
    BY <1>1, <2>2, <2>3, UpdateType
  <2>5. hi1 \in [Nodes -> Int]
    BY <1>1, <2>2, <2>3, UpdateType
  <2> QED BY <1>1, <2>1, <2>4, <2>5
<1>3. ASSUME NEW n \in U PROVE Fits(A1, B1, P1, U, N, pos1, lo1, hi1, n)
  <2>1. CASE n = t
    BY <1>1, <2>1 DEF Shape, Fits, Adopted
  <2>2. CASE n = v
    BY <1>1, <2>2 DEF Shape, Fits, Adopted
  <2>3. CASE n \notin {t, v}
    BY <1>1, <2>3 DEF Shape, Fits, Adopted
  <2> QED BY <2>1, <2>2, <2>3
<1>4. ASSUME NEW n \in U PROVE Hangs(A1, B1, P1, U, r, n)
  BY <1>1 DEF Shape, Fits, Hangs, Adopted
<1>5. Rooted(P1, U, N, r, lo1, hi1)
  BY <1>1 DEF Shape, Rooted, Fits, Adopted
<1>6. Shape(A1, B1, P1, U, N, r, pos1, lo1, hi1)
  BY <1>2, <1>3, <1>4, <1>5 DEF Shape
<1>7. Moved(U, {t, v}, t, Transposed(t, v), pos, lo, hi, pos1, lo1, hi1)
  BY <1>1 DEF Moved, Transposed
<1> QED BY <1>6, <1>7 DEF MovedShape

RightRightStep(A, B, P, A1, B1, P1, t, p, g) ==
  /\ A1 = [A EXCEPT ![p] = A[t], ![t] = A[g], ![g] = t]
  /\ B1 = [B EXCEPT ![p] = B[t], ![t] = A[p]]
  /\ P1 = Adopted(Adopted(Adopted(Adopted(Adopted(P, B[t], p), A[p], t), A[t], p), A[g], t), t, g)

\* RotateRightRight.
LEMMA RightRightShape ==
  ASSUME NEW A \in Links, NEW B \in Links, NEW P \in Links,
         NEW U, NEW N, NEW r, NEW pos, NEW lo, NEW hi,
         Shape(A, B, P, U, N, r, pos, lo, hi),
         NEW g \in U, NEW p \in U, NEW t \in U, B[g] = p, B[p] = t,
         NEW A1, NEW B1, NEW P1,
         RightRightStep(A, B, P, A1, B1, P1, t, p, g)
  PROVE  MovedShape(A1, B1, P1, U, N, r, {g, p, t}, g, Cycled(g, p, t), pos, lo, hi)
<1> USE DEF RightRightStep
<1> DEFINE pos1 == [pos EXCEPT ![g] = pos[p], ![p] = pos[t], ![t] = pos[g]]
           lo1 == [lo EXCEPT ![t] = lo[g], ![p] = pos[p] + 1]
           hi1 == [hi EXCEPT ![t] = pos[p] - 1, ![p] = hi[g]]
<1>p. \A x \in Nodes :
        P1[x] = IF x = t THEN g ELSE IF x = A[g] THEN t ELSE IF x = A[t] THEN p
                ELSE IF x = A[p] THEN t ELSE IF x = B[t] THEN p ELSE P[x]
  <2> DEFINE P2 == Adopted(P, B[t], p)
             P3 == Adopted(P2, A[p], t)
             P4 == Adopted(P3, A[t], p)
             P5 == Adopted(P4, A[g], t)
  <2>0. /\ A[g] \in Places /\ A[t] \in Places /\ A[p] \in Places /\ B[t] \in Places
        /\ g \in Places /\ t \in Places /\ p \in Places
    <3>1. U \subseteq Nodes
      BY DEF Shape, Measures
    <3> QED BY <3>1 DEF Links, Places
  <2>1. P2 \in Links /\ AdoptedTo(P, B[t], p, P2)
    BY <2>0, AdoptedIs, Zenon
  <2> HIDE DEF P2
  <2>2. P3 \in Links /\ AdoptedTo(P2, A[p], t, P3)
    BY <2>0, <2>1, AdoptedIs, Zenon
  <2> HIDE DEF P3
  <2>3. P4 \in Links /\ AdoptedTo(P3, A[t], p, P4)
    BY <2>0, <2>2, AdoptedIs, Zenon
  <2> HIDE DEF P4
  <2>4. P5 \in Links /\ AdoptedTo(P4, A[g], t, P5)
    BY <2>0, <2>3, AdoptedIs, Zenon
  <2> HIDE DEF P5
  <2>5. AdoptedTo(P5, t, g, P1)
    <3>1. P1 = Adopted(P5, t, g)
      BY DEF P2, P3, P4, P5
    <3> QED BY <2>0, <2>4, <3>1, AdoptedIs, ZenonT(60), SMTT(60)
  <2> QED BY <2>1, <2>2, <2>3, <2>4, <2>5 DEF AdoptedTo
<1> USE DEF Links, Places, NULL
<1>0. Measures(U, N, pos, lo, hi) /\ 0 \notin U
  BY DEF Shape, Nodes, Measures
<1>1. g # p /\ p # t /\ t # g /\ 0 \notin U /\ Measures(U, N, pos, lo, hi)
  BY <1>0 DEF Shape, Fits, Measures
<1> USE DEF Measures
<1>2. Measures(U, N, pos1, lo1, hi1)
  <2>1. pos1 \in [Nodes -> Int]
    BY <1>1, ZenonT(60), SMTT(60)
  <2>2. \A x \in U : x \in Nodes /\ pos[x] \in Int /\ lo[x] \in Int /\ hi[x] \in Int
    BY <1>1
  <2>3. \A x \in U : pos[x] + 1 \in Int /\ pos[x] - 1 \in Int
    BY <2>2
  <2>4. lo1 \in [Nodes -> Int]
    BY <1>1, <2>2, <2>3, UpdateType
  <2>5. hi1 \in [Nodes -> Int]
    BY <1>1, <2>2, <2>3, UpdateType
  <2> QED BY <1>1, <2>1, <2>4, <2>5
<1>3. ASSUME NEW n \in U PROVE Fits(A1, B1, P1, U, N, pos1, lo1, hi1, n)
  <2>1. CASE n = g
    BY <1>1, <1>p, <2>1 DEF Shape, Fits
  <2>2. CASE n = p
    BY <1>1, <1>p, <2>2, SMTT(60), ZenonT(60) DEF Shape, Fits
  <2>3. CASE n = t
    BY <1>1, <1>p, <2>3 DEF Shape, Fits
  <2>4. CASE n \notin {g, p, t}
    BY <1>1, <1>p, <2>4 DEF Shape, Fits
  <2> QED BY <2>1, <2>2, <2>3, <2>4
<1>4. ASSUME NEW n \in U PROVE Hangs(A1, B1, P1, U, r, n)
  BY <1>1, <1>p DEF Shape, Fits, Hangs
<1>5. Rooted(P1, U, N, r, lo1, hi1)
  BY <1>1, <1>p DEF Shape, Rooted, Fits
<1>6. Shape(A1, B1, P1, U, N, r, pos1, lo1, hi1)
  BY <1>2, <1>3, <1>4, <1>5 DEF Shape
<1>7. Moved(U, {g, p, t}, g, Cycled(g, p, t), pos, lo, hi, pos1, lo1, hi1)
  BY <1>1 DEF Moved, Cycled
<1> QED BY <1>6, <1>7 DEF MovedShape

Reshaped(A, B, P, U, N, r, pos) == \E lo, hi : Shape(A, B, P, U, N, r, pos, lo, hi)

LeftLeftStep(A, B, P, A1, B1, P1, p, g) ==
  /\ A1 = [(IF P[g] # NULL /\ A[P[g]] = g THEN [A EXCEPT ![P[g]] = p] ELSE A) EXCEPT ![g] = B[p]]
  /\ B1 = [(IF P[g] # NULL /\ A[P[g]] # g THEN [B EXCEPT ![P[g]] = p] ELSE B) EXCEPT ![p] = g]
  /\ P1 = Adopted(Adopted(Adopted(P, p, P[g]), B[p], g), g, p)

\* RotateLeftLeft: the nodes stay where they are in the order, p comes to the top.
LEMMA LeftLeftShape ==
  ASSUME NEW A \in Links, NEW B \in Links, NEW P \in Links,
         NEW U, NEW N, NEW r, NEW pos, NEW lo, NEW hi,
         Shape(A, B, P, U, N, r, pos, lo, hi),
         NEW g \in U, NEW p \in U, A[g] = p,
         NEW A1, NEW B1, NEW P1, NEW r1,
         LeftLeftStep(A, B, P, A1, B1, P1, p, g), r1 = IF r = g THEN p ELSE r
  PROVE  Reshaped(A1, B1, P1, U, N, r1, pos)
<1> USE DEF LeftLeftStep
<1> DEFINE lo1 == [lo EXCEPT ![p] = lo[g], ![g] = pos[p] + 1]
           hi1 == [hi EXCEPT ![p] = hi[g]]
<1> USE DEF Links, Places, NULL
<1>1. g # p /\ 0 \notin U /\ Measures(U, N, pos, lo, hi)
  BY DEF Shape, Fits, Nodes, Measures
<1> USE DEF Measures
<1>2. /\ P[g] # 0 => P[g] \in U /\ P[g] # p /\ P[g] # g
      /\ P[g] = 0 <=> r = g
  BY <1>1 DEF Shape, Hangs, Rooted, Fits
<1>3. Measures(U, N, pos, lo1, hi1)
  <2>1. \A x \in U : x \in Nodes /\ pos[x] \in Int /\ lo[x] \in Int /\ hi[x] \in Int
    BY <1>1
  <2>2. \A x \in U : pos[x] + 1 \in Int
    BY <2>1
  <2>3. lo1 \in [Nodes -> Int]
    BY <1>1, <2>1, <2>2, UpdateType
  <2>4. hi1 \in [Nodes -> Int]
    BY <1>1, <2>1, <2>2, UpdateType
  <2> QED BY <1>1, <2>3, <2>4
<1>4. ASSUME NEW n \in U PROVE Fits(A1, B1, P1, U, N, pos, lo1, hi1, n)
  <2>1. CASE n = g
    BY <1>1, <1>2, <2>1, SMTT(60), ZenonT(60) DEF Shape, Fits, Adopted
  <2>2. CASE n = p
    BY <1>1, <1>2, <2>2, SMTT(60), ZenonT(60) DEF Shape, Fits, Adopted
  <2>3. CASE n \notin {g, p} /\ n # P[g]
    BY <1>1, <1>2, <2>3, SMTT(60), ZenonT(60) DEF Shape, Fits, Adopted
  <2>4. CASE n = P[g]
    BY <1>1, <1>2, <2>4, SMTT(60), ZenonT(60) DEF Shape, Fits, Hangs, Adopted
  <2> QED BY <2>1, <2>2, <2>3, <2>4
<1>5. ASSUME NEW n \in U PROVE Hangs(A1, B1, P1, U, r1, n)
  BY <1>1, <1>2 DEF Shape, Fits, Hangs, Adopted
<1>6. Rooted(P1, U, N, r1, lo1, hi1)
  BY <1>1, <1>2 DEF Shape, Rooted, Fits, Adopted
<1>7. Shape(A1, B1, P1, U, N, r1, pos, lo1, hi1)
  BY <1>3, <1>4, <1>5, <1>6 DEF Shape
<1> QED BY <1>7 DEF Reshaped

\* A place q is made for the node x; the node x gives up its place.
Opened(U, x, q, pos, pos1) ==
  /\ pos1[x] = q
  /\ \A n \in U : pos1[n] = IF pos[n] >= q THEN pos[n] + 1 ELSE pos[n]

Closed(U, x, pos, pos1) ==
  \A n \in U \ {x} : pos1[n] = IF pos[n] > pos[x] THEN pos[n] - 1 ELSE pos[n]

\* The links after x became a leaf on side A of p, and after the leaf x left side A
\* of its parent.
GraftLinks(A, B, A1, B1, x, p) ==
  \A n \in Nodes : /\ A1[n] = IF n = x THEN NULL ELSE IF n = p THEN x ELSE A[n]
                   /\ B1[n] = IF n = x THEN NULL ELSE B[n]
GraftParents(P, P1, x, p) == \A n \in Nodes : P1[n] = IF n = x THEN p ELSE P[n]
GraftColors(C, C1, x) == \A n \in Nodes : C1[n] = IF n = x THEN "RED" ELSE C[n]

PruneLinks(A, B, P, A1, B1, U, x) ==
  \A n \in U \ {x} : A1[n] = (IF n = P[x] THEN NULL ELSE A[n]) /\ B1[n] = B[n]
Kept(P, P1, U, x) == \A n \in U \ {x} : P1[n] = P[n]

\* A new leaf on side A of p.
LEMMA GraftShape ==
  ASSUME NEW A \in Links, NEW B \in Links, NEW P \in Links,
         NEW U, NEW N, NEW r, NEW pos, NEW lo, NEW hi,
         Shape(A, B, P, U, N, r, pos, lo, hi), Placed(U, N, pos),
         NEW p \in U, A[p] = NULL, NEW x \in Nodes \ U,
         NEW A1, NEW B1, NEW P1,
         GraftLinks(A, B, A1, B1, x, p), GraftParents(P, P1, x, p)
  PROVE  \E pos1, lo1, hi1 :
           /\ Shape(A1, B1, P1, U \cup {x}, N + 1, r, pos1, lo1, hi1)
           /\ Opened(U, x, pos[p], pos, pos1)
<1> DEFINE q == pos[p]
           V == U \cup {x}
           pos1 == [n \in Nodes |-> IF n = x THEN q ELSE IF pos[n] >= q THEN pos[n] + 1 ELSE pos[n]]
           lo1 == [n \in Nodes |-> IF n = x THEN q ELSE IF lo[n] > q THEN lo[n] + 1 ELSE lo[n]]
           hi1 == [n \in Nodes |-> IF n = x THEN q ELSE IF hi[n] >= q THEN hi[n] + 1 ELSE hi[n]]
<1> USE DEF NULL
<1>0. Measures(U, N, pos, lo, hi) /\ 0 \notin U /\ x # 0
  BY DEF Shape, Nodes, Measures
<1>1. q \in Int /\ U \subseteq Nodes /\ V \subseteq Nodes /\ N \in Nat
      /\ \A n \in U : pos[n] \in Int /\ lo[n] \in Int /\ hi[n] \in Int
  BY <1>0 DEF Measures
<1>2. Measures(V, N + 1, pos1, lo1, hi1)
  BY <1>0, <1>1 DEF Measures
<1>3. /\ pos1[x] = q /\ lo1[x] = q /\ hi1[x] = q
      /\ \A n \in U : /\ pos1[n] = IF pos[n] >= q THEN pos[n] + 1 ELSE pos[n]
                      /\ lo1[n] = IF lo[n] > q THEN lo[n] + 1 ELSE lo[n]
                      /\ hi1[n] = IF hi[n] >= q THEN hi[n] + 1 ELSE hi[n]
  BY <1>1
<1> HIDE DEF pos1, lo1, hi1
<1>4. /\ \A n \in U : A1[n] = (IF n = p THEN x ELSE A[n]) /\ B1[n] = B[n] /\ P1[n] = P[n]
      /\ A1[x] = 0 /\ B1[x] = 0 /\ P1[x] = p
  BY <1>1 DEF GraftLinks, GraftParents
<1>5. \A n \in U : n # p => pos[n] # q
  BY DEF Placed
<1>6. ASSUME NEW n \in V PROVE Fits(A1, B1, P1, V, N + 1, pos1, lo1, hi1, n)
  <2>1. CASE n = x
    <3>1. 1 <= q /\ q <= N
      BY <1>0, <1>1 DEF Shape, Fits
    <3> QED BY <1>1, <1>3, <1>4, <2>1, <3>1 DEF Fits
  <2>2. CASE n = p
    BY <1>0, <1>1, <1>3, <1>4, <2>2 DEF Shape, Fits
  <2>3. CASE n \in U /\ n # p
    BY <1>0, <1>1, <1>3, <1>4, <1>5, <2>3, SMTT(60), ZenonT(60) DEF Shape, Fits
  <2> QED BY <2>1, <2>2, <2>3
<1>7. ASSUME NEW n \in V PROVE Hangs(A1, B1, P1, V, r, n)
  BY <1>0, <1>1, <1>4 DEF Shape, Hangs
<1>8. Rooted(P1, V, N + 1, r, lo1, hi1)
  <2>1. r \in U /\ P[r] = 0 /\ lo[r] = 1 /\ hi[r] = N /\ q <= N /\ 1 <= q
    BY <1>0, <1>1 DEF Shape, Rooted, Fits
  <2> QED BY <1>0, <1>1, <1>3, <1>4, <2>1 DEF Rooted
<1>9. Shape(A1, B1, P1, V, N + 1, r, pos1, lo1, hi1)
  BY <1>2, <1>6, <1>7, <1>8 DEF Shape
<1>10. Opened(U, x, q, pos, pos1)
  BY <1>3 DEF Opened
<1> QED BY <1>9, <1>10

\* A leaf on side A of its parent goes.
LEMMA PruneShape ==
  ASSUME NEW A \in Links, NEW B \in Links, NEW P \in Links,
         NEW U, NEW N, NEW r, NEW pos, NEW lo, NEW hi,
         Shape(A, B, P, U, N, r, pos, lo, hi), Placed(U, N, pos),
         NEW x \in U, x # r, A[x] = NULL, B[x] = NULL, A[P[x]] = x,
         NEW A1, NEW B1, NEW P1,
         PruneLinks(A, B, P, A1, B1, U, x), Kept(P, P1, U, x)
  PROVE  \E pos1, lo1, hi1 :
           /\ Shape(A1, B1, P1, U \ {x}, N - 1, r, pos1, lo1, hi1)
           /\ Closed(U, x, pos, pos1)
<1> DEFINE q == pos[x]
           p == P[x]
           V == U \ {x}
           pos1 == [n \in Nodes |-> IF pos[n] > q THEN pos[n] - 1 ELSE pos[n]]
           lo1 == [n \in Nodes |-> IF lo[n] > q THEN lo[n] - 1 ELSE lo[n]]
           hi1 == [n \in Nodes |-> IF hi[n] >= q THEN hi[n] - 1 ELSE hi[n]]
<1> USE DEF NULL
<1>0. Measures(U, N, pos, lo, hi) /\ 0 \notin U
  BY DEF Shape, Nodes, Measures
<1>1. q \in Int /\ U \subseteq Nodes /\ V \subseteq U /\ N \in Nat
      /\ \A n \in U : n \in Nodes /\ pos[n] \in Int /\ lo[n] \in Int /\ hi[n] \in Int
  BY <1>0 DEF Measures
<1>2. 1 <= q /\ q <= N /\ lo[x] = q /\ hi[x] = q /\ p \in U /\ p # x
  BY <1>0, <1>1 DEF Shape, Fits, Hangs
<1>3. Measures(V, N - 1, pos1, lo1, hi1)
  BY <1>0, <1>1, <1>2 DEF Measures
<1>4. \A n \in U : /\ pos1[n] = IF pos[n] > q THEN pos[n] - 1 ELSE pos[n]
                   /\ lo1[n] = IF lo[n] > q THEN lo[n] - 1 ELSE lo[n]
                   /\ hi1[n] = IF hi[n] >= q THEN hi[n] - 1 ELSE hi[n]
  BY <1>1
<1> HIDE DEF pos1, lo1, hi1
<1>5. \A n \in V : pos[n] # q
  BY DEF Placed
<1>6. ASSUME NEW n \in V PROVE Fits(A1, B1, P1, V, N - 1, pos1, lo1, hi1, n)
  <2>1. CASE n = p
    BY <1>0, <1>1, <1>2, <1>4, <1>5, <2>1, SMTT(60), ZenonT(60) DEF Shape, Fits, PruneLinks, Kept
  <2>2. CASE n # p
    BY <1>0, <1>1, <1>2, <1>4, <1>5, <2>2, SMTT(60), ZenonT(60) DEF Shape, Fits, PruneLinks, Kept
  <2> QED BY <2>1, <2>2
<1>7. ASSUME NEW n \in V PROVE Hangs(A1, B1, P1, V, r, n)
  BY <1>0, <1>1, <1>2 DEF Shape, Hangs, PruneLinks, Kept
<1>8. Rooted(P1, V, N - 1, r, lo1, hi1)
  <2>1. r \in V /\ P[r] = 0 /\ lo[r] = 1 /\ hi[r] = N
    BY <1>0, <1>1 DEF Shape, Rooted, Fits
  <2> QED BY <1>0, <1>1, <1>2, <1>4, <2>1 DEF Rooted, Kept
<1>9. Shape(A1, B1, P1, V, N - 1, r, pos1, lo1, hi1)
  BY <1>3, <1>6, <1>7, <1>8 DEF Shape
<1>10. Closed(U, x, pos, pos1)
  BY <1>1, <1>4 DEF Closed
<1> QED BY <1>9, <1>10

-----------------------------------------------------------------------------
(* The order of the entries *)

\* s permutes U.
Permutes(s, U) == /\ \A n \in U : s[n] \in U
                  /\ \A m, n \in U : s[m] = s[n] => m = n
                  /\ \A m \in U : \E n \in U : s[n] = m

\* Two nodes that change places permute the tree.
LEMMA TransposedPermutes ==
  ASSUME NEW U \in SUBSET Nodes, NEW m \in U, NEW n \in U
  PROVE  Permutes(Transposed(m, n), U)
<1>1. \A x \in U : Transposed(m, n)[x] = IF x = m THEN n ELSE IF x = n THEN m ELSE x
  BY DEF Transposed
<1>2. \A y \in U : \E x \in U : Transposed(m, n)[x] = y
  <2>1. TAKE y \in U
  <2>2. CASE y = m
    BY <1>1, <2>2
  <2>3. CASE y = n
    BY <1>1, <2>3
  <2>4. CASE y # m /\ y # n
    BY <1>1, <2>4
  <2> QED BY <2>2, <2>3, <2>4
<1> QED BY <1>1, <1>2 DEF Permutes

\* Three nodes that move round permute the tree.
LEMMA CycledPermutes ==
  ASSUME NEW U \in SUBSET Nodes, NEW g \in U, NEW p \in U, NEW t \in U, g # p, p # t, t # g
  PROVE  Permutes(Cycled(g, p, t), U)
<1>1. \A x \in U : Cycled(g, p, t)[x] = IF x = g THEN p ELSE IF x = p THEN t ELSE IF x = t THEN g ELSE x
  BY DEF Cycled
<1>2. \A y \in U : \E x \in U : Cycled(g, p, t)[x] = y
  <2>1. TAKE y \in U
  <2>2. CASE y = g
    BY <1>1, <2>2
  <2>3. CASE y = p
    BY <1>1, <2>3
  <2>4. CASE y = t
    BY <1>1, <2>4
  <2>5. CASE y # g /\ y # p /\ y # t
    BY <1>1, <2>5
  <2> QED BY <2>2, <2>3, <2>4, <2>5
<1> QED BY <1>1, <1>2 DEF Permutes

\* Nodes and entries move together: the order of the entries stays.
LEMMA OrderMoved ==
  ASSUME NEW U, NEW N, NEW pos, NEW K, NEW pos1, NEW K1, NEW s,
         Placed(U, N, pos), Sorted(U, pos, K), Permutes(s, U),
         \A n \in U : pos1[n] = pos[s[n]], \A n \in U : K1[n] = K[s[n]]
  PROVE  Placed(U, N, pos1) /\ Sorted(U, pos1, K1)
<1>1. \A n \in U : pos1[n] \in 1 .. N
  BY DEF Placed, Permutes
<1>2. \A m, n \in U : pos1[m] = pos1[n] => m = n
  BY SMTT(60), ZenonT(60) DEF Placed, Permutes
<1>3. ASSUME NEW i \in 1 .. N PROVE \E n \in U : pos1[n] = i
  BY DEF Placed, Permutes
<1>4. Sorted(U, pos1, K1)
  BY DEF Sorted, Permutes
<1> QED BY <1>1, <1>2, <1>3, <1>4 DEF Placed

\* The key k belongs between the nodes in front of q and the others.
Belongs(U, pos, K, q, k) ==
  \A n \in U : (pos[n] < q => K[n][1] <= k) /\ (pos[n] >= q => k <= K[n][1])

\* A new entry goes where it belongs.
LEMMA OrderOpened ==
  ASSUME NEW U, NEW N \in Nat, NEW pos, NEW K, NEW pos1, NEW K1, NEW x, NEW q \in 1 .. N + 1,
         Placed(U, N, pos), Sorted(U, pos, K), Opened(U, x, q, pos, pos1), x \notin U,
         Kept(K, K1, U, x), Belongs(U, pos, K, q, K1[x][1])
  PROVE  Placed(U \cup {x}, N + 1, pos1) /\ Sorted(U \cup {x}, pos1, K1)
<1>1. /\ pos1[x] = q /\ q \in Int
      /\ \A n \in U : /\ pos[n] \in Int /\ 1 <= pos[n] /\ pos[n] <= N
                      /\ pos1[n] = IF pos[n] >= q THEN pos[n] + 1 ELSE pos[n]
  BY DEF Opened, Placed
<1>2. \A n \in U \cup {x} : pos1[n] \in 1 .. N + 1
  BY <1>1
<1>3. \A m, n \in U \cup {x} : pos1[m] = pos1[n] => m = n
  BY <1>1 DEF Placed
<1>4. ASSUME NEW i \in 1 .. N + 1 PROVE \E n \in U \cup {x} : pos1[n] = i
  <2>1. CASE i < q
    <3>1. PICK n \in U : pos[n] = i
      BY <2>1 DEF Placed
    <3> QED BY <1>1, <2>1, <3>1
  <2>2. CASE i = q
    BY <1>1, <2>2
  <2>3. CASE i > q
    <3>1. i - 1 \in 1 .. N
      BY <2>3
    <3>2. PICK n \in U : pos[n] = i - 1
      BY <3>1 DEF Placed
    <3> QED BY <1>1, <2>3, <3>2
  <2> QED BY <2>1, <2>2, <2>3
<1>5. ASSUME NEW m \in U \cup {x}, NEW n \in U \cup {x}, pos1[m] < pos1[n]
      PROVE  K1[m][1] <= K1[n][1]
  <2>1. CASE m \in U /\ n \in U
    <3>1. pos[m] < pos[n]
      BY <1>1, <1>5, <2>1
    <3> QED BY <2>1, <3>1 DEF Sorted, Kept
  <2>2. CASE m = x /\ n \in U
    <3>1. pos[n] >= q
      BY <1>1, <1>5, <2>2
    <3> QED BY <2>2, <3>1 DEF Kept, Belongs
  <2>3. CASE m \in U /\ n = x
    <3>1. pos[m] < q
      BY <1>1, <1>5, <2>3
    <3> QED BY <2>3, <3>1 DEF Kept, Belongs
  <2> QED BY <1>1, <1>5, <2>1, <2>2, <2>3
<1> QED BY <1>2, <1>3, <1>4, <1>5 DEF Placed, Sorted

\* An entry goes.
LEMMA OrderClosed ==
  ASSUME NEW U, NEW N \in Nat, NEW pos, NEW K, NEW pos1, NEW K1, NEW x \in U,
         Placed(U, N, pos), Sorted(U, pos, K), Closed(U, x, pos, pos1),
         Kept(K, K1, U, x)
  PROVE  Placed(U \ {x}, N - 1, pos1) /\ Sorted(U \ {x}, pos1, K1)
<1>1. /\ \A n \in U : pos[n] \in Int /\ 1 <= pos[n] /\ pos[n] <= N
      /\ \A n \in U \ {x} : pos1[n] = IF pos[n] > pos[x] THEN pos[n] - 1 ELSE pos[n]
      /\ \A n \in U \ {x} : pos[n] # pos[x]
  BY DEF Closed, Placed
<1>2. \A n \in U \ {x} : pos1[n] \in 1 .. N - 1
  BY <1>1
<1>3. \A m, n \in U \ {x} : pos1[m] = pos1[n] => m = n
  BY <1>1 DEF Placed
<1>4. ASSUME NEW i \in 1 .. N - 1 PROVE \E n \in U \ {x} : pos1[n] = i
  <2>1. CASE i < pos[x]
    <3>1. PICK n \in U : pos[n] = i
      BY DEF Placed
    <3> QED BY <1>1, <2>1, <3>1
  <2>2. CASE i >= pos[x]
    <3>1. i + 1 \in 1 .. N
      OBVIOUS
    <3>2. PICK n \in U : pos[n] = i + 1
      BY <3>1 DEF Placed
    <3> QED BY <1>1, <2>2, <3>2
  <2> QED BY <1>1, <2>1, <2>2
<1>5. ASSUME NEW m \in U \ {x}, NEW n \in U \ {x}, pos1[m] < pos1[n]
      PROVE  K1[m][1] <= K1[n][1]
  <2>1. pos[m] < pos[n]
    BY <1>1, <1>5
  <2> QED BY <2>1 DEF Sorted, Kept
<1> QED BY <1>2, <1>3, <1>4, <1>5 DEF Placed, Sorted

-----------------------------------------------------------------------------
(* The balance: bh[n] black nodes are passed on every way down from n.  A    *)
(* node of X is about to go and counts as none, a node of S is one black     *)
(* node short, and the nodes of Y may be red under red.                      *)

Red(C, n) == n # NULL /\ C[n] = "RED"

Due(bh, S, n) == IF n \in S THEN bh[n] + 1 ELSE bh[n]

Even(A, B, C, bh, S, n) ==
  /\ Due(bh, S, A[n]) = Due(bh, S, B[n])
  /\ bh[n] = Due(bh, S, A[n]) + IF C[n] = "RED" THEN 0 ELSE 1

Balanced(A, B, C, U, bh, X, S) ==
  /\ bh \in [Places -> Int] /\ bh[NULL] = 1
  /\ \A n \in U : bh[n] >= 1
  /\ \A n \in X : bh[n] = 1
  /\ \A n \in U \ X : Even(A, B, C, bh, S, n)

Calm(A, B, C, U, Y) ==
  \A n \in U : C[n] = "RED" => /\ Red(C, A[n]) => A[n] \in Y
                               /\ Red(C, B[n]) => B[n] \in Y

\* Balance and colours do not tell left from right.
LEMMA BalanceMirror ==
  ASSUME NEW A, NEW B, NEW C, NEW U, NEW bh, NEW X, NEW S, NEW Y
  PROVE  /\ Balanced(A, B, C, U, bh, X, S) => Balanced(B, A, C, U, bh, X, S)
         /\ Calm(A, B, C, U, Y) => Calm(B, A, C, U, Y)
<1>1. Balanced(A, B, C, U, bh, X, S) => Balanced(B, A, C, U, bh, X, S)
  BY DEF Balanced, Even
<1>2. Calm(A, B, C, U, Y) => Calm(B, A, C, U, Y)
  BY DEF Calm
<1> QED BY <1>1, <1>2

\* Where a pass of the insertion begins: t is red under the red node p.
RedUnderRed(A, B, P, C, U, N, r, pos, lo, hi, bh, t, p, g) ==
  /\ A \in Links /\ B \in Links /\ P \in Links /\ C \in [Nodes -> Colors]
  /\ Shape(A, B, P, U, N, r, pos, lo, hi)
  /\ Balanced(A, B, C, U, bh, {}, {}) /\ Calm(A, B, C, U, {t}) /\ ~Red(C, r)
  /\ t \in U /\ p \in U /\ g \in U /\ C[t] = "RED" /\ C[p] = "RED"
  /\ A[g] = p /\ (A[p] = t \/ B[p] = t)

\* What holds of the three nodes.
LEMMA RedUnderRedFacts ==
  ASSUME NEW A, NEW B, NEW P, NEW C, NEW U, NEW N, NEW r, NEW pos, NEW lo, NEW hi, NEW bh,
         NEW t, NEW p, NEW g, RedUnderRed(A, B, P, C, U, N, r, pos, lo, hi, bh, t, p, g)
  PROVE  /\ U \subseteq Nodes /\ 0 \notin U
         /\ t # p /\ p # g /\ t # g /\ P[t] = p /\ P[p] = g
         /\ C[g] = "BLACK"
         /\ bh[t] = bh[p] /\ bh[g] = bh[p] + 1 /\ bh[B[g]] = bh[p]
         /\ bh[A[p]] = bh[p] /\ bh[B[p]] = bh[p] /\ bh[A[t]] = bh[p] /\ bh[B[t]] = bh[p]
         /\ bh[p] \in Int /\ bh[p] >= 1
<1> USE DEF RedUnderRed, NULL
<1>1. Measures(U, N, pos, lo, hi) /\ 0 \notin U /\ U \subseteq Nodes
  BY DEF Shape, Nodes, Measures
<1>2. t # p /\ p # g /\ t # g /\ P[t] = p /\ P[p] = g
  BY <1>1 DEF Shape, Fits, Measures
<1>3. C[g] = "BLACK"
  BY <1>1, <1>2 DEF Calm, Red, Colors
<1>4. /\ bh[p] \in Int /\ bh[p] >= 1 /\ bh[t] \in Int /\ bh[g] \in Int
      /\ A[p] \in Places /\ B[p] \in Places /\ A[t] \in Places /\ B[t] \in Places /\ B[g] \in Places
      /\ \A n \in Places : bh[n] \in Int
  BY <1>1 DEF Balanced, Places, Links
<1>5. Even(A, B, C, bh, {}, t) /\ Even(A, B, C, bh, {}, p) /\ Even(A, B, C, bh, {}, g)
  BY DEF Balanced
<1>6. bh[A[p]] = bh[B[p]] /\ bh[p] = bh[A[p]]
  BY <1>4, <1>5 DEF Even, Due
<1>7. bh[A[t]] = bh[B[t]] /\ bh[t] = bh[A[t]]
  BY <1>4, <1>5 DEF Even, Due
<1>8. bh[A[g]] = bh[B[g]] /\ bh[g] = bh[A[g]] + 1
  BY <1>3, <1>4, <1>5 DEF Even, Due
<1> QED BY <1>1, <1>2, <1>3, <1>4, <1>6, <1>7, <1>8

\* The uncle is red: g passes its black on to both of its children.
LEMMA RecolourBalance ==
  ASSUME NEW A, NEW B, NEW P, NEW C, NEW U, NEW N, NEW r, NEW pos, NEW lo, NEW hi, NEW bh,
         NEW t, NEW p, NEW g, RedUnderRed(A, B, P, C, U, N, r, pos, lo, hi, bh, t, p, g),
         Red(C, B[g]), NEW C1, C1 = [C EXCEPT ![p] = "BLACK", ![g] = "RED", ![B[g]] = "BLACK"]
  PROVE  \E bh1 : Balanced(A, B, C1, U, bh1, {}, {}) /\ Calm(A, B, C1, U, {g})
<1> DEFINE u == B[g]
           bh1 == [bh EXCEPT ![p] = bh[p] + 1, ![u] = bh[p] + 1]
<1> USE DEF NULL
<1>1. /\ U \subseteq Nodes /\ 0 \notin U
      /\ t # p /\ p # g /\ t # g /\ P[t] = p /\ P[p] = g
      /\ C[g] = "BLACK"
      /\ bh[g] = bh[p] + 1 /\ bh[u] = bh[p]
      /\ bh[A[p]] = bh[p] /\ bh[B[p]] = bh[p]
      /\ bh[p] \in Int /\ bh[p] >= 1
  BY RedUnderRedFacts
<1>2. /\ A \in Links /\ B \in Links /\ P \in Links /\ C \in [Nodes -> Colors]
      /\ t \in U /\ p \in U /\ g \in U /\ A[g] = p /\ C[p] = "RED"
      /\ bh \in [Places -> Int] /\ bh[0] = 1
      /\ \A n \in U : bh[n] >= 1 /\ Even(A, B, C, bh, {}, n)
      /\ Calm(A, B, C, U, {t})
  BY DEF RedUnderRed, Balanced
<1>3. B[g] = u /\ u \in U /\ u # g /\ u # p /\ C[u] = "RED" /\ P[u] = g
  <2>1. Measures(U, N, pos, lo, hi) /\ Fits(A, B, P, U, N, pos, lo, hi, g) /\ Fits(A, B, P, U, N, pos, lo, hi, p)
    BY DEF RedUnderRed, Shape
  <2>2. u # 0 /\ C[u] = "RED"
    BY DEF Red
  <2> QED BY <1>1, <1>2, <2>1, <2>2 DEF Fits, Measures
<1>4. \A n \in U : /\ A[n] # 0 => A[n] \in U /\ P[A[n]] = n
                   /\ B[n] # 0 => B[n] \in U /\ P[B[n]] = n
                   /\ A[n] \in Places /\ B[n] \in Places
  BY <1>1, <1>2 DEF RedUnderRed, Shape, Fits, Links
<1>5. bh[A[u]] = bh[p] /\ bh[B[u]] = bh[p]
  <2>1. Even(A, B, C, bh, {}, u)
    BY <1>2, <1>3
  <2> QED BY <1>1, <1>2, <1>3, <1>4, <2>1 DEF Even, Due
<1> HIDE DEF u
<1>6. /\ \A n \in Places : bh1[n] = IF n = p \/ n = u THEN bh[p] + 1 ELSE bh[n]
      /\ bh1 \in [Places -> Int]
  BY <1>1, <1>2, <1>3, ZenonT(60), SMTT(60) DEF Places
<1>7. \A n \in Nodes : C1[n] = IF n = p \/ n = u THEN "BLACK" ELSE IF n = g THEN "RED" ELSE C[n]
  BY <1>1, <1>2, <1>3
<1> HIDE DEF bh1
<1>8. ASSUME NEW n \in U PROVE Even(A, B, C1, bh1, {}, n)
  <2>1. CASE n = g
    <3>1. bh1[g] = bh[p] + 1 /\ bh1[p] = bh[p] + 1 /\ bh1[u] = bh[p] + 1 /\ C1[g] = "RED"
      BY <1>1, <1>2, <1>3, <1>6, <1>7 DEF Places
    <3> QED BY <1>1, <1>2, <1>3, <2>1, <3>1 DEF Even, Due
  <2>2. CASE n = p
    BY <1>1, <1>2, <1>3, <1>4, <1>6, <1>7, <2>2 DEF Even, Due
  <2>3. CASE n = u
    BY <1>1, <1>2, <1>3, <1>4, <1>5, <1>6, <1>7, <2>3 DEF Even, Due
  <2>4. CASE n \notin {g, p, u}
    <3>1. A[n] \notin {p, u} /\ B[n] \notin {p, u}
      BY <1>1, <1>2, <1>3, <1>4, <2>4
    <3>2. bh1[n] = bh[n] /\ bh1[A[n]] = bh[A[n]] /\ bh1[B[n]] = bh[B[n]] /\ C1[n] = C[n]
      BY <1>1, <1>4, <1>6, <1>7, <2>4, <3>1, ZenonT(60), SMTT(60) DEF Places
    <3>3. Even(A, B, C, bh, {}, n)
      BY <1>2
    <3> QED BY <3>2, <3>3 DEF Even, Due
  <2> QED BY <2>1, <2>2, <2>3, <2>4
<1>9. Balanced(A, B, C1, U, bh1, {}, {})
  BY <1>1, <1>2, <1>3, <1>6, <1>8, ZenonT(60), SMTT(60) DEF Balanced, Places
<1>10. Calm(A, B, C1, U, {g})
  BY <1>1, <1>2, <1>3, <1>4, <1>7 DEF Calm, Red
<1> QED BY <1>9, <1>10

\* What the three rotations of the insertion need.
TurnFacts(A, B, P, C, U, r, bh, t, p, g) ==
  /\ U \subseteq Nodes /\ 0 \notin U /\ t \in U /\ p \in U /\ g \in U
  /\ t # p /\ p # g /\ t # g /\ P[t] = p /\ P[p] = g /\ A[g] = p
  /\ C[g] = "BLACK" /\ C[p] = "RED" /\ C[t] = "RED" /\ C \in [Nodes -> Colors]
  /\ bh[t] = bh[p] /\ bh[g] = bh[p] + 1 /\ bh[B[g]] = bh[p]
  /\ bh[A[p]] = bh[p] /\ bh[B[p]] = bh[p] /\ bh[A[t]] = bh[p] /\ bh[B[t]] = bh[p]
  /\ bh[p] \in Int /\ bh[p] >= 1 /\ bh \in [Places -> Int] /\ bh[0] = 1
  /\ A \in Links /\ B \in Links /\ P \in Links
  /\ \A n \in U : /\ A[n] # 0 => A[n] \in U /\ P[A[n]] = n
                  /\ B[n] # 0 => B[n] \in U /\ P[B[n]] = n
                  /\ A[n] = B[n] => A[n] = 0
                  /\ A[n] \in Places /\ B[n] \in Places
  /\ \A n \in U : bh[n] >= 1 /\ Even(A, B, C, bh, {}, n)
  /\ Calm(A, B, C, U, {t})
  /\ ~Red(C, A[t]) /\ ~Red(C, B[t])
  /\ P[g] # 0 => P[g] \in U /\ P[g] # p /\ P[g] # g /\ (A[P[g]] = g \/ B[P[g]] = g)
  /\ P[g] = 0 <=> r = g
  /\ ~Red(C, r) /\ (r = 0 \/ r \in U)

\* What a rotation of rbtree_insert relies on holds for red under red.
LEMMA TurnFactsHold ==
  ASSUME NEW A, NEW B, NEW P, NEW C, NEW U, NEW N, NEW r, NEW pos, NEW lo, NEW hi, NEW bh,
         NEW t, NEW p, NEW g, RedUnderRed(A, B, P, C, U, N, r, pos, lo, hi, bh, t, p, g)
  PROVE  TurnFacts(A, B, P, C, U, r, bh, t, p, g)
<1> USE DEF NULL
<1>1. /\ U \subseteq Nodes /\ 0 \notin U
      /\ t # p /\ p # g /\ t # g /\ P[t] = p /\ P[p] = g
      /\ C[g] = "BLACK"
      /\ bh[t] = bh[p] /\ bh[g] = bh[p] + 1 /\ bh[B[g]] = bh[p]
      /\ bh[A[p]] = bh[p] /\ bh[B[p]] = bh[p] /\ bh[A[t]] = bh[p] /\ bh[B[t]] = bh[p]
      /\ bh[p] \in Int /\ bh[p] >= 1
  BY RedUnderRedFacts
<1>2. /\ A \in Links /\ B \in Links /\ P \in Links /\ C \in [Nodes -> Colors]
      /\ t \in U /\ p \in U /\ g \in U /\ A[g] = p /\ C[p] = "RED" /\ C[t] = "RED"
      /\ bh \in [Places -> Int] /\ bh[0] = 1 /\ ~Red(C, r)
      /\ \A n \in U : bh[n] >= 1 /\ Even(A, B, C, bh, {}, n)
      /\ Calm(A, B, C, U, {t})
  BY DEF RedUnderRed, Balanced
<1>3. Measures(U, N, pos, lo, hi) /\ \A n \in U : Fits(A, B, P, U, N, pos, lo, hi, n)
  BY DEF RedUnderRed, Shape
<1>4. \A n \in U : /\ A[n] # 0 => A[n] \in U /\ P[A[n]] = n
                   /\ B[n] # 0 => B[n] \in U /\ P[B[n]] = n
                   /\ A[n] = B[n] => A[n] = 0
                   /\ A[n] \in Places /\ B[n] \in Places
  <2> TAKE n \in U
  <2>1. Fits(A, B, P, U, N, pos, lo, hi, n)
    BY <1>3
  <2>2. A[n] \in Places /\ B[n] \in Places
    BY <1>1, <1>2 DEF Links
  <2>3. A[n] # 0 /\ A[n] = B[n] => FALSE
    BY <1>1, <1>3, <2>1 DEF Fits, Measures
  <2> QED BY <2>1, <2>2, <2>3 DEF Fits
<1>5. A[t] # t /\ B[t] # t /\ ~Red(C, A[t]) /\ ~Red(C, B[t])
  BY <1>1, <1>2, <1>4 DEF Calm
<1>6. /\ P[g] # 0 => P[g] \in U /\ P[g] # p /\ P[g] # g /\ (A[P[g]] = g \/ B[P[g]] = g)
      /\ P[g] = 0 <=> r = g
      /\ r = 0 \/ r \in U
  <2>1. Hangs(A, B, P, U, r, g) /\ Rooted(P, U, N, r, lo, hi)
    BY <1>2 DEF RedUnderRed, Shape
  <2>2. P[g] # p /\ P[g] # g
    <3>1. Fits(A, B, P, U, N, pos, lo, hi, g) /\ Fits(A, B, P, U, N, pos, lo, hi, p)
      BY <1>2, <1>3
    <3>2. A[p] # g /\ B[p] # g /\ A[g] # g /\ B[g] # g
      BY <1>1, <1>2, <1>3, <3>1 DEF Fits, Measures
    <3> QED BY <1>1, <1>2, <2>1, <3>2 DEF Hangs, Rooted
  <2> QED BY <1>1, <1>2, <2>1, <2>2 DEF Hangs, Rooted
<1> QED BY <1>1, <1>2, <1>4, <1>5, <1>6 DEF TurnFacts

\* The children after RotateInner, RotateRightRight and RotateLeftLeft.
InnerLinks(A, B, A1, B1, t, p, g) ==
  /\ A1 = [A EXCEPT ![t] = B[t]]
  /\ B1 = [B EXCEPT ![p] = A[t], ![t] = B[g], ![g] = t]

RightRightLinks(A, B, A1, B1, t, p, g) ==
  /\ A1 = [A EXCEPT ![p] = A[t], ![t] = B[p]]
  /\ B1 = [B EXCEPT ![p] = B[t], ![t] = B[g], ![g] = t]

RightRightPaint(C, C1, p, g) ==
  C1 = [C EXCEPT ![p] = "BLACK", ![g] = "RED", ![g] = "BLACK", ![p] = "RED"]

LeftLeftPaint(C, C1, p, g) == C1 = [C EXCEPT ![p] = "BLACK", ![g] = "RED"]

NewRoot(r, g, p, r1) == r1 = IF r = g THEN p ELSE r

Stands(A, B, C, U) == \E bh : Balanced(A, B, C, U, bh, {}, {}) /\ Calm(A, B, C, U, {})

LeftLeftLinks(A, B, P, A1, B1, p, g) ==
  /\ A1 = [(IF P[g] # NULL /\ A[P[g]] = g THEN [A EXCEPT ![P[g]] = p] ELSE A) EXCEPT ![g] = B[p]]
  /\ B1 = [(IF P[g] # NULL /\ A[P[g]] # g THEN [B EXCEPT ![P[g]] = p] ELSE B) EXCEPT ![p] = g]

\* The inner grandchild.
LEMMA InnerBalance ==
  ASSUME NEW A, NEW B, NEW P, NEW C, NEW U, NEW r, NEW bh, NEW t, NEW p, NEW g,
         TurnFacts(A, B, P, C, U, r, bh, t, p, g), B[p] = t, NEW A1, NEW B1, NEW C1,
         InnerLinks(A, B, A1, B1, t, p, g),
         C1 = [C EXCEPT ![p] = "BLACK", ![g] = "RED", ![t] = "BLACK"]
  PROVE  \E bh1 : Balanced(A1, B1, C1, U, bh1, {}, {}) /\ Calm(A1, B1, C1, U, {g})
<1> DEFINE bh1 == [bh EXCEPT ![p] = bh[p] + 1, ![t] = bh[p] + 1]
<1> USE DEF NULL
<1>n. /\ U \subseteq Nodes /\ U \subseteq Places /\ 0 \notin U /\ t \in U /\ p \in U /\ g \in U
      /\ t # p /\ p # g /\ t # g
  BY DEF TurnFacts, Places
<1>h. /\ bh[t] = bh[p] /\ bh[g] = bh[p] + 1 /\ bh[B[g]] = bh[p]
      /\ bh[A[p]] = bh[p] /\ bh[B[p]] = bh[p] /\ bh[A[t]] = bh[p] /\ bh[B[t]] = bh[p]
      /\ bh[p] \in Int /\ bh[p] >= 1 /\ bh \in [Places -> Int] /\ bh[0] = 1
      /\ \A n \in U : bh[n] >= 1
  BY DEF TurnFacts
<1>f. /\ A[g] = p /\ P[t] = p /\ P[p] = g /\ P[g] # p /\ P[g] # g
      /\ \A n \in U : /\ A[n] # 0 => A[n] \in U /\ P[A[n]] = n
                      /\ B[n] # 0 => B[n] \in U /\ P[B[n]] = n
                      /\ A[n] = B[n] => A[n] = 0
                      /\ A[n] \in Places /\ B[n] \in Places
  <2>1. P[g] # p /\ P[g] # g
    BY <1>n DEF TurnFacts
  <2> QED BY <2>1 DEF TurnFacts
<1>e. \A n \in U : Even(A, B, C, bh, {}, n)
  BY DEF TurnFacts
<1>c. /\ C[g] = "BLACK" /\ C[p] = "RED" /\ C[t] = "RED" /\ C \in [Nodes -> Colors]
      /\ Calm(A, B, C, U, {t}) /\ ~Red(C, A[t]) /\ ~Red(C, B[t]) /\ ~Red(C, r)
  BY DEF TurnFacts
<1>1. /\ \A n \in Places : bh1[n] = IF n = p \/ n = t THEN bh[p] + 1 ELSE bh[n]
      /\ bh1 \in [Places -> Int]
  BY <1>n, <1>h
<1>2. \A n \in Nodes : /\ C1[n] = IF n = p \/ n = t THEN "BLACK" ELSE IF n = g THEN "RED" ELSE C[n]
                       /\ A1[n] = IF n = t THEN B[t] ELSE A[n]
                       /\ B1[n] = IF n = p THEN A[t] ELSE IF n = t THEN B[g] ELSE IF n = g THEN t ELSE B[n]
  BY <1>n, <1>c DEF TurnFacts, InnerLinks, Links
<1> HIDE DEF bh1
<1>3. /\ A[p] \notin {p, t} /\ A[t] \notin {p, t} /\ B[t] \notin {p, t} /\ B[g] \notin {p, t}
      /\ A[p] \in Places /\ A[t] \in Places /\ B[t] \in Places /\ B[g] \in Places
  BY <1>n, <1>f
<1>4. ASSUME NEW n \in U PROVE Even(A1, B1, C1, bh1, {}, n)
  <2>1. CASE n = g
    <3>1. bh1[g] = bh[p] + 1 /\ bh1[p] = bh[p] + 1 /\ bh1[t] = bh[p] + 1 /\ C1[g] = "RED"
          /\ A1[g] = p /\ B1[g] = t
      BY <1>n, <1>h, <1>f, <1>1, <1>2, ZenonT(60), SMTT(60)
    <3> QED BY <1>h, <2>1, <3>1 DEF Even, Due
  <2>2. CASE n = p
    <3>1. bh1[p] = bh[p] + 1 /\ bh1[A[p]] = bh[p] /\ bh1[A[t]] = bh[p] /\ C1[p] = "BLACK"
          /\ A1[p] = A[p] /\ B1[p] = A[t]
      BY <1>n, <1>h, <1>f, <1>1, <1>2, <1>3, ZenonT(60), SMTT(60)
    <3> QED BY <1>h, <2>2, <3>1 DEF Even, Due
  <2>3. CASE n = t
    <3>1. bh1[t] = bh[p] + 1 /\ bh1[B[t]] = bh[p] /\ bh1[B[g]] = bh[p] /\ C1[t] = "BLACK"
          /\ A1[t] = B[t] /\ B1[t] = B[g]
      BY <1>n, <1>h, <1>f, <1>1, <1>2, <1>3, ZenonT(60), SMTT(60)
    <3> QED BY <1>h, <2>3, <3>1 DEF Even, Due
  <2>4. CASE n \notin {g, p, t}
    <3>1. A[n] \notin {p, t} /\ B[n] \notin {p, t} /\ A[n] \in Places /\ B[n] \in Places
      BY <1>n, <1>f, <2>4
    <3>2. /\ bh1[n] = bh[n] /\ bh1[A[n]] = bh[A[n]] /\ bh1[B[n]] = bh[B[n]]
          /\ C1[n] = C[n] /\ A1[n] = A[n] /\ B1[n] = B[n]
      BY <1>n, <1>1, <1>2, <2>4, <3>1
    <3>3. Even(A, B, C, bh, {}, n)
      BY <1>e
    <3> QED BY <3>2, <3>3 DEF Even, Due
  <2> QED BY <2>1, <2>2, <2>3, <2>4
<1>5. Balanced(A1, B1, C1, U, bh1, {}, {})
  BY <1>n, <1>h, <1>1, <1>4 DEF Balanced, Places
<1>6. ASSUME NEW n \in U, C1[n] = "RED"
      PROVE (Red(C1, A1[n]) => A1[n] \in {g}) /\ (Red(C1, B1[n]) => B1[n] \in {g})
  <2>1. CASE n = g
    <3>1. A1[g] = p /\ B1[g] = t /\ C1[p] = "BLACK" /\ C1[t] = "BLACK"
      BY <1>n, <1>f, <1>2, ZenonT(60), SMTT(60)
    <3> QED BY <2>1, <3>1 DEF Red
  <2>2. CASE n # g
    <3>1. C[n] = "RED" /\ n \notin {g, p, t} /\ A1[n] = A[n] /\ B1[n] = B[n]
      BY <1>n, <1>2, <1>6, <2>2
    <3>2. (Red(C, A[n]) => A[n] = t) /\ (Red(C, B[n]) => B[n] = t)
      BY <1>c, <3>1 DEF Calm
    <3>3. A[n] # t /\ B[n] # t
      BY <1>n, <1>f, <3>1
    <3>4. ASSUME NEW m \in {A[n], B[n]}, Red(C1, m), m # g PROVE FALSE
      <4>1. m \in U
        BY <1>f, <3>4 DEF Red
      <4>2. C[m] = "RED"
        BY <1>n, <1>2, <3>4, <4>1 DEF Red
      <4> QED BY <3>2, <3>3, <3>4, <4>2 DEF Red
    <3> QED BY <3>1, <3>4
  <2> QED BY <2>1, <2>2
<1>7. Calm(A1, B1, C1, U, {g})
  BY <1>6 DEF Calm
<1> QED BY <1>5, <1>7

\* Right under right; A is the side of both.
LEMMA RightRightBalance ==
  ASSUME NEW A, NEW B, NEW P, NEW C, NEW U, NEW r, NEW bh, NEW t, NEW p, NEW g,
         TurnFacts(A, B, P, C, U, r, bh, t, p, g), A[p] = t, ~Red(C, B[g]), NEW A1, NEW B1, NEW C1,
         RightRightLinks(A, B, A1, B1, t, p, g),
         RightRightPaint(C, C1, p, g)
  PROVE  Balanced(A1, B1, C1, U, bh, {}, {}) /\ Calm(A1, B1, C1, U, {}) /\ ~Red(C1, r)
<1> USE DEF NULL, RightRightPaint
<1>n. /\ U \subseteq Nodes /\ U \subseteq Places /\ 0 \notin U /\ t \in U /\ p \in U /\ g \in U
      /\ t # p /\ p # g /\ t # g
  BY DEF TurnFacts, Places
<1>h. /\ bh[t] = bh[p] /\ bh[g] = bh[p] + 1 /\ bh[B[g]] = bh[p]
      /\ bh[A[p]] = bh[p] /\ bh[B[p]] = bh[p] /\ bh[A[t]] = bh[p] /\ bh[B[t]] = bh[p]
      /\ bh[p] \in Int /\ bh[p] >= 1 /\ bh \in [Places -> Int] /\ bh[0] = 1
      /\ \A n \in U : bh[n] >= 1
  BY DEF TurnFacts
<1>f. /\ A[g] = p /\ P[t] = p /\ P[p] = g /\ P[g] # p /\ P[g] # g
      /\ \A n \in U : /\ A[n] # 0 => A[n] \in U /\ P[A[n]] = n
                      /\ B[n] # 0 => B[n] \in U /\ P[B[n]] = n
                      /\ A[n] = B[n] => A[n] = 0
                      /\ A[n] \in Places /\ B[n] \in Places
  <2>1. P[g] # p /\ P[g] # g
    BY <1>n DEF TurnFacts
  <2> QED BY <2>1 DEF TurnFacts
<1>e. \A n \in U : Even(A, B, C, bh, {}, n)
  BY DEF TurnFacts
<1>c. /\ C[g] = "BLACK" /\ C[p] = "RED" /\ C[t] = "RED" /\ C \in [Nodes -> Colors]
      /\ Calm(A, B, C, U, {t}) /\ ~Red(C, A[t]) /\ ~Red(C, B[t]) /\ ~Red(C, r)
  BY DEF TurnFacts
<1>1. C1 = C
  BY <1>n, <1>c
<1>2. \A n \in Nodes : /\ A1[n] = IF n = p THEN A[t] ELSE IF n = t THEN B[p] ELSE A[n]
                       /\ B1[n] = IF n = p THEN B[t] ELSE IF n = t THEN B[g] ELSE IF n = g THEN t ELSE B[n]
  BY <1>n DEF TurnFacts, RightRightLinks, Links
<1>3. ASSUME NEW n \in U PROVE Even(A1, B1, C, bh, {}, n)
  <2>1. CASE n = g
    <3>1. A1[g] = p /\ B1[g] = t
      BY <1>n, <1>f, <1>2
    <3> QED BY <1>h, <1>c, <2>1, <3>1 DEF Even, Due
  <2>2. CASE n = p
    <3>1. A1[p] = A[t] /\ B1[p] = B[t]
      BY <1>n, <1>f, <1>2
    <3> QED BY <1>h, <1>c, <2>2, <3>1 DEF Even, Due
  <2>3. CASE n = t
    <3>1. A1[t] = B[p] /\ B1[t] = B[g]
      BY <1>n, <1>f, <1>2
    <3> QED BY <1>h, <1>c, <2>3, <3>1 DEF Even, Due
  <2>4. CASE n \notin {g, p, t}
    <3>1. A1[n] = A[n] /\ B1[n] = B[n]
      BY <1>n, <1>2, <2>4
    <3>2. Even(A, B, C, bh, {}, n)
      BY <1>e
    <3> QED BY <3>1, <3>2 DEF Even, Due
  <2> QED BY <2>1, <2>2, <2>3, <2>4
<1>4. Balanced(A1, B1, C, U, bh, {}, {})
  BY <1>h, <1>3 DEF Balanced
<1>5. ASSUME NEW n \in U, C[n] = "RED" PROVE ~Red(C, A1[n]) /\ ~Red(C, B1[n])
  <2>1. ~Red(C, B[p])
    BY <1>n, <1>f, <1>c DEF Calm
  <2>2. CASE n = p
    BY <1>n, <1>c, <1>2, <2>2
  <2>3. CASE n = t
    BY <1>n, <1>c, <1>2, <2>1, <2>3
  <2>4. CASE n \notin {g, p, t}
    <3>1. A1[n] = A[n] /\ B1[n] = B[n] /\ A[n] # t /\ B[n] # t
      BY <1>n, <1>f, <1>2, <2>4
    <3> QED BY <1>c, <1>5, <3>1 DEF Calm
  <2> QED BY <1>c, <1>5, <2>2, <2>3, <2>4
<1>6. Calm(A1, B1, C, U, {})
  BY <1>5 DEF Calm
<1> QED BY <1>c, <1>1, <1>4, <1>6

\* Left under left.
LEMMA LeftLeftBalance ==
  ASSUME NEW A, NEW B, NEW P, NEW C, NEW U, NEW r, NEW bh, NEW t, NEW p, NEW g,
         TurnFacts(A, B, P, C, U, r, bh, t, p, g), A[p] = t, ~Red(C, B[g]), NEW A1, NEW B1, NEW C1,
         LeftLeftLinks(A, B, P, A1, B1, p, g),
         LeftLeftPaint(C, C1, p, g),
         NEW r1, NewRoot(r, g, p, r1)
  PROVE  ~Red(C1, r1) /\ Stands(A1, B1, C1, U)
<1> DEFINE bh1 == [bh EXCEPT ![p] = bh[p] + 1, ![g] = bh[p]]
<1> USE DEF NULL, LeftLeftPaint, NewRoot
<1>n. /\ U \subseteq Nodes /\ U \subseteq Places /\ 0 \notin U /\ t \in U /\ p \in U /\ g \in U
      /\ t # p /\ p # g /\ t # g
  BY DEF TurnFacts, Places
<1>h. /\ bh[t] = bh[p] /\ bh[g] = bh[p] + 1 /\ bh[B[g]] = bh[p]
      /\ bh[A[p]] = bh[p] /\ bh[B[p]] = bh[p] /\ bh[A[t]] = bh[p] /\ bh[B[t]] = bh[p]
      /\ bh[p] \in Int /\ bh[p] >= 1 /\ bh \in [Places -> Int] /\ bh[0] = 1
      /\ \A n \in U : bh[n] >= 1
  BY DEF TurnFacts
<1>f. /\ A[g] = p /\ P[t] = p /\ P[p] = g /\ P[g] # p /\ P[g] # g
      /\ \A n \in U : /\ A[n] # 0 => A[n] \in U /\ P[A[n]] = n
                      /\ B[n] # 0 => B[n] \in U /\ P[B[n]] = n
                      /\ A[n] = B[n] => A[n] = 0
                      /\ A[n] \in Places /\ B[n] \in Places
  <2>1. P[g] # p /\ P[g] # g
    BY <1>n DEF TurnFacts
  <2> QED BY <2>1 DEF TurnFacts
<1>e. \A n \in U : Even(A, B, C, bh, {}, n)
  BY DEF TurnFacts
<1>c. /\ C[g] = "BLACK" /\ C[p] = "RED" /\ C[t] = "RED" /\ C \in [Nodes -> Colors]
      /\ Calm(A, B, C, U, {t}) /\ ~Red(C, A[t]) /\ ~Red(C, B[t]) /\ ~Red(C, r)
  BY DEF TurnFacts
<1>1. /\ \A n \in Places : bh1[n] = IF n = p THEN bh[p] + 1 ELSE IF n = g THEN bh[p] ELSE bh[n]
      /\ bh1 \in [Places -> Int]
  BY <1>n, <1>h
<1>2. \A n \in Nodes : C1[n] = IF n = p THEN "BLACK" ELSE IF n = g THEN "RED" ELSE C[n]
  BY <1>n, <1>c
<1>a. \A n \in U : /\ n # g => A1[n] = IF A[n] = g THEN p ELSE A[n]
                   /\ n # p => B1[n] = IF B[n] = g THEN p ELSE B[n]
  BY <1>n, <1>f DEF TurnFacts, LeftLeftLinks, Links
<1>b. A1[g] = B[p] /\ B1[p] = g
  BY <1>n, <1>f DEF TurnFacts, LeftLeftLinks, Links
<1> HIDE DEF bh1
<1>3. /\ A[p] \notin {p, g} /\ B[p] \notin {p, g} /\ B[g] \notin {p, g}
      /\ A[p] \in Places /\ B[p] \in Places /\ B[g] \in Places
  BY <1>n, <1>f
<1>4. ASSUME NEW n \in U PROVE Even(A1, B1, C1, bh1, {}, n)
  <2>1. CASE n = g
    <3>0. A1[g] = B[p] /\ B1[g] = B[g]
      BY <1>n, <1>3, <1>a, <1>b
    <3>1. bh1[g] = bh[p] /\ bh1[B[p]] = bh[p] /\ bh1[B[g]] = bh[p] /\ C1[g] = "RED"
          /\ A1[g] = B[p] /\ B1[g] = B[g]
      BY <1>n, <1>h, <1>1, <1>2, <1>3, <3>0
    <3> QED BY <1>h, <2>1, <3>1 DEF Even, Due
  <2>2. CASE n = p
    <3>0. A1[p] = A[p] /\ B1[p] = g
      BY <1>n, <1>3, <1>a, <1>b
    <3>1. bh1[p] = bh[p] + 1 /\ bh1[A[p]] = bh[p] /\ bh1[g] = bh[p] /\ C1[p] = "BLACK"
          /\ A1[p] = A[p] /\ B1[p] = g
      BY <1>n, <1>h, <1>1, <1>2, <1>3, <3>0
    <3> QED BY <1>h, <2>2, <3>1 DEF Even, Due
  <2>3. CASE n \notin {g, p}
    <3>1. A[n] # p /\ B[n] # p /\ A[n] \in Places /\ B[n] \in Places
      BY <1>n, <1>f, <2>3
    <3>2. bh1[p] = bh[g]
      BY <1>n, <1>h, <1>1
    <3>3. /\ bh1[n] = bh[n] /\ bh1[A1[n]] = bh[A[n]] /\ bh1[B1[n]] = bh[B[n]]
          /\ C1[n] = C[n]
      BY <1>n, <1>1, <1>2, <1>a, <2>3, <3>1, <3>2
    <3>4. Even(A, B, C, bh, {}, n)
      BY <1>e
    <3> QED BY <3>3, <3>4 DEF Even, Due
  <2> QED BY <2>1, <2>2, <2>3
<1>5. Balanced(A1, B1, C1, U, bh1, {}, {})
  BY <1>n, <1>h, <1>1, <1>4 DEF Balanced, Places
<1>6. ASSUME NEW n \in U, C1[n] = "RED" PROVE ~Red(C1, A1[n]) /\ ~Red(C1, B1[n])
  <2>1. CASE n = g
    <3>1. ~Red(C, B[p])
      BY <1>n, <1>f, <1>c DEF Calm
    <3>2. A1[g] = B[p] /\ B1[g] = B[g]
      BY <1>n, <1>3, <1>a, <1>b
    <3>3. ASSUME NEW m \in {B[p], B[g]}, Red(C1, m) PROVE FALSE
      <4>1. m \in U /\ m # p /\ m # g
        BY <1>n, <1>f, <1>3, <3>3 DEF Red
      <4>2. C[m] = "RED"
        BY <1>n, <1>2, <3>3, <4>1 DEF Red
      <4> QED BY <3>1, <3>3, <4>2 DEF Red
    <3> QED BY <2>1, <3>2, <3>3
  <2>2. CASE n # g
    <3>1. C[n] = "RED" /\ n \notin {g, p}
      BY <1>n, <1>c, <1>2, <1>6, <2>2
    <3>2. (Red(C, A[n]) => A[n] = t) /\ (Red(C, B[n]) => B[n] = t)
      BY <1>c, <3>1 DEF Calm
    <3>3. A[n] # t /\ B[n] # t
      BY <1>n, <1>f, <3>1
    <3>4. ASSUME NEW m \in {A[n], B[n]}, Red(C1, IF m = g THEN p ELSE m) PROVE FALSE
      <4>1. m # g
        BY <1>n, <1>2, <3>4 DEF Red
      <4>2. m \in U
        BY <1>f, <3>4, <4>1 DEF Red
      <4>3. C[m] = "RED"
        BY <1>n, <1>2, <3>4, <4>1, <4>2 DEF Red
      <4> QED BY <3>2, <3>3, <3>4, <4>1, <4>3 DEF Red
    <3>5. A1[n] = (IF A[n] = g THEN p ELSE A[n]) /\ B1[n] = (IF B[n] = g THEN p ELSE B[n])
      BY <1>a, <3>1
    <3> QED BY <3>4, <3>5, Zenon
  <2> QED BY <2>1, <2>2
<1>7. Calm(A1, B1, C1, U, {})
  BY <1>6 DEF Calm
<1>8. ~Red(C1, r1)
  <2>1. r = 0 \/ r \in U
    BY DEF TurnFacts
  <2> QED BY <1>n, <1>c, <1>2, <2>1 DEF Red
<1> QED BY <1>5, <1>7, <1>8 DEF Stands

\* The insertion ends at the root, which becomes black.
LEMMA RootBalance ==
  ASSUME NEW A \in Links, NEW B \in Links, NEW P \in Links, NEW C \in [Nodes -> Colors],
         NEW U, NEW N, NEW r, NEW pos, NEW lo, NEW hi, NEW bh,
         Shape(A, B, P, U, N, r, pos, lo, hi), r # NULL,
         Balanced(A, B, C, U, bh, {}, {}), Calm(A, B, C, U, {r}),
         NEW C1, C1 = [C EXCEPT ![r] = "BLACK"]
  PROVE  \E bh1 : Balanced(A, B, C1, U, bh1, {}, {}) /\ Calm(A, B, C1, U, {}) /\ ~Red(C1, r)
<1> DEFINE bh1 == IF C[r] = "RED" THEN [bh EXCEPT ![r] = bh[r] + 1] ELSE bh
<1> USE DEF NULL
<1>1. U \subseteq Nodes /\ U \subseteq Places /\ 0 \notin U /\ r \in U /\ P[r] = 0
  BY DEF Shape, Measures, Nodes, Places, Rooted
<1>2. \A n \in U : A[n] # r /\ B[n] # r /\ A[n] \in Places /\ B[n] \in Places
  BY <1>1 DEF Shape, Fits, Links
<1>3. bh \in [Places -> Int] /\ bh[0] = 1 /\ \A n \in U : bh[n] >= 1 /\ Even(A, B, C, bh, {}, n)
  BY DEF Balanced
<1>4. /\ bh1 \in [Places -> Int]
      /\ \A n \in Places : bh1[n] = IF n = r /\ C[r] = "RED" THEN bh[n] + 1 ELSE bh[n]
  BY <1>1, <1>3
<1> HIDE DEF bh1
<1>5. \A n \in Nodes : C1[n] = IF n = r THEN "BLACK" ELSE C[n]
  OBVIOUS
<1>6. ASSUME NEW n \in U PROVE Even(A, B, C1, bh1, {}, n)
  <2>1. bh1[A[n]] = bh[A[n]] /\ bh1[B[n]] = bh[B[n]] /\ bh[A[n]] \in Int
    BY <1>2, <1>3, <1>4
  <2>2. Even(A, B, C, bh, {}, n)
    BY <1>3
  <2>3. CASE n = r
    BY <1>1, <1>3, <1>4, <1>5, <2>1, <2>2, <2>3 DEF Even, Due
  <2>4. CASE n # r
    <3>1. bh1[n] = bh[n] /\ C1[n] = C[n]
      BY <1>1, <1>4, <1>5, <2>4
    <3> QED BY <2>1, <2>2, <3>1 DEF Even, Due
  <2> QED BY <2>3, <2>4
<1>7. Balanced(A, B, C1, U, bh1, {}, {})
  <2>0. 0 \in Places /\ 0 # r /\ \A n \in U : n \in Places /\ bh[n] \in Int
    BY <1>1, <1>3 DEF Places
  <2>1. bh1[0] = 1 /\ \A n \in U : bh1[n] >= 1
    BY <1>3, <1>4, <2>0
  <2> QED BY <1>4, <1>6, <2>1 DEF Balanced
<1>8. ASSUME NEW n \in U, C1[n] = "RED" PROVE ~Red(C1, A[n]) /\ ~Red(C1, B[n])
  <2>1. C[n] = "RED"
    BY <1>1, <1>5, <1>8
  <2>2. ~Red(C, A[n]) /\ ~Red(C, B[n])
    BY <1>2, <2>1 DEF Calm
  <2> QED BY <1>2, <1>5, <2>2 DEF Red, Places
<1>9. Calm(A, B, C1, U, {}) /\ ~Red(C1, r)
  BY <1>1, <1>5, <1>8 DEF Calm, Red
<1> QED BY <1>7, <1>9

\* Where a pass of the deletion begins: s is one black node short, t is its
\* parent, v its sibling and x the leaf below s that goes.
OneShort(A, B, P, C, U, N, r, pos, lo, hi, bh, x, s, t, v) ==
  /\ A \in Links /\ B \in Links /\ P \in Links /\ C \in [Nodes -> Colors]
  /\ Shape(A, B, P, U, N, r, pos, lo, hi)
  /\ Balanced(A, B, C, U, bh, {x}, {s}) /\ Calm(A, B, C, U, {}) /\ ~Red(C, r) /\ ~Red(C, s)
  /\ x \in U /\ A[x] = NULL /\ B[x] = NULL
  /\ s \in U /\ lo[s] <= pos[x] /\ pos[x] <= hi[s]
  /\ t \in U /\ A[t] = s /\ B[t] = v

ShortFacts(A, B, P, C, U, r, bh, x, s, t, v) ==
  /\ U \subseteq Nodes /\ U \subseteq Places /\ 0 \notin U /\ s \in U /\ t \in U /\ v \in U /\ x \in U
  /\ s # t /\ t # v /\ s # v /\ v # x /\ t # x
  /\ A[v] # x /\ B[v] # x /\ A[v] # t /\ B[v] # t /\ A[v] # v /\ B[v] # v /\ A[v] # s /\ B[v] # s
  /\ A[t] = s /\ B[t] = v /\ P[s] = t /\ P[v] = t
  /\ \A n \in U : /\ A[n] # 0 => A[n] \in U /\ P[A[n]] = n
                  /\ B[n] # 0 => B[n] \in U /\ P[B[n]] = n
                  /\ A[n] = B[n] => A[n] = 0
                  /\ A[n] \in Places /\ B[n] \in Places

ShortHeights(A, B, C, U, bh, x, s, t, v) ==
  /\ bh \in [Places -> Int] /\ bh[0] = 1 /\ bh[x] = 1
  /\ \A n \in U : bh[n] >= 1
  /\ \A n \in U \ {x} : Even(A, B, C, bh, {s}, n)
  /\ bh[v] = bh[s] + 1 /\ bh[A[v]] = bh[B[v]]
  /\ bh[v] = bh[A[v]] + IF C[v] = "RED" THEN 0 ELSE 1
  /\ bh[t] = bh[v] + IF C[t] = "RED" THEN 0 ELSE 1
  /\ bh[s] \in Int /\ bh[s] >= 1 /\ bh[A[v]] \in Int

\* What a pass of rbtree_delete relies on holds when one way is a black node short.
LEMMA OneShortFacts ==
  ASSUME NEW A, NEW B, NEW P, NEW C, NEW U, NEW N, NEW r, NEW pos, NEW lo, NEW hi, NEW bh,
         NEW x, NEW s, NEW t, NEW v,
         OneShort(A, B, P, C, U, N, r, pos, lo, hi, bh, x, s, t, v)
  PROVE  ShortFacts(A, B, P, C, U, r, bh, x, s, t, v) /\ ShortHeights(A, B, C, U, bh, x, s, t, v)
<1> USE DEF NULL
<1>1. /\ A \in Links /\ B \in Links /\ P \in Links
      /\ x \in U /\ A[x] = 0 /\ B[x] = 0 /\ s \in U /\ t \in U /\ A[t] = s /\ B[t] = v
      /\ lo[s] <= pos[x] /\ pos[x] <= hi[s] /\ Measures(U, N, pos, lo, hi)
      /\ \A n \in U : Fits(A, B, P, U, N, pos, lo, hi, n)
  BY DEF OneShort, Shape
<1>2. U \subseteq Nodes /\ U \subseteq Places /\ 0 \notin U /\ s # 0
  BY <1>1 DEF Measures, Places, Nodes
<1>3. /\ bh \in [Places -> Int] /\ bh[0] = 1 /\ bh[x] = 1
      /\ \A n \in U : bh[n] >= 1
      /\ \A n \in U \ {x} : Even(A, B, C, bh, {s}, n)
  BY DEF OneShort, Balanced
<1>4. \A n \in U : /\ A[n] # 0 => A[n] \in U /\ P[A[n]] = n
                   /\ B[n] # 0 => B[n] \in U /\ P[B[n]] = n
                   /\ A[n] = B[n] => A[n] = 0
                   /\ A[n] \in Places /\ B[n] \in Places
  <2> TAKE n \in U
  <2>1. Fits(A, B, P, U, N, pos, lo, hi, n)
    BY <1>1
  <2>2. A[n] \in Places /\ B[n] \in Places
    BY <1>1, <1>2 DEF Links
  <2>3. A[n] # 0 /\ A[n] = B[n] => FALSE
    BY <1>1, <1>2, <2>1 DEF Fits, Measures
  <2> QED BY <2>1, <2>2, <2>3 DEF Fits
<1>5. t # x /\ v # s /\ s # t
  <2>1. Fits(A, B, P, U, N, pos, lo, hi, t)
    BY <1>1
  <2> QED BY <1>1, <1>2, <1>4, <2>1 DEF Fits, Measures
<1>6. bh[s] \in Int /\ bh[s] >= 1 /\ bh[v] = bh[s] + 1
  <2>1. Even(A, B, C, bh, {s}, t)
    BY <1>1, <1>3, <1>5
  <2>2. bh[v] \in Int /\ bh[s] \in Int
    BY <1>1, <1>2, <1>3, <1>4
  <2> QED BY <1>1, <1>3, <1>5, <2>1, <2>2 DEF Even, Due
<1>7. v \in U /\ P[v] = t /\ P[s] = t
  <2>1. v # 0
    BY <1>3, <1>6
  <2> QED BY <1>1, <1>2, <1>4, <2>1
<1>8. /\ lo[v] = pos[t] + 1 /\ hi[s] = pos[t] - 1 /\ pos[x] < lo[v] /\ lo[v] <= pos[v]
      /\ pos[t] \in Int /\ pos[x] \in Int /\ lo[v] \in Int /\ pos[v] \in Int
      /\ lo[x] = pos[x] /\ pos[s] < pos[t] /\ lo[s] <= hi[s] /\ pos[s] \in Int
      /\ lo[t] < pos[t] /\ lo[t] \in Int /\ lo[s] = lo[t]
  <2>1. /\ Fits(A, B, P, U, N, pos, lo, hi, t) /\ Fits(A, B, P, U, N, pos, lo, hi, s)
        /\ Fits(A, B, P, U, N, pos, lo, hi, v) /\ Fits(A, B, P, U, N, pos, lo, hi, x)
    BY <1>1, <1>7
  <2> QED BY <1>1, <1>2, <1>7, <2>1 DEF Fits, Measures
<1>9. v # t /\ v # x
  BY <1>1, <1>8
<1>10. ASSUME NEW w \in {A[v], B[v]}, w # 0
       PROVE  w # x /\ w # t /\ w # v /\ w # s
  <2>1. lo[w] \in Int /\ lo[w] >= lo[v] /\ lo[w] <= pos[w] /\ pos[w] \in Int /\ P[w] = v
    <3>1. Fits(A, B, P, U, N, pos, lo, hi, v)
      BY <1>1, <1>7
    <3>2. w \in U
      BY <1>4, <1>7, <1>10
    <3>3. Fits(A, B, P, U, N, pos, lo, hi, w)
      BY <1>1, <3>2
    <3> QED BY <1>1, <1>2, <1>7, <1>8, <1>10, <3>1, <3>2, <3>3 DEF Fits, Measures
  <2> QED BY <1>5, <1>7, <1>8, <1>9, <2>1
<1>11. A[v] # x /\ B[v] # x /\ A[v] # t /\ B[v] # t /\ A[v] # v /\ B[v] # v /\ A[v] # s /\ B[v] # s
  BY <1>1, <1>2, <1>7, <1>10
<1>12. ShortFacts(A, B, P, C, U, r, bh, x, s, t, v)
  BY <1>1, <1>2, <1>4, <1>5, <1>7, <1>9, <1>11 DEF ShortFacts
<1>13. bh[A[v]] = bh[B[v]] /\ bh[v] = bh[A[v]] + IF C[v] = "RED" THEN 0 ELSE 1
  <2>1. Even(A, B, C, bh, {s}, v)
    BY <1>3, <1>7, <1>9
  <2> QED BY <1>11, <2>1 DEF Even, Due
<1>14. bh[t] = bh[v] + IF C[t] = "RED" THEN 0 ELSE 1
  <2>1. Even(A, B, C, bh, {s}, t)
    BY <1>1, <1>3, <1>5
  <2> QED BY <1>1, <1>5, <2>1 DEF Even, Due
<1>15. bh[A[v]] \in Int
  BY <1>3, <1>4, <1>7
<1>16. ShortHeights(A, B, C, U, bh, x, s, t, v)
  BY <1>3, <1>6, <1>13, <1>14, <1>15 DEF ShortHeights
<1> QED BY <1>12, <1>16

Blackened(C, C1, n) == C1 = [C EXCEPT ![n] = "BLACK"]

PivotLinks(A, B, A1, B1, t, v) ==
  /\ A1 = [A EXCEPT ![v] = A[t], ![t] = v]
  /\ B1 = [B EXCEPT ![t] = B[v], ![v] = A[v]]

\* The sibling is red: nothing is gained but a black sibling.
LEMMA SiblingBalance ==
  ASSUME NEW A, NEW B, NEW P, NEW C, NEW U, NEW N, NEW r, NEW pos, NEW lo, NEW hi, NEW bh,
         NEW x, NEW s, NEW t, NEW v,
         OneShort(A, B, P, C, U, N, r, pos, lo, hi, bh, x, s, t, v), C[v] = "RED",
         NEW A1, NEW B1, PivotLinks(A, B, A1, B1, t, v)
  PROVE  Balanced(A1, B1, C, U, bh, {x}, {s}) /\ Calm(A1, B1, C, U, {})
<1> USE DEF NULL
<1>1. ShortFacts(A, B, P, C, U, r, bh, x, s, t, v) /\ ShortHeights(A, B, C, U, bh, x, s, t, v)
  BY OneShortFacts
<1>2. /\ Calm(A, B, C, U, {}) /\ ~Red(C, s) /\ C \in [Nodes -> Colors]
      /\ A \in Links /\ B \in Links
  BY DEF OneShort
<1>3. \A n \in U : /\ A1[n] = IF n = t THEN v ELSE IF n = v THEN s ELSE A[n]
                   /\ B1[n] = IF n = t THEN B[v] ELSE IF n = v THEN A[v] ELSE B[n]
  BY <1>1, <1>2 DEF ShortFacts, PivotLinks, Links
<1>4. C[t] = "BLACK"
  BY <1>1, <1>2 DEF ShortFacts, Calm, Red, Colors
<1>5. ASSUME NEW n \in U \ {x} PROVE Even(A1, B1, C, bh, {s}, n)
  <2>1. CASE n = t
    <3>1. A1[t] = v /\ B1[t] = B[v] /\ v # s /\ B[v] # s
      BY <1>1, <1>3 DEF ShortFacts
    <3> QED BY <1>1, <1>4, <2>1, <3>1 DEF ShortHeights, Even, Due
  <2>2. CASE n = v
    <3>1. A1[v] = s /\ B1[v] = A[v] /\ A[v] # s
      BY <1>1, <1>3 DEF ShortFacts
    <3> QED BY <1>1, <2>2, <3>1 DEF ShortHeights, Even, Due
  <2>3. CASE n \notin {t, v}
    <3>1. A1[n] = A[n] /\ B1[n] = B[n]
      BY <1>3, <2>3
    <3>2. Even(A, B, C, bh, {s}, n)
      BY <1>1 DEF ShortHeights
    <3> QED BY <3>1, <3>2 DEF Even, Due
  <2> QED BY <2>1, <2>2, <2>3
<1>6. Balanced(A1, B1, C, U, bh, {x}, {s})
  BY <1>1, <1>5 DEF Balanced, ShortHeights
<1>7. ASSUME NEW n \in U, C[n] = "RED" PROVE ~Red(C, A1[n]) /\ ~Red(C, B1[n])
  <2>1. CASE n = v
    <3>1. A1[v] = s /\ B1[v] = A[v]
      BY <1>1, <1>3 DEF ShortFacts
    <3> QED BY <1>1, <1>2, <1>7, <2>1, <3>1 DEF Calm
  <2>2. CASE n # v
    <3>1. A1[n] = A[n] /\ B1[n] = B[n]
      BY <1>3, <1>4, <1>7, <2>2
    <3> QED BY <1>2, <1>7, <3>1 DEF Calm
  <2> QED BY <2>1, <2>2
<1>8. Calm(A1, B1, C, U, {})
  BY <1>7 DEF Calm
<1> QED BY <1>6, <1>8

\* The outer nephew is red.
LEMMA FarBalance ==
  ASSUME NEW A, NEW B, NEW P, NEW C, NEW U, NEW N, NEW r, NEW pos, NEW lo, NEW hi, NEW bh,
         NEW x, NEW s, NEW t, NEW v,
         OneShort(A, B, P, C, U, N, r, pos, lo, hi, bh, x, s, t, v),
         ~Red(C, v), Red(C, B[v]),
         NEW A1, NEW B1, NEW C1, PivotLinks(A, B, A1, B1, t, v), Blackened(C, C1, B[v])
  PROVE  \E bh1 : /\ Balanced(A1, B1, C1, U, bh1, {x}, {}) /\ Calm(A1, B1, C1, U, {})
                  /\ ~Red(C1, r)
<1> DEFINE w == B[v]
           bh1 == [bh EXCEPT ![w] = bh[w] + 1]
<1> USE DEF NULL, Blackened
<1>1. ShortFacts(A, B, P, C, U, r, bh, x, s, t, v) /\ ShortHeights(A, B, C, U, bh, x, s, t, v)
  BY OneShortFacts
<1>2. /\ Calm(A, B, C, U, {}) /\ ~Red(C, s) /\ ~Red(C, r) /\ C \in [Nodes -> Colors]
      /\ A \in Links /\ B \in Links /\ P \in Links
  BY DEF OneShort
<1>3. \A n \in U : /\ A1[n] = IF n = t THEN v ELSE IF n = v THEN s ELSE A[n]
                   /\ B1[n] = IF n = t THEN w ELSE IF n = v THEN A[v] ELSE B[n]
  BY <1>1, <1>2 DEF ShortFacts, PivotLinks, Links
<1>4. w \in U /\ w \in Places /\ w \notin {x, t, v, s} /\ P[w] = v /\ C[w] = "RED" /\ B[v] = w
  BY <1>1 DEF ShortFacts, Red
<1>5. C[v] = "BLACK"
  BY <1>1, <1>2 DEF Red, Colors, ShortFacts
<1>6. /\ bh[w] = bh[s] /\ bh[A[v]] = bh[s] /\ bh[v] = bh[s] + 1 /\ bh[s] \in Int /\ bh[s] >= 1
      /\ bh[t] = bh[s] + 1 + IF C[t] = "RED" THEN 0 ELSE 1
  BY <1>1, <1>5 DEF ShortHeights
<1>7. /\ bh1 \in [Places -> Int]
      /\ \A n \in Places : bh1[n] = IF n = w THEN bh[s] + 1 ELSE bh[n]
  BY <1>1, <1>4, <1>6 DEF ShortHeights
<1>8. \A n \in Nodes : C1[n] = IF n = w THEN "BLACK" ELSE C[n]
  BY <1>2
<1> HIDE DEF bh1, w
<1>9. ASSUME NEW n \in U \ {x} PROVE Even(A1, B1, C1, bh1, {}, n)
  <2>1. CASE n = t
    <3>1. /\ A1[t] = v /\ B1[t] = w /\ bh1[v] = bh[s] + 1 /\ bh1[w] = bh[s] + 1
          /\ bh1[t] = bh[t] /\ C1[t] = C[t]
      BY <1>1, <1>3, <1>4, <1>6, <1>7, <1>8 DEF ShortFacts
    <3> QED BY <1>6, <2>1, <3>1 DEF Even, Due
  <2>2. CASE n = v
    <3>1. A[v] \in Places /\ A[v] # w
      BY <1>1, <1>4 DEF ShortFacts
    <3>2. /\ A1[v] = s /\ B1[v] = A[v] /\ bh1[v] = bh[s] + 1 /\ bh1[s] = bh[s]
          /\ bh1[A[v]] = bh[s] /\ C1[v] = "BLACK"
      BY <1>1, <1>3, <1>4, <1>5, <1>6, <1>7, <1>8, <3>1 DEF ShortFacts
    <3> QED BY <1>6, <2>2, <3>2 DEF Even, Due
  <2>3. CASE n = w
    <3>1. /\ A1[w] = A[w] /\ B1[w] = B[w] /\ A[w] \in Places /\ B[w] \in Places
          /\ A[w] # w /\ B[w] # w /\ A[w] # s /\ B[w] # s
      BY <1>1, <1>3, <1>4 DEF ShortFacts
    <3>2. Even(A, B, C, bh, {s}, w)
      BY <1>1, <1>4 DEF ShortHeights
    <3>3. bh[A[w]] = bh[s] /\ bh[B[w]] = bh[s]
      <4>1. bh[A[w]] \in Int
        BY <1>1, <3>1 DEF ShortHeights
      <4> QED BY <1>4, <1>6, <3>1, <3>2, <4>1 DEF Even, Due
    <3>4. bh1[A[w]] = bh[s] /\ bh1[B[w]] = bh[s] /\ bh1[w] = bh[s] + 1 /\ C1[w] = "BLACK"
      BY <1>1, <1>4, <1>7, <1>8, <3>1, <3>3 DEF ShortFacts
    <3> QED BY <1>6, <2>3, <3>1, <3>4 DEF Even, Due
  <2>4. CASE n \notin {t, v, w}
    <3>1. /\ A1[n] = A[n] /\ B1[n] = B[n] /\ A[n] \in Places /\ B[n] \in Places /\ n \in Nodes /\ n \in Places
          /\ A[n] # w /\ B[n] # w /\ A[n] # s /\ B[n] # s
      BY <1>1, <1>3, <1>4, <2>4 DEF ShortFacts
    <3>2. bh1[n] = bh[n] /\ bh1[A[n]] = bh[A[n]] /\ bh1[B[n]] = bh[B[n]] /\ C1[n] = C[n]
      BY <1>7, <1>8, <2>4, <3>1
    <3>3. Even(A, B, C, bh, {s}, n)
      BY <1>1 DEF ShortHeights
    <3> QED BY <3>1, <3>2, <3>3 DEF Even, Due
  <2> QED BY <2>1, <2>2, <2>3, <2>4
<1>10. Balanced(A1, B1, C1, U, bh1, {x}, {})
  <2>1. bh1[0] = 1 /\ bh1[x] = 1 /\ \A n \in U : bh1[n] >= 1
    BY <1>1, <1>4, <1>6, <1>7 DEF ShortFacts, ShortHeights, Places
  <2> QED BY <1>7, <1>9, <2>1 DEF Balanced
<1>11. ASSUME NEW n \in U, C1[n] = "RED" PROVE ~Red(C1, A1[n]) /\ ~Red(C1, B1[n])
  <2>1. CASE n = t
    <3>1. A1[t] = v /\ B1[t] = w /\ C1[v] = "BLACK" /\ C1[w] = "BLACK"
      BY <1>1, <1>3, <1>4, <1>5, <1>8 DEF ShortFacts
    <3> QED BY <2>1, <3>1 DEF Red
  <2>2. CASE n # t
    <3>1. C[n] = "RED" /\ n \notin {t, v, w} /\ n \in Nodes
      BY <1>1, <1>4, <1>5, <1>8, <1>11, <2>2 DEF ShortFacts
    <3>2. A1[n] = A[n] /\ B1[n] = B[n] /\ ~Red(C, A[n]) /\ ~Red(C, B[n])
      BY <1>2, <1>3, <3>1 DEF Calm
    <3>3. A[n] \in Places /\ B[n] \in Places
      BY <1>1 DEF ShortFacts
    <3> QED BY <1>8, <3>2, <3>3 DEF Red, Places
  <2> QED BY <2>1, <2>2
<1>12. Calm(A1, B1, C1, U, {})
  BY <1>11 DEF Calm
<1>13. ~Red(C1, r)
  <2>1. r \in Places
    BY <1>1 DEF OneShort, Shape, Rooted, ShortFacts
  <2> QED BY <1>2, <1>8, <2>1 DEF Red, Places
<1> QED BY <1>10, <1>12, <1>13

\* The inner nephew is red.
LEMMA NearBalance ==
  ASSUME NEW A, NEW B, NEW P, NEW C, NEW U, NEW N, NEW r, NEW pos, NEW lo, NEW hi, NEW bh,
         NEW x, NEW s, NEW t, NEW v,
         OneShort(A, B, P, C, U, N, r, pos, lo, hi, bh, x, s, t, v),
         ~Red(C, v), Red(C, A[v]),
         NEW A1, NEW B1, NEW C1, InnerLinks(B, A, B1, A1, A[v], v, t), Blackened(C, C1, A[v])
  PROVE  \E bh1 : /\ Balanced(A1, B1, C1, U, bh1, {x}, {}) /\ Calm(A1, B1, C1, U, {})
                  /\ ~Red(C1, r)
<1> DEFINE w == A[v]
           bh1 == [bh EXCEPT ![w] = bh[w] + 1]
<1> USE DEF NULL, Blackened
<1>1. ShortFacts(A, B, P, C, U, r, bh, x, s, t, v) /\ ShortHeights(A, B, C, U, bh, x, s, t, v)
  BY OneShortFacts
<1>2. /\ Calm(A, B, C, U, {}) /\ ~Red(C, s) /\ ~Red(C, r) /\ C \in [Nodes -> Colors]
      /\ A \in Links /\ B \in Links /\ P \in Links
  BY DEF OneShort
<1>4. w \in U /\ w \in Places /\ w \notin {x, t, v, s} /\ P[w] = v /\ C[w] = "RED" /\ A[v] = w
  BY <1>1 DEF ShortFacts, Red
<1>3. \A n \in U : /\ A1[n] = IF n = t THEN w ELSE IF n = w THEN s ELSE IF n = v THEN B[w] ELSE A[n]
                   /\ B1[n] = IF n = w THEN A[w] ELSE B[n]
  BY <1>1, <1>2, <1>4 DEF ShortFacts, InnerLinks, Links
<1>5. C[v] = "BLACK"
  BY <1>1, <1>2 DEF Red, Colors, ShortFacts
<1>6. /\ bh[w] = bh[s] /\ bh[B[v]] = bh[s] /\ bh[v] = bh[s] + 1 /\ bh[s] \in Int /\ bh[s] >= 1
      /\ bh[t] = bh[s] + 1 + IF C[t] = "RED" THEN 0 ELSE 1
  BY <1>1, <1>5 DEF ShortHeights
<1>7. /\ bh1 \in [Places -> Int]
      /\ \A n \in Places : bh1[n] = IF n = w THEN bh[s] + 1 ELSE bh[n]
  BY <1>1, <1>4, <1>6 DEF ShortHeights
<1>8. \A n \in Nodes : C1[n] = IF n = w THEN "BLACK" ELSE C[n]
  BY <1>2
<1> HIDE DEF bh1, w
<1>a. /\ A[w] \in Places /\ B[w] \in Places
      /\ A[w] # w /\ B[w] # w /\ A[w] # s /\ B[w] # s
      /\ bh[A[w]] = bh[s] /\ bh[B[w]] = bh[s]
  <2>1. /\ A[w] \in Places /\ B[w] \in Places
        /\ A[w] # w /\ B[w] # w /\ A[w] # s /\ B[w] # s
    BY <1>1, <1>3, <1>4 DEF ShortFacts
  <2>2. Even(A, B, C, bh, {s}, w)
    BY <1>1, <1>4 DEF ShortHeights
  <2>3. bh[A[w]] \in Int
    BY <1>1, <2>1 DEF ShortHeights
  <2> QED BY <1>4, <1>6, <2>1, <2>2, <2>3 DEF Even, Due
<1>9. ASSUME NEW n \in U \ {x} PROVE Even(A1, B1, C1, bh1, {}, n)
  <2>1. CASE n = t
    <3>1. /\ A1[t] = w /\ B1[t] = v /\ bh1[v] = bh[s] + 1 /\ bh1[w] = bh[s] + 1
          /\ bh1[t] = bh[t] /\ C1[t] = C[t]
      BY <1>1, <1>3, <1>4, <1>6, <1>7, <1>8 DEF ShortFacts
    <3> QED BY <1>6, <2>1, <3>1 DEF Even, Due
  <2>2. CASE n = v
    <3>1. B[v] \in Places /\ B[v] # w
      BY <1>1, <1>4 DEF ShortFacts
    <3>2. /\ A1[v] = B[w] /\ B1[v] = B[v] /\ bh1[v] = bh[s] + 1 /\ bh1[B[w]] = bh[s]
          /\ bh1[B[v]] = bh[s] /\ C1[v] = "BLACK"
      BY <1>1, <1>3, <1>4, <1>5, <1>6, <1>7, <1>8, <1>a, <3>1 DEF ShortFacts
    <3> QED BY <1>6, <2>2, <3>2 DEF Even, Due
  <2>3. CASE n = w
    <3>1. A1[w] = s /\ B1[w] = A[w] /\ bh1[s] = bh[s]
      BY <1>1, <1>3, <1>4, <1>7 DEF ShortFacts
    <3>2. bh1[A[w]] = bh[s] /\ bh1[w] = bh[s] + 1 /\ C1[w] = "BLACK"
      BY <1>1, <1>4, <1>7, <1>8, <1>a DEF ShortFacts
    <3> QED BY <1>6, <2>3, <3>1, <3>2 DEF Even, Due
  <2>4. CASE n \notin {t, v, w}
    <3>1. /\ A1[n] = A[n] /\ B1[n] = B[n] /\ A[n] \in Places /\ B[n] \in Places /\ n \in Nodes /\ n \in Places
          /\ A[n] # w /\ B[n] # w /\ A[n] # s /\ B[n] # s
      BY <1>1, <1>3, <1>4, <2>4 DEF ShortFacts
    <3>2. bh1[n] = bh[n] /\ bh1[A[n]] = bh[A[n]] /\ bh1[B[n]] = bh[B[n]] /\ C1[n] = C[n]
      BY <1>7, <1>8, <2>4, <3>1
    <3>3. Even(A, B, C, bh, {s}, n)
      BY <1>1 DEF ShortHeights
    <3> QED BY <3>1, <3>2, <3>3 DEF Even, Due
  <2> QED BY <2>1, <2>2, <2>3, <2>4
<1>10. Balanced(A1, B1, C1, U, bh1, {x}, {})
  <2>1. bh1[0] = 1 /\ bh1[x] = 1 /\ \A n \in U : bh1[n] >= 1
    BY <1>1, <1>4, <1>6, <1>7 DEF ShortFacts, ShortHeights, Places
  <2> QED BY <1>7, <1>9, <2>1 DEF Balanced
<1>11. ASSUME NEW n \in U, C1[n] = "RED" PROVE ~Red(C1, A1[n]) /\ ~Red(C1, B1[n])
  <2>1. CASE n = t
    <3>1. A1[t] = w /\ B1[t] = v /\ C1[v] = "BLACK" /\ C1[w] = "BLACK"
      BY <1>1, <1>3, <1>4, <1>5, <1>8 DEF ShortFacts
    <3> QED BY <2>1, <3>1 DEF Red
  <2>2. CASE n # t
    <3>1. C[n] = "RED" /\ n \notin {t, v, w} /\ n \in Nodes
      BY <1>1, <1>4, <1>5, <1>8, <1>11, <2>2 DEF ShortFacts
    <3>2. A1[n] = A[n] /\ B1[n] = B[n] /\ ~Red(C, A[n]) /\ ~Red(C, B[n])
      BY <1>2, <1>3, <3>1 DEF Calm
    <3>3. A[n] \in Places /\ B[n] \in Places
      BY <1>1 DEF ShortFacts
    <3> QED BY <1>8, <3>2, <3>3 DEF Red, Places
  <2> QED BY <2>1, <2>2
<1>12. Calm(A1, B1, C1, U, {})
  BY <1>11 DEF Calm
<1>13. ~Red(C1, r)
  <2>1. r \in Places
    BY <1>1 DEF OneShort, Shape, Rooted, ShortFacts
  <2> QED BY <1>2, <1>8, <2>1 DEF Red, Places
<1> QED BY <1>10, <1>12, <1>13

BlackPaint(C, C1, t, v) == C1 = [C EXCEPT ![v] = "RED", ![t] = "BLACK"]

Lacking(C, t, S) == S = IF C[t] = "BLACK" THEN {t} ELSE {}

\* All black: the sibling gives up its black, and t is short unless it was red.
LEMMA BlackBalance ==
  ASSUME NEW A, NEW B, NEW P, NEW C, NEW U, NEW N, NEW r, NEW pos, NEW lo, NEW hi, NEW bh,
         NEW x, NEW s, NEW t, NEW v,
         OneShort(A, B, P, C, U, N, r, pos, lo, hi, bh, x, s, t, v),
         ~Red(C, v), ~Red(C, A[v]), ~Red(C, B[v]),
         NEW C1, BlackPaint(C, C1, t, v), NEW S1, Lacking(C, t, S1)
  PROVE  \E bh1 : /\ Balanced(A, B, C1, U, bh1, {x}, S1) /\ Calm(A, B, C1, U, {})
                  /\ ~Red(C1, r) /\ ~Red(C1, t)
<1> DEFINE bh1 == [bh EXCEPT ![v] = bh[s], ![t] = bh[s] + 1]
<1> USE DEF NULL, BlackPaint, Lacking
<1>1. ShortFacts(A, B, P, C, U, r, bh, x, s, t, v) /\ ShortHeights(A, B, C, U, bh, x, s, t, v)
  BY OneShortFacts
<1>2. /\ Calm(A, B, C, U, {}) /\ ~Red(C, s) /\ ~Red(C, r) /\ C \in [Nodes -> Colors]
      /\ A \in Links /\ B \in Links /\ P \in Links
  BY DEF OneShort
<1>3. C[v] = "BLACK" /\ C[t] \in Colors
  BY <1>1, <1>2 DEF Red, Colors, ShortFacts
<1>4. /\ bh[A[v]] = bh[s] /\ bh[B[v]] = bh[s] /\ bh[v] = bh[s] + 1 /\ bh[s] \in Int /\ bh[s] >= 1
      /\ bh[t] = bh[s] + 1 + IF C[t] = "RED" THEN 0 ELSE 1
  BY <1>1, <1>3 DEF ShortHeights
<1>5. /\ bh1 \in [Places -> Int]
      /\ \A n \in Places : bh1[n] = IF n = t THEN bh[s] + 1 ELSE IF n = v THEN bh[s] ELSE bh[n]
  BY <1>1, <1>4 DEF ShortHeights, ShortFacts
<1>6. \A n \in Nodes : C1[n] = IF n = t THEN "BLACK" ELSE IF n = v THEN "RED" ELSE C[n]
  BY <1>1, <1>2 DEF ShortFacts
<1> HIDE DEF bh1
<1>s. \A m : m \in S1 => m = t
  OBVIOUS
<1>p. /\ t \in Nodes /\ v \in Nodes /\ t \in Places /\ v \in Places /\ s \in Places
      /\ t # v /\ s # t /\ s # v /\ A[t] = s /\ B[t] = v
  BY <1>1 DEF ShortFacts
<1>q. bh1[v] = bh[s] /\ bh1[s] = bh[s] /\ bh1[t] = bh[s] + 1 /\ C1[t] = "BLACK" /\ C1[v] = "RED"
  BY <1>5, <1>6, <1>p
<1>7. ASSUME NEW n \in U \ {x} PROVE Even(A, B, C1, bh1, S1, n)
  <2>1. CASE n = t
    BY <1>4, <1>p, <1>q, <1>s, <2>1 DEF Even, Due
  <2>2. CASE n = v
    <3>1. A[v] \in Places /\ B[v] \in Places /\ A[v] \notin {t, v} /\ B[v] \notin {t, v}
      BY <1>1 DEF ShortFacts
    <3>2. bh1[A[v]] = bh[s] /\ bh1[B[v]] = bh[s]
      BY <1>4, <1>5, <3>1
    <3> QED BY <1>4, <1>q, <1>s, <2>2, <3>1, <3>2 DEF Even, Due
  <2>3. CASE n \notin {t, v}
    <3>1. /\ A[n] \in Places /\ B[n] \in Places /\ n \in Nodes /\ n \in Places
          /\ A[n] # v /\ B[n] # v /\ A[n] # s /\ B[n] # s
      BY <1>1, <2>3 DEF ShortFacts
    <3>2. ASSUME NEW m \in Places, m # v, m # s PROVE Due(bh1, S1, m) = Due(bh, {s}, m)
      <4>1. CASE m = t
        BY <1>1, <1>3, <1>4, <1>5, <3>2, <4>1 DEF Due, Colors, ShortFacts
      <4>2. CASE m # t
        BY <1>5, <3>2, <4>2 DEF Due
      <4> QED BY <4>1, <4>2
    <3>3. Even(A, B, C, bh, {s}, n) /\ bh1[n] = bh[n] /\ C1[n] = C[n]
      BY <1>1, <1>5, <1>6, <2>3, <3>1 DEF ShortHeights
    <3>4. Due(bh1, S1, A[n]) = Due(bh, {s}, A[n]) /\ Due(bh1, S1, B[n]) = Due(bh, {s}, B[n])
      BY <3>1, <3>2
    <3> QED BY <3>3, <3>4 DEF Even
  <2> QED BY <2>1, <2>2, <2>3
<1>8. Balanced(A, B, C1, U, bh1, {x}, S1)
  <2>1. bh1[0] = 1 /\ bh1[x] = 1 /\ \A n \in U : bh1[n] >= 1
    BY <1>1, <1>4, <1>5 DEF ShortFacts, ShortHeights, Places
  <2> QED BY <1>5, <1>7, <2>1 DEF Balanced
<1>9. ASSUME NEW n \in U, C1[n] = "RED" PROVE ~Red(C1, A[n]) /\ ~Red(C1, B[n])
  <2>1. ASSUME NEW m \in {A[n], B[n]}, Red(C1, m) PROVE FALSE
    <3>0. m # 0 /\ C1[m] = "RED" /\ m \in Nodes /\ n \in Nodes
      BY <1>1, <2>1 DEF Red, ShortFacts
    <3>1. m \in Nodes /\ m # 0 /\ C1[m] = "RED" /\ m # t /\ n # t /\ n \in Nodes
      BY <1>9, <1>q, <3>0
    <3>2. CASE n = v
      BY <1>1, <1>6, <2>1, <3>1, <3>2 DEF Red, ShortFacts
    <3>3. CASE n # v
      <4>1. C[n] = "RED" /\ m # v
        BY <1>1, <1>6, <1>9, <2>1, <3>1, <3>3 DEF ShortFacts
      <4> QED BY <1>2, <1>6, <2>1, <3>1, <4>1 DEF Calm, Red
    <3> QED BY <3>2, <3>3
  <2> QED BY <2>1
<1>10. Calm(A, B, C1, U, {})
  BY <1>9 DEF Calm
<1>11. ~Red(C1, r) /\ ~Red(C1, t)
  <2>1. r \in Places /\ r # v
    BY <1>1 DEF OneShort, Shape, Rooted, ShortFacts
  <2> QED BY <1>1, <1>2, <1>6, <2>1 DEF Red, Places, ShortFacts
<1> QED BY <1>8, <1>10, <1>11

\* What a shape says of children.
Family(A, B, P, U) ==
  /\ U \subseteq Nodes /\ U \subseteq Places /\ 0 \notin U
  /\ \A n \in U : /\ A[n] # 0 => A[n] \in U /\ P[A[n]] = n
                  /\ B[n] # 0 => B[n] \in U /\ P[B[n]] = n
                  /\ A[n] = B[n] => A[n] = 0
                  /\ A[n] \in Places /\ B[n] \in Places
                  /\ A[n] # n /\ B[n] # n

\* The children of a node are two nodes of the tree, and it is their parent.
LEMMA ShapeFamily ==
  ASSUME NEW A \in Links, NEW B \in Links, NEW P \in Links,
         NEW U, NEW N, NEW r, NEW pos, NEW lo, NEW hi, Shape(A, B, P, U, N, r, pos, lo, hi)
  PROVE  Family(A, B, P, U)
<1> USE DEF NULL
<1>1. Measures(U, N, pos, lo, hi) /\ \A n \in U : Fits(A, B, P, U, N, pos, lo, hi, n)
  BY DEF Shape
<1>2. U \subseteq Nodes /\ U \subseteq Places /\ 0 \notin U
  BY <1>1 DEF Measures, Nodes, Places
<1>3. ASSUME NEW n \in U
      PROVE  /\ A[n] # 0 => A[n] \in U /\ P[A[n]] = n
             /\ B[n] # 0 => B[n] \in U /\ P[B[n]] = n
             /\ A[n] = B[n] => A[n] = 0
             /\ A[n] \in Places /\ B[n] \in Places
             /\ A[n] # n /\ B[n] # n
  <2>1. Fits(A, B, P, U, N, pos, lo, hi, n)
    BY <1>1
  <2>2. A[n] \in Places /\ B[n] \in Places
    BY <1>2 DEF Links
  <2>3. (A[n] # 0 /\ A[n] = B[n] => FALSE) /\ A[n] # n /\ B[n] # n
    BY <1>1, <1>2, <2>1 DEF Fits, Measures
  <2> QED BY <2>1, <2>2, <2>3 DEF Fits
<1> QED BY <1>2, <1>3 DEF Family

\* A red leaf is added under p.
LEMMA GraftBalance ==
  ASSUME NEW A, NEW B, NEW P, NEW C, NEW U, NEW bh, Family(A, B, P, U),
         Balanced(A, B, C, U, bh, {}, {}), Calm(A, B, C, U, {}),
         NEW p \in U, A[p] = NULL, NEW x \in Nodes \ U,
         NEW A1, NEW B1, NEW C1,
         GraftLinks(A, B, A1, B1, x, p), GraftColors(C, C1, x)
  PROVE  \E bh1 : /\ Balanced(A1, B1, C1, U \cup {x}, bh1, {}, {})
                  /\ Calm(A1, B1, C1, U \cup {x}, {x})
<1> DEFINE bh1 == [bh EXCEPT ![x] = 1]
<1> USE DEF NULL
<1>1. bh \in [Places -> Int] /\ bh[0] = 1 /\ \A n \in U : bh[n] >= 1 /\ Even(A, B, C, bh, {}, n)
  BY DEF Balanced
<1>2. x # 0 /\ x \in Places /\ 0 \in Places
  BY DEF Nodes, Places
<1>3. /\ bh1 \in [Places -> Int]
      /\ \A n \in Places : bh1[n] = IF n = x THEN 1 ELSE bh[n]
  BY <1>1, <1>2
<1> HIDE DEF bh1
<1>4. A1[x] = 0 /\ B1[x] = 0 /\ C1[x] = "RED" /\ bh1[x] = 1 /\ bh1[0] = 1
  BY <1>1, <1>2, <1>3 DEF GraftLinks, GraftColors
<1>5. \A n \in U : /\ A1[n] = IF n = p THEN x ELSE A[n]
                   /\ B1[n] = B[n] /\ C1[n] = C[n] /\ A[n] # x /\ B[n] # x
                   /\ bh1[n] = bh[n] /\ bh1[A[n]] = bh[A[n]] /\ bh1[B[n]] = bh[B[n]]
                   /\ n \in Nodes /\ A[n] \in Places /\ B[n] \in Places
  BY <1>2, <1>3 DEF Family, GraftLinks, GraftColors
<1>6. ASSUME NEW n \in U \cup {x} PROVE Even(A1, B1, C1, bh1, {}, n)
  <2>1. CASE n = x
    BY <1>4, <2>1 DEF Even, Due
  <2>2. CASE n \in U
    <3>1. Even(A, B, C, bh, {}, n)
      BY <1>1, <2>2
    <3>2. bh1[A1[n]] = bh[A[n]]
      BY <1>1, <1>4, <1>5, <2>2
    <3> QED BY <1>5, <2>2, <3>1, <3>2 DEF Even, Due
  <2> QED BY <2>1, <2>2
<1>7. Balanced(A1, B1, C1, U \cup {x}, bh1, {}, {})
  <2>1. \A n \in U \cup {x} : bh1[n] >= 1
    BY <1>1, <1>4, <1>5
  <2> QED BY <1>3, <1>4, <1>6, <2>1 DEF Balanced
<1>8. ASSUME NEW n \in U \cup {x}, C1[n] = "RED"
      PROVE (Red(C1, A1[n]) => A1[n] \in {x}) /\ (Red(C1, B1[n]) => B1[n] \in {x})
  <2>1. CASE n = x
    BY <1>4, <2>1 DEF Red
  <2>2. CASE n \in U
    <3>1. C[n] = "RED" /\ B1[n] = B[n] /\ (A1[n] # x => A1[n] = A[n])
      BY <1>5, <1>8, <2>2
    <3>2. ~Red(C, A[n]) /\ ~Red(C, B[n])
      BY <2>2, <3>1 DEF Calm
    <3>3. (Red(C1, A[n]) => Red(C, A[n])) /\ (Red(C1, B[n]) => Red(C, B[n]))
      BY <1>5, <2>2 DEF Red, Family
    <3> QED BY <3>1, <3>2, <3>3
  <2> QED BY <2>1, <2>2
<1>9. Calm(A1, B1, C1, U \cup {x}, {x})
  BY <1>8 DEF Calm
<1> QED BY <1>7, <1>9

\* An only child is a red leaf.
LEMMA OnlyChild ==
  ASSUME NEW A, NEW B, NEW P, NEW C \in [Nodes -> Colors], NEW U, NEW bh, Family(A, B, P, U),
         Balanced(A, B, C, U, bh, {}, {}), Calm(A, B, C, U, {}),
         NEW n \in U, A[n] = NULL, B[n] # NULL
  PROVE  B[n] \in U /\ C[B[n]] = "RED" /\ A[B[n]] = NULL /\ B[B[n]] = NULL
<1> DEFINE c == B[n]
<1> USE DEF NULL
<1>1. c \in U /\ c \in Nodes
  BY DEF Family
<1>2. bh \in [Places -> Int] /\ bh[0] = 1 /\ \A m \in U : bh[m] >= 1 /\ Even(A, B, C, bh, {}, m)
  BY DEF Balanced
<1>3. \A m \in U : m \in Places /\ A[m] \in Places /\ B[m] \in Places
  BY DEF Family
<1>4. bh[c] = 1
  BY <1>2 DEF Even, Due
<1>5. ASSUME NEW m \in U, bh[m] = 1
      PROVE  C[m] = "RED" /\ bh[A[m]] = 1 /\ bh[B[m]] = 1
  <2>1. Even(A, B, C, bh, {}, m) /\ bh[A[m]] \in Int /\ bh[A[m]] >= 1
    BY <1>2, <1>3 DEF Family
  <2> QED BY <1>5, <2>1 DEF Even, Due, Colors, Family
<1>6. C[c] = "RED" /\ bh[A[c]] = 1 /\ bh[B[c]] = 1
  BY <1>1, <1>4, <1>5
<1>7. ~Red(C, A[c]) /\ ~Red(C, B[c])
  BY <1>1, <1>6 DEF Calm
<1>8. A[c] = 0 /\ B[c] = 0
  <2>1. ASSUME NEW d \in {A[c], B[c]}, d # 0 PROVE FALSE
    <3>1. d \in U /\ bh[d] = 1
      BY <1>1, <1>6, <2>1 DEF Family
    <3>2. C[d] = "RED"
      BY <1>5, <3>1
    <3> QED BY <1>7, <2>1, <3>2 DEF Red
  <2> QED BY <2>1
<1> QED BY <1>1, <1>6, <1>8

\* A leaf is given up: its parent misses a black node if it was black.
LEMMA DropBalance ==
  ASSUME NEW A, NEW B, NEW P, NEW C \in [Nodes -> Colors], NEW U, NEW bh, Family(A, B, P, U),
         Balanced(A, B, C, U, bh, {}, {}), NEW x \in U, A[x] = NULL, B[x] = NULL,
         NEW S, S = IF C[x] = "BLACK" THEN {x} ELSE {}
  PROVE  \E bh1 : Balanced(A, B, C, U, bh1, {x}, S)
<1> DEFINE bh1 == [bh EXCEPT ![x] = 1]
<1> USE DEF NULL
<1>1. bh \in [Places -> Int] /\ bh[0] = 1 /\ \A n \in U : bh[n] >= 1 /\ Even(A, B, C, bh, {}, n)
  BY DEF Balanced
<1>2. x \in Places /\ x # 0 /\ 0 \in Places /\ C[x] \in Colors
  BY DEF Family, Places
<1>3. bh1 \in [Places -> Int] /\ \A n \in Places : bh1[n] = IF n = x THEN 1 ELSE bh[n]
  BY <1>1, <1>2
<1> HIDE DEF bh1
<1>4. bh[x] = IF C[x] = "RED" THEN 1 ELSE 2
  BY <1>1 DEF Even, Due
<1>5. \A m \in Places : Due(bh1, S, m) = bh[m]
  <2> TAKE m \in Places
  <2>1. CASE m = x
    BY <1>2, <1>3, <1>4, <2>1 DEF Due, Colors
  <2>2. CASE m # x
    BY <1>3, <2>2 DEF Due
  <2> QED BY <2>1, <2>2
<1>6. ASSUME NEW n \in U \ {x} PROVE Even(A, B, C, bh1, S, n)
  <2>1. A[n] \in Places /\ B[n] \in Places /\ n \in Places
    BY DEF Family
  <2>2. Due(bh1, S, A[n]) = bh[A[n]] /\ Due(bh1, S, B[n]) = bh[B[n]] /\ bh1[n] = bh[n]
    BY <1>3, <1>5, <2>1
  <2>3. bh[A[n]] = bh[B[n]] /\ bh[n] = bh[A[n]] + IF C[n] = "RED" THEN 0 ELSE 1
    BY <1>1 DEF Even, Due
  <2> QED BY <2>2, <2>3 DEF Even
<1>7. bh1[0] = 1 /\ bh1[x] = 1 /\ \A n \in U : bh1[n] >= 1
  BY <1>1, <1>2, <1>3 DEF Family
<1> QED BY <1>3, <1>6, <1>7 DEF Balanced

\* A root that is short is short of nothing.
LEMMA RootNotShort ==
  ASSUME NEW A, NEW B, NEW P, NEW C, NEW U, NEW bh, NEW x, NEW r, Family(A, B, P, U),
         Balanced(A, B, C, U, bh, {x}, {r}), P[r] = NULL, r # NULL
  PROVE  Balanced(A, B, C, U, bh, {x}, {})
<1> USE DEF NULL
<1>1. \A n \in U : A[n] # r /\ B[n] # r
  BY DEF Family
<1>2. \A n \in U \ {x} : Even(A, B, C, bh, {}, n)
  BY <1>1 DEF Balanced, Even, Due
<1> QED BY <1>2 DEF Balanced

\* The leaf is taken off its parent.
LEMMA PruneBalance ==
  ASSUME NEW A, NEW B, NEW P, NEW C, NEW U, NEW bh, NEW x \in U, Family(A, B, P, U),
         Balanced(A, B, C, U, bh, {x}, {}), Calm(A, B, C, U, {}), P[x] \in U, A[P[x]] = x,
         NEW A1, NEW B1, NEW C1,
         PruneLinks(A, B, P, A1, B1, U, x), Kept(C, C1, U, x)
  PROVE  Balanced(A1, B1, C1, U \ {x}, bh, {}, {}) /\ Calm(A1, B1, C1, U \ {x}, {})
<1> USE DEF NULL
<1>1. /\ bh \in [Places -> Int] /\ bh[0] = 1 /\ bh[x] = 1 /\ \A n \in U : bh[n] >= 1
      /\ \A n \in U \ {x} : Even(A, B, C, bh, {}, n)
  BY DEF Balanced
<1>2. ASSUME NEW n \in U \ {x} PROVE Even(A1, B1, C1, bh, {}, n)
  <2>1. Even(A, B, C, bh, {}, n)
    BY <1>1
  <2>2. bh[A1[n]] = bh[A[n]] /\ B1[n] = B[n] /\ C1[n] = C[n]
    BY <1>1 DEF PruneLinks, Kept
  <2> QED BY <2>1, <2>2 DEF Even, Due
<1>3. Balanced(A1, B1, C1, U \ {x}, bh, {}, {})
  BY <1>1, <1>2 DEF Balanced
<1>4. ASSUME NEW n \in U \ {x}, C1[n] = "RED" PROVE ~Red(C1, A1[n]) /\ ~Red(C1, B1[n])
  <2>1. C[n] = "RED" /\ ~Red(C, A[n]) /\ ~Red(C, B[n])
    BY <1>4 DEF Calm, Kept
  <2>2. ASSUME NEW m \in {A1[n], B1[n]}, Red(C1, m) PROVE FALSE
    <3>1. m # 0 /\ m \in {A[n], B[n]} /\ m \in U /\ P[m] = n
      BY <2>2 DEF Red, Family, PruneLinks
    <3>2. m # x
      <4>1. CASE n = P[x]
        BY <2>2, <3>1, <4>1 DEF Family, PruneLinks
      <4>2. CASE n # P[x]
        BY <3>1, <4>2
      <4> QED BY <4>1, <4>2
    <3> QED BY <2>1, <2>2, <3>1, <3>2 DEF Red, Kept
  <2> QED BY <2>2
<1>5. Calm(A1, B1, C1, U \ {x}, {})
  BY <1>4 DEF Calm
<1> QED BY <1>3, <1>5

-----------------------------------------------------------------------------
(* Trees in a heap *)

\* The nodes of U are a sorted tree with root r.
Tree(h, r, U, N, pos, lo, hi) ==
  /\ h \in Heap
  /\ Shape(Field(h, "left"), Field(h, "right"), Field(h, "par"), U, N, r, pos, lo, hi)
  /\ Placed(U, N, pos) /\ Sorted(U, pos, Field(h, "kv"))

\* The view of a heap from a side.
LEMMA HeapView ==
  ASSUME NEW h \in Heap, NEW a, NEW b
  PROVE  View(h, a, b, Field(h, a), Field(h, b), Field(h, "par"), Field(h, "kv"), Field(h, "color"))
BY DEF View

\* Seen from either side a tree has a shape.
LEMMA ShapeFrom ==
  ASSUME NEW h, NEW r, NEW U, NEW N, NEW pos, NEW lo, NEW hi, NEW a, NEW b, Facing(a, b),
         Tree(h, r, U, N, pos, lo, hi)
  PROVE  \E p, l, i : Shape(Field(h, a), Field(h, b), Field(h, "par"), U, N, r, p, l, i)
<1>1. CASE a = "left" /\ b = "right"
  BY <1>1 DEF Tree
<1>2. CASE a = "right" /\ b = "left"
  BY <1>2, ShapeMirror DEF Tree
<1> QED BY <1>1, <1>2 DEF Facing

\* The same, of a tree in a heap, from either side.
LEMMA TreeFamily ==
  ASSUME NEW h, NEW r, NEW U, NEW N, NEW pos, NEW lo, NEW hi, NEW a, NEW b, Facing(a, b),
         Tree(h, r, U, N, pos, lo, hi)
  PROVE  Family(Field(h, a), Field(h, b), Field(h, "par"), U)
<1>1. PICK p, l, i : Shape(Field(h, a), Field(h, b), Field(h, "par"), U, N, r, p, l, i)
  BY ShapeFrom
<1>2. Field(h, a) \in Links /\ Field(h, b) \in Links /\ Field(h, "par") \in Links
  BY HeapView, ViewTypes DEF Tree
<1> QED BY <1>1, <1>2, ShapeFamily

\* A mirrored step, seen from the front again.
LEMMA TurnMirror ==
  ASSUME NEW A, NEW B, NEW P, NEW U, NEW N, NEW r, NEW pos, NEW lo, NEW hi, NEW p1, NEW l1, NEW h1,
         NEW S, NEW top \in U, NEW s, \A n \in U : s[n] \in U,
         Measures(U, N, pos, lo, hi), Shape(A, B, P, U, N, r, p1, l1, h1),
         Moved(U, S, top, s, Flip(N, pos), Flip(N, hi), Flip(N, lo), p1, l1, h1)
  PROVE  /\ Shape(B, A, P, U, N, r, Flip(N, p1), Flip(N, h1), Flip(N, l1))
         /\ Moved(U, S, top, s, pos, lo, hi, Flip(N, p1), Flip(N, h1), Flip(N, l1))
<1>1. Shape(B, A, P, U, N, r, Flip(N, p1), Flip(N, h1), Flip(N, l1))
  BY ShapeMirror
<1>2. Measures(U, N, p1, l1, h1)
  BY DEF Shape
<1>3. \A n \in U : /\ Flip(N, pos)[n] = N + 1 - pos[n] /\ Flip(N, p1)[n] = N + 1 - p1[n]
                   /\ Flip(N, lo)[n] = N + 1 - lo[n] /\ Flip(N, l1)[n] = N + 1 - l1[n]
                   /\ Flip(N, hi)[n] = N + 1 - hi[n] /\ Flip(N, h1)[n] = N + 1 - h1[n]
                   /\ pos[n] \in Int /\ lo[n] \in Int /\ hi[n] \in Int
                   /\ p1[n] \in Int /\ l1[n] \in Int /\ h1[n] \in Int
  BY <1>2 DEF Measures, Flip
<1>4. N \in Int
  BY DEF Measures
<1>5. \A n \in U : Flip(N, p1)[n] = pos[s[n]]
  BY <1>3, <1>4 DEF Moved
<1>6. \A n \in U \ S : Flip(N, h1)[n] = lo[n] /\ Flip(N, l1)[n] = hi[n]
  BY <1>3, <1>4 DEF Moved
<1>7. Flip(N, h1)[top] = lo[top] /\ Flip(N, l1)[top] = hi[top]
  BY <1>3, <1>4 DEF Moved
<1> QED BY <1>1, <1>5, <1>6, <1>7 DEF Moved

TreeMoved(hh, r, U, N, S, top, s, pos, lo, hi) ==
  \E pos1, lo1, hi1 : /\ Tree(hh, r, U, N, pos1, lo1, hi1)
                      /\ Moved(U, S, top, s, pos, lo, hi, pos1, lo1, hi1)

\* The node n has the entry that s[n] had.
Turned(h, hh, U, s) ==
  /\ Permutes(s, U)
  /\ \A n \in U : Field(hh, "kv")[n] = Field(h, "kv")[s[n]]

ShapeMoves(A, B, P, A1, B1, P1, U, N, r, S, top, s) ==
  \A pos, lo, hi : Shape(A, B, P, U, N, r, pos, lo, hi)
                     => MovedShape(A1, B1, P1, U, N, r, S, top, s, pos, lo, hi)

\* A turn, seen from either side, leaves a tree.
LEMMA TurnTree ==
  ASSUME NEW h, NEW r, NEW U, NEW N, NEW pos, NEW lo, NEW hi, Tree(h, r, U, N, pos, lo, hi),
         NEW hh \in Heap, NEW a, NEW b, Facing(a, b), NEW S, NEW top \in U, NEW s, Turned(h, hh, U, s),
         ShapeMoves(Field(h, a), Field(h, b), Field(h, "par"),
                    Field(hh, a), Field(hh, b), Field(hh, "par"), U, N, r, S, top, s)
  PROVE  TreeMoved(hh, r, U, N, S, top, s, pos, lo, hi)
<1> DEFINE A == Field(h, a)
           B == Field(h, b)
           P == Field(h, "par")
           A1 == Field(hh, a)
           B1 == Field(hh, b)
           P1 == Field(hh, "par")
<1>3. Measures(U, N, pos, lo, hi)
  BY DEF Tree, Shape
<1>4. \A n \in U : s[n] \in U
  BY DEF Turned, Permutes
<1>5. ShapeMoves(A, B, P, A1, B1, P1, U, N, r, S, top, s)
  OBVIOUS
<1>6. MovedShape(Field(hh, "left"), Field(hh, "right"), P1, U, N, r, S, top, s, pos, lo, hi)
  <2>1. CASE a = "left" /\ b = "right"
    <3>1. Shape(A, B, P, U, N, r, pos, lo, hi)
      BY <2>1 DEF Tree
    <3> HIDE DEF A, B, P, A1, B1, P1
    <3>2. MovedShape(A1, B1, P1, U, N, r, S, top, s, pos, lo, hi)
      BY <1>5, <3>1, Zenon DEF ShapeMoves
    <3> QED BY <2>1, <3>2 DEF A1, B1
  <2>2. CASE a = "right" /\ b = "left"
    <3>1. Shape(A, B, P, U, N, r, Flip(N, pos), Flip(N, hi), Flip(N, lo))
      BY <2>2, ShapeMirror DEF Tree
    <3>a. A1 = Field(hh, "right") /\ B1 = Field(hh, "left")
      BY <2>2
    <3> HIDE DEF A, B, P, A1, B1, P1
    <3>2. MovedShape(A1, B1, P1, U, N, r, S, top, s, Flip(N, pos), Flip(N, hi), Flip(N, lo))
      BY <1>5, <3>1, Zenon DEF ShapeMoves
    <3>3. PICK p1, l1, h1 : /\ Shape(A1, B1, P1, U, N, r, p1, l1, h1)
                            /\ Moved(U, S, top, s, Flip(N, pos), Flip(N, hi), Flip(N, lo), p1, l1, h1)
      BY <3>2, Zenon DEF MovedShape
    <3>4. /\ Shape(B1, A1, P1, U, N, r, Flip(N, p1), Flip(N, h1), Flip(N, l1))
          /\ Moved(U, S, top, s, pos, lo, hi, Flip(N, p1), Flip(N, h1), Flip(N, l1))
      BY <1>3, <1>4, <3>3, TurnMirror
    <3> QED BY <3>a, <3>4, Zenon DEF MovedShape
  <2> QED BY <2>1, <2>2 DEF Facing
<1>7. PICK pos1, lo1, hi1 :
        /\ Shape(Field(hh, "left"), Field(hh, "right"), Field(hh, "par"), U, N, r, pos1, lo1, hi1)
        /\ Moved(U, S, top, s, pos, lo, hi, pos1, lo1, hi1)
  BY <1>6, Zenon DEF MovedShape
<1>8. Placed(U, N, pos1) /\ Sorted(U, pos1, Field(hh, "kv"))
  <2>1. \A n \in U : pos1[n] = pos[s[n]]
    BY <1>7 DEF Moved
  <2>2. Placed(U, N, pos) /\ Sorted(U, pos, Field(h, "kv"))
    BY DEF Tree
  <2>3. Permutes(s, U) /\ \A n \in U : Field(hh, "kv")[n] = Field(h, "kv")[s[n]]
    BY DEF Turned
  <2> QED BY <2>1, <2>2, <2>3, OrderMoved
<1>9. Tree(hh, r, U, N, pos1, lo1, hi1)
  BY <1>7, <1>8 DEF Tree
<1> QED BY <1>7, <1>9, Zenon DEF TreeMoved

\* RotateInner and NearRed on either side.
LEMMA InnerTree ==
  ASSUME NEW h, NEW r, NEW U, NEW N, NEW pos, NEW lo, NEW hi, Tree(h, r, U, N, pos, lo, hi),
         NEW a, NEW b, NEW A, NEW B, NEW P, NEW K, NEW C, Facing(a, b), View(h, a, b, A, B, P, K, C),
         NEW g \in U, NEW p \in U, NEW t \in U, A[g] = p, B[p] = t,
         NEW hh, InnerView(hh, h, a, b, A, B, P, K, C, t, p, g)
  PROVE  /\ TreeMoved(hh, r, U, N, {g, p, t}, g, Transposed(g, t), pos, lo, hi)
         /\ Turned(h, hh, U, Transposed(g, t))
<1> DEFINE A1 == Field(hh, a)
           B1 == Field(hh, b)
           P1 == Field(hh, "par")
           K1 == Field(hh, "kv")
           s == Transposed(g, t)
<1>1. hh \in Heap /\ InnerStep(A, B, P, A1, B1, P1, t, p, g) /\ K1 = [K EXCEPT ![g] = K[t], ![t] = K[g]]
  BY DEF InnerView, View, InnerStep
<1>2. /\ A = Field(h, a) /\ B = Field(h, b) /\ P = Field(h, "par") /\ K = Field(h, "kv")
      /\ A \in Links /\ B \in Links /\ P \in Links /\ K \in [Nodes -> Int \X Int]
  BY ViewTypes DEF View
<1>3. U \in SUBSET Nodes
  BY DEF Tree, Shape, Measures
<1>4. Permutes(s, U)
  BY <1>3, TransposedPermutes
<1> HIDE DEF A1, B1, P1, K1
<1>5. Turned(h, hh, U, s)
  <2>1. \A n \in U : K1[n] = K[s[n]]
    BY <1>1, <1>2, <1>3 DEF Transposed
  <2> QED BY <1>2, <1>4, <2>1 DEF Turned, K1
<1> HIDE DEF s
<1>6. ShapeMoves(A, B, P, A1, B1, P1, U, N, r, {g, p, t}, g, s)
  <2>1. ASSUME NEW ps, NEW l, NEW i, Shape(A, B, P, U, N, r, ps, l, i)
        PROVE  MovedShape(A1, B1, P1, U, N, r, {g, p, t}, g, s, ps, l, i)
    BY <1>1, <1>2, <2>1, InnerShape, ZenonT(60), SMTT(60) DEF s
  <2> QED BY <2>1, Zenon DEF ShapeMoves
<1>7. TreeMoved(hh, r, U, N, {g, p, t}, g, s, pos, lo, hi)
  BY <1>1, <1>2, <1>5, <1>6, TurnTree DEF A1, B1, P1
<1> QED BY <1>5, <1>7 DEF s

\* SiblingRed and FarRed on either side.
LEMMA PivotTree ==
  ASSUME NEW h, NEW r, NEW U, NEW N, NEW pos, NEW lo, NEW hi, Tree(h, r, U, N, pos, lo, hi),
         NEW a, NEW b, NEW A, NEW B, NEW P, NEW K, NEW C, Facing(a, b), View(h, a, b, A, B, P, K, C),
         NEW t \in U, NEW v \in U, B[t] = v, NEW hh, hh = SiblingRed(h, t, v, a)
  PROVE  /\ TreeMoved(hh, r, U, N, {t, v}, t, Transposed(t, v), pos, lo, hi)
         /\ Turned(h, hh, U, Transposed(t, v))
<1> DEFINE A1 == Field(hh, a)
           B1 == Field(hh, b)
           P1 == Field(hh, "par")
           K1 == Field(hh, "kv")
           s == Transposed(t, v)
<1>3. U \in SUBSET Nodes
  BY DEF Tree, Shape, Measures
<1>0. View(hh, a, b, [A EXCEPT ![v] = A[t], ![t] = v], [B EXCEPT ![t] = B[v], ![v] = A[v]],
           Adopted(Adopted(Adopted(P, B[v], t), A[t], v), v, t), [K EXCEPT ![t] = K[v], ![v] = K[t]], C)
  BY <1>3, ViewSibling
<1>1. hh \in Heap /\ PivotStep(A, B, P, A1, B1, P1, t, v) /\ K1 = [K EXCEPT ![t] = K[v], ![v] = K[t]]
  BY <1>0 DEF View, PivotStep
<1>2. /\ A = Field(h, a) /\ B = Field(h, b) /\ P = Field(h, "par") /\ K = Field(h, "kv")
      /\ A \in Links /\ B \in Links /\ P \in Links /\ K \in [Nodes -> Int \X Int]
  BY ViewTypes DEF View
<1>4. Permutes(s, U)
  BY <1>3, TransposedPermutes
<1> HIDE DEF A1, B1, P1, K1
<1>5. Turned(h, hh, U, s)
  <2>1. \A n \in U : K1[n] = K[s[n]]
    BY <1>1, <1>2, <1>3 DEF Transposed
  <2> QED BY <1>2, <1>4, <2>1 DEF Turned, K1
<1> HIDE DEF s
<1>6. ShapeMoves(A, B, P, A1, B1, P1, U, N, r, {t, v}, t, s)
  <2>1. ASSUME NEW ps, NEW l, NEW i, Shape(A, B, P, U, N, r, ps, l, i)
        PROVE  MovedShape(A1, B1, P1, U, N, r, {t, v}, t, s, ps, l, i)
    BY <1>1, <1>2, <2>1, PivotShape, ZenonT(60), SMTT(60) DEF s
  <2> QED BY <2>1, Zenon DEF ShapeMoves
<1>7. TreeMoved(hh, r, U, N, {t, v}, t, s, pos, lo, hi)
  BY <1>1, <1>2, <1>5, <1>6, TurnTree DEF A1, B1, P1
<1> QED BY <1>5, <1>7 DEF s

\* Right child of a right child.
LEMMA RightRightTree ==
  ASSUME NEW h, NEW r, NEW U, NEW N, NEW pos, NEW lo, NEW hi, Tree(h, r, U, N, pos, lo, hi),
         NEW A, NEW B, NEW P, NEW K, NEW C, View(h, "left", "right", A, B, P, K, C),
         NEW g \in U, NEW p \in U, NEW t \in U, g # p, p # t, t # g, B[g] = p, B[p] = t,
         NEW hh, hh = RotateRightRight(h, t, p, g).heap
  PROVE  /\ TreeMoved(hh, r, U, N, {g, p, t}, g, Cycled(g, p, t), pos, lo, hi)
         /\ Turned(h, hh, U, Cycled(g, p, t))
<1> DEFINE A1 == Field(hh, "left")
           B1 == Field(hh, "right")
           P1 == Field(hh, "par")
           K1 == Field(hh, "kv")
           s == Cycled(g, p, t)
<1>3. U \in SUBSET Nodes
  BY DEF Tree, Shape, Measures
<1>0. View(hh, "left", "right",
           [A EXCEPT ![p] = A[t], ![t] = A[g], ![g] = t], [B EXCEPT ![p] = B[t], ![t] = A[p]],
           Adopted(Adopted(Adopted(Adopted(Adopted(P, B[t], p), A[p], t), A[t], p), A[g], t), t, g),
           [K EXCEPT ![g] = K[p], ![p] = K[t], ![t] = K[g]],
           [C EXCEPT ![g] = "BLACK", ![p] = "RED"])
  BY <1>3, ViewRightRight
<1>1. /\ hh \in Heap /\ RightRightStep(A, B, P, A1, B1, P1, t, p, g)
      /\ K1 = [K EXCEPT ![g] = K[p], ![p] = K[t], ![t] = K[g]]
  BY <1>0 DEF View, RightRightStep
<1>2. /\ A = Field(h, "left") /\ B = Field(h, "right") /\ P = Field(h, "par") /\ K = Field(h, "kv")
      /\ A \in Links /\ B \in Links /\ P \in Links /\ K \in [Nodes -> Int \X Int] /\ Facing("left", "right")
  BY ViewTypes DEF View, Facing
<1>4. Permutes(s, U)
  BY <1>3, CycledPermutes
<1> HIDE DEF A1, B1, P1, K1
<1>5. Turned(h, hh, U, s)
  <2>1. \A n \in U : K1[n] = K[s[n]]
    BY <1>1, <1>2, <1>3 DEF Cycled
  <2> QED BY <1>2, <1>4, <2>1 DEF Turned, K1
<1> HIDE DEF s
<1>6. ShapeMoves(A, B, P, A1, B1, P1, U, N, r, {g, p, t}, g, s)
  <2>1. ASSUME NEW ps, NEW l, NEW i, Shape(A, B, P, U, N, r, ps, l, i)
        PROVE  MovedShape(A1, B1, P1, U, N, r, {g, p, t}, g, s, ps, l, i)
    BY <1>1, <1>2, <2>1, RightRightShape, SMTT(60), ZenonT(60) DEF s
  <2> QED BY <2>1, Zenon DEF ShapeMoves
<1>7. TreeMoved(hh, r, U, N, {g, p, t}, g, s, pos, lo, hi)
  BY <1>1, <1>2, <1>5, <1>6, TurnTree DEF A1, B1, P1
<1> QED BY <1>5, <1>7 DEF s

\* Left child of a left child.
LEMMA LeftLeftTree ==
  ASSUME NEW h, NEW r, NEW U, NEW N, NEW pos, NEW lo, NEW hi, Tree(h, r, U, N, pos, lo, hi),
         NEW A, NEW B, NEW P, NEW K, NEW C, View(h, "left", "right", A, B, P, K, C),
         NEW g \in U, NEW p \in U, A[g] = p,
         NEW hh, hh = RotateLeftLeft(h, p, g).heap
  PROVE  /\ \E lo1, hi1 : Tree(hh, IF r = g THEN p ELSE r, U, N, pos, lo1, hi1)
         /\ Field(hh, "kv") = K
<1> DEFINE A1 == Field(hh, "left")
           B1 == Field(hh, "right")
           P1 == Field(hh, "par")
           r1 == IF r = g THEN p ELSE r
<1>3. p \in Nodes /\ g \in Nodes
  BY DEF Tree, Shape, Measures
<1>0. View(hh, "left", "right",
           [(IF P[g] # NULL /\ A[P[g]] = g THEN [A EXCEPT ![P[g]] = p] ELSE A) EXCEPT ![g] = B[p]],
           [(IF P[g] # NULL /\ A[P[g]] # g THEN [B EXCEPT ![P[g]] = p] ELSE B) EXCEPT ![p] = g],
           Adopted(Adopted(Adopted(P, p, P[g]), B[p], g), g, p), K, C)
  BY <1>3, ViewLeftLeft, ZenonT(60), SMTT(60)
<1>1. hh \in Heap /\ LeftLeftStep(A, B, P, A1, B1, P1, p, g) /\ K = Field(hh, "kv")
  BY <1>0 DEF View, LeftLeftStep
<1>2. /\ A = Field(h, "left") /\ B = Field(h, "right") /\ P = Field(h, "par") /\ K = Field(h, "kv")
      /\ A \in Links /\ B \in Links /\ P \in Links
  BY ViewTypes DEF View, Facing
<1>4. Shape(A, B, P, U, N, r, pos, lo, hi) /\ Placed(U, N, pos) /\ Sorted(U, pos, K)
  BY <1>2 DEF Tree
<1>e. r1 = IF r = g THEN p ELSE r
  OBVIOUS
<1> HIDE DEF A1, B1, P1, r1
<1>5. PICK lo1, hi1 : Shape(A1, B1, P1, U, N, r1, pos, lo1, hi1)
  BY <1>1, <1>2, <1>4, <1>e, LeftLeftShape DEF Reshaped
<1>6. Tree(hh, r1, U, N, pos, lo1, hi1)
  BY <1>1, <1>4, <1>5 DEF Tree, A1, B1, P1
<1> QED BY <1>1, <1>6 DEF r1

-----------------------------------------------------------------------------
(* Heaps *)

IsTree(h, r, U) == \E N, pos, lo, hi : Tree(h, r, U, N, pos, lo, hi)

Heights(h, U, X, S) ==
  \E bh : Balanced(Field(h, "left"), Field(h, "right"), Field(h, "color"), U, bh, X, S)

Quiet(h, U, Y) == Calm(Field(h, "left"), Field(h, "right"), Field(h, "color"), U, Y)

\* The root has no parent, and every other node is a child of its parent.
LEMMA TreeNodes ==
  ASSUME NEW h, NEW r, NEW U, IsTree(h, r, U)
  PROVE  /\ h \in Heap /\ U \in SUBSET Nodes /\ 0 \notin U
         /\ r = NULL => U = {}
         /\ r # NULL => r \in U /\ h[r].par = NULL
         /\ \A n \in U : n # r => h[n].par \in U /\ (h[h[n].par].left = n \/ h[h[n].par].right = n)
         /\ \A n \in U : n # r <=> h[n].par # NULL
<1>1. PICK N, pos, lo, hi : Tree(h, r, U, N, pos, lo, hi)
  BY DEF IsTree
<1>2. h \in Heap /\ U \subseteq Nodes
  BY <1>1 DEF Tree, Shape, Measures
<1>3. 0 \notin U
  BY <1>2 DEF Nodes
<1>4. \A n \in Nodes : /\ Field(h, "par")[n] = h[n].par /\ Field(h, "left")[n] = h[n].left
                       /\ Field(h, "right")[n] = h[n].right
  BY DEF Field
<1>5. Rooted(Field(h, "par"), U, N, r, lo, hi)
      /\ \A n \in U : Hangs(Field(h, "left"), Field(h, "right"), Field(h, "par"), U, r, n)
  BY <1>1 DEF Tree, Shape
<1>6. /\ r = NULL => U = {}
      /\ r # NULL => r \in U /\ h[r].par = NULL
  BY <1>2, <1>4, <1>5 DEF Rooted
<1>7. \A n \in U : n # r => h[n].par \in U /\ (h[h[n].par].left = n \/ h[h[n].par].right = n)
  BY <1>2, <1>4, <1>5 DEF Hangs
<1>8. \A n \in U : n # r <=> h[n].par # NULL
  BY <1>3, <1>6, <1>7 DEF NULL
<1> QED BY <1>2, <1>3, <1>6, <1>7, <1>8

\* The side on which a node hangs.
LEMMA SideFacts ==
  ASSUME NEW h, NEW r, NEW U, IsTree(h, r, U), NEW n \in U, n # r,
         NEW a, NEW b, a = SideOf(h, n), b = Other(a)
  PROVE  Facing(a, b) /\ h[n].par \in U /\ h[h[n].par][a] = n /\ h[h[n].par][b] # n
<1> DEFINE p == h[n].par
<1>1. p \in U /\ (h[p].left = n \/ h[p].right = n) /\ n # NULL /\ p \in Nodes
  BY TreeNodes DEF NULL
<1>2. PICK N, pos, lo, hi : Tree(h, r, U, N, pos, lo, hi)
  BY DEF IsTree
<1>3. Family(Field(h, "left"), Field(h, "right"), Field(h, "par"), U)
  BY <1>2, TreeFamily DEF Facing
<1>4. h[p].left = h[p].right => h[p].left = 0
  BY <1>1, <1>3 DEF Family, Field
<1> QED BY <1>1, <1>4 DEF SideOf, Other, Facing, NULL

\* Only the colours of two heaps differ.
LEMMA SameTree ==
  ASSUME NEW h, NEW r, NEW U, NEW N, NEW pos, NEW lo, NEW hi, Tree(h, r, U, N, pos, lo, hi),
         NEW hh \in Heap, NEW a, NEW b, Facing(a, b),
         Field(hh, a) = Field(h, a), Field(hh, b) = Field(h, b),
         Field(hh, "par") = Field(h, "par"), Field(hh, "kv") = Field(h, "kv")
  PROVE  Tree(hh, r, U, N, pos, lo, hi)
<1>1. Field(hh, "left") = Field(h, "left") /\ Field(hh, "right") = Field(h, "right")
  BY DEF Facing
<1> QED BY <1>1 DEF Tree

\* Heights and colours, seen from either side.
LEMMA HeightsFrom ==
  ASSUME NEW h, NEW U, NEW a, NEW b, Facing(a, b), NEW X, NEW S, NEW Y
  PROVE  /\ Heights(h, U, X, S)
              <=> \E bh : Balanced(Field(h, a), Field(h, b), Field(h, "color"), U, bh, X, S)
         /\ Quiet(h, U, Y) <=> Calm(Field(h, a), Field(h, b), Field(h, "color"), U, Y)
<1>1. CASE a = "left" /\ b = "right"
  BY <1>1 DEF Heights, Quiet
<1>2. CASE a = "right" /\ b = "left"
  BY <1>2, BalanceMirror, Zenon DEF Heights, Quiet
<1> QED BY <1>1, <1>2 DEF Facing

\* The colour of a node is that of its field.
LEMMA RedField ==
  ASSUME NEW h, NEW n \in Places
  PROVE  Red(Field(h, "color"), n) <=> IsRed(h, n)
BY DEF Red, IsRed, Field, Places

\* The identity moves no entry.
LEMMA TurnedSame ==
  ASSUME NEW h, NEW hh, NEW U \in SUBSET Nodes, Field(hh, "kv") = Field(h, "kv")
  PROVE  \E s : Turned(h, hh, U, s)
<1>1. Permutes([n \in Nodes |-> n], U)
  BY DEF Permutes
<1> QED BY <1>1 DEF Turned

-----------------------------------------------------------------------------
(* A pass of the loop of rbtree_insert *)

\* The loop goes on: t is red under a red parent p, which is on side a of g.
RedPair(h, r, U, t, p, g, a, b) ==
  /\ Facing(a, b) /\ IsTree(h, r, U) /\ Heights(h, U, {}, {}) /\ Quiet(h, U, {t}) /\ ~IsRed(h, r)
  /\ t \in U /\ p \in U /\ g \in U /\ h[t].color = "RED" /\ h[p].color = "RED"
  /\ h[t].par = p /\ h[p].par = g /\ h[g][a] = p /\ (h[p][a] = t \/ h[p][b] = t)

\* What the pass leaves: a tree in which only top may be red under red.
PassEnds(h, hh, U, r, top) ==
  /\ top \in U /\ Heights(hh, U, {}, {}) /\ Quiet(hh, U, {top})
  /\ IsTree(hh, IF hh[top].par = NULL THEN top ELSE r, U)
  /\ hh[top].par # NULL => ~IsRed(hh, r)
  /\ \E s : Turned(h, hh, U, s)

\* The state in which a pass of rbtree_insert starts, seen from the side of the parent.
LEMMA PairUnder ==
  ASSUME NEW h, NEW r, NEW U, NEW t, NEW p, NEW g, NEW a, NEW b, RedPair(h, r, U, t, p, g, a, b),
         NEW A, NEW B, NEW P, NEW K, NEW C, View(h, a, b, A, B, P, K, C)
  PROVE  \E N, pos, lo, hi, bh : RedUnderRed(A, B, P, C, U, N, r, pos, lo, hi, bh, t, p, g)
<1>1. /\ Facing(a, b) /\ IsTree(h, r, U) /\ Heights(h, U, {}, {}) /\ Quiet(h, U, {t}) /\ ~IsRed(h, r)
      /\ t \in U /\ p \in U /\ g \in U
  BY DEF RedPair
<1>2. A \in Links /\ B \in Links /\ P \in Links /\ C \in [Nodes -> Colors]
  BY <1>1, ViewTypes
<1>3. A = Field(h, a) /\ B = Field(h, b) /\ P = Field(h, "par") /\ C = Field(h, "color")
  BY DEF View
<1>4. PICK N, pos, lo, hi : Shape(A, B, P, U, N, r, pos, lo, hi)
  BY <1>1, <1>3, ShapeFrom, Zenon DEF IsTree
<1>5. PICK bh : Balanced(A, B, C, U, bh, {}, {})
  BY <1>1, <1>3, HeightsFrom, Zenon
<1>6. Calm(A, B, C, U, {t})
  BY <1>1, <1>3, HeightsFrom, Zenon
<1>7. r \in Places /\ U \subseteq Nodes
  BY <1>1, TreeNodes DEF Places
<1>8. ~Red(C, r)
  BY <1>1, <1>3, <1>7, RedField
<1>9. C[t] = "RED" /\ C[p] = "RED" /\ A[g] = p /\ (A[p] = t \/ B[p] = t)
  BY <1>1, <1>7, ViewNode DEF RedPair
<1>10. RedUnderRed(A, B, P, C, U, N, r, pos, lo, hi, bh, t, p, g)
  BY <1>1, <1>2, <1>4, <1>5, <1>6, <1>8, <1>9 DEF RedUnderRed
<1> QED BY <1>10

\* What a rotation relies on, in that state.
LEMMA PairFacts ==
  ASSUME NEW h, NEW r, NEW U, NEW t, NEW p, NEW g, NEW a, NEW b, RedPair(h, r, U, t, p, g, a, b),
         NEW A, NEW B, NEW P, NEW K, NEW C, View(h, a, b, A, B, P, K, C)
  PROVE  \E bh : TurnFacts(A, B, P, C, U, r, bh, t, p, g)
<1>1. PICK N, pos, lo, hi, bh : RedUnderRed(A, B, P, C, U, N, r, pos, lo, hi, bh, t, p, g)
  BY PairUnder
<1>2. TurnFacts(A, B, P, C, U, r, bh, t, p, g)
  BY <1>1, TurnFactsHold
<1> QED BY <1>2

\* The parent is painted black and its parent red.
LEMMA RecolouredView ==
  ASSUME NEW h, NEW a, NEW b, NEW A, NEW B, NEW P, NEW K, NEW C, Facing(a, b),
         View(h, a, b, A, B, P, K, C), NEW t \in Nodes, NEW p \in Nodes, NEW g \in Nodes,
         h[t].par = p, h[p].par = g
  PROVE  View(Recoloured(h, t), a, b, A, B, P, K, [C EXCEPT ![p] = "BLACK", ![g] = "RED"])
<1>1. "RED" \in Colors /\ "BLACK" \in Colors
  BY DEF Colors
<1>2. View(Paint(h, p, "BLACK"), a, b, A, B, P, K, [C EXCEPT ![p] = "BLACK"])
  BY <1>1, ViewPaint
<1>3. View(Paint(Paint(h, p, "BLACK"), g, "RED"), a, b, A, B, P, K,
           [[C EXCEPT ![p] = "BLACK"] EXCEPT ![g] = "RED"])
  BY <1>1, <1>2, ViewPaint
<1> QED BY <1>3 DEF Recoloured

\* A red uncle: the pass only paints.
LEMMA RedUncleEnds ==
  ASSUME NEW h, NEW r, NEW U, NEW t, NEW p, NEW g, NEW a, NEW b, RedPair(h, r, U, t, p, g, a, b),
         IsRed(h, h[g][b]), NEW hh, hh = Paint(Recoloured(h, t), h[g][b], "BLACK")
  PROVE  PassEnds(h, hh, U, r, g)
<1> DEFINE A == Field(h, a)
           B == Field(h, b)
           P == Field(h, "par")
           K == Field(h, "kv")
           C == Field(h, "color")
           C1 == [C EXCEPT ![p] = "BLACK", ![g] = "RED", ![B[g]] = "BLACK"]
<1>1. /\ Facing(a, b) /\ IsTree(h, r, U) /\ h \in Heap /\ U \in SUBSET Nodes
      /\ t \in U /\ p \in U /\ g \in U /\ h[t].par = p /\ h[p].par = g /\ 0 \notin U
      /\ ~IsRed(h, r) /\ r \in Places
  BY TreeNodes DEF RedPair, Places
<1>2. View(h, a, b, A, B, P, K, C)
  BY <1>1, HeapView
<1>3. A \in Links /\ B \in Links /\ P \in Links /\ C \in [Nodes -> Colors]
  BY <1>1, <1>2, ViewTypes
<1>4. B[g] = h[g][b] /\ P[g] = h[g].par
  BY <1>1 DEF Field
<1>5. B[g] \in Nodes /\ B[g] \in Places
  BY <1>1, <1>3, <1>4 DEF Links, Places, IsRed
<1> HIDE DEF A, B, P, K, C
<1>6. View(hh, a, b, A, B, P, K, C1)
  <2>1. View(Recoloured(h, t), a, b, A, B, P, K, [C EXCEPT ![p] = "BLACK", ![g] = "RED"])
    BY <1>1, <1>2, RecolouredView
  <2>2. View(hh, a, b, A, B, P, K, [[C EXCEPT ![p] = "BLACK", ![g] = "RED"] EXCEPT ![B[g]] = "BLACK"])
    BY <1>1, <1>4, <1>5, <2>1, ViewPaint DEF Colors
  <2> QED BY <2>2
<1>7. Red(C, B[g])
  BY <1>4, <1>5, RedField DEF C
<1>8. PICK bh1 : Balanced(A, B, C1, U, bh1, {}, {}) /\ Calm(A, B, C1, U, {g})
  <2>1. PICK N, pos, lo, hi, bh : RedUnderRed(A, B, P, C, U, N, r, pos, lo, hi, bh, t, p, g)
    BY <1>2, PairUnder
  <2> HIDE DEF C1
  <2>2. C1 = [C EXCEPT ![p] = "BLACK", ![g] = "RED", ![B[g]] = "BLACK"]
    BY DEF C1
  <2> QED BY <1>7, <2>1, <2>2, RecolourBalance
<1>9. /\ hh \in Heap /\ A = Field(hh, a) /\ B = Field(hh, b) /\ P = Field(hh, "par")
      /\ K = Field(hh, "kv") /\ C1 = Field(hh, "color")
  BY <1>6 DEF View
<1>10. A = Field(h, a) /\ B = Field(h, b) /\ P = Field(h, "par") /\ K = Field(h, "kv") /\ C = Field(h, "color")
  BY DEF A, B, P, K, C
<1>11. hh[g].par = h[g].par
  BY <1>1, <1>9, <1>10 DEF Field
<1>12. r = g <=> h[g].par = NULL
  BY <1>1, TreeNodes DEF NULL
<1>13. h[g].par # NULL => ~IsRed(hh, r)
  <2>1. ~Red(C, r)
    BY <1>1, <1>10, RedField
  <2>2. r # g => ~Red(C1, r)
    BY <1>3, <1>1, <2>1 DEF Red, Places
  <2> QED BY <1>1, <1>9, <1>12, <2>2, RedField
<1> HIDE DEF C1
<1>14. Heights(hh, U, {}, {}) /\ Quiet(hh, U, {g})
  BY <1>1, <1>8, <1>9, HeightsFrom
<1>15. IsTree(hh, r, U)
  BY <1>1, <1>9, <1>10, SameTree DEF IsTree
<1>16. \E s : Turned(h, hh, U, s)
  BY <1>1, <1>9, <1>10, TurnedSame
<1> QED BY <1>1, <1>11, <1>12, <1>13, <1>14, <1>15, <1>16 DEF PassEnds

\* Painting moves nothing.
LEMMA RecolouredTree ==
  ASSUME NEW h, NEW r, NEW U, NEW t, NEW p, NEW g, NEW a, NEW b, RedPair(h, r, U, t, p, g, a, b),
         NEW hr, hr = Recoloured(h, t)
  PROVE  /\ IsTree(hr, r, U)
         /\ View(hr, a, b, Field(h, a), Field(h, b), Field(h, "par"), Field(h, "kv"),
                 [Field(h, "color") EXCEPT ![p] = "BLACK", ![g] = "RED"])
<1>1. /\ Facing(a, b) /\ IsTree(h, r, U) /\ h \in Heap /\ U \in SUBSET Nodes
      /\ t \in U /\ p \in U /\ g \in U /\ h[t].par = p /\ h[p].par = g
  BY TreeNodes DEF RedPair
<1>2. View(h, a, b, Field(h, a), Field(h, b), Field(h, "par"), Field(h, "kv"), Field(h, "color"))
  BY <1>1, HeapView
<1>3. View(hr, a, b, Field(h, a), Field(h, b), Field(h, "par"), Field(h, "kv"),
           [Field(h, "color") EXCEPT ![p] = "BLACK", ![g] = "RED"])
  BY <1>1, <1>2, RecolouredView
<1>4. /\ hr \in Heap /\ Field(hr, a) = Field(h, a) /\ Field(hr, b) = Field(h, b)
      /\ Field(hr, "par") = Field(h, "par") /\ Field(hr, "kv") = Field(h, "kv")
  BY <1>3 DEF View
<1>5. IsTree(hr, r, U)
  BY <1>1, <1>4, SameTree DEF IsTree
<1> QED BY <1>3, <1>5

\* What a rotation has to show.
LEMMA RotationEnds ==
  ASSUME NEW h, NEW r, NEW U, NEW t, NEW p, NEW g, NEW a, NEW b, RedPair(h, r, U, t, p, g, a, b),
         NEW hr, hr = Recoloured(h, t), NEW hh, NEW s, Turned(hr, hh, U, s), IsTree(hh, r, U),
         NEW bh, Balanced(Field(hh, a), Field(hh, b), Field(hh, "color"), U, bh, {}, {}),
         Calm(Field(hh, a), Field(hh, b), Field(hh, "color"), U, {g}),
         r # g => ~Red(Field(hh, "color"), r)
  PROVE  PassEnds(h, hh, U, r, g)
<1>1. Facing(a, b) /\ IsTree(h, r, U) /\ g \in U
  BY DEF RedPair
<1>2. r \in Places
  BY <1>1, TreeNodes DEF Places
<1>3. Heights(hh, U, {}, {}) /\ Quiet(hh, U, {g})
  BY <1>1, HeightsFrom
<1>4. r = g <=> hh[g].par = NULL
  BY <1>1, TreeNodes
<1>5. Turned(h, hh, U, s)
  <2>1. Field(hr, "kv") = Field(h, "kv")
    BY RecolouredTree DEF View
  <2> QED BY <2>1 DEF Turned
<1>6. r # g => ~IsRed(hh, r)
  BY <1>2, RedField
<1> QED BY <1>1, <1>3, <1>4, <1>5, <1>6 DEF PassEnds

\* The inner grandchild is lifted.
LEMMA InnerEnds ==
  ASSUME NEW h, NEW r, NEW U, NEW t, NEW p, NEW g, NEW a, NEW b, RedPair(h, r, U, t, p, g, a, b),
         h[p][b] = t, NEW hr, hr = Recoloured(h, t), NEW hh, hh = RotateInner(hr, t, p, g, a).heap
  PROVE  PassEnds(h, hh, U, r, g)
<1> DEFINE A == Field(h, a)
           B == Field(h, b)
           P == Field(h, "par")
           K == Field(h, "kv")
           C == Field(h, "color")
           C1 == [C EXCEPT ![p] = "BLACK", ![g] = "RED"]
           C2 == [C EXCEPT ![p] = "BLACK", ![g] = "RED", ![t] = "BLACK"]
           s == Transposed(g, t)
<1>1. /\ Facing(a, b) /\ IsTree(h, r, U) /\ h \in Heap /\ U \in SUBSET Nodes
      /\ t \in U /\ p \in U /\ g \in U /\ t \in Nodes /\ p \in Nodes /\ g \in Nodes
      /\ r \in Places /\ h[g][a] = p
  BY TreeNodes DEF RedPair, Places
<1>2. View(h, a, b, A, B, P, K, C)
  BY <1>1, HeapView
<1>3. A[g] = p /\ B[p] = t
  BY <1>1 DEF Field
<1>4. IsTree(hr, r, U) /\ View(hr, a, b, A, B, P, K, C1)
  BY RecolouredTree
<1> HIDE DEF A, B, P, K, C
<1>5. PICK bh : TurnFacts(A, B, P, C, U, r, bh, t, p, g)
  BY <1>2, PairFacts
<1>6. C \in [Nodes -> Colors] /\ ~Red(C, r)
  BY <1>5 DEF TurnFacts
<1>7. InnerView(hh, hr, a, b, A, B, P, K, C1, t, p, g)
  BY <1>1, <1>4, ViewInner
<1>8. InnerLinks(A, B, Field(hh, a), Field(hh, b), t, p, g) /\ Field(hh, "color") = C2
  BY <1>7 DEF InnerView, View, InnerLinks
<1>9. PICK bh1 : /\ Balanced(Field(hh, a), Field(hh, b), C2, U, bh1, {}, {})
                 /\ Calm(Field(hh, a), Field(hh, b), C2, U, {g})
  BY <1>3, <1>5, <1>8, InnerBalance, ZenonT(60), SMTT(60)
<1>10. r # g => ~Red(C2, r)
  BY <1>1, <1>6 DEF Red, Places
<1> HIDE DEF C1, C2
<1>11. Turned(hr, hh, U, s) /\ IsTree(hh, r, U)
  <2>1. PICK N, pos, lo, hi : Tree(hr, r, U, N, pos, lo, hi)
    BY <1>4 DEF IsTree
  <2>2. TreeMoved(hh, r, U, N, {g, p, t}, g, s, pos, lo, hi) /\ Turned(hr, hh, U, s)
    BY <1>1, <1>3, <1>4, <1>7, <2>1, InnerTree, SMTT(60), ZenonT(60)
  <2> QED BY <2>2 DEF TreeMoved, IsTree
<1> HIDE DEF s
<1> QED BY <1>8, <1>9, <1>10, <1>11, RotationEnds

\* Right child of a right child.
LEMMA RightRightEnds ==
  ASSUME NEW h, NEW r, NEW U, NEW t, NEW p, NEW g, RedPair(h, r, U, t, p, g, "right", "left"),
         h[p].right = t, ~IsRed(h, h[g].left),
         NEW hr, hr = Recoloured(h, t), NEW hh, hh = RotateRightRight(hr, t, p, g).heap
  PROVE  PassEnds(h, hh, U, r, g)
<1> DEFINE A == Field(h, "left")
           B == Field(h, "right")
           P == Field(h, "par")
           K == Field(h, "kv")
           C == Field(h, "color")
           C1 == [C EXCEPT ![p] = "BLACK", ![g] = "RED"]
           C2 == [C EXCEPT ![p] = "BLACK", ![g] = "RED", ![g] = "BLACK", ![p] = "RED"]
           s == Cycled(g, p, t)
<1>1. /\ Facing("right", "left") /\ IsTree(h, r, U) /\ h \in Heap /\ U \in SUBSET Nodes
      /\ t \in U /\ p \in U /\ g \in U /\ t \in Nodes /\ p \in Nodes /\ g \in Nodes
      /\ r \in Places /\ h[g].right = p
  BY TreeNodes DEF RedPair, Places
<1>2. View(h, "right", "left", B, A, P, K, C)
  BY <1>1, HeapView
<1>3. B[g] = p /\ B[p] = t /\ A[g] = h[g].left
  BY <1>1 DEF Field
<1>b. IsTree(hr, r, U) /\ View(hr, "right", "left", B, A, P, K, C1)
  BY RecolouredTree
<1>d. C = Field(h, "color")
  OBVIOUS
<1>c. RightRightPaint(C, C2, p, g)
  BY DEF RightRightPaint
<1> HIDE DEF A, B, P, K, C
<1>4. IsTree(hr, r, U) /\ View(hr, "left", "right", A, B, P, K, C1)
  BY <1>b, ViewMirror
<1>5. PICK bh : TurnFacts(B, A, P, C, U, r, bh, t, p, g)
  BY <1>2, PairFacts
<1>6. /\ C \in [Nodes -> Colors] /\ ~Red(C, r) /\ t # p /\ p # g /\ t # g
      /\ A[g] \in Places
  BY <1>1, <1>5 DEF TurnFacts
<1>a. ~Red(C, A[g])
  BY <1>3, <1>6, <1>d, RedField
<1>7. View(hh, "left", "right",
           [A EXCEPT ![p] = A[t], ![t] = A[g], ![g] = t], [B EXCEPT ![p] = B[t], ![t] = A[p]],
           Adopted(Adopted(Adopted(Adopted(Adopted(P, B[t], p), A[p], t), A[t], p), A[g], t), t, g),
           [K EXCEPT ![g] = K[p], ![p] = K[t], ![t] = K[g]],
           [C1 EXCEPT ![g] = "BLACK", ![p] = "RED"])
  BY <1>1, <1>4, <1>6, ViewRightRight
<1>8. RightRightLinks(B, A, Field(hh, "right"), Field(hh, "left"), t, p, g) /\ Field(hh, "color") = C2
  BY <1>7 DEF View, RightRightLinks
<1> HIDE DEF C1, C2
<1>9. /\ Balanced(Field(hh, "right"), Field(hh, "left"), C2, U, bh, {}, {})
      /\ Calm(Field(hh, "right"), Field(hh, "left"), C2, U, {}) /\ ~Red(C2, r)
  BY <1>3, <1>5, <1>8, <1>a, <1>c, RightRightBalance, ZenonT(60), SMTT(60)
<1>10. Calm(Field(hh, "right"), Field(hh, "left"), C2, U, {g})
  BY <1>9 DEF Calm
<1>11. Turned(hr, hh, U, s) /\ IsTree(hh, r, U)
  <2>1. PICK N, pos, lo, hi : Tree(hr, r, U, N, pos, lo, hi)
    BY <1>4 DEF IsTree
  <2>2. TreeMoved(hh, r, U, N, {g, p, t}, g, s, pos, lo, hi) /\ Turned(hr, hh, U, s)
    BY <1>1, <1>3, <1>4, <1>6, <2>1, RightRightTree
  <2> QED BY <2>2 DEF TreeMoved, IsTree
<1> HIDE DEF s
<1> QED BY <1>8, <1>9, <1>10, <1>11, RotationEnds

\* Left child of a left child.
LEMMA LeftLeftEnds ==
  ASSUME NEW h, NEW r, NEW U, NEW t, NEW p, NEW g, RedPair(h, r, U, t, p, g, "left", "right"),
         h[p].left = t, ~IsRed(h, h[g].right),
         NEW hr, hr = Recoloured(h, t), NEW hh, hh = RotateLeftLeft(hr, p, g).heap
  PROVE  PassEnds(h, hh, U, r, p)
<1> DEFINE A == Field(h, "left")
           B == Field(h, "right")
           P == Field(h, "par")
           K == Field(h, "kv")
           C == Field(h, "color")
           C1 == [C EXCEPT ![p] = "BLACK", ![g] = "RED"]
           r1 == IF r = g THEN p ELSE r
<1>1. /\ Facing("left", "right") /\ IsTree(h, r, U) /\ h \in Heap /\ U \in SUBSET Nodes
      /\ t \in U /\ p \in U /\ g \in U /\ t \in Nodes /\ p \in Nodes /\ g \in Nodes
      /\ r \in Places /\ h[g].left = p
  BY TreeNodes DEF RedPair, Places
<1>2. View(h, "left", "right", A, B, P, K, C)
  BY <1>1, HeapView
<1>3. A[g] = p /\ A[p] = t /\ B[g] = h[g].right /\ K = Field(h, "kv")
  BY <1>1 DEF Field
<1>4. IsTree(hr, r, U) /\ View(hr, "left", "right", A, B, P, K, C1)
  BY RecolouredTree
<1>d. C = Field(h, "color")
  OBVIOUS
<1>c. LeftLeftPaint(C, C1, p, g)
  BY DEF LeftLeftPaint
<1> HIDE DEF A, B, P, K, C, C1
<1>5. PICK bh : TurnFacts(A, B, P, C, U, r, bh, t, p, g)
  BY <1>2, PairFacts
<1>6. /\ C \in [Nodes -> Colors] /\ ~Red(C, r) /\ t # p /\ p # g /\ t # g
      /\ B[g] \in Places
  BY <1>1, <1>5 DEF TurnFacts
<1>a. ~Red(C, B[g])
  BY <1>3, <1>6, <1>d, RedField
<1>7. View(hh, "left", "right",
           [(IF P[g] # NULL /\ A[P[g]] = g THEN [A EXCEPT ![P[g]] = p] ELSE A) EXCEPT ![g] = B[p]],
           [(IF P[g] # NULL /\ A[P[g]] # g THEN [B EXCEPT ![P[g]] = p] ELSE B) EXCEPT ![p] = g],
           Adopted(Adopted(Adopted(P, p, P[g]), B[p], g), g, p), K, C1)
  BY <1>1, <1>4, ViewLeftLeft, ZenonT(60), SMTT(60)
<1>8. LeftLeftLinks(A, B, P, Field(hh, "left"), Field(hh, "right"), p, g) /\ Field(hh, "color") = C1
  BY <1>7 DEF View, LeftLeftLinks
<1>e. NewRoot(r, g, p, r1) /\ r1 \in Places
  BY <1>1 DEF Places, NewRoot
<1> HIDE DEF r1
<1>9. PICK bh1 : /\ Balanced(Field(hh, "left"), Field(hh, "right"), C1, U, bh1, {}, {})
                 /\ Calm(Field(hh, "left"), Field(hh, "right"), C1, U, {}) /\ ~Red(C1, r1)
  <2>1. ~Red(C1, r1) /\ Stands(Field(hh, "left"), Field(hh, "right"), C1, U)
    BY <1>3, <1>5, <1>8, <1>a, <1>c, <1>e, LeftLeftBalance
  <2> QED BY <2>1 DEF Stands
<1>10. Heights(hh, U, {}, {}) /\ Quiet(hh, U, {p}) /\ ~IsRed(hh, r1)
  <2>1. Heights(hh, U, {}, {})
    BY <1>8, <1>9 DEF Heights
  <2>2. Quiet(hh, U, {p})
    BY <1>8, <1>9 DEF Quiet, Calm
  <2>3. ~IsRed(hh, r1)
    BY <1>8, <1>9, <1>e, RedField
  <2> QED BY <2>1, <2>2, <2>3
<1>11. IsTree(hh, r1, U) /\ Field(hh, "kv") = K
  <2>1. PICK N, pos, lo, hi : Tree(hr, r, U, N, pos, lo, hi)
    BY <1>4 DEF IsTree
  <2>2. (\E lo1, hi1 : Tree(hh, IF r = g THEN p ELSE r, U, N, pos, lo1, hi1)) /\ Field(hh, "kv") = K
    BY <1>1, <1>3, <1>4, <2>1, LeftLeftTree
  <2> QED BY <2>2 DEF IsTree, r1
<1>12. hh[p].par = NULL <=> r1 = p
  BY <1>1, <1>11, TreeNodes
<1>13. r # p
  <2>1. h[p].par = g
    BY DEF RedPair
  <2> QED BY <1>1, <2>1, TreeNodes DEF NULL
<1>14. \E s : Turned(h, hh, U, s)
  BY <1>1, <1>3, <1>11, TurnedSame
<1> QED BY <1>1, <1>10, <1>11, <1>12, <1>13, <1>14, <1>e DEF PassEnds, NewRoot

\* A pass of the loop.
LEMMA InsertPassEnds ==
  ASSUME NEW h, NEW r, NEW U, IsTree(h, r, U), Heights(h, U, {}, {}), NEW t \in U, Quiet(h, U, {t}),
         ~IsRed(h, r), t # r, h[t].color = "RED", h[h[t].par].color = "RED"
  PROVE  PassEnds(h, InsertPass(h, t).heap, U, r, InsertPass(h, t).top)
<1> DEFINE p == h[t].par
           g == h[p].par
           a == SideOf(h, p)
           b == Other(a)
           hr == Recoloured(h, t)
<1>1. p \in U /\ (h[p].left = t \/ h[p].right = t) /\ h \in Heap /\ U \subseteq Nodes /\ 0 \notin U
  BY TreeNodes
<1>2. p # r
  BY <1>1 DEF IsRed, NULL
<1>3. Facing(a, b) /\ g \in U /\ h[g][a] = p
  BY <1>1, <1>2, SideFacts
<1>4. h[p][a] = t \/ h[p][b] = t
  BY <1>1, <1>3 DEF Facing
<1>5. RedPair(h, r, U, t, p, g, a, b)
  BY <1>1, <1>3, <1>4 DEF RedPair
<1>6. /\ hr \in Heap /\ Field(hr, a) = Field(h, a) /\ Field(hr, b) = Field(h, b)
      /\ Field(hr, "par") = Field(h, "par")
  BY <1>5, RecolouredTree DEF View
<1>7. Field(hr, "left") = Field(h, "left")
  BY <1>3, <1>6 DEF Facing
<1>8. \A n \in Nodes : hr[n].par = h[n].par /\ hr[n].left = h[n].left
  BY <1>6, <1>7, SMTT(60), ZenonT(60) DEF Field
<1>9. hr[t].par = p /\ hr[p].par = g /\ SideOf(hr, t) = SideOf(h, t) /\ SideOf(hr, p) = a
  BY <1>1, <1>3, <1>8 DEF SideOf
<1>10. Uncle(h, t) = h[g][b]
  BY DEF Uncle
<1>11. h[p][SideOf(h, t)] = t /\ h[p][Other(SideOf(h, t))] # t /\ Facing(SideOf(h, t), Other(SideOf(h, t)))
  BY SideFacts
<1> DEFINE c == SideOf(h, t)
<1> HIDE DEF p, g, a, b, hr, c
<1>12. CASE IsRed(h, h[g][b])
  <2>1. InsertPass(h, t) = [heap |-> Paint(hr, h[g][b], "BLACK"), top |-> g]
    BY <1>10, <1>12 DEF InsertPass, hr, g, p
  <2>2. PassEnds(h, Paint(hr, h[g][b], "BLACK"), U, r, g)
    BY <1>5, <1>12, RedUncleEnds DEF hr
  <2> QED BY <2>1, <2>2
<1>13. CASE ~IsRed(h, h[g][b])
  <2>1. InsertPass(h, t) = rotate(hr, t)
    BY <1>10, <1>13 DEF InsertPass, hr
  <2>r. SideOf(hr, t) = c /\ h[p][c] = t /\ h[p][Other(c)] # t /\ Facing(c, Other(c))
    BY <1>9, <1>11 DEF c
  <2>2. CASE c # a
    <3>1. rotate(hr, t) = RotateInner(hr, t, p, g, a)
      BY <1>9, <2>r, <2>2 DEF rotate
    <3>2. h[p][b] = t
      BY <1>3, <2>r, <2>2 DEF Facing
    <3>3. PassEnds(h, RotateInner(hr, t, p, g, a).heap, U, r, g)
      BY <1>5, <3>2, InnerEnds DEF hr
    <3>4. RotateInner(hr, t, p, g, a).top = g
      BY DEF RotateInner
    <3> QED BY <2>1, <3>1, <3>3, <3>4
  <2>3. CASE c = a /\ a = "left"
    <3>1. rotate(hr, t) = RotateLeftLeft(hr, p, g)
      BY <1>9, <2>r, <2>3 DEF rotate
    <3>2. h[p].left = t /\ b = "right"
      BY <1>3, <2>r, <2>3 DEF Facing
    <3>3. PassEnds(h, RotateLeftLeft(hr, p, g).heap, U, r, p)
      BY <1>5, <1>13, <2>3, <3>2, LeftLeftEnds DEF hr
    <3>4. RotateLeftLeft(hr, p, g).top = p
      BY DEF RotateLeftLeft
    <3> QED BY <2>1, <3>1, <3>3, <3>4
  <2>4. CASE c = a /\ a = "right"
    <3>1. rotate(hr, t) = RotateRightRight(hr, t, p, g)
      BY <1>9, <2>r, <2>4 DEF rotate
    <3>2. h[p].right = t /\ b = "left"
      BY <1>3, <2>r, <2>4 DEF Facing
    <3>3. PassEnds(h, RotateRightRight(hr, t, p, g).heap, U, r, g)
      BY <1>5, <1>13, <2>4, <3>2, RightRightEnds DEF hr
    <3>4. RotateRightRight(hr, t, p, g).top = g
      BY DEF RotateRightRight
    <3> QED BY <2>1, <3>1, <3>3, <3>4
  <2> QED BY <1>3, <2>2, <2>3, <2>4 DEF Facing
<1> QED BY <1>12, <1>13

\* The loop has reached the root.
LEMMA RootPainted ==
  ASSUME NEW h, NEW r, NEW U, IsTree(h, r, U), Heights(h, U, {}, {}), Quiet(h, U, {r}), r # NULL,
         NEW hh, hh = Paint(h, r, "BLACK")
  PROVE  /\ IsTree(hh, r, U) /\ Heights(hh, U, {}, {}) /\ Quiet(hh, U, {}) /\ ~IsRed(hh, r)
         /\ Field(hh, "kv") = Field(h, "kv")
<1> DEFINE A == Field(h, "left")
           B == Field(h, "right")
           P == Field(h, "par")
           K == Field(h, "kv")
           C == Field(h, "color")
           C1 == [C EXCEPT ![r] = "BLACK"]
<1>1. Facing("left", "right") /\ h \in Heap /\ r \in Nodes /\ r \in Places /\ "BLACK" \in Colors
  BY TreeNodes DEF Facing, Places, Colors
<1>2. View(h, "left", "right", A, B, P, K, C)
  BY <1>1, HeapView
<1>3. A \in Links /\ B \in Links /\ P \in Links /\ C \in [Nodes -> Colors]
  BY <1>1, <1>2, ViewTypes
<1>4. View(hh, "left", "right", A, B, P, K, C1)
  BY <1>1, <1>2, ViewPaint
<1>5. PICK N, pos, lo, hi : Tree(h, r, U, N, pos, lo, hi)
  BY DEF IsTree
<1>6. PICK bh : Balanced(A, B, C, U, bh, {}, {})
  BY DEF Heights
<1>7. Calm(A, B, C, U, {r}) /\ Shape(A, B, P, U, N, r, pos, lo, hi)
  BY <1>5 DEF Quiet, Tree
<1> HIDE DEF A, B, P, K, C
<1>8. PICK bh1 : Balanced(A, B, C1, U, bh1, {}, {}) /\ Calm(A, B, C1, U, {}) /\ ~Red(C1, r)
  BY <1>3, <1>6, <1>7, RootBalance
<1> HIDE DEF C1
<1>9. /\ hh \in Heap /\ A = Field(hh, "left") /\ B = Field(hh, "right") /\ P = Field(hh, "par")
      /\ K = Field(hh, "kv") /\ C1 = Field(hh, "color")
  BY <1>4 DEF View
<1>10. Heights(hh, U, {}, {}) /\ Quiet(hh, U, {})
  BY <1>8, <1>9 DEF Heights, Quiet
<1>11. ~IsRed(hh, r)
  BY <1>1, <1>8, <1>9, RedField
<1>12. Tree(hh, r, U, N, pos, lo, hi)
  BY <1>1, <1>5, <1>9, SameTree DEF A, B, P, K
<1> QED BY <1>9, <1>10, <1>11, <1>12 DEF IsTree, K

-----------------------------------------------------------------------------
(* A pass of the loop of rbtree_delete *)

Childless(h, x) == h[x].left = NULL /\ h[x].right = NULL

\* x is one of the nodes below s, or s itself.
Under(h, r, U, x, s) ==
  \E N, pos, lo, hi : Tree(h, r, U, N, pos, lo, hi) /\ lo[s] <= pos[x] /\ pos[x] <= hi[s]

\* The leaf x can be taken off: without it the tree is balanced.
Pruning(h, r, U, x) ==
  /\ IsTree(h, r, U) /\ Heights(h, U, {x}, {}) /\ Quiet(h, U, {}) /\ ~IsRed(h, r)
  /\ x \in U /\ Childless(h, x)

\* Without the leaf x, the ways through s lack a black node.
Short(h, r, U, x, s) ==
  /\ IsTree(h, r, U) /\ Heights(h, U, {x}, {s}) /\ Quiet(h, U, {}) /\ ~IsRed(h, r)
  /\ x \in U /\ Childless(h, x)
  /\ s \in U /\ ~IsRed(h, s) /\ Under(h, r, U, x, s)

\* A node that is below another one is below it from either side.
LEMMA UnderFrom ==
  ASSUME NEW h, NEW r, NEW U, NEW x \in U, NEW s \in U, Under(h, r, U, x, s), NEW a, NEW b, Facing(a, b)
  PROVE  \E N, pos, lo, hi : /\ Shape(Field(h, a), Field(h, b), Field(h, "par"), U, N, r, pos, lo, hi)
                             /\ lo[s] <= pos[x] /\ pos[x] <= hi[s]
<1>1. PICK N, pos, lo, hi : Tree(h, r, U, N, pos, lo, hi) /\ lo[s] <= pos[x] /\ pos[x] <= hi[s]
  BY DEF Under
<1>2. CASE a = "left" /\ b = "right"
  BY <1>1, <1>2 DEF Tree
<1>3. CASE a = "right" /\ b = "left"
  <2>1. Shape(Field(h, a), Field(h, b), Field(h, "par"), U, N, r, Flip(N, pos), Flip(N, hi), Flip(N, lo))
    BY <1>1, <1>3, ShapeMirror DEF Tree
  <2>2. Measures(U, N, pos, lo, hi)
    BY <1>1 DEF Tree, Shape
  <2>3. Flip(N, hi)[s] <= Flip(N, pos)[x] /\ Flip(N, pos)[x] <= Flip(N, lo)[s]
    BY <1>1, <2>2 DEF Measures, Flip
  <2> QED BY <2>1, <2>3
<1> QED BY <1>2, <1>3 DEF Facing

\* The parent and the sibling.
LEMMA ShortView ==
  ASSUME NEW h, NEW r, NEW U, NEW x, NEW s, Short(h, r, U, x, s), h[s].par # NULL,
         NEW a, NEW b, a = SideOf(h, s), b = Other(a), NEW t, t = h[s].par, NEW v, v = h[t][b],
         NEW A, NEW B, NEW P, NEW K, NEW C, View(h, a, b, A, B, P, K, C)
  PROVE  /\ Facing(a, b)
         /\ \E N, pos, lo, hi, bh : OneShort(A, B, P, C, U, N, r, pos, lo, hi, bh, x, s, t, v)
<1>1. /\ IsTree(h, r, U) /\ Heights(h, U, {x}, {s}) /\ Quiet(h, U, {}) /\ ~IsRed(h, r) /\ ~IsRed(h, s)
      /\ x \in U /\ s \in U /\ Under(h, r, U, x, s) /\ Childless(h, x)
  BY DEF Short
<1>2. s # r /\ U \in SUBSET Nodes /\ r \in Places /\ s \in Places
  BY <1>1, TreeNodes DEF Places
<1>3. Facing(a, b) /\ t \in U /\ h[t][a] = s
  BY <1>1, <1>2, SideFacts
<1>4. A \in Links /\ B \in Links /\ P \in Links /\ C \in [Nodes -> Colors]
  BY <1>3, ViewTypes
<1>5. A = Field(h, a) /\ B = Field(h, b) /\ P = Field(h, "par") /\ C = Field(h, "color")
  BY DEF View
<1>6. PICK N, pos, lo, hi : Shape(A, B, P, U, N, r, pos, lo, hi) /\ lo[s] <= pos[x] /\ pos[x] <= hi[s]
  BY <1>1, <1>3, <1>5, UnderFrom
<1>7. PICK bh : Balanced(A, B, C, U, bh, {x}, {s})
  BY <1>1, <1>3, <1>5, HeightsFrom
<1>8. Calm(A, B, C, U, {})
  BY <1>1, <1>3, <1>5, HeightsFrom
<1>9. ~Red(C, r) /\ ~Red(C, s)
  BY <1>1, <1>2, <1>5, RedField
<1>10. A[t] = s /\ B[t] = v
  BY <1>2, <1>3, ViewNode
<1>11. A[x] = NULL /\ B[x] = NULL
  <2>1. A[x] = h[x][a] /\ B[x] = h[x][b]
    BY <1>1, <1>2, <1>3, ViewNode
  <2> QED BY <1>1, <1>3, <2>1 DEF Childless, Facing
<1>12. OneShort(A, B, P, C, U, N, r, pos, lo, hi, bh, x, s, t, v)
  BY <1>1, <1>3, <1>4, <1>6, <1>7, <1>8, <1>9, <1>10, <1>11 DEF OneShort
<1> QED BY <1>3, <1>12

\* A turn that leaves x alone is one of the other nodes.
LEMMA TurnedLess ==
  ASSUME NEW h, NEW hh, NEW U \in SUBSET Nodes, NEW x \in U, NEW m \in U \ {x}, NEW n \in U \ {x},
         Turned(h, hh, U, Transposed(m, n))
  PROVE  Turned(h, hh, U \ {x}, Transposed(m, n))
<1>1. U \ {x} \in SUBSET Nodes
  OBVIOUS
<1>2. Permutes(Transposed(m, n), U \ {x})
  BY <1>1, TransposedPermutes
<1> QED BY <1>2 DEF Turned

TreesMove(h, hh, r, U, S, top, s) ==
  \A N, pos, lo, hi : Tree(h, r, U, N, pos, lo, hi)
                        => TreeMoved(hh, r, U, N, S, top, s, pos, lo, hi)

\* What x is below a node is not changed by a turn elsewhere.
LEMMA UnderMoved ==
  ASSUME NEW h, NEW r, NEW U \in SUBSET Nodes, NEW x, NEW s, NEW hh, NEW m, NEW n, NEW S, NEW top,
         Under(h, r, U, x, s), x \in U \ {m, n}, s \in U \ S,
         TreesMove(h, hh, r, U, S, top, Transposed(m, n))
  PROVE  Under(hh, r, U, x, s)
<1>1. PICK N, pos, lo, hi : Tree(h, r, U, N, pos, lo, hi) /\ lo[s] <= pos[x] /\ pos[x] <= hi[s]
  BY DEF Under
<1>2. PICK pos1, lo1, hi1 : /\ Tree(hh, r, U, N, pos1, lo1, hi1)
                            /\ Moved(U, S, top, Transposed(m, n), pos, lo, hi, pos1, lo1, hi1)
  BY <1>1 DEF TreeMoved, TreesMove
<1>3. Transposed(m, n)[x] = x
  BY DEF Transposed
<1>4. pos1[x] = pos[x] /\ lo1[s] = lo[s] /\ hi1[s] = hi[s]
  BY <1>2, <1>3, SMTT(60), ZenonT(60) DEF Moved
<1> QED BY <1>1, <1>2, <1>4 DEF Under

\* The names of a pass of the repair: s is short, t its parent, a its side and
\* v its sibling.
Lean(h, r, U, x, s, a, b, t, v) ==
  /\ Short(h, r, U, x, s) /\ h[s].par # NULL
  /\ a = SideOf(h, s) /\ b = Other(a) /\ t = h[s].par /\ v = h[t][b]

\* The sibling is red.
LEMMA SiblingEnds ==
  ASSUME NEW h, NEW r, NEW U, NEW x, NEW s,
         NEW a, NEW b, NEW t, NEW v, Lean(h, r, U, x, s, a, b, t, v),
         IsRed(h, v), NEW hh, hh = SiblingRed(h, t, v, a)
  PROVE  Short(hh, r, U, x, s) /\ \E q : Turned(h, hh, U \ {x}, q)
<1> DEFINE A == Field(h, a)
           B == Field(h, b)
           P == Field(h, "par")
           K == Field(h, "kv")
           C == Field(h, "color")
<1>e. Short(h, r, U, x, s) /\ h[s].par # NULL /\ a = SideOf(h, s) /\ b = Other(a) /\ t = h[s].par /\ v = h[t][b]
  BY ZenonT(60), SMTT(60) DEF Lean
<1>1. /\ IsTree(h, r, U) /\ Heights(h, U, {x}, {s}) /\ Quiet(h, U, {}) /\ ~IsRed(h, r) /\ ~IsRed(h, s)
      /\ x \in U /\ s \in U /\ Under(h, r, U, x, s) /\ Childless(h, x)
  BY <1>e DEF Short
<1>2. h \in Heap /\ U \in SUBSET Nodes /\ r \in Places /\ s \in Places
  BY <1>1, TreeNodes DEF Places
<1>3. View(h, a, b, A, B, P, K, C)
  BY <1>2, HeapView
<1>4. C = Field(h, "color") /\ \A n \in Nodes : A[n] = h[n][a] /\ B[n] = h[n][b]
  BY ZenonT(60), SMTT(60) DEF Field
<1> HIDE DEF A, B, P, K, C
<1>5. Facing(a, b) /\ \E N, pos, lo, hi, bh : OneShort(A, B, P, C, U, N, r, pos, lo, hi, bh, x, s, t, v)
  BY <1>3, <1>e, ShortView
<1>6. PICK N, pos, lo, hi, bh : OneShort(A, B, P, C, U, N, r, pos, lo, hi, bh, x, s, t, v)
  BY <1>5
<1>7. /\ t \in U /\ v \in U /\ t # x /\ v # x /\ s # t /\ s # v /\ B[t] = v /\ t \in Nodes /\ v \in Nodes
      /\ t # v /\ x \in Nodes
  BY <1>2, <1>1, <1>6, OneShortFacts DEF ShortFacts
<1>8. C[v] = "RED"
  BY <1>4, <1>7, SMTT(60), ZenonT(60) DEF IsRed, Field
<1>9. View(hh, a, b, [A EXCEPT ![v] = A[t], ![t] = v], [B EXCEPT ![t] = B[v], ![v] = A[v]],
           Adopted(Adopted(Adopted(P, B[v], t), A[t], v), v, t), [K EXCEPT ![t] = K[v], ![v] = K[t]], C)
  BY <1>3, <1>5, <1>7, ViewSibling, SMTT(60), ZenonT(60)
<1>10. PivotLinks(A, B, Field(hh, a), Field(hh, b), t, v) /\ Field(hh, "color") = C /\ hh \in Heap
  BY <1>9 DEF View, PivotLinks
<1>11. Balanced(Field(hh, a), Field(hh, b), C, U, bh, {x}, {s}) /\ Calm(Field(hh, a), Field(hh, b), C, U, {})
  BY <1>6, <1>8, <1>10, SiblingBalance, SMTT(60), ZenonT(60)
<1>12. Heights(hh, U, {x}, {s}) /\ Quiet(hh, U, {})
  BY <1>5, <1>10, <1>11, HeightsFrom, SMTT(60), ZenonT(60)
<1>13. ASSUME NEW N1, NEW p1, NEW l1, NEW h1, Tree(h, r, U, N1, p1, l1, h1)
       PROVE  /\ TreeMoved(hh, r, U, N1, {t, v}, t, Transposed(t, v), p1, l1, h1)
              /\ Turned(h, hh, U, Transposed(t, v))
  BY <1>3, <1>5, <1>7, <1>13, PivotTree
<1>14. Turned(h, hh, U, Transposed(t, v)) /\ IsTree(hh, r, U)
  BY <1>1, <1>13, Zenon DEF IsTree, TreeMoved
<1>15. Under(hh, r, U, x, s)
  <2>1. TreesMove(h, hh, r, U, {t, v}, t, Transposed(t, v))
    BY <1>13, Zenon DEF TreesMove
  <2> QED BY <1>1, <1>2, <1>7, <2>1, UnderMoved
<1>16. Turned(h, hh, U \ {x}, Transposed(t, v))
  BY <1>1, <1>2, <1>7, <1>14, TurnedLess
<1>17. ~IsRed(hh, r) /\ ~IsRed(hh, s)
  BY <1>1, <1>2, <1>4, <1>10, RedField, SMTT(60), ZenonT(60)
<1>18. Childless(hh, x)
  <2>1. A \in Links /\ B \in Links
    BY <1>3, <1>5, ViewTypes, SMTT(60), ZenonT(60)
  <2>2. Field(hh, a)[x] = A[x] /\ Field(hh, b)[x] = B[x]
    BY <1>7, <1>10, <2>1, SMTT(60), ZenonT(60) DEF PivotLinks, Links
  <2>3. hh[x][a] = h[x][a] /\ hh[x][b] = h[x][b]
    BY <1>4, <1>7, <2>2, SMTT(60), ZenonT(60) DEF Field
  <2> QED BY <1>1, <1>5, <2>3 DEF Facing, Childless
<1> QED BY <1>1, <1>12, <1>14, <1>15, <1>16, <1>17, <1>18 DEF Short

\* The far nephew is red.
LEMMA FarEnds ==
  ASSUME NEW h, NEW r, NEW U, NEW x, NEW s,
         NEW a, NEW b, NEW t, NEW v, Lean(h, r, U, x, s, a, b, t, v),
         ~IsRed(h, v), IsRed(h, h[v][b]), NEW hh, hh = FarRed(h, t, v, a)
  PROVE  Pruning(hh, r, U, x) /\ \E q : Turned(h, hh, U \ {x}, q)
<1> DEFINE A == Field(h, a)
           B == Field(h, b)
           P == Field(h, "par")
           K == Field(h, "kv")
           C == Field(h, "color")
           h1 == SiblingRed(h, t, v, a)
           C1 == [C EXCEPT ![B[v]] = "BLACK"]
<1>e. Short(h, r, U, x, s) /\ h[s].par # NULL /\ a = SideOf(h, s) /\ b = Other(a) /\ t = h[s].par /\ v = h[t][b]
  BY ZenonT(60), SMTT(60) DEF Lean
<1>1. /\ IsTree(h, r, U) /\ Heights(h, U, {x}, {s}) /\ Quiet(h, U, {}) /\ ~IsRed(h, r) /\ ~IsRed(h, s)
      /\ x \in U /\ s \in U /\ Childless(h, x)
  BY <1>e DEF Short
<1>2. h \in Heap /\ U \in SUBSET Nodes /\ r \in Places /\ s \in Places
  BY <1>1, TreeNodes DEF Places
<1>3. View(h, a, b, A, B, P, K, C)
  BY <1>2, HeapView
<1>4. C = Field(h, "color") /\ \A n \in Nodes : A[n] = h[n][a] /\ B[n] = h[n][b]
  BY SMTT(60), ZenonT(60) DEF Field
<1> HIDE DEF A, B, P, K, C
<1>5. Facing(a, b) /\ \E N, pos, lo, hi, bh : OneShort(A, B, P, C, U, N, r, pos, lo, hi, bh, x, s, t, v)
  BY <1>3, <1>e, ShortView, SMTT(60), ZenonT(60)
<1>6. PICK N, pos, lo, hi, bh : OneShort(A, B, P, C, U, N, r, pos, lo, hi, bh, x, s, t, v)
  BY <1>5, SMTT(60), ZenonT(60)
<1>7. /\ t \in U /\ v \in U /\ t # x /\ v # x /\ s # t /\ s # v /\ B[t] = v /\ t \in Nodes /\ v \in Nodes
      /\ t # v /\ x \in Nodes /\ v \in Places
  BY <1>2, <1>1, <1>6, OneShortFacts, SMTT(60), ZenonT(60) DEF ShortFacts
<1>a. A \in Links /\ B \in Links /\ C \in [Nodes -> Colors]
  BY <1>3, <1>5, ViewTypes, SMTT(60), ZenonT(60)
<1>8. B[v] \in Nodes /\ Red(C, B[v]) /\ ~Red(C, v)
  <2>1. B[v] \in Places /\ B[v] = h[v][b]
    BY <1>4, <1>7, <1>a, SMTT(60), ZenonT(60) DEF Links
  <2>2. Red(C, B[v]) /\ ~Red(C, v)
    BY <1>4, <1>7, <2>1, RedField, SMTT(60), ZenonT(60)
  <2> QED BY <2>1, <2>2, SMTT(60), ZenonT(60) DEF Red, Places
<1>b. hh = Paint(h1, B[v], "BLACK")
  BY <1>3, <1>5, <1>7, <1>8, ViewFar, SMTT(60), ZenonT(60)
<1>9. View(h1, a, b, [A EXCEPT ![v] = A[t], ![t] = v], [B EXCEPT ![t] = B[v], ![v] = A[v]],
           Adopted(Adopted(Adopted(P, B[v], t), A[t], v), v, t), [K EXCEPT ![t] = K[v], ![v] = K[t]], C)
  BY <1>3, <1>5, <1>7, ViewSibling, ZenonT(60), SMTT(60)
<1> HIDE DEF h1
<1>10. View(hh, a, b, [A EXCEPT ![v] = A[t], ![t] = v], [B EXCEPT ![t] = B[v], ![v] = A[v]],
            Adopted(Adopted(Adopted(P, B[v], t), A[t], v), v, t), [K EXCEPT ![t] = K[v], ![v] = K[t]], C1)
  <2>1. "BLACK" \in Colors
    BY SMTT(60), ZenonT(60) DEF Colors
  <2>2. View(h1, a, b, Field(h1, a), Field(h1, b), Field(h1, "par"), Field(h1, "kv"), C)
    BY <1>9, SMTT(60), ZenonT(60) DEF View
  <2> DEFINE w == B[v]
  <2>w. w \in Nodes
    BY <1>8, SMTT(60), ZenonT(60)
  <2> HIDE DEF w
  <2>3. View(Paint(h1, w, "BLACK"), a, b, Field(h1, a), Field(h1, b), Field(h1, "par"), Field(h1, "kv"),
             [C EXCEPT ![w] = "BLACK"])
    BY <1>5, <2>1, <2>2, <2>w, ViewPaint, SMTT(60), ZenonT(60)
  <2> QED BY <1>9, <1>b, <2>3, ZenonT(60), SMTT(60) DEF View, w
<1>11. PivotLinks(A, B, Field(hh, a), Field(hh, b), t, v) /\ Field(hh, "color") = C1 /\ hh \in Heap
  BY <1>10 DEF View, PivotLinks
<1>c. Blackened(C, C1, B[v])
  BY SMTT(60), ZenonT(60) DEF Blackened
<1> HIDE DEF C1
<1>12. PICK bh1 : /\ Balanced(Field(hh, a), Field(hh, b), C1, U, bh1, {x}, {})
                  /\ Calm(Field(hh, a), Field(hh, b), C1, U, {}) /\ ~Red(C1, r)
  BY <1>6, <1>8, <1>11, <1>c, FarBalance, ZenonT(60), SMTT(60)
<1>13. Heights(hh, U, {x}, {}) /\ Quiet(hh, U, {}) /\ ~IsRed(hh, r)
  BY <1>2, <1>5, <1>11, <1>12, HeightsFrom, RedField
<1>14. /\ h1 \in Heap /\ Field(hh, a) = Field(h1, a) /\ Field(hh, b) = Field(h1, b)
       /\ Field(hh, "par") = Field(h1, "par") /\ Field(hh, "kv") = Field(h1, "kv")
  BY <1>9, <1>10 DEF View
<1>15. Turned(h, h1, U, Transposed(t, v)) /\ IsTree(h1, r, U)
  <2>1. PICK N1, p1, l1, i1 : Tree(h, r, U, N1, p1, l1, i1)
    BY <1>1, SMTT(60), ZenonT(60) DEF IsTree
  <2>2. /\ TreeMoved(h1, r, U, N1, {t, v}, t, Transposed(t, v), p1, l1, i1)
        /\ Turned(h, h1, U, Transposed(t, v))
    BY <1>3, <1>5, <1>7, <2>1, PivotTree, SMTT(60), ZenonT(60) DEF h1
  <2> QED BY <2>2, Zenon DEF IsTree, TreeMoved
<1>16. IsTree(hh, r, U)
  BY <1>5, <1>11, <1>14, <1>15, SameTree, SMTT(60), ZenonT(60) DEF IsTree
<1>17. Turned(h, hh, U \ {x}, Transposed(t, v))
  <2>1. Turned(h, h1, U \ {x}, Transposed(t, v))
    BY <1>1, <1>2, <1>7, <1>15, TurnedLess
  <2> QED BY <1>14, <2>1, ZenonT(60), SMTT(60) DEF Turned
<1>18. Childless(hh, x)
  <2>2. Field(hh, a)[x] = A[x] /\ Field(hh, b)[x] = B[x]
    BY <1>7, <1>11, <1>a, ZenonT(60), SMTT(60) DEF PivotLinks, Links
  <2>3. hh[x][a] = h[x][a] /\ hh[x][b] = h[x][b]
    BY <1>4, <1>7, <2>2, SMTT(60), ZenonT(60) DEF Field
  <2> QED BY <1>1, <1>5, <2>3, SMTT(60), ZenonT(60) DEF Facing, Childless
<1> QED BY <1>1, <1>13, <1>16, <1>17, <1>18, SMTT(60), ZenonT(60) DEF Pruning

\* The near nephew is red.
LEMMA NearEnds ==
  ASSUME NEW h, NEW r, NEW U, NEW x, NEW s,
         NEW a, NEW b, NEW t, NEW v, Lean(h, r, U, x, s, a, b, t, v),
         ~IsRed(h, v), IsRed(h, h[v][a]), NEW hh, hh = NearRed(h, t, v, a)
  PROVE  Pruning(hh, r, U, x) /\ \E q : Turned(h, hh, U \ {x}, q)
<1> DEFINE A == Field(h, a)
           B == Field(h, b)
           P == Field(h, "par")
           K == Field(h, "kv")
           C == Field(h, "color")
           w == A[v]
           C1 == Field(hh, "color")
<1>e. Short(h, r, U, x, s) /\ h[s].par # NULL /\ a = SideOf(h, s) /\ b = Other(a) /\ t = h[s].par /\ v = h[t][b]
  BY ZenonT(60), SMTT(60) DEF Lean
<1>1. /\ IsTree(h, r, U) /\ Heights(h, U, {x}, {s}) /\ Quiet(h, U, {}) /\ ~IsRed(h, r) /\ ~IsRed(h, s)
      /\ x \in U /\ s \in U /\ Childless(h, x)
  BY <1>e DEF Short
<1>2. h \in Heap /\ U \in SUBSET Nodes /\ r \in Places /\ s \in Places
  BY <1>1, TreeNodes DEF Places
<1>3. View(h, a, b, A, B, P, K, C)
  BY <1>2, HeapView
<1>4. C = Field(h, "color") /\ \A n \in Nodes : A[n] = h[n][a] /\ B[n] = h[n][b]
  BY ZenonT(60), SMTT(60) DEF Field
<1> HIDE DEF A, B, P, K, C
<1>5. Facing(a, b) /\ \E N, pos, lo, hi, bh : OneShort(A, B, P, C, U, N, r, pos, lo, hi, bh, x, s, t, v)
  BY <1>3, <1>e, ShortView, SMTT(60), ZenonT(60)
<1>6. PICK N, pos, lo, hi, bh : OneShort(A, B, P, C, U, N, r, pos, lo, hi, bh, x, s, t, v)
  BY <1>5
<1>f. ShortFacts(A, B, P, C, U, r, bh, x, s, t, v)
  BY <1>6, OneShortFacts, SMTT(60), ZenonT(60)
<1>7. /\ t \in U /\ v \in U /\ t # x /\ v # x /\ s # t /\ s # v /\ B[t] = v /\ t \in Nodes /\ v \in Nodes
      /\ t # v /\ x \in Nodes /\ v \in Places
  BY <1>2, <1>1, <1>f, SMTT(60), ZenonT(60) DEF ShortFacts
<1>a. A \in Links /\ B \in Links /\ C \in [Nodes -> Colors]
  BY <1>3, <1>5, ViewTypes, SMTT(60), ZenonT(60)
<1>8. w \in Nodes /\ Red(C, A[v]) /\ ~Red(C, v)
  <2>1. A[v] \in Places /\ A[v] = h[v][a]
    BY <1>4, <1>7, <1>a, SMTT(60), ZenonT(60) DEF Links
  <2>2. Red(C, A[v]) /\ ~Red(C, v)
    BY <1>4, <1>7, <2>1, RedField, SMTT(60), ZenonT(60)
  <2> QED BY <2>1, <2>2, SMTT(60), ZenonT(60) DEF Red, Places
<1>9. w \in U /\ w # x /\ w # t /\ w # v
  BY <1>7, <1>8, <1>f, ZenonT(60), SMTT(60) DEF ShortFacts, Red, NULL
<1>10. InnerView(hh, h, b, a, B, A, P, K, C, w, v, t)
  BY <1>3, <1>5, <1>7, <1>8, ViewNear, SMTT(60), ZenonT(60)
<1>11. InnerLinks(B, A, Field(hh, b), Field(hh, a), w, v, t) /\ Blackened(C, C1, w) /\ hh \in Heap
  BY <1>10 DEF InnerView, View, InnerLinks, Blackened
<1>c. C1 = Field(hh, "color")
  BY SMTT(60), ZenonT(60)
<1> HIDE DEF C1
<1>12. PICK bh1 : /\ Balanced(Field(hh, a), Field(hh, b), C1, U, bh1, {x}, {})
                  /\ Calm(Field(hh, a), Field(hh, b), C1, U, {}) /\ ~Red(C1, r)
  BY <1>6, <1>8, <1>11, NearBalance, ZenonT(60), SMTT(60)
<1>13. Heights(hh, U, {x}, {}) /\ Quiet(hh, U, {}) /\ ~IsRed(hh, r)
  BY <1>2, <1>5, <1>c, <1>12, HeightsFrom, RedField
<1>w. A[v] = w
  OBVIOUS
<1> HIDE DEF w
<1>15. Turned(h, hh, U, Transposed(t, w)) /\ IsTree(hh, r, U)
  <2>1. PICK N1, p1, l1, i1 : Tree(h, r, U, N1, p1, l1, i1)
    BY <1>1 DEF IsTree
  <2>2. View(h, b, a, B, A, P, K, C) /\ Facing(b, a)
    BY <1>3, <1>5, ViewMirror DEF Facing
  <2>3. /\ TreeMoved(hh, r, U, N1, {t, v, w}, t, Transposed(t, w), p1, l1, i1)
        /\ Turned(h, hh, U, Transposed(t, w))
    BY <1>7, <1>9, <1>10, <1>w, <2>1, <2>2, InnerTree, SMTT(60), ZenonT(60)
  <2> QED BY <2>3, Zenon DEF IsTree, TreeMoved
<1>17. Turned(h, hh, U \ {x}, Transposed(t, w))
  BY <1>1, <1>2, <1>7, <1>9, <1>15, TurnedLess, SMTT(60), ZenonT(60)
<1>18. Childless(hh, x)
  <2>2. Field(hh, a)[x] = A[x] /\ Field(hh, b)[x] = B[x]
    BY <1>7, <1>9, <1>11, <1>a, SMTT(60), ZenonT(60) DEF InnerLinks, Links
  <2>3. hh[x][a] = h[x][a] /\ hh[x][b] = h[x][b]
    BY <1>4, <1>7, <2>2, SMTT(60), ZenonT(60) DEF Field
  <2> QED BY <1>1, <1>5, <2>3, SMTT(60), ZenonT(60) DEF Facing, Childless
<1> QED BY <1>1, <1>13, <1>15, <1>17, <1>18, SMTT(60), ZenonT(60) DEF Pruning

\* What the last case leaves: only a black t is short itself.
Darkened(h, hh, r, U, x, t) ==
  /\ h[t].color = "BLACK" => Short(hh, r, U, x, t)
  /\ h[t].color # "BLACK" => Pruning(hh, r, U, x)
  /\ \E q : Turned(h, hh, U \ {x}, q)

\* The sibling and both nephews are black: the pass only paints.
LEMMA BlackEnds ==
  ASSUME NEW h, NEW r, NEW U, NEW x, NEW s,
         NEW a, NEW b, NEW t, NEW v, Lean(h, r, U, x, s, a, b, t, v),
         ~IsRed(h, v), ~IsRed(h, h[v][a]), ~IsRed(h, h[v][b]),
         NEW hh, hh = Paint(Paint(h, v, "RED"), t, "BLACK")
  PROVE  Darkened(h, hh, r, U, x, t)
<1> DEFINE A == Field(h, a)
           B == Field(h, b)
           P == Field(h, "par")
           K == Field(h, "kv")
           C == Field(h, "color")
           C1 == [C EXCEPT ![v] = "RED", ![t] = "BLACK"]
           S1 == IF C[t] = "BLACK" THEN {t} ELSE {}
<1>e. Short(h, r, U, x, s) /\ h[s].par # NULL /\ a = SideOf(h, s) /\ b = Other(a) /\ t = h[s].par /\ v = h[t][b]
  BY ZenonT(60), SMTT(60) DEF Lean
<1>1. /\ IsTree(h, r, U) /\ Heights(h, U, {x}, {s}) /\ Quiet(h, U, {}) /\ ~IsRed(h, r) /\ ~IsRed(h, s)
      /\ x \in U /\ s \in U /\ Childless(h, x) /\ Under(h, r, U, x, s)
  BY <1>e DEF Short
<1>2. h \in Heap /\ U \in SUBSET Nodes /\ r \in Places /\ s \in Places
  BY <1>1, TreeNodes DEF Places
<1>3. View(h, a, b, A, B, P, K, C)
  BY <1>2, HeapView
<1>4. C = Field(h, "color") /\ \A n \in Nodes : A[n] = h[n][a] /\ B[n] = h[n][b] /\ C[n] = h[n].color
  BY ZenonT(60), SMTT(60) DEF Field
<1>d. /\ A = Field(h, a) /\ B = Field(h, b) /\ P = Field(h, "par") /\ K = Field(h, "kv")
      /\ BlackPaint(C, C1, t, v) /\ Lacking(C, t, S1)
  BY SMTT(60), ZenonT(60) DEF BlackPaint, Lacking
<1> HIDE DEF A, B, P, K, C
<1>5. Facing(a, b) /\ \E N, pos, lo, hi, bh : OneShort(A, B, P, C, U, N, r, pos, lo, hi, bh, x, s, t, v)
  BY <1>3, <1>e, ShortView, SMTT(60), ZenonT(60)
<1>6. PICK N, pos, lo, hi, bh : OneShort(A, B, P, C, U, N, r, pos, lo, hi, bh, x, s, t, v)
  BY <1>5, SMTT(60), ZenonT(60)
<1>7. /\ t \in U /\ v \in U /\ t # x /\ v # x /\ s # t /\ s # v /\ B[t] = v /\ t \in Nodes /\ v \in Nodes
      /\ t # v /\ x \in Nodes /\ v \in Places /\ t \in Places
  BY <1>2, <1>1, <1>6, OneShortFacts, SMTT(60), ZenonT(60) DEF ShortFacts
<1>a. A \in Links /\ B \in Links /\ C \in [Nodes -> Colors]
  BY <1>3, <1>5, ViewTypes, SMTT(60), ZenonT(60)
<1>8. ~Red(C, v) /\ ~Red(C, A[v]) /\ ~Red(C, B[v])
  <2>1. A[v] \in Places /\ A[v] = h[v][a] /\ B[v] \in Places /\ B[v] = h[v][b]
    BY <1>4, <1>7, <1>a, SMTT(60), ZenonT(60) DEF Links
  <2> QED BY <1>4, <1>7, <2>1, RedField, SMTT(60), ZenonT(60)
<1>9. View(hh, a, b, A, B, P, K, C1)
  <2>1. "BLACK" \in Colors /\ "RED" \in Colors
    BY SMTT(60), ZenonT(60) DEF Colors
  <2>2. View(Paint(h, v, "RED"), a, b, A, B, P, K, [C EXCEPT ![v] = "RED"])
    BY <1>3, <1>5, <1>7, <2>1, ViewPaint, SMTT(60), ZenonT(60)
  <2>3. View(hh, a, b, A, B, P, K, [[C EXCEPT ![v] = "RED"] EXCEPT ![t] = "BLACK"])
    BY <1>5, <1>7, <2>1, <2>2, ViewPaint
  <2> QED BY <2>3
<1>10. /\ hh \in Heap /\ A = Field(hh, a) /\ B = Field(hh, b) /\ P = Field(hh, "par")
       /\ K = Field(hh, "kv") /\ C1 = Field(hh, "color")
  BY <1>9 DEF View
<1> HIDE DEF C1, S1
<1>11. PICK bh1 : /\ Balanced(A, B, C1, U, bh1, {x}, S1) /\ Calm(A, B, C1, U, {})
                  /\ ~Red(C1, r) /\ ~Red(C1, t)
  BY <1>6, <1>8, <1>d, BlackBalance, ZenonT(60), SMTT(60)
<1>12. Heights(hh, U, {x}, S1) /\ Quiet(hh, U, {}) /\ ~IsRed(hh, r) /\ ~IsRed(hh, t)
  BY <1>2, <1>5, <1>7, <1>10, <1>11, HeightsFrom, RedField
<1>13. ASSUME NEW N1, NEW p1, NEW l1, NEW i1, Tree(h, r, U, N1, p1, l1, i1)
       PROVE  Tree(hh, r, U, N1, p1, l1, i1)
  BY <1>5, <1>10, <1>13, <1>d, SameTree, ZenonT(60), SMTT(60)
<1>14. IsTree(hh, r, U)
  BY <1>1, <1>13, SMTT(60), ZenonT(60) DEF IsTree
<1>15. Under(hh, r, U, x, t)
  <2>1. PICK N1, p1, l1, i1 : Tree(h, r, U, N1, p1, l1, i1) /\ l1[s] <= p1[x] /\ p1[x] <= i1[s]
    BY <1>1 DEF Under
  <2>2. \A n \in U : Fits(Field(h, "left"), Field(h, "right"), P, U, N1, p1, l1, i1, n)
    BY <2>1, <1>d DEF Tree, Shape
  <2>3. Fits(Field(h, "left"), Field(h, "right"), P, U, N1, p1, l1, i1, t)
    BY <1>7, <2>2
  <2>4. h[t].left = s \/ h[t].right = s
    <3>1. h[s].par \in U /\ h[t][a] = s
      <4>1. s # r
        BY <1>1, <1>e, TreeNodes
      <4> QED BY <1>1, <1>e, <4>1, SideFacts, SMTT(60), ZenonT(60)
    <3> QED BY <1>5, <3>1, SMTT(60), ZenonT(60) DEF Facing
  <2>5. s # NULL
    BY <1>1, <1>2 DEF Nodes, NULL
  <2>6. Measures(U, N1, p1, l1, i1)
    BY <2>1, SMTT(60), ZenonT(60) DEF Tree, Shape
  <2>7. /\ p1[x] \in Int /\ p1[t] \in Int /\ l1[t] \in Int /\ i1[t] \in Int /\ l1[s] \in Int /\ i1[s] \in Int
    BY <1>1, <1>2, <1>7, <2>6, SMTT(60), ZenonT(60) DEF Measures
  <2>8. l1[t] <= l1[s] /\ i1[s] <= i1[t]
    BY <1>7, <2>3, <2>4, <2>5, <2>7, SMTT(60), ZenonT(60) DEF Fits, Field
  <2> QED BY <1>13, <2>1, <2>7, <2>8 DEF Under
<1>16. \E q : Turned(h, hh, U \ {x}, q)
  <2>1. U \ {x} \in SUBSET Nodes
    BY <1>2, SMTT(60), ZenonT(60)
  <2> QED BY <1>10, <1>d, <2>1, TurnedSame
<1>17. Childless(hh, x)
  <2>3. hh[x][a] = h[x][a] /\ hh[x][b] = h[x][b]
    <3>1. Field(hh, a)[x] = hh[x][a] /\ Field(hh, b)[x] = hh[x][b]
      BY <1>7, SMTT(60), ZenonT(60) DEF Field
    <3> QED BY <1>4, <1>7, <1>10, <3>1, ZenonT(60), SMTT(60)
  <2> QED BY <1>1, <1>5, <2>3, SMTT(60), ZenonT(60) DEF Facing, Childless
<1>18. CASE h[t].color = "BLACK"
  <2>1. S1 = {t}
    BY <1>4, <1>7, <1>18, SMTT(60), ZenonT(60) DEF S1
  <2> QED BY <1>1, <1>7, <1>12, <1>14, <1>15, <1>16, <1>17, <1>18, <2>1, SMTT(60), ZenonT(60) DEF Short, Darkened
<1>19. CASE h[t].color # "BLACK"
  <2>1. S1 = {}
    BY <1>4, <1>7, <1>19 DEF S1
  <2> QED BY <1>1, <1>7, <1>12, <1>14, <1>16, <1>17, <1>19, <2>1, SMTT(60), ZenonT(60) DEF Pruning, Darkened
<1> QED BY <1>16, <1>18, <1>19, SMTT(60), ZenonT(60) DEF Darkened

-----------------------------------------------------------------------------
(* Walks down a tree *)

\* A set of numbers has a least element: the natural numbers are well founded.
LEMMA LeastElement ==
  ASSUME NEW T \in SUBSET Nat, T # {}
  PROVE  \E x \in T : \A y \in T : x <= y
<1>1. ASSUME NEW R, \E x \in T : \A y \in T : ~(<<y, x>> \in R),
             \A x, y \in Nat : x < y => <<x, y>> \in R
      PROVE  \E x \in T : \A y \in T : x <= y
  <2>1. PICK x \in T : \A y \in T : ~(<<y, x>> \in R)
    BY <1>1
  <2>2. ASSUME NEW y \in T PROVE x <= y
    <3>1. ~(y < x)
      BY <1>1, <2>1
    <3> QED BY <3>1
  <2> QED BY <2>2
<1> DEFINE Less == OpToRel(<, Nat)
<1>2. \E x \in T : \A y \in T : ~(<<y, x>> \in Less)
  BY NatLessThanWellFounded, WFMin
<1>3. \A x, y \in Nat : x < y => <<x, y>> \in Less
  BY Zenon DEF OpToRel
<1> HIDE DEF Less
<1> QED BY <1>1, <1>2, <1>3, Zenon

\* A walk that starts at n and goes on to next[n] until it is in stop ends at f[n].
Descends(f, D, stop, next) == f = [n \in D |-> IF n \in stop THEN n ELSE f[next[n]]]

\* Every step of the walk goes to a smaller rank.
Downward(D, stop, next, rank) ==
  \A n \in D : /\ rank[n] \in Nat
               /\ n \notin stop => next[n] \in D /\ rank[next[n]] < rank[n]

\* A descent on which a rank falls ends: the function that a walk recurs to exists.
LEMMA DescentExists ==
  ASSUME NEW D, NEW stop, NEW next, NEW rank, Downward(D, stop, next, rank),
         NEW R \in Nat, \A n \in D : rank[n] <= R
  PROVE  \E f : Descends(f, D, stop, next)
<1> DEFINE E(k) == {n \in D : rank[n] <= k}
           bad == {k \in 0 .. R : ~\E f : Descends(f, E(k), stop, next)}
<1>0. \A n \in D : rank[n] \in Nat /\ (n \notin stop => next[n] \in D /\ rank[next[n]] \in Nat /\ rank[next[n]] < rank[n])
  BY DEF Downward
<1>1. \E f : Descends(f, E(0), stop, next)
  <2> DEFINE f == [n \in E(0) |-> n]
  <2>1. \A n \in E(0) : n \in stop
    BY <1>0
  <2>2. f = [n \in E(0) |-> IF n \in stop THEN n ELSE f[next[n]]]
    BY <2>1
  <2> HIDE DEF f
  <2> QED BY <2>2 DEF Descends
<1>2. ASSUME NEW k \in 1 .. R, NEW f, Descends(f, E(k - 1), stop, next)
      PROVE  \E g : Descends(g, E(k), stop, next)
  <2> DEFINE g == [n \in E(k) |-> IF n \in stop THEN n ELSE f[next[n]]]
  <2>1. \A n \in E(k - 1) : f[n] = IF n \in stop THEN n ELSE f[next[n]]
    BY <1>2 DEF Descends
  <2>2. \A n \in E(k) : n \notin stop => next[n] \in E(k - 1) /\ next[n] \in E(k)
    BY <1>0
  <2>3. \A n \in E(k - 1) : n \in E(k)
    BY <1>0
  <2>4. \A n \in E(k) : n \notin stop => g[next[n]] = f[next[n]]
    <3> HIDE DEF E
    <3> QED BY <2>1, <2>2
  <2>5. g = [n \in E(k) |-> IF n \in stop THEN n ELSE g[next[n]]]
    <3> HIDE DEF E
    <3> QED BY <2>4
  <2> HIDE DEF g, E
  <2> QED BY <2>5 DEF Descends
<1>3. ASSUME NEW k \in bad PROVE \E l \in bad : ~(k <= l)
  <2>1. k \in 0 .. R /\ ~\E f : Descends(f, E(k), stop, next)
    OBVIOUS
  <2>2. k # 0
    BY <1>1, <2>1
  <2>3. k \in 1 .. R /\ k - 1 \in 0 .. R /\ ~(k <= k - 1)
    BY <2>1, <2>2
  <2>4. ~\E f : Descends(f, E(k - 1), stop, next)
    BY <1>2, <2>1, <2>3, Zenon
  <2>5. k - 1 \in bad
    BY <2>3, <2>4
  <2> HIDE DEF bad
  <2> QED BY <2>3, <2>5
<1>4. bad \in SUBSET Nat
  OBVIOUS
<1>5. bad = {}
  <2> HIDE DEF bad
  <2> QED BY <1>3, <1>4, LeastElement
<1>6. R \in 0 .. R /\ E(R) = D
  OBVIOUS
<1>7. \E f : Descends(f, E(R), stop, next)
  <2> HIDE DEF E
  <2> QED BY <1>5, <1>6
<1> QED BY <1>6, <1>7

\* A walk that starts in a set and cannot leave it ends in it.
LEMMA DescentEnds ==
  ASSUME NEW D, NEW stop, NEW next, NEW rank, Downward(D, stop, next, rank),
         NEW f, Descends(f, D, stop, next),
         NEW G \in SUBSET D, \A n \in G : n \notin stop => next[n] \in G
  PROVE  \A n \in G : f[n] \in G /\ f[n] \in stop
<1> DEFINE bad == {rank[n] : n \in {m \in G : ~(f[m] \in G /\ f[m] \in stop)}}
<1>0. \A n \in D : f[n] = IF n \in stop THEN n ELSE f[next[n]]
  BY DEF Descends
<1>1. \A n \in G : rank[n] \in Nat /\ (n \notin stop => next[n] \in G /\ rank[next[n]] \in Nat /\ rank[next[n]] < rank[n])
  BY DEF Downward
<1>2. ASSUME NEW k \in bad PROVE \E l \in bad : ~(k <= l)
  <2>1. PICK n \in G : ~(f[n] \in G /\ f[n] \in stop) /\ rank[n] = k
    OBVIOUS
  <2>2. n \notin stop /\ f[n] = f[next[n]]
    BY <1>0, <2>1
  <2>3. next[n] \in G /\ ~(f[next[n]] \in G /\ f[next[n]] \in stop) /\ rank[next[n]] < k
        /\ rank[next[n]] \in Nat /\ k \in Nat
    BY <1>1, <2>1, <2>2
  <2>4. rank[next[n]] \in bad
    BY <2>3
  <2> HIDE DEF bad
  <2> QED BY <2>3, <2>4
<1>3. bad \in SUBSET Nat
  BY <1>1
<1>4. bad = {}
  <2> HIDE DEF bad
  <2> QED BY <1>2, <1>3, LeastElement
<1> QED BY <1>4

\* The nodes that are not in the tree are as the pool gives them out.
Spare(h, U) == \A n \in Nodes \ U : h[n] = Unused

\* How many nodes a walk from n can still meet.
Rank(U, lo, hi) == [n \in Places |-> IF n \in U THEN hi[n] - lo[n] + 2 ELSE IF n = NULL THEN 0 ELSE 1]

\* The rank falls on the way down, also from a node that is not in the tree.
LEMMA RankFalls ==
  ASSUME NEW h, NEW r, NEW U, NEW N, NEW pos, NEW lo, NEW hi, Tree(h, r, U, N, pos, lo, hi), Spare(h, U),
         NEW rank, rank = Rank(U, lo, hi)
  PROVE  /\ N + 2 \in Nat
         /\ \A n \in Places : rank[n] \in Nat /\ rank[n] <= N + 2
         /\ \A n \in Nodes, d \in Sides : h[n][d] \in Places /\ rank[h[n][d]] < rank[n]
<1> DEFINE A == Field(h, "left")
           B == Field(h, "right")
           P == Field(h, "par")
<1>1. Measures(U, N, pos, lo, hi) /\ \A n \in U : Fits(A, B, P, U, N, pos, lo, hi, n)
  BY DEF Tree, Shape
<1>2. /\ U \subseteq Nodes /\ N \in Nat /\ NULL \in Places /\ NULL \notin Nodes /\ NULL \notin U
      /\ \A n \in U : n \in Nodes /\ n \in Places /\ pos[n] \in Int /\ lo[n] \in Int /\ hi[n] \in Int
      /\ \A n \in Nodes : n \in Places
  BY <1>1 DEF Measures, Places, Nodes, NULL
<1>3. \A n \in U : 1 <= lo[n] /\ lo[n] <= pos[n] /\ pos[n] <= hi[n] /\ hi[n] <= N
  BY <1>1 DEF Fits
<1>4. /\ \A n \in U : rank[n] = hi[n] - lo[n] + 2
      /\ \A n \in Nodes \ U : rank[n] = 1
      /\ rank[NULL] = 0
  BY <1>2 DEF Rank
<1>5. \A n \in Places : rank[n] \in Nat /\ rank[n] <= N + 2
  <2> TAKE n \in Places
  <2>1. CASE n \in U
    BY <1>2, <1>3, <1>4, <2>1
  <2>2. CASE n \notin U
    BY <1>2, <1>4, <2>2 DEF Places
  <2> QED BY <2>1, <2>2
<1>6. ASSUME NEW n \in Nodes, NEW d \in Sides
      PROVE  h[n][d] \in Places /\ rank[h[n][d]] < rank[n]
  <2>1. CASE n \in U
    <3>1. /\ A[n] = NULL \/ (A[n] \in U /\ lo[A[n]] = lo[n] /\ hi[A[n]] = pos[n] - 1)
          /\ B[n] = NULL \/ (B[n] \in U /\ lo[B[n]] = pos[n] + 1 /\ hi[B[n]] = hi[n])
      BY <1>1, <2>1 DEF Fits
    <3>2. rank[A[n]] < rank[n] /\ A[n] \in Places
      BY <1>2, <1>3, <1>4, <2>1, <3>1
    <3>3. rank[B[n]] < rank[n] /\ B[n] \in Places
      BY <1>2, <1>3, <1>4, <2>1, <3>1
    <3>4. h[n][d] = A[n] \/ h[n][d] = B[n]
      BY DEF Field, Sides
    <3> QED BY <3>2, <3>3, <3>4
  <2>2. CASE n \notin U
    <3>1. h[n][d] = NULL
      BY <2>2 DEF Spare, Unused, Sides
    <3> QED BY <1>2, <1>4, <2>2, <3>1
  <2> QED BY <2>1, <2>2
<1>7. N + 2 \in Nat
  BY <1>2
<1> QED BY <1>5, <1>6, <1>7

\* What Fits says of the records.
LEMMA FitsHeap ==
  ASSUME NEW h, NEW r, NEW U, NEW N, NEW pos, NEW lo, NEW hi, Tree(h, r, U, N, pos, lo, hi), NEW n \in U
  PROVE  /\ n \in Nodes /\ n # NULL
         /\ pos[n] \in Int /\ lo[n] \in Int /\ hi[n] \in Int
         /\ 1 <= lo[n] /\ lo[n] <= pos[n] /\ pos[n] <= hi[n] /\ hi[n] <= N
         /\ h[n].left = NULL => lo[n] = pos[n]
         /\ h[n].left # NULL => /\ h[n].left \in U /\ lo[h[n].left] = lo[n] /\ hi[h[n].left] = pos[n] - 1
                                /\ h[h[n].left].par = n
         /\ h[n].right = NULL => hi[n] = pos[n]
         /\ h[n].right # NULL => /\ h[n].right \in U /\ lo[h[n].right] = pos[n] + 1 /\ hi[h[n].right] = hi[n]
                                 /\ h[h[n].right].par = n
<1>1. /\ Measures(U, N, pos, lo, hi)
      /\ Fits(Field(h, "left"), Field(h, "right"), Field(h, "par"), U, N, pos, lo, hi, n)
  BY DEF Tree, Shape
<1>2. U \subseteq Nodes /\ n \in Nodes /\ n # NULL /\ pos[n] \in Int /\ lo[n] \in Int /\ hi[n] \in Int
  BY <1>1 DEF Measures, Nodes, NULL
<1>3. \A m \in Nodes : /\ Field(h, "left")[m] = h[m].left /\ Field(h, "right")[m] = h[m].right
                       /\ Field(h, "par")[m] = h[m].par
  BY DEF Field
<1> QED BY <1>1, <1>2, <1>3 DEF Fits

KeysOf(h, U) == {h[n].kv[1] : n \in U}

\* The keys stand in the order of the places.
LEMMA KeyOrder ==
  ASSUME NEW h, NEW r, NEW U, NEW N, NEW pos, NEW lo, NEW hi, Tree(h, r, U, N, pos, lo, hi)
  PROVE  /\ \A n \in U : h[n].kv[1] \in Int
         /\ \A m, n \in U : pos[m] <= pos[n] => h[m].kv[1] <= h[n].kv[1]
<1>1. /\ h \in Heap /\ U \subseteq Nodes /\ Sorted(U, pos, Field(h, "kv")) /\ Placed(U, N, pos)
      /\ \A n \in U : pos[n] \in Int
  BY DEF Tree, Shape, Measures
<1>2. \A n \in U : h[n].kv[1] \in Int /\ Field(h, "kv")[n] = h[n].kv
  BY <1>1 DEF Heap, Field
<1>3. ASSUME NEW m \in U, NEW n \in U, pos[m] <= pos[n] PROVE h[m].kv[1] <= h[n].kv[1]
  <2>1. CASE pos[m] = pos[n]
    <3>1. m = n
      BY <1>1, <2>1 DEF Placed
    <3> QED BY <1>2, <3>1
  <2>2. CASE pos[m] < pos[n]
    BY <1>1, <1>2, <2>2 DEF Sorted
  <2> QED BY <1>1, <1>3, <2>1, <2>2
<1> QED BY <1>2, <1>3

\* rbtree_search returns a node with the key if there is one, and NULL if not.
LEMMA SearchFinds ==
  ASSUME NEW U, IsTree(node, head, U), Spare(node, U), NEW k \in Int
  PROVE  /\ k \in KeysOf(node, U) => Search(k) \in U /\ node[Search(k)].kv[1] = k
         /\ k \notin KeysOf(node, U) => Search(k) = NULL
<1>1. PICK N, pos, lo, hi : Tree(node, head, U, N, pos, lo, hi)
  BY DEF IsTree
<1> DEFINE from[n \in Places] ==
             IF n = NULL \/ node[n].kv[1] = k THEN n ELSE from[node[n][Toward(n, k)]]
           Rec(f) == f = [n \in Places |->
                            IF n = NULL \/ node[n].kv[1] = k THEN n ELSE f[node[n][Toward(n, k)]]]
           stop == {n \in Places : n = NULL \/ node[n].kv[1] = k}
           next == [n \in Places |-> node[n][Toward(n, k)]]
           rank == Rank(U, lo, hi)
<1>2. Search(k) = from[head]
  BY Zenon DEF Search, Places
<1>3. from = CHOOSE f : Rec(f)
  OBVIOUS
<1>4. ASSUME NEW f PROVE Rec(f) <=> Descends(f, Places, stop, next)
  <2>1. ASSUME NEW n \in Places
        PROVE  (IF n = NULL \/ node[n].kv[1] = k THEN n ELSE f[node[n][Toward(n, k)]])
                 = IF n \in stop THEN n ELSE f[next[n]]
    OBVIOUS
  <2>2. [n \in Places |-> IF n = NULL \/ node[n].kv[1] = k THEN n ELSE f[node[n][Toward(n, k)]]]
          = [n \in Places |-> IF n \in stop THEN n ELSE f[next[n]]]
    <3> HIDE DEF stop, next
    <3> QED BY <2>1
  <2> HIDE DEF stop, next
  <2> QED BY <2>2 DEF Descends
<1>5. /\ \A n \in Nodes : Toward(n, k) \in Sides
      /\ head \in Places /\ NULL \in Places /\ U \subseteq Nodes /\ Nodes \subseteq Places
      /\ head = NULL => U = {}
      /\ head # NULL => head \in U
  BY TreeNodes DEF Toward, Sides, Places
<1>6. /\ \A n \in stop : n = NULL \/ node[n].kv[1] = k
      /\ \A n \in Places : n \notin stop => n \in Nodes /\ node[n].kv[1] # k /\ next[n] = node[n][Toward(n, k)]
      /\ stop \subseteq Places
  BY DEF Places
<1> HIDE DEF from, Rec, stop, next, rank
<1>7. /\ N + 2 \in Nat /\ \A n \in Places : rank[n] \in Nat /\ rank[n] <= N + 2
      /\ \A n \in Nodes, d \in Sides : node[n][d] \in Places /\ rank[node[n][d]] < rank[n]
  BY <1>1, RankFalls DEF rank
<1>8. Downward(Places, stop, next, rank)
  BY <1>5, <1>6, <1>7 DEF Downward
<1>9. Descends(from, Places, stop, next)
  <2>1. \E f : Descends(f, Places, stop, next)
    BY <1>7, <1>8, DescentExists
  <2>2. \E f : Rec(f)
    BY <1>4, <2>1
  <2>3. Rec(from)
    BY <1>3, <2>2, Zenon
  <2> QED BY <1>4, <2>3
<1>10. \A n \in Places : n \notin stop => next[n] \in Places
  BY <1>8 DEF Downward
<1>11. from[head] \in stop /\ from[head] \in Places
  BY <1>5, <1>8, <1>9, <1>10, DescentEnds
<1>12. ASSUME k \in KeysOf(node, U) PROVE from[head] \in U /\ node[from[head]].kv[1] = k
  <2>1. PICK m \in U : node[m].kv[1] = k
    BY <1>12 DEF KeysOf
  <2> DEFINE G == {n \in U : lo[n] <= pos[m] /\ pos[m] <= hi[n]}
  <2>2. head \in G
    <3>1. head \in U /\ lo[head] = 1 /\ hi[head] = N
      BY <1>1, <1>5, <2>1 DEF Tree, Shape, Rooted
    <3>2. 1 <= lo[m] /\ lo[m] <= pos[m] /\ pos[m] <= hi[m] /\ hi[m] <= N /\ pos[m] \in Int /\ lo[m] \in Int /\ hi[m] \in Int
      BY <1>1, <2>1, FitsHeap
    <3>3. N \in Nat
      BY <1>1 DEF Tree, Shape, Measures
    <3> QED BY <3>1, <3>2, <3>3
  <2>3. ASSUME NEW n \in G, n \notin stop PROVE next[n] \in G
    <3>1. n \in U /\ lo[n] <= pos[m] /\ pos[m] <= hi[n] /\ n \in Places
      BY <1>5
    <3>2. node[n].kv[1] # k /\ next[n] = node[n][Toward(n, k)]
      BY <1>6, <2>3, <3>1
    <3>3. /\ pos[n] \in Int /\ lo[n] \in Int /\ hi[n] \in Int /\ pos[m] \in Int
          /\ node[n].left = NULL => lo[n] = pos[n]
          /\ node[n].left # NULL => node[n].left \in U /\ lo[node[n].left] = lo[n] /\ hi[node[n].left] = pos[n] - 1
          /\ node[n].right = NULL => hi[n] = pos[n]
          /\ node[n].right # NULL => node[n].right \in U /\ lo[node[n].right] = pos[n] + 1 /\ hi[node[n].right] = hi[n]
      BY <1>1, <2>1, <3>1, FitsHeap
    <3>4. /\ node[n].kv[1] \in Int
          /\ pos[m] <= pos[n] => k <= node[n].kv[1]
          /\ pos[n] <= pos[m] => node[n].kv[1] <= k
      BY <1>1, <2>1, <3>1, KeyOrder
    <3>5. CASE node[n].kv[1] < k
      <4>1. next[n] = node[n].right /\ pos[n] < pos[m]
        BY <3>2, <3>3, <3>4, <3>5 DEF Toward
      <4> QED BY <3>1, <3>3, <4>1
    <3>6. CASE ~(node[n].kv[1] < k)
      <4>1. next[n] = node[n].left /\ pos[m] < pos[n]
        BY <3>2, <3>3, <3>4, <3>6 DEF Toward
      <4> QED BY <3>1, <3>3, <4>1
    <3> QED BY <3>5, <3>6
  <2>n. NULL \notin Nodes
    BY DEF Nodes, NULL
  <2>4. G \in SUBSET Places /\ G \subseteq U /\ NULL \notin U
    BY <1>5, <2>n
  <2> HIDE DEF G
  <2>5. from[head] \in G
    BY <1>8, <1>9, <2>2, <2>3, <2>4, DescentEnds
  <2> QED BY <1>6, <1>11, <2>4, <2>5
<1>13. ASSUME k \notin KeysOf(node, U) PROVE from[head] = NULL
  <2> DEFINE G == U \cup {NULL}
  <2>1. head \in G /\ G \in SUBSET Places
    BY <1>5
  <2>2. ASSUME NEW n \in G, n \notin stop PROVE next[n] \in G
    <3>1. n \in Places /\ n \in Nodes /\ next[n] = node[n][Toward(n, k)] /\ Toward(n, k) \in Sides
      BY <1>5, <1>6, <2>1, <2>2
    <3>2. n \in U
      BY <3>1 DEF Nodes, NULL
    <3>3. /\ node[n].left # NULL => node[n].left \in U
          /\ node[n].right # NULL => node[n].right \in U
      BY <1>1, <3>2, FitsHeap
    <3> QED BY <3>1, <3>3 DEF Sides
  <2> HIDE DEF G
  <2>3. from[head] \in G
    BY <1>8, <1>9, <2>1, <2>2, DescentEnds
  <2> QED BY <1>6, <1>11, <1>13, <2>3 DEF KeysOf, G
<1> QED BY <1>2, <1>12, <1>13

\* rbtree_insert finds the node under which the new one belongs: the keys on its left
\* are not greater, those on its right not smaller.
LEMMA LeafPlace ==
  ASSUME NEW U, NEW N, NEW pos, NEW lo, NEW hi, Tree(node, head, U, N, pos, lo, hi), Spare(node, U),
         head # NULL, NEW k \in Int, NEW p, p = Leaf(k)
  PROVE  /\ p \in U /\ Toward(p, k) \in Sides /\ node[p][Toward(p, k)] = NULL
         /\ \A m \in U : pos[m] < lo[p] => node[m].kv[1] <= k
         /\ \A m \in U : pos[m] > hi[p] => k <= node[m].kv[1]
<1> DEFINE from[n \in Nodes] ==
             LET to == node[n][Toward(n, k)] IN IF to = NULL THEN n ELSE from[to]
           Rec(f) == f = [n \in Nodes |->
                            LET to == node[n][Toward(n, k)] IN IF to = NULL THEN n ELSE f[to]]
           next == [n \in Nodes |-> node[n][Toward(n, k)]]
           stop == {n \in Nodes : next[n] = NULL}
           rank == Rank(U, lo, hi)
<1>2. p = from[head]
  BY Zenon DEF Leaf
<1>3. from = CHOOSE f : Rec(f)
  OBVIOUS
<1>4. ASSUME NEW f PROVE Rec(f) <=> Descends(f, Nodes, stop, next)
  <2>1. ASSUME NEW n \in Nodes
        PROVE  (LET to == node[n][Toward(n, k)] IN IF to = NULL THEN n ELSE f[to])
                 = IF n \in stop THEN n ELSE f[next[n]]
    OBVIOUS
  <2>2. [n \in Nodes |-> LET to == node[n][Toward(n, k)] IN IF to = NULL THEN n ELSE f[to]]
          = [n \in Nodes |-> IF n \in stop THEN n ELSE f[next[n]]]
    <3> HIDE DEF stop, next
    <3> QED BY <2>1
  <2> HIDE DEF stop, next
  <2> QED BY <2>2 DEF Descends
<1>i. IsTree(node, head, U)
  BY DEF IsTree
<1>5. /\ \A n \in Nodes : Toward(n, k) \in Sides
      /\ U \subseteq Nodes /\ Nodes \subseteq Places /\ head \in U
  BY <1>i, TreeNodes DEF Toward, Sides, Places
<1>6. /\ \A n \in Nodes : next[n] = node[n][Toward(n, k)]
      /\ \A n \in Nodes : n \notin stop => next[n] # NULL
      /\ \A n \in stop : next[n] = NULL
      /\ stop \subseteq Nodes
  OBVIOUS
<1> HIDE DEF from, Rec, stop, next, rank
<1>7. /\ N + 2 \in Nat /\ \A n \in Places : rank[n] \in Nat /\ rank[n] <= N + 2
      /\ \A n \in Nodes, d \in Sides : node[n][d] \in Places /\ rank[node[n][d]] < rank[n]
  BY RankFalls DEF rank
<1>8. Downward(Nodes, stop, next, rank)
  BY <1>5, <1>6, <1>7 DEF Downward, Places
<1>9. Descends(from, Nodes, stop, next)
  <2>1. \E f : Descends(f, Nodes, stop, next)
    BY <1>5, <1>7, <1>8, DescentExists
  <2>2. \E f : Rec(f)
    BY <1>4, <2>1
  <2>3. Rec(from)
    BY <1>3, <2>2, Zenon
  <2> QED BY <1>4, <2>3
<1> DEFINE Lower(n) == \A m \in U : pos[m] < lo[n] => node[m].kv[1] <= k
           Upper(n) == \A m \in U : pos[m] > hi[n] => k <= node[m].kv[1]
           G == {n \in U : Lower(n) /\ Upper(n)}
<1>10. head \in G
  <2>1. head \in U /\ lo[head] = 1 /\ hi[head] = N
    BY <1>5 DEF Tree, Shape, Rooted
  <2>2. \A m \in U : pos[m] \in Int /\ 1 <= pos[m] /\ pos[m] <= N
    BY DEF Tree, Placed
  <2>3. N \in Nat
    BY DEF Tree, Shape, Measures
  <2> QED BY <2>1, <2>2, <2>3
<1>11. ASSUME NEW n \in G, n \notin stop PROVE next[n] \in G
  <2>1. n \in U /\ Lower(n) /\ Upper(n) /\ n \in Nodes
    BY <1>5
  <2>2. next[n] # NULL /\ next[n] = node[n][Toward(n, k)]
    BY <1>6, <1>11, <2>1
  <2>3. /\ pos[n] \in Int
        /\ node[n].left # NULL => node[n].left \in U /\ lo[node[n].left] = lo[n] /\ hi[node[n].left] = pos[n] - 1
        /\ node[n].right # NULL => node[n].right \in U /\ lo[node[n].right] = pos[n] + 1 /\ hi[node[n].right] = hi[n]
    BY <2>1, FitsHeap
  <2>4. /\ node[n].kv[1] \in Int
        /\ \A m \in U : /\ node[m].kv[1] \in Int /\ pos[m] \in Int
                        /\ pos[m] <= pos[n] => node[m].kv[1] <= node[n].kv[1]
                        /\ pos[n] <= pos[m] => node[n].kv[1] <= node[m].kv[1]
    BY <2>1, KeyOrder, FitsHeap
  <2>5. CASE node[n].kv[1] < k
    <3>1. next[n] = node[n].right
      BY <2>2, <2>5 DEF Toward
    <3>2. next[n] \in U /\ lo[next[n]] = pos[n] + 1 /\ hi[next[n]] = hi[n]
      BY <2>2, <2>3, <3>1
    <3>3. Lower(next[n])
      BY <2>3, <2>4, <2>5, <3>2
    <3>4. Upper(next[n])
      BY <2>1, <3>2
    <3> HIDE DEF Lower, Upper
    <3> QED BY <3>2, <3>3, <3>4
  <2>6. CASE ~(node[n].kv[1] < k)
    <3>1. next[n] = node[n].left
      BY <2>2, <2>6 DEF Toward
    <3>2. next[n] \in U /\ lo[next[n]] = lo[n] /\ hi[next[n]] = pos[n] - 1
      BY <2>2, <2>3, <3>1
    <3>3. Lower(next[n])
      BY <2>1, <3>2
    <3>4. Upper(next[n])
      BY <2>3, <2>4, <2>6, <3>2
    <3> HIDE DEF Lower, Upper
    <3> QED BY <3>2, <3>3, <3>4
  <2> QED BY <2>5, <2>6
<1>12. G \in SUBSET Nodes
  BY <1>5
<1>13. p \in G /\ p \in stop
  <2> HIDE DEF G
  <2> QED BY <1>2, <1>8, <1>9, <1>10, <1>11, <1>12, DescentEnds
<1>14. p \in U /\ Lower(p) /\ Upper(p)
  BY <1>13
<1> QED BY <1>5, <1>6, <1>13, <1>14

\* rbtree_delete finds the last node below m.
LEMMA RightmostPlace ==
  ASSUME NEW U, NEW N, NEW pos, NEW lo, NEW hi, Tree(node, head, U, N, pos, lo, hi), Spare(node, U),
         NEW m \in U, NEW x, x = Rightmost(m)
  PROVE  x \in U /\ node[x].right = NULL /\ hi[x] = hi[m]
<1> DEFINE from[n \in Nodes] == IF node[n].right = NULL THEN n ELSE from[node[n].right]
           Rec(f) == f = [n \in Nodes |-> IF node[n].right = NULL THEN n ELSE f[node[n].right]]
           next == [n \in Nodes |-> node[n].right]
           stop == {n \in Nodes : next[n] = NULL}
           rank == Rank(U, lo, hi)
<1>2. x = from[m]
  BY Zenon DEF Rightmost
<1>3. from = CHOOSE f : Rec(f)
  OBVIOUS
<1>4. ASSUME NEW f PROVE Rec(f) <=> Descends(f, Nodes, stop, next)
  <2>1. ASSUME NEW n \in Nodes
        PROVE  (IF node[n].right = NULL THEN n ELSE f[node[n].right])
                 = IF n \in stop THEN n ELSE f[next[n]]
    OBVIOUS
  <2>2. [n \in Nodes |-> IF node[n].right = NULL THEN n ELSE f[node[n].right]]
          = [n \in Nodes |-> IF n \in stop THEN n ELSE f[next[n]]]
    <3> HIDE DEF stop, next
    <3> QED BY <2>1
  <2> HIDE DEF stop, next
  <2> QED BY <2>2 DEF Descends
<1>i. IsTree(node, head, U)
  BY DEF IsTree
<1>5. U \subseteq Nodes /\ Nodes \subseteq Places
  BY <1>i, TreeNodes DEF Places
<1>6. /\ \A n \in Nodes : next[n] = node[n].right
      /\ \A n \in Nodes : n \notin stop => next[n] # NULL
      /\ \A n \in stop : next[n] = NULL
      /\ stop \subseteq Nodes
  OBVIOUS
<1> HIDE DEF from, Rec, stop, next, rank
<1>7. /\ N + 2 \in Nat /\ \A n \in Places : rank[n] \in Nat /\ rank[n] <= N + 2
      /\ \A n \in Nodes : node[n].right \in Places /\ rank[node[n].right] < rank[n]
  <2>1. "right" \in Sides
    BY DEF Sides
  <2> QED BY <2>1, RankFalls DEF rank
<1>8. Downward(Nodes, stop, next, rank)
  BY <1>5, <1>6, <1>7 DEF Downward, Places
<1>9. Descends(from, Nodes, stop, next)
  <2>1. \E f : Descends(f, Nodes, stop, next)
    BY <1>5, <1>7, <1>8, DescentExists
  <2>2. \E f : Rec(f)
    BY <1>4, <2>1
  <2>3. Rec(from)
    BY <1>3, <2>2, Zenon
  <2> QED BY <1>4, <2>3
<1> DEFINE G == {n \in U : hi[n] = hi[m]}
<1>11. ASSUME NEW n \in G, n \notin stop PROVE next[n] \in G
  <2>1. n \in U /\ hi[n] = hi[m] /\ n \in Nodes
    BY <1>5
  <2>2. next[n] # NULL /\ next[n] = node[n].right
    BY <1>6, <1>11, <2>1
  <2> QED BY <2>1, <2>2, FitsHeap
<1>12. G \in SUBSET Nodes /\ m \in G
  BY <1>5
<1>13. x \in G /\ x \in stop
  <2> HIDE DEF G
  <2> QED BY <1>2, <1>8, <1>9, <1>11, <1>12, DescentEnds
<1> QED BY <1>5, <1>6, <1>13

-----------------------------------------------------------------------------
(* Where an insertion starts *)

\* The tree between two operations.
Steady(h, r, U) == IsTree(h, r, U) /\ Heights(h, U, {}, {}) /\ Quiet(h, U, {}) /\ ~IsRed(h, r)

\* An empty tree.
LEMMA EmptySteady ==
  ASSUME NEW h \in Heap
  PROVE  Steady(h, NULL, {})
<1> DEFINE z == [n \in Nodes |-> 0]
           bh == [n \in Places |-> 1]
<1>1. Measures({}, 0, z, z, z)
  BY DEF Measures
<1>2. Shape(Field(h, "left"), Field(h, "right"), Field(h, "par"), {}, 0, NULL, z, z, z)
  BY <1>1 DEF Shape, Rooted
<1>3. Placed({}, 0, z) /\ Sorted({}, z, Field(h, "kv"))
  <2>1. Placed({}, 0, z)
    BY DEF Placed
  <2>2. Sorted({}, z, Field(h, "kv"))
    BY DEF Sorted
  <2> QED BY <2>1, <2>2
<1>4. IsTree(h, NULL, {})
  <2> HIDE DEF z
  <2> QED BY <1>2, <1>3 DEF IsTree, Tree
<1>5. Balanced(Field(h, "left"), Field(h, "right"), Field(h, "color"), {}, bh, {}, {})
  BY DEF Balanced, Places
<1>6. Heights(h, {}, {}, {})
  <2> HIDE DEF bh
  <2> QED BY <1>5 DEF Heights
<1>7. Quiet(h, {}, {})
  BY DEF Quiet, Calm
<1> QED BY <1>4, <1>6, <1>7 DEF Steady, IsRed

\* h with x as the only node.
Planted(h, hh, x, e) ==
  hh = [h EXCEPT ![x] = [Unused EXCEPT !.kv = e, !.color = "BLACK"]]

\* The first node of a tree.
LEMMA RootPlanted ==
  ASSUME NEW h \in Heap, NEW x \in Nodes, NEW e \in Int \X Int,
         NEW hh, Planted(h, hh, x, e)
  PROVE  Steady(hh, x, {x}) /\ hh[x].kv = e
<1> DEFINE o == [n \in Nodes |-> 1]
           bh == [n \in Places |-> IF n = NULL THEN 1 ELSE 2]
           A == Field(hh, "left")
           B == Field(hh, "right")
           P == Field(hh, "par")
           C == Field(hh, "color")
<1>1. /\ hh \in Heap
      /\ A[x] = NULL /\ B[x] = NULL /\ P[x] = NULL /\ C[x] = "BLACK" /\ hh[x].kv = e /\ hh[x].color = "BLACK"
      /\ x # NULL /\ x \in Places /\ NULL \in Places
  <2> DEFINE w == [Unused EXCEPT !.kv = e, !.color = "BLACK"]
  <2>1. /\ w.kv = e /\ w.par = NULL /\ w.left = NULL /\ w.right = NULL /\ w.color = "BLACK"
        /\ w \in [kv : Int \X Int, par : Places, left : Places, right : Places, color : Colors]
    BY DEF Unused, Places, Colors
  <2> HIDE DEF w
  <2>2. hh = [h EXCEPT ![x] = w]
    BY DEF w, Planted
  <2>3. hh[x] = w /\ hh \in Heap
    BY <2>1, <2>2 DEF Heap
  <2>4. x # NULL /\ x \in Places /\ NULL \in Places
    BY DEF Nodes, NULL, Places
  <2>5. A[x] = hh[x].left /\ B[x] = hh[x].right /\ P[x] = hh[x].par /\ C[x] = hh[x].color
    BY DEF Field
  <2> HIDE DEF A, B, P, C
  <2> QED BY <2>1, <2>3, <2>4, <2>5
<1> HIDE DEF A, B, P, C
<1>2. Shape(A, B, P, {x}, 1, x, o, o, o)
  <2>1. Measures({x}, 1, o, o, o)
    BY DEF Measures
  <2>2. Fits(A, B, P, {x}, 1, o, o, o, x)
    BY <1>1 DEF Fits
  <2>3. Rooted(P, {x}, 1, x, o, o)
    BY <1>1 DEF Rooted
  <2>4. Hangs(A, B, P, {x}, x, x)
    BY DEF Hangs
  <2> HIDE DEF o
  <2> QED BY <2>1, <2>2, <2>3, <2>4 DEF Shape
<1>3. Placed({x}, 1, o) /\ Sorted({x}, o, Field(hh, "kv"))
  <2>1. Placed({x}, 1, o)
    BY DEF Placed
  <2>2. Sorted({x}, o, Field(hh, "kv"))
    BY DEF Sorted
  <2> QED BY <2>1, <2>2
<1>4. IsTree(hh, x, {x})
  <2> HIDE DEF o
  <2> QED BY <1>1, <1>2, <1>3 DEF IsTree, Tree, A, B, P
<1>5. Balanced(A, B, C, {x}, bh, {}, {})
  <2>1. bh \in [Places -> Int] /\ bh[NULL] = 1 /\ bh[x] = 2
    BY <1>1
  <2> HIDE DEF bh
  <2>2. Even(A, B, C, bh, {}, x)
    BY <1>1, <2>1 DEF Even, Due
  <2> QED BY <2>1, <2>2 DEF Balanced
<1>6. Heights(hh, {x}, {}, {})
  <2> HIDE DEF bh
  <2> QED BY <1>5 DEF Heights, A, B, C
<1>7. Quiet(hh, {x}, {})
  BY <1>1 DEF Quiet, Calm, A, B, C
<1> QED BY <1>1, <1>4, <1>6, <1>7 DEF Steady, IsRed

\* h with the new leaf x on side d of p.
Grafted(h, hh, x, p, d, e) ==
  hh = [h EXCEPT ![x] = [Unused EXCEPT !.kv = e, !.par = p], ![p][d] = x]

\* What rbtree_insert assigns when it hangs a new node under a leaf.
LEMMA GraftFields ==
  ASSUME NEW h \in Heap, NEW a, NEW b, Facing(a, b), NEW x \in Nodes, NEW p \in Nodes, x # p,
         NEW e \in Int \X Int, NEW hh, Grafted(h, hh, x, p, a, e)
  PROVE  /\ hh \in Heap
         /\ \A n \in Nodes :
              /\ Field(hh, a)[n] = IF n = x THEN NULL ELSE IF n = p THEN x ELSE Field(h, a)[n]
              /\ Field(hh, b)[n] = IF n = x THEN NULL ELSE Field(h, b)[n]
              /\ Field(hh, "par")[n] = IF n = x THEN p ELSE Field(h, "par")[n]
              /\ Field(hh, "color")[n] = IF n = x THEN "RED" ELSE Field(h, "color")[n]
              /\ Field(hh, "kv")[n] = IF n = x THEN e ELSE Field(h, "kv")[n]
<1> DEFINE w == [Unused EXCEPT !.kv = e, !.par = p]
<1>1. /\ w.kv = e /\ w.par = p /\ w.left = NULL /\ w.right = NULL /\ w.color = "RED"
      /\ w \in [kv : Int \X Int, par : Places, left : Places, right : Places, color : Colors]
  BY DEF Unused, Places, Colors
<1> HIDE DEF w
<1>2. CASE a = "left" /\ b = "right"
  <2>0. hh = [h EXCEPT ![x] = w, ![p].left = x]
    BY <1>2 DEF Grafted, w
  <2>1. hh \in Heap
    BY <1>1, <2>0 DEF Heap, Places
  <2>2. \A n \in Nodes : /\ hh[n].left = IF n = x THEN NULL ELSE IF n = p THEN x ELSE h[n].left
                         /\ hh[n].right = IF n = x THEN NULL ELSE h[n].right
                         /\ hh[n].par = IF n = x THEN p ELSE h[n].par
                         /\ hh[n].color = IF n = x THEN "RED" ELSE h[n].color
                         /\ hh[n].kv = IF n = x THEN e ELSE h[n].kv
    BY <1>1, <2>0 DEF Heap
  <2> QED BY <1>2, <2>1, <2>2 DEF Field
<1>3. CASE a = "right" /\ b = "left"
  <2>0. hh = [h EXCEPT ![x] = w, ![p].right = x]
    BY <1>3 DEF Grafted, w
  <2>1. hh \in Heap
    BY <1>1, <2>0 DEF Heap, Places
  <2>2. \A n \in Nodes : /\ hh[n].right = IF n = x THEN NULL ELSE IF n = p THEN x ELSE h[n].right
                         /\ hh[n].left = IF n = x THEN NULL ELSE h[n].left
                         /\ hh[n].par = IF n = x THEN p ELSE h[n].par
                         /\ hh[n].color = IF n = x THEN "RED" ELSE h[n].color
                         /\ hh[n].kv = IF n = x THEN e ELSE h[n].kv
    BY <1>1, <2>0 DEF Heap
  <2> QED BY <1>3, <2>1, <2>2 DEF Field
<1> QED BY <1>2, <1>3 DEF Facing

\* No place is lost in a mirror.
LEMMA PlacedMirror ==
  ASSUME NEW U, NEW N \in Nat, NEW pos, Placed(U, N, pos), U \subseteq Nodes
  PROVE  Placed(U, N, Flip(N, pos))
<1>1. \A n \in U : /\ Flip(N, pos)[n] = N + 1 - pos[n] /\ pos[n] \in Int
                   /\ 1 <= pos[n] /\ pos[n] <= N
  BY DEF Flip, Placed
<1>2. \A n \in U : Flip(N, pos)[n] \in 1 .. N
  BY <1>1
<1>3. \A m, n \in U : Flip(N, pos)[m] = Flip(N, pos)[n] => m = n
  BY <1>1, SMTT(60), ZenonT(60) DEF Placed
<1>4. ASSUME NEW i \in 1 .. N PROVE \E n \in U : Flip(N, pos)[n] = i
  <2>1. N + 1 - i \in 1 .. N
    OBVIOUS
  <2>2. PICK n \in U : pos[n] = N + 1 - i
    BY <2>1 DEF Placed
  <2> QED BY <1>1, <2>2
<1> QED BY <1>2, <1>3, <1>4 DEF Placed

\* The tree with a new leaf, from either side.
LEMMA GraftTree ==
  ASSUME NEW h, NEW r, NEW U, NEW N, NEW pos, NEW lo, NEW hi, Tree(h, r, U, N, pos, lo, hi),
         NEW a, NEW b, Facing(a, b), NEW p \in U, h[p][a] = NULL, NEW x \in Nodes \ U,
         NEW e \in Int \X Int, NEW hh, Grafted(h, hh, x, p, a, e),
         NEW q, q = IF a = "left" THEN pos[p] ELSE pos[p] + 1,
         Belongs(U, pos, Field(h, "kv"), q, e[1])
  PROVE  IsTree(hh, r, U \cup {x})
<1> DEFINE A == Field(h, a)
           B == Field(h, b)
           P == Field(h, "par")
           A1 == Field(hh, a)
           B1 == Field(hh, b)
           P1 == Field(hh, "par")
           V == U \cup {x}
<1>1. /\ h \in Heap /\ Placed(U, N, pos) /\ Sorted(U, pos, Field(h, "kv"))
      /\ Shape(Field(h, "left"), Field(h, "right"), P, U, N, r, pos, lo, hi)
  BY DEF Tree
<1>2. Measures(U, N, pos, lo, hi) /\ U \subseteq Nodes /\ N \in Nat /\ p \in Nodes /\ x # p
      /\ pos[p] \in Int /\ \A n \in U : pos[n] \in Int
  BY <1>1 DEF Shape, Measures
<1>3. A \in Links /\ B \in Links /\ P \in Links
  BY <1>1, HeapView, ViewTypes
<1>4. A[p] = NULL
  BY <1>2 DEF Field
<1>5. /\ hh \in Heap /\ GraftLinks(A, B, A1, B1, x, p) /\ GraftParents(P, P1, x, p)
      /\ Kept(Field(h, "kv"), Field(hh, "kv"), U, x) /\ Field(hh, "kv")[x] = e
  <2>1. /\ hh \in Heap
        /\ \A n \in Nodes :
              /\ A1[n] = IF n = x THEN NULL ELSE IF n = p THEN x ELSE A[n]
              /\ B1[n] = IF n = x THEN NULL ELSE B[n]
              /\ P1[n] = IF n = x THEN p ELSE P[n]
              /\ Field(hh, "kv")[n] = IF n = x THEN e ELSE Field(h, "kv")[n]
    BY <1>1, <1>2, GraftFields
  <2> HIDE DEF A, B, P, A1, B1, P1
  <2> QED BY <1>2, <2>1 DEF GraftLinks, GraftParents, Kept
<1> HIDE DEF A, B, P, A1, B1, P1
<1>6. Belongs(U, pos, Field(h, "kv"), q, Field(hh, "kv")[x][1])
  BY <1>5
<1>7. q \in 1 .. N + 1
  BY <1>1, <1>2 DEF Placed
<1>8. CASE a = "left" /\ b = "right"
  <2>1. Shape(A, B, P, U, N, r, pos, lo, hi)
    BY <1>1, <1>8 DEF A, B, P
  <2>2. PICK pos1, lo1, hi1 : /\ Shape(A1, B1, P1, V, N + 1, r, pos1, lo1, hi1)
                              /\ Opened(U, x, pos[p], pos, pos1)
    BY <1>1, <1>3, <1>4, <1>5, <2>1, GraftShape
  <2>3. Opened(U, x, q, pos, pos1)
    BY <1>8, <2>2
  <2>4. Placed(V, N + 1, pos1) /\ Sorted(V, pos1, Field(hh, "kv"))
    BY <1>1, <1>2, <1>5, <1>6, <1>7, <2>3, OrderOpened
  <2>5. Tree(hh, r, V, N + 1, pos1, lo1, hi1)
    BY <1>5, <1>8, <2>2, <2>4 DEF Tree, A1, B1, P1
  <2> QED BY <2>5 DEF IsTree
<1>9. CASE a = "right" /\ b = "left"
  <2> DEFINE f == Flip(N, pos)
             fl == Flip(N, hi)
             fh == Flip(N, lo)
  <2>1. Shape(A, B, P, U, N, r, f, fl, fh)
    BY <1>1, <1>9, ShapeMirror DEF A, B, P
  <2>2. Placed(U, N, f)
    BY <1>1, <1>2, PlacedMirror
  <2>3. \A n \in U : f[n] = N + 1 - pos[n]
    BY <1>2 DEF Flip
  <2> HIDE DEF f, fl, fh
  <2>4. PICK p1, l1, h1 : /\ Shape(A1, B1, P1, V, N + 1, r, p1, l1, h1)
                          /\ Opened(U, x, f[p], f, p1)
    BY <1>1, <1>3, <1>4, <1>5, <2>1, <2>2, GraftShape, ZenonT(60), SMTT(60)
  <2> DEFINE pos1 == Flip(N + 1, p1)
  <2>5. Shape(B1, A1, P1, V, N + 1, r, pos1, Flip(N + 1, h1), Flip(N + 1, l1))
    BY <2>4, ShapeMirror
  <2>6. pos1[x] = N + 2 - p1[x] /\ \A n \in U : pos1[n] = N + 2 - p1[n]
    <3>1. \A n \in V : n \in Nodes /\ p1[n] \in Int
      BY <1>2, <2>4 DEF Shape, Measures
    <3>2. \A n \in Nodes : pos1[n] = N + 1 + 1 - p1[n]
      BY DEF Flip
    <3> HIDE DEF pos1
    <3> QED BY <1>2, <3>1, <3>2
  <2> HIDE DEF pos1
  <2>7. Opened(U, x, q, pos, pos1)
    <3>1. p1[x] = N + 1 - pos[p]
      BY <2>3, <2>4 DEF Opened
    <3>2. \A n \in U : p1[n] = IF N + 1 - pos[n] >= N + 1 - pos[p] THEN N + 2 - pos[n] ELSE N + 1 - pos[n]
      BY <1>2, <2>3, <2>4 DEF Opened
    <3>3. pos1[x] = q
      BY <1>2, <1>9, <2>6, <3>1
    <3>4. \A n \in U : pos1[n] = IF pos[n] >= q THEN pos[n] + 1 ELSE pos[n]
      BY <1>2, <1>9, <2>6, <3>2
    <3> QED BY <3>3, <3>4 DEF Opened
  <2>8. Placed(V, N + 1, pos1) /\ Sorted(V, pos1, Field(hh, "kv"))
    BY <1>1, <1>2, <1>5, <1>6, <1>7, <2>7, OrderOpened
  <2>9. Tree(hh, r, V, N + 1, pos1, Flip(N + 1, h1), Flip(N + 1, l1))
    BY <1>5, <1>9, <2>5, <2>8 DEF Tree, A1, B1, P1
  <2> QED BY <2>9 DEF IsTree
<1> QED BY <1>8, <1>9 DEF Facing

\* A red leaf at the place that the descent found.
LEMMA LeafPlanted ==
  ASSUME NEW U, Steady(node, head, U), Spare(node, U), head # NULL, NEW x \in Nodes \ U,
         NEW e \in Int \X Int, NEW p, p = Leaf(e[1]),
         NEW hh, Grafted(node, hh, x, p, Toward(p, e[1]), e)
  PROVE  /\ IsTree(hh, head, U \cup {x}) /\ Heights(hh, U \cup {x}, {}, {})
         /\ Quiet(hh, U \cup {x}, {x}) /\ ~IsRed(hh, head)
         /\ Field(hh, "kv")[x] = e /\ Kept(Field(node, "kv"), Field(hh, "kv"), U, x)
<1> DEFINE k == e[1]
           a == Toward(p, k)
           b == Other(a)
<1>1. /\ IsTree(node, head, U) /\ Heights(node, U, {}, {}) /\ Quiet(node, U, {}) /\ ~IsRed(node, head)
      /\ k \in Int
  BY DEF Steady
<1>2. PICK N, pos, lo, hi : Tree(node, head, U, N, pos, lo, hi)
  BY <1>1 DEF IsTree
<1>3. /\ p \in U /\ a \in Sides /\ node[p][a] = NULL
      /\ \A m \in U : pos[m] < lo[p] => node[m].kv[1] <= k
      /\ \A m \in U : pos[m] > hi[p] => k <= node[m].kv[1]
  BY <1>1, <1>2, LeafPlace
<1>4. Facing(a, b)
  BY <1>3 DEF Facing, Sides, Other
<1>5. a = (IF node[p].kv[1] < k THEN "right" ELSE "left")
  BY DEF Toward
<1> HIDE DEF a, b
<1>6. U \subseteq Nodes /\ p \in Nodes /\ x # p /\ head \in U /\ head # x /\ node \in Heap
  BY <1>1, <1>3, TreeNodes
<1> DEFINE q == IF a = "left" THEN pos[p] ELSE pos[p] + 1
<1>7. Belongs(U, pos, Field(node, "kv"), q, k)
  <2> SUFFICES ASSUME NEW n \in U
               PROVE  /\ pos[n] < q => Field(node, "kv")[n][1] <= k
                      /\ pos[n] >= q => k <= Field(node, "kv")[n][1]
    BY DEF Belongs
  <2>1. Field(node, "kv")[n] = node[n].kv
    BY <1>6 DEF Field
  <2>2. /\ node[n].kv[1] \in Int /\ node[p].kv[1] \in Int
        /\ pos[n] <= pos[p] => node[n].kv[1] <= node[p].kv[1]
        /\ pos[p] <= pos[n] => node[p].kv[1] <= node[n].kv[1]
    BY <1>2, <1>3, KeyOrder
  <2>3. /\ pos[n] \in Int /\ pos[p] \in Int /\ lo[p] \in Int /\ hi[p] \in Int
        /\ node[p].left = NULL => lo[p] = pos[p]
        /\ node[p].right = NULL => hi[p] = pos[p]
    BY <1>2, <1>3, FitsHeap
  <2>4. CASE a = "left"
    <3>1. node[p].left = NULL /\ ~(node[p].kv[1] < k) /\ q = pos[p]
      BY <1>3, <1>5, <2>4
    <3> QED BY <1>1, <1>3, <2>1, <2>2, <2>3, <3>1
  <2>5. CASE a = "right"
    <3>1. node[p].right = NULL /\ node[p].kv[1] < k /\ q = pos[p] + 1
      BY <1>3, <1>5, <2>5
    <3> QED BY <1>1, <1>3, <2>1, <2>2, <2>3, <3>1
  <2> QED BY <1>3, <2>4, <2>5 DEF Sides
<1>8. Grafted(node, hh, x, p, a, e)
  BY DEF a
<1>9. IsTree(hh, head, U \cup {x})
  <2> HIDE DEF q
  <2>1. q = IF a = "left" THEN pos[p] ELSE pos[p] + 1
    BY DEF q
  <2> QED BY <1>2, <1>3, <1>4, <1>7, <1>8, <2>1, GraftTree
<1>10. /\ GraftLinks(Field(node, a), Field(node, b), Field(hh, a), Field(hh, b), x, p)
       /\ GraftColors(Field(node, "color"), Field(hh, "color"), x)
       /\ Kept(Field(node, "kv"), Field(hh, "kv"), U, x) /\ Field(hh, "kv")[x] = e
  <2>1. \A n \in Nodes :
              /\ Field(hh, a)[n] = IF n = x THEN NULL ELSE IF n = p THEN x ELSE Field(node, a)[n]
              /\ Field(hh, b)[n] = IF n = x THEN NULL ELSE Field(node, b)[n]
              /\ Field(hh, "color")[n] = IF n = x THEN "RED" ELSE Field(node, "color")[n]
              /\ Field(hh, "kv")[n] = IF n = x THEN e ELSE Field(node, "kv")[n]
    BY <1>4, <1>6, <1>8, GraftFields
  <2> QED BY <1>6, <2>1 DEF GraftLinks, GraftColors, Kept
<1>11. PICK bh : Balanced(Field(node, a), Field(node, b), Field(node, "color"), U, bh, {}, {})
  BY <1>1, <1>4, HeightsFrom
<1>12. Calm(Field(node, a), Field(node, b), Field(node, "color"), U, {})
  BY <1>1, <1>4, HeightsFrom
<1>13. Family(Field(node, a), Field(node, b), Field(node, "par"), U)
  BY <1>2, <1>4, TreeFamily
<1>14. Field(node, a)[p] = NULL
  BY <1>3, <1>6 DEF Field
<1>15. \E bh1 : /\ Balanced(Field(hh, a), Field(hh, b), Field(hh, "color"), U \cup {x}, bh1, {}, {})
                /\ Calm(Field(hh, a), Field(hh, b), Field(hh, "color"), U \cup {x}, {x})
  BY <1>3, <1>10, <1>11, <1>12, <1>13, <1>14, GraftBalance
<1>16. Heights(hh, U \cup {x}, {}, {}) /\ Quiet(hh, U \cup {x}, {x})
  BY <1>4, <1>15, HeightsFrom
<1>17. ~IsRed(hh, head)
  <2>1. Field(hh, "color")[head] = Field(node, "color")[head]
    BY <1>6, <1>10 DEF GraftColors
  <2> QED BY <1>1, <1>6, <2>1 DEF IsRed, Field
<1> QED BY <1>9, <1>10, <1>16, <1>17

-----------------------------------------------------------------------------
(* Where a deletion starts *)

\* n->key and n->value are written.
Rewritten(h, hh, n, w) == hh = [h EXCEPT ![n].kv = w]

\* hh has the links and the colours of h.
SameLinks(h, hh) ==
  /\ Field(hh, "left") = Field(h, "left") /\ Field(hh, "right") = Field(h, "right")
  /\ Field(hh, "par") = Field(h, "par") /\ Field(hh, "color") = Field(h, "color")

\* The key of a neighbour fits the place of t.
LEMMA SortedCopy ==
  ASSUME NEW U, NEW N \in Nat, NEW pos, NEW K, NEW K1, Placed(U, N, pos), Sorted(U, pos, K),
         NEW t \in U, NEW m \in U, pos[m] = pos[t] - 1 \/ pos[m] = pos[t] + 1,
         \A n \in U : K[n][1] \in Int,
         K1[t][1] = K[m][1], \A n \in U \ {t} : K1[n][1] = K[n][1]
  PROVE  Sorted(U, pos, K1)
<1>1. \A n \in U : pos[n] \in Int
  BY DEF Placed
<1>2. \A i, j \in U : pos[i] <= pos[j] => K[i][1] <= K[j][1]
  BY <1>1 DEF Placed, Sorted
<1> SUFFICES ASSUME NEW i \in U, NEW j \in U, pos[i] < pos[j] PROVE K1[i][1] <= K1[j][1]
  BY DEF Sorted
<1>3. CASE i = t
  <2>1. pos[m] <= pos[j] /\ j # t
    BY <1>1, <1>3
  <2> QED BY <1>2, <1>3, <2>1
<1>4. CASE j = t
  <2>1. pos[i] <= pos[m] /\ i # t
    BY <1>1, <1>4
  <2> QED BY <1>2, <1>4, <2>1
<1>5. CASE i # t /\ j # t
  BY <1>1, <1>2, <1>5
<1> QED BY <1>3, <1>4, <1>5

\* What one such assignment leaves alone.
LEMMA RewrittenFields ==
  ASSUME NEW h \in Heap, NEW t \in Nodes, NEW w \in Int \X Int, NEW hh, Rewritten(h, hh, t, w)
  PROVE  /\ hh \in Heap /\ SameLinks(h, hh)
         /\ Field(hh, "kv")[t] = w
         /\ \A n \in Nodes \ {t} : Field(hh, "kv")[n] = Field(h, "kv")[n]
<1>1. hh \in Heap
  BY DEF Heap, Rewritten
<1>2. \A n \in Nodes : /\ hh[n].left = h[n].left /\ hh[n].right = h[n].right
                       /\ hh[n].par = h[n].par /\ hh[n].color = h[n].color
                       /\ hh[n].kv = IF n = t THEN w ELSE h[n].kv
  BY DEF Heap, Rewritten
<1>3. SameLinks(h, hh)
  BY <1>2 DEF SameLinks, Field
<1> QED BY <1>1, <1>2, <1>3 DEF Field

\* The same links make the same tree.
LEMMA SameSteady ==
  ASSUME NEW h, NEW r, NEW U, NEW N, NEW pos, NEW lo, NEW hi, Tree(h, r, U, N, pos, lo, hi),
         NEW X, NEW S, NEW Y, Heights(h, U, X, S), Quiet(h, U, Y), ~IsRed(h, r),
         NEW hh \in Heap, SameLinks(h, hh), Sorted(U, pos, Field(hh, "kv"))
  PROVE  /\ Tree(hh, r, U, N, pos, lo, hi) /\ Heights(hh, U, X, S) /\ Quiet(hh, U, Y) /\ ~IsRed(hh, r)
         /\ \A n \in Nodes : /\ hh[n].left = h[n].left /\ hh[n].right = h[n].right
                             /\ hh[n].par = h[n].par /\ hh[n].color = h[n].color
<1>1. Tree(hh, r, U, N, pos, lo, hi)
  BY DEF Tree, SameLinks
<1>2. Heights(hh, U, X, S)
  BY DEF Heights, SameLinks
<1>3. Quiet(hh, U, Y)
  BY DEF Quiet, SameLinks
<1>4. \A n \in Nodes : /\ hh[n].left = h[n].left /\ hh[n].right = h[n].right
                       /\ hh[n].par = h[n].par /\ hh[n].color = h[n].color
  <2>1. \A n \in Nodes : /\ Field(h, "left")[n] = h[n].left /\ Field(hh, "left")[n] = hh[n].left
                         /\ Field(h, "right")[n] = h[n].right /\ Field(hh, "right")[n] = hh[n].right
                         /\ Field(h, "par")[n] = h[n].par /\ Field(hh, "par")[n] = hh[n].par
                         /\ Field(h, "color")[n] = h[n].color /\ Field(hh, "color")[n] = hh[n].color
    BY DEF Field
  <2> QED BY <2>1 DEF SameLinks
<1>5. r # NULL => r \in Nodes
  BY DEF Tree, Shape, Rooted, Measures
<1>6. ~IsRed(hh, r)
  BY <1>4, <1>5 DEF IsRed
<1> QED BY <1>1, <1>2, <1>3, <1>4, <1>6

\* One entry is overwritten with the key of its neighbour.
LEMMA RewrittenTree ==
  ASSUME NEW h, NEW r, NEW U, NEW N, NEW pos, NEW lo, NEW hi, Tree(h, r, U, N, pos, lo, hi),
         Heights(h, U, {}, {}), Quiet(h, U, {}), ~IsRed(h, r),
         NEW t \in U, NEW m \in U, pos[m] = pos[t] - 1 \/ pos[m] = pos[t] + 1,
         NEW w \in Int \X Int, w[1] = h[m].kv[1], NEW hh, Rewritten(h, hh, t, w)
  PROVE  /\ Tree(hh, r, U, N, pos, lo, hi) /\ Heights(hh, U, {}, {}) /\ Quiet(hh, U, {}) /\ ~IsRed(hh, r)
         /\ \A n \in Nodes : /\ hh[n].left = h[n].left /\ hh[n].right = h[n].right
                             /\ hh[n].par = h[n].par /\ hh[n].color = h[n].color
         /\ hh[t].kv = w /\ \A n \in Nodes \ {t} : hh[n].kv = h[n].kv
<1>1. /\ h \in Heap /\ Placed(U, N, pos) /\ Sorted(U, pos, Field(h, "kv"))
      /\ U \subseteq Nodes /\ N \in Nat /\ t \in Nodes /\ m \in Nodes
  BY DEF Tree, Shape, Measures
<1>2. \A n \in U : Field(h, "kv")[n][1] \in Int
  BY <1>1 DEF Heap, Field
<1>3. /\ hh \in Heap /\ SameLinks(h, hh)
      /\ Field(hh, "kv")[t] = w
      /\ \A n \in Nodes \ {t} : Field(hh, "kv")[n] = Field(h, "kv")[n]
  BY <1>1, RewrittenFields
<1>4. Field(hh, "kv")[t][1] = Field(h, "kv")[m][1]
  BY <1>1, <1>3 DEF Field
<1>5. \A n \in U \ {t} : Field(hh, "kv")[n][1] = Field(h, "kv")[n][1]
  BY <1>1, <1>3
<1>6. Sorted(U, pos, Field(hh, "kv"))
  BY <1>1, <1>2, <1>4, <1>5, SortedCopy
<1>7. hh[t].kv = w /\ \A n \in Nodes \ {t} : hh[n].kv = h[n].kv
  BY <1>1, <1>3 DEF Field
<1>8. /\ Tree(hh, r, U, N, pos, lo, hi) /\ Heights(hh, U, {}, {}) /\ Quiet(hh, U, {}) /\ ~IsRed(hh, r)
      /\ \A n \in Nodes : /\ hh[n].left = h[n].left /\ hh[n].right = h[n].right
                          /\ hh[n].par = h[n].par /\ hh[n].color = h[n].color
  BY <1>3, <1>6, SameSteady
<1> QED BY <1>7, <1>8

\* Any leaf of a balanced tree may be given up.
LEMMA LeafGivenUp ==
  ASSUME NEW h, NEW r, NEW U, Steady(h, r, U), NEW x \in U, Childless(h, x)
  PROVE  /\ h[x].color = "BLACK" => Short(h, r, U, x, x)
         /\ h[x].color # "BLACK" => Pruning(h, r, U, x)
<1> DEFINE A == Field(h, "left")
           B == Field(h, "right")
           P == Field(h, "par")
           C == Field(h, "color")
           S == IF C[x] = "BLACK" THEN {x} ELSE {}
<1>1. IsTree(h, r, U) /\ Heights(h, U, {}, {}) /\ Quiet(h, U, {}) /\ ~IsRed(h, r)
  BY DEF Steady
<1>2. PICK N, pos, lo, hi : Tree(h, r, U, N, pos, lo, hi)
  BY <1>1 DEF IsTree
<1>3. h \in Heap /\ U \subseteq Nodes /\ x \in Nodes
  BY <1>1, TreeNodes
<1>4. Family(A, B, P, U)
  BY <1>2, TreeFamily DEF Facing
<1>5. PICK bh : Balanced(A, B, C, U, bh, {}, {})
  BY <1>1 DEF Heights
<1>6. C \in [Nodes -> Colors] /\ A[x] = NULL /\ B[x] = NULL /\ C[x] = h[x].color
  BY <1>3 DEF Field, Heap, Childless
<1>7. \E bh1 : Balanced(A, B, C, U, bh1, {x}, S)
  <2>1. S = IF C[x] = "BLACK" THEN {x} ELSE {}
    OBVIOUS
  <2> HIDE DEF A, B, P, C, S
  <2> QED BY <1>4, <1>5, <1>6, <2>1, DropBalance
<1>8. Heights(h, U, {x}, S)
  <2> HIDE DEF S
  <2> QED BY <1>7 DEF Heights
<1>9. Under(h, r, U, x, x)
  <2>1. lo[x] <= pos[x] /\ pos[x] <= hi[x]
    BY <1>2, FitsHeap
  <2> QED BY <1>2, <2>1 DEF Under
<1>10. CASE h[x].color = "BLACK"
  <2>1. S = {x}
    BY <1>6, <1>10
  <2>2. ~IsRed(h, x)
    BY <1>10 DEF IsRed
  <2> HIDE DEF S
  <2> QED BY <1>1, <1>8, <1>9, <1>10, <2>1, <2>2 DEF Short
<1>11. CASE h[x].color # "BLACK"
  <2>1. S = {}
    BY <1>6, <1>11
  <2> HIDE DEF S
  <2> QED BY <1>1, <1>8, <1>11, <2>1 DEF Pruning
<1> QED BY <1>10, <1>11

\* The key of m is the last one that is not behind the key of t.
Before(h, U, m, t) ==
  /\ h[m].kv[1] <= h[t].kv[1]
  /\ \A n \in U \ {t} : h[n].kv[1] < h[t].kv[1] => h[n].kv[1] <= h[m].kv[1]

\* What a deletion of the entry of t writes before the node x goes.
Vacating(h, hh, U, t, x) ==
  \/ x = t /\ hh = h
  \/ x # t /\ hh[t].kv = h[x].kv /\ \A n \in U \ {t, x} : hh[n].kv = h[n].kv
  \/ \E m \in U \ {t} : /\ Before(h, U, m, t) /\ x # t
                        /\ hh[t].kv = <<h[m].kv[1], h[t].kv[2]>>
                        /\ x # m => hh[m].kv = h[x].kv
                        /\ \A n \in U \ {t, m, x} : hh[n].kv = h[n].kv

\* The node at the next place to the left has the key in front.
LEMMA PlaceBefore ==
  ASSUME NEW h, NEW r, NEW U, NEW N, NEW pos, NEW lo, NEW hi, Tree(h, r, U, N, pos, lo, hi),
         NEW m \in U, NEW t \in U, pos[m] = pos[t] - 1
  PROVE  Before(h, U, m, t)
<1>1. \A n \in U : pos[n] \in Int
  BY FitsHeap
<1>2. /\ \A n \in U : h[n].kv[1] \in Int
      /\ \A i, j \in U : pos[i] <= pos[j] => h[i].kv[1] <= h[j].kv[1]
  BY KeyOrder
<1>3. Placed(U, N, pos)
  BY DEF Tree
<1>4. ASSUME NEW n \in U \ {t}, h[n].kv[1] < h[t].kv[1] PROVE h[n].kv[1] <= h[m].kv[1]
  <2>1. pos[n] <= pos[m]
    BY <1>1, <1>2, <1>4
  <2> QED BY <1>2, <2>1
<1>5. h[m].kv[1] <= h[t].kv[1]
  BY <1>1, <1>2
<1> QED BY <1>4, <1>5 DEF Before

\* The tree is as sound with what was copied upwards, and x is a leaf.
LEMMA VacatedSteady ==
  ASSUME NEW U, Steady(node, head, U), Spare(node, U), NEW t \in U,
         NEW x, x = Vacated(t).del, NEW hh, hh = Vacated(t).heap
  PROVE  /\ Steady(hh, head, U) /\ x \in U /\ Childless(hh, x) /\ SameLinks(node, hh) /\ hh \in Heap
         /\ Vacating(node, hh, U, t, x) /\ \A n \in Nodes \ U : hh[n] = node[n]
<1>1. IsTree(node, head, U) /\ Heights(node, U, {}, {}) /\ Quiet(node, U, {}) /\ ~IsRed(node, head)
  BY DEF Steady
<1>2. PICK N, pos, lo, hi : Tree(node, head, U, N, pos, lo, hi)
  BY <1>1 DEF IsTree
<1>3. node \in Heap /\ U \subseteq Nodes /\ t \in Nodes
  BY <1>1, TreeNodes
<1>4. \A n \in U : node[n].kv \in Int \X Int /\ n \in Nodes /\ n # NULL
  BY <1>1, <1>3, TreeNodes DEF Heap, NULL
<1>5. \A n \in U : pos[n] \in Int /\ lo[n] \in Int /\ hi[n] \in Int
  BY <1>2, FitsHeap
<1>6. ASSUME NEW a, NEW b, Facing(a, b), NEW n \in U, node[n][a] = NULL, node[n][b] # NULL
      PROVE  node[n][b] \in U /\ Childless(node, node[n][b])
  <2> DEFINE A == Field(node, a)
             B == Field(node, b)
             P == Field(node, "par")
             C == Field(node, "color")
  <2>1. Family(A, B, P, U)
    BY <1>2, <1>6, TreeFamily
  <2>2. C \in [Nodes -> Colors]
    BY <1>3 DEF Field, Heap
  <2>3. PICK bh : Balanced(A, B, C, U, bh, {}, {})
    BY <1>1, <1>6, HeightsFrom
  <2>4. Calm(A, B, C, U, {})
    BY <1>1, <1>6, HeightsFrom
  <2>5. A[n] = NULL /\ B[n] = node[n][b]
    BY <1>3, <1>6 DEF Field
  <2>6. \A i \in Nodes : A[i] = node[i][a] /\ B[i] = node[i][b]
    BY DEF Field
  <2> HIDE DEF A, B, P, C
  <2>7. B[n] \in U /\ A[B[n]] = NULL /\ B[B[n]] = NULL
    BY <1>6, <2>1, <2>2, <2>3, <2>4, <2>5, OnlyChild
  <2> QED BY <1>3, <1>6, <2>5, <2>6, <2>7 DEF Childless, Facing
<1>7. CASE node[t].left = NULL /\ node[t].right = NULL
  <2>1. x = t /\ hh = node
    BY <1>7 DEF Vacated
  <2> QED BY <1>3, <1>7, <2>1 DEF Childless, SameLinks, Vacating
<1>8. CASE node[t].left = NULL /\ node[t].right # NULL
  <2> DEFINE w == node[x].kv
  <2>1. x = node[t].right /\ hh = [node EXCEPT ![t].kv = node[node[t].right].kv]
    BY <1>8 DEF Vacated
  <2>2. x \in U /\ Childless(node, x)
    BY <1>6, <1>8, <2>1 DEF Facing
  <2>3. Rewritten(node, hh, t, w)
    BY <2>1 DEF Rewritten
  <2>4. pos[x] = pos[t] + 1 /\ x # t
    <3>1. lo[x] = pos[t] + 1
      BY <1>2, <1>8, <2>1, FitsHeap
    <3>2. lo[x] = pos[x]
      BY <1>2, <2>2, FitsHeap DEF Childless
    <3> QED BY <1>5, <2>2, <3>1, <3>2
  <2>5. w \in Int \X Int /\ w[1] = node[x].kv[1]
    BY <1>4, <2>2
  <2> HIDE DEF w
  <2>6. /\ Tree(hh, head, U, N, pos, lo, hi) /\ Heights(hh, U, {}, {}) /\ Quiet(hh, U, {}) /\ ~IsRed(hh, head)
        /\ \A n \in Nodes : /\ hh[n].left = node[n].left /\ hh[n].right = node[n].right
        /\ hh[t].kv = w /\ \A n \in Nodes \ {t} : hh[n].kv = node[n].kv
    BY <1>1, <1>2, <2>2, <2>3, <2>4, <2>5, RewrittenTree
  <2>7. Steady(hh, head, U)
    BY <2>6 DEF Steady, IsTree
  <2>8. hh \in Heap /\ SameLinks(node, hh)
    BY <1>3, <2>3, <2>5, RewrittenFields
  <2>9. Childless(hh, x)
    BY <1>4, <2>2, <2>6 DEF Childless
  <2>10. Vacating(node, hh, U, t, x)
    <3>1. hh[t].kv = node[x].kv /\ \A n \in U \ {t, x} : hh[n].kv = node[n].kv
      BY <1>3, <2>6 DEF w
    <3> QED BY <2>4, <3>1 DEF Vacating
  <2>11. \A n \in Nodes \ U : hh[n] = node[n]
    BY <1>3, <2>3 DEF Rewritten, Heap
  <2> QED BY <2>2, <2>7, <2>8, <2>9, <2>10, <2>11
<1>9. CASE node[t].left # NULL
  <2> DEFINE l == node[t].left
             m == Rightmost(l)
             w == <<node[m].kv[1], node[t].kv[2]>>
             up == [node EXCEPT ![t].kv = w]
  <2>1. l \in U /\ hi[l] = pos[t] - 1
    BY <1>2, <1>9, FitsHeap
  <2>2. m \in U /\ node[m].right = NULL /\ hi[m] = hi[l]
    BY <1>2, <2>1, RightmostPlace
  <2>3. hi[m] = pos[m]
    BY <1>2, <2>2, FitsHeap
  <2>4. pos[m] = pos[t] - 1 /\ m # t
    BY <1>5, <2>1, <2>2, <2>3
  <2>5. w \in Int \X Int /\ w[1] = node[m].kv[1]
    BY <1>4, <2>2
  <2>6. up = [node EXCEPT ![t].kv = <<node[m].kv[1], @[2]>>]
    BY <1>3 DEF Heap
  <2>7. Rewritten(node, up, t, w)
    BY DEF Rewritten
  <2>8. /\ x = IF node[m].left = NULL THEN m ELSE node[m].left
        /\ hh = IF node[m].left = NULL THEN up ELSE [up EXCEPT ![m].kv = node[node[m].left].kv]
    <3>1. Vacated(t) = IF node[m].left = NULL
                       THEN [heap |-> up, del |-> m]
                       ELSE [heap |-> [up EXCEPT ![m].kv = node[node[m].left].kv], del |-> node[m].left]
      <4> HIDE DEF up, w
      <4> QED BY <1>9, <2>6 DEF Vacated
    <3> HIDE DEF up, m
    <3> QED BY <3>1, SMTT(60), ZenonT(60)
  <2>9. Before(node, U, m, t)
    BY <1>2, <2>2, <2>4, PlaceBefore
  <2> HIDE DEF m, l, w, up
  <2>10. /\ Tree(up, head, U, N, pos, lo, hi) /\ Heights(up, U, {}, {}) /\ Quiet(up, U, {}) /\ ~IsRed(up, head)
         /\ \A n \in Nodes : up[n].left = node[n].left /\ up[n].right = node[n].right
         /\ up[t].kv = w /\ \A n \in Nodes \ {t} : up[n].kv = node[n].kv
    BY <1>1, <1>2, <2>2, <2>4, <2>5, <2>7, RewrittenTree
  <2>11. up \in Heap /\ SameLinks(node, up)
    BY <1>3, <2>5, <2>7, RewrittenFields
  <2>12. \A n \in Nodes \ U : up[n] = node[n]
    BY <1>3, <2>7 DEF Rewritten, Heap
  <2>13. CASE node[m].left = NULL
    <3>1. x = m /\ hh = up
      BY <2>8, <2>13
    <3>2. Steady(hh, head, U)
      BY <2>10, <3>1 DEF Steady, IsTree
    <3>3. Childless(hh, x)
      BY <1>4, <2>2, <2>10, <2>13, <3>1 DEF Childless
    <3>4. Vacating(node, hh, U, t, x)
      <4>1. hh[t].kv = <<node[m].kv[1], node[t].kv[2]>> /\ \A n \in U \ {t, m, x} : hh[n].kv = node[n].kv
        BY <1>3, <2>10, <3>1 DEF w
      <4> QED BY <2>2, <2>4, <2>9, <3>1, <4>1 DEF Vacating
    <3> QED BY <2>2, <2>11, <2>12, <3>1, <3>2, <3>3, <3>4
  <2>14. CASE node[m].left # NULL
    <3>1. x = node[m].left /\ hh = [up EXCEPT ![m].kv = node[x].kv]
      BY <2>8, <2>14
    <3>2. x \in U /\ Childless(node, x)
      BY <1>6, <2>2, <2>14, <3>1 DEF Facing
    <3>3. pos[x] = pos[m] - 1 /\ x # m /\ x # t
      <4>1. hi[x] = pos[m] - 1
        BY <1>2, <2>2, <2>14, <3>1, FitsHeap
      <4>2. hi[x] = pos[x]
        BY <1>2, <3>2, FitsHeap DEF Childless
      <4> QED BY <1>5, <2>2, <2>4, <3>2, <4>1, <4>2
    <3> DEFINE z == node[x].kv
    <3>4. z \in Int \X Int /\ z[1] = up[x].kv[1]
      BY <1>4, <2>10, <3>2, <3>3
    <3>5. Rewritten(up, hh, m, z)
      BY <3>1 DEF Rewritten
    <3> HIDE DEF z
    <3>6. /\ Tree(hh, head, U, N, pos, lo, hi) /\ Heights(hh, U, {}, {}) /\ Quiet(hh, U, {}) /\ ~IsRed(hh, head)
          /\ \A n \in Nodes : hh[n].left = up[n].left /\ hh[n].right = up[n].right
          /\ hh[m].kv = z /\ \A n \in Nodes \ {m} : hh[n].kv = up[n].kv
      BY <2>2, <2>10, <3>2, <3>3, <3>4, <3>5, RewrittenTree
    <3>7. Steady(hh, head, U)
      BY <3>6 DEF Steady, IsTree
    <3>8. hh \in Heap /\ SameLinks(up, hh)
      BY <1>4, <2>2, <2>11, <3>4, <3>5, RewrittenFields
    <3>9. SameLinks(node, hh)
      BY <2>11, <3>8 DEF SameLinks
    <3>10. Childless(hh, x)
      BY <1>4, <2>10, <3>2, <3>6 DEF Childless
    <3>11. Vacating(node, hh, U, t, x)
      <4>1. hh[t].kv = <<node[m].kv[1], node[t].kv[2]>> /\ hh[m].kv = node[x].kv
        BY <1>3, <2>4, <2>10, <3>6 DEF w, z
      <4>2. \A n \in U \ {t, m, x} : hh[n].kv = node[n].kv
        BY <1>3, <2>10, <3>6
      <4> QED BY <2>2, <2>4, <2>9, <3>3, <4>1, <4>2 DEF Vacating
    <3>12. \A n \in Nodes \ U : hh[n] = node[n]
      BY <2>2, <2>11, <2>12, <3>5 DEF Rewritten, Heap
    <3> QED BY <3>2, <3>7, <3>8, <3>9, <3>10, <3>11, <3>12
  <2> QED BY <2>13, <2>14
<1> QED BY <1>7, <1>8, <1>9

-----------------------------------------------------------------------------
(* Where a deletion ends *)

\* h without the leaf x, which was on side a of p.
CutOff(h, hh, x, p, a) == hh = [Set(h, p, a, NULL) EXCEPT ![x] = Unused]

\* The fields after that.
LEMMA CutFields ==
  ASSUME NEW h \in Heap, NEW a, NEW b, Facing(a, b), NEW x \in Nodes, NEW p \in Nodes, x # p,
         NEW hh, CutOff(h, hh, x, p, a)
  PROVE  /\ hh \in Heap /\ hh[x] = Unused
         /\ \A n \in Nodes \ {x} :
              /\ Field(hh, a)[n] = IF n = p THEN NULL ELSE Field(h, a)[n]
              /\ Field(hh, b)[n] = Field(h, b)[n]
              /\ Field(hh, "par")[n] = Field(h, "par")[n]
              /\ Field(hh, "color")[n] = Field(h, "color")[n]
              /\ Field(hh, "kv")[n] = Field(h, "kv")[n]
         /\ \A n \in Nodes \ {x, p} : hh[n] = h[n]
<1>1. Unused \in [kv : Int \X Int, par : Places, left : Places, right : Places, color : Colors]
  BY DEF Unused, Places, Colors
<1>2. CASE a = "left" /\ b = "right"
  <2>0. hh = [h EXCEPT ![p].left = NULL, ![x] = Unused]
    BY <1>2 DEF CutOff, Set
  <2>1. hh \in Heap /\ hh[x] = Unused
    BY <1>1, <2>0 DEF Heap, Places
  <2>2. \A n \in Nodes \ {x} : /\ hh[n].left = IF n = p THEN NULL ELSE h[n].left
                               /\ hh[n].right = h[n].right /\ hh[n].par = h[n].par
                               /\ hh[n].color = h[n].color /\ hh[n].kv = h[n].kv
    BY <2>0 DEF Heap
  <2>3. \A n \in Nodes \ {x, p} : hh[n] = h[n]
    BY <2>0 DEF Heap
  <2> QED BY <1>2, <2>1, <2>2, <2>3 DEF Field
<1>3. CASE a = "right" /\ b = "left"
  <2>0. hh = [h EXCEPT ![p].right = NULL, ![x] = Unused]
    BY <1>3 DEF CutOff, Set
  <2>1. hh \in Heap /\ hh[x] = Unused
    BY <1>1, <2>0 DEF Heap, Places
  <2>2. \A n \in Nodes \ {x} : /\ hh[n].right = IF n = p THEN NULL ELSE h[n].right
                               /\ hh[n].left = h[n].left /\ hh[n].par = h[n].par
                               /\ hh[n].color = h[n].color /\ hh[n].kv = h[n].kv
    BY <2>0 DEF Heap
  <2>3. \A n \in Nodes \ {x, p} : hh[n] = h[n]
    BY <2>0 DEF Heap
  <2> QED BY <1>3, <2>1, <2>2, <2>3 DEF Field
<1> QED BY <1>2, <1>3 DEF Facing

\* The tree without the leaf, from either side.
LEMMA CutTree ==
  ASSUME NEW h, NEW r, NEW U, IsTree(h, r, U), NEW x \in U, x # r, Childless(h, x),
         NEW a, NEW b, Facing(a, b), NEW p \in U, h[x].par = p, h[p][a] = x,
         NEW hh \in Heap,
         PruneLinks(Field(h, a), Field(h, b), Field(h, "par"), Field(hh, a), Field(hh, b), U, x),
         Kept(Field(h, "par"), Field(hh, "par"), U, x), Kept(Field(h, "kv"), Field(hh, "kv"), U, x)
  PROVE  IsTree(hh, r, U \ {x})
<1> DEFINE A == Field(h, a)
           B == Field(h, b)
           P == Field(h, "par")
           A1 == Field(hh, a)
           B1 == Field(hh, b)
           P1 == Field(hh, "par")
           V == U \ {x}
<1>0. PICK N, pos, lo, hi : Tree(h, r, U, N, pos, lo, hi)
  BY DEF IsTree
<1>1. /\ h \in Heap /\ Placed(U, N, pos) /\ Sorted(U, pos, Field(h, "kv"))
      /\ Shape(Field(h, "left"), Field(h, "right"), P, U, N, r, pos, lo, hi)
  BY <1>0 DEF Tree
<1>2. /\ Measures(U, N, pos, lo, hi) /\ U \subseteq Nodes /\ N \in Nat /\ N - 1 \in Int
      /\ \A n \in U : pos[n] \in Int /\ n \in Nodes
  BY <1>1 DEF Shape, Measures
<1>3. A \in Links /\ B \in Links /\ P \in Links
  BY <1>1, HeapView, ViewTypes
<1>4. A[x] = NULL /\ B[x] = NULL /\ A[P[x]] = x
  <2>1. P[x] = p /\ A[p] = x
    BY <1>2 DEF Field
  <2>2. A[x] = NULL /\ B[x] = NULL
    BY <1>2 DEF Field, Childless, Facing
  <2> QED BY <2>1, <2>2
<1>5. PruneLinks(A, B, P, A1, B1, U, x) /\ Kept(P, P1, U, x)
  OBVIOUS
<1> HIDE DEF A, B, P, A1, B1, P1
<1>8. CASE a = "left" /\ b = "right"
  <2>1. Shape(A, B, P, U, N, r, pos, lo, hi)
    BY <1>1, <1>8 DEF A, B, P
  <2>2. PICK pos1, lo1, hi1 : /\ Shape(A1, B1, P1, V, N - 1, r, pos1, lo1, hi1)
                              /\ Closed(U, x, pos, pos1)
    BY <1>1, <1>3, <1>4, <1>5, <2>1, PruneShape, SMTT(60), ZenonT(60)
  <2>4. Placed(V, N - 1, pos1) /\ Sorted(V, pos1, Field(hh, "kv"))
    BY <1>1, <1>2, <2>2, OrderClosed
  <2>5. Tree(hh, r, V, N - 1, pos1, lo1, hi1)
    BY <1>8, <2>2, <2>4 DEF Tree, A1, B1, P1
  <2> QED BY <2>5 DEF IsTree
<1>9. CASE a = "right" /\ b = "left"
  <2> DEFINE f == Flip(N, pos)
             fl == Flip(N, hi)
             fh == Flip(N, lo)
  <2>1. Shape(A, B, P, U, N, r, f, fl, fh)
    BY <1>1, <1>9, ShapeMirror DEF A, B, P
  <2>2. Placed(U, N, f)
    BY <1>1, <1>2, PlacedMirror
  <2>3. \A n \in U : f[n] = N + 1 - pos[n]
    BY <1>2 DEF Flip
  <2> HIDE DEF f, fl, fh
  <2>4. PICK p1, l1, h1 : /\ Shape(A1, B1, P1, V, N - 1, r, p1, l1, h1)
                          /\ Closed(U, x, f, p1)
    BY <1>3, <1>4, <1>5, <2>1, <2>2, PruneShape
  <2> DEFINE pos1 == Flip(N - 1, p1)
  <2>5. Shape(B1, A1, P1, V, N - 1, r, pos1, Flip(N - 1, h1), Flip(N - 1, l1))
    BY <2>4, ShapeMirror
  <2>6. \A n \in V : pos1[n] = N - p1[n]
    <3>1. \A n \in V : n \in Nodes /\ p1[n] \in Int
      BY <1>2, <2>4 DEF Shape, Measures
    <3>2. \A n \in Nodes : pos1[n] = N - 1 + 1 - p1[n]
      BY DEF Flip
    <3> HIDE DEF pos1
    <3> QED BY <1>2, <3>1, <3>2
  <2> HIDE DEF pos1
  <2>7. Closed(U, x, pos, pos1)
    <3>1. \A n \in V : p1[n] = IF N + 1 - pos[n] > N + 1 - pos[x] THEN N - pos[n] ELSE N + 1 - pos[n]
      BY <1>2, <2>3, <2>4 DEF Closed
    <3>2. \A n \in V : pos[n] # pos[x]
      BY <1>1 DEF Placed
    <3>3. \A n \in V : pos1[n] = IF pos[n] > pos[x] THEN pos[n] - 1 ELSE pos[n]
      BY <1>2, <2>6, <3>1, <3>2
    <3> QED BY <3>3 DEF Closed
  <2>8. Placed(V, N - 1, pos1) /\ Sorted(V, pos1, Field(hh, "kv"))
    BY <1>1, <1>2, <2>7, OrderClosed
  <2>9. Tree(hh, r, V, N - 1, pos1, Flip(N - 1, h1), Flip(N - 1, l1))
    BY <1>9, <2>5, <2>8 DEF Tree, A1, B1, P1
  <2> QED BY <2>9 DEF IsTree
<1> QED BY <1>8, <1>9 DEF Facing

\* What is left without the leaf x.
CutEnds(h, hh, r, U, x) ==
  /\ Steady(hh, r, U \ {x}) /\ hh \in Heap /\ hh[x] = Unused
  /\ Kept(Field(h, "kv"), Field(hh, "kv"), U, x)
  /\ \A n \in Nodes \ U : hh[n] = h[n]

\* The leaf is taken off and the tree is balanced again.
LEMMA LeafCutOff ==
  ASSUME NEW h, NEW r, NEW U, NEW x, Pruning(h, r, U, x), x # r,
         NEW hh, CutOff(h, hh, x, h[x].par, SideOf(h, x))
  PROVE  CutEnds(h, hh, r, U, x)
<1> DEFINE p == h[x].par
           a == SideOf(h, x)
           b == Other(a)
           A == Field(h, a)
           B == Field(h, b)
           P == Field(h, "par")
           C == Field(h, "color")
<1>1. /\ IsTree(h, r, U) /\ Heights(h, U, {x}, {}) /\ Quiet(h, U, {}) /\ ~IsRed(h, r)
      /\ x \in U /\ Childless(h, x)
  BY DEF Pruning
<1>2. h \in Heap /\ U \subseteq Nodes /\ (r # NULL => r \in U) /\ \A n \in U : n \in Nodes
  BY <1>1, TreeNodes
<1>3. Facing(a, b) /\ p \in U /\ h[p][a] = x /\ h[p][b] # x
  BY <1>1, SideFacts
<1>4. x # p
  BY <1>1, <1>3 DEF Childless, Facing, NULL, Nodes
<1>5. CutOff(h, hh, x, p, a)
  OBVIOUS
<1>6. h[x].par = p
  OBVIOUS
<1> HIDE DEF p, a, b
<1>7. /\ hh \in Heap /\ hh[x] = Unused
      /\ \A n \in Nodes \ {x} :
           /\ Field(hh, a)[n] = IF n = p THEN NULL ELSE A[n]
           /\ Field(hh, b)[n] = B[n]
           /\ Field(hh, "par")[n] = P[n]
           /\ Field(hh, "color")[n] = C[n]
           /\ Field(hh, "kv")[n] = Field(h, "kv")[n]
      /\ \A n \in Nodes \ {x, p} : hh[n] = h[n]
  BY <1>1, <1>2, <1>3, <1>4, <1>5, CutFields
<1>8. P[x] = p /\ A[P[x]] = x
  BY <1>1, <1>2, <1>3, <1>6 DEF Field
<1> HIDE DEF A, B, P, C
<1>9. /\ PruneLinks(A, B, P, Field(hh, a), Field(hh, b), U, x) /\ Kept(P, Field(hh, "par"), U, x)
      /\ Kept(C, Field(hh, "color"), U, x) /\ Kept(Field(h, "kv"), Field(hh, "kv"), U, x)
  BY <1>2, <1>7, <1>8 DEF PruneLinks, Kept
<1>10. IsTree(hh, r, U \ {x})
  BY <1>1, <1>3, <1>6, <1>7, <1>9, CutTree DEF A, B, P
<1>11. PICK bh : Balanced(A, B, C, U, bh, {x}, {})
  BY <1>1, <1>3, HeightsFrom DEF A, B, C
<1>12. Calm(A, B, C, U, {})
  BY <1>1, <1>3, HeightsFrom DEF A, B, C
<1>13. Family(A, B, P, U)
  BY <1>1, <1>3, TreeFamily DEF IsTree, A, B, P
<1>14. /\ Balanced(Field(hh, a), Field(hh, b), Field(hh, "color"), U \ {x}, bh, {}, {})
       /\ Calm(Field(hh, a), Field(hh, b), Field(hh, "color"), U \ {x}, {})
  BY <1>1, <1>3, <1>8, <1>9, <1>11, <1>12, <1>13, PruneBalance
<1>15. Heights(hh, U \ {x}, {}, {}) /\ Quiet(hh, U \ {x}, {})
  BY <1>3, <1>14, HeightsFrom
<1>16. ~IsRed(hh, r)
  <2>1. CASE r = NULL
    BY <2>1 DEF IsRed
  <2>2. CASE r # NULL
    <3>1. Field(hh, "color")[r] = C[r] /\ r \in Nodes
      BY <1>2, <1>7, <2>2
    <3> QED BY <1>1, <2>2, <3>1 DEF IsRed, Field, C
  <2> QED BY <2>1, <2>2
<1>17. \A n \in Nodes \ U : hh[n] = h[n]
  BY <1>1, <1>3, <1>7
<1> QED BY <1>7, <1>9, <1>10, <1>15, <1>16, <1>17 DEF Steady, CutEnds

\* At the root nothing is missing.
LEMMA ShortRoot ==
  ASSUME NEW h, NEW r, NEW U, NEW x, NEW s, Short(h, r, U, x, s), h[s].par = NULL
  PROVE  Pruning(h, r, U, x)
<1>1. /\ IsTree(h, r, U) /\ Heights(h, U, {x}, {s}) /\ Quiet(h, U, {}) /\ ~IsRed(h, r)
      /\ x \in U /\ Childless(h, x) /\ s \in U
  BY DEF Short
<1>2. s # NULL /\ s \in Nodes
  BY <1>1, TreeNodes DEF NULL
<1> DEFINE A == Field(h, "left")
           B == Field(h, "right")
           P == Field(h, "par")
           C == Field(h, "color")
<1>3. Family(A, B, P, U)
  BY <1>1, TreeFamily DEF IsTree, Facing
<1>4. PICK bh : Balanced(A, B, C, U, bh, {x}, {s})
  BY <1>1 DEF Heights
<1>5. P[s] = NULL
  BY <1>2 DEF Field
<1>6. Balanced(A, B, C, U, bh, {x}, {})
  <2> HIDE DEF A, B, P, C
  <2> QED BY <1>2, <1>3, <1>4, <1>5, RootNotShort
<1>7. Heights(h, U, {x}, {})
  BY <1>6 DEF Heights
<1> QED BY <1>1, <1>7 DEF Pruning

\* A childless root is the whole tree.
LEMMA LoneRoot ==
  ASSUME NEW h, NEW r, NEW U, IsTree(h, r, U), r # NULL, Childless(h, r)
  PROVE  U = {r}
<1>1. PICK N, pos, lo, hi : Tree(h, r, U, N, pos, lo, hi)
  BY DEF IsTree
<1>2. r \in U
  BY TreeNodes
<1>3. lo[r] = pos[r] /\ hi[r] = pos[r] /\ pos[r] \in Int
  BY <1>1, <1>2, FitsHeap DEF Childless
<1>4. lo[r] = 1 /\ hi[r] = N /\ Placed(U, N, pos)
  BY <1>1 DEF Tree, Shape, Rooted
<1>5. \A n \in U : pos[n] = 1
  BY <1>3, <1>4 DEF Placed
<1> QED BY <1>2, <1>4, <1>5 DEF Placed

-----------------------------------------------------------------------------
(* The pool *)

\* The nodes that the tree holds.
InUse == (1 .. pool_count) \ ToSet(ls)

PoolSound ==
  /\ pool_count \in 0 .. RBTREE_NODE_POOL_NUM
  /\ ls \in Seq(1 .. pool_count) /\ IsInjective(ls)

\* rbtree_node_alloc gives out a node that is not in use.
LEMMA Allocated ==
  ASSUME PoolSound, ~PoolEmpty, Alloc
  PROVE  /\ PoolSound' /\ NewNode \in Nodes /\ NewNode \notin InUse
         /\ InUse' = InUse \cup {NewNode}
<1>0. RBTREE_NODE_POOL_NUM \in Nat
  BY RbTreeAssumption
<1>1. /\ pool_count \in Nat /\ pool_count <= RBTREE_NODE_POOL_NUM
      /\ ls \in Seq(1 .. pool_count) /\ \A i, j \in DOMAIN ls : ls[i] = ls[j] => i = j
  BY <1>0 DEF PoolSound, IsInjective
<1>2. CASE ls = <<>>
  <2>1. /\ pool_count' = pool_count + 1 /\ ls' = <<>> /\ NewNode = pool_count + 1
        /\ pool_count < RBTREE_NODE_POOL_NUM
    BY <1>0, <1>1, <1>2 DEF Alloc, NewNode, PoolEmpty
  <2>2. ToSet(ls) = {} /\ ToSet(ls') = {}
    BY <1>2, <2>1 DEF ToSet
  <2>3. InUse = 1 .. pool_count /\ InUse' = 1 .. pool_count + 1
    BY <2>1, <2>2 DEF InUse
  <2>4. PoolSound'
    BY <1>0, <1>1, <2>1 DEF PoolSound, IsInjective
  <2> QED BY <1>0, <1>1, <2>1, <2>3, <2>4 DEF Nodes
<1>3. CASE ls # <<>>
  <2>1. pool_count' = pool_count /\ ls' = Tail(ls) /\ NewNode = Head(ls)
    BY <1>3 DEF Alloc, NewNode
  <2>2. /\ Len(ls) \in Nat /\ DOMAIN ls = 1 .. Len(ls) /\ Len(ls) >= 1 /\ Head(ls) = ls[1]
        /\ ls' \in Seq(1 .. pool_count) /\ Len(ls') = Len(ls) - 1 /\ DOMAIN ls' = 1 .. Len(ls')
        /\ \A i \in 1 .. Len(ls') : ls'[i] = ls[i + 1]
    BY <1>1, <1>3, <2>1
  <2>3. NewNode = ls[1] /\ NewNode \in 1 .. pool_count
    BY <1>1, <2>1, <2>2
  <2>4. ASSUME NEW i \in DOMAIN ls', NEW j \in DOMAIN ls', ls'[i] = ls'[j] PROVE i = j
    <3>1. /\ i + 1 \in DOMAIN ls /\ j + 1 \in DOMAIN ls /\ i \in Int /\ j \in Int
          /\ ls[i + 1] = ls[j + 1]
      BY <2>2, <2>4
    <3>2. i + 1 = j + 1
      BY <1>1, <3>1
    <3> QED BY <3>1, <3>2
  <2>5. ToSet(ls') = ToSet(ls) \ {NewNode}
    <3>1. ASSUME NEW n \in ToSet(ls') PROVE n \in ToSet(ls) /\ n # NewNode
      <4>1. PICK i \in 1 .. Len(ls') : n = ls'[i]
        BY <2>2 DEF ToSet
      <4>2. i + 1 \in DOMAIN ls /\ 1 \in DOMAIN ls /\ i + 1 # 1 /\ n = ls[i + 1]
        BY <2>2, <4>1
      <4> QED BY <1>1, <2>3, <4>2 DEF ToSet
    <3>2. ASSUME NEW n \in ToSet(ls), n # NewNode PROVE n \in ToSet(ls')
      <4>1. PICK i \in 1 .. Len(ls) : n = ls[i]
        BY <2>2 DEF ToSet
      <4>2. i - 1 \in DOMAIN ls' /\ ls'[i - 1] = ls[i]
        BY <2>2, <2>3, <3>2, <4>1
      <4> QED BY <4>1, <4>2 DEF ToSet
    <3> QED BY <3>1, <3>2
  <2>6. NewNode \in ToSet(ls)
    BY <2>2, <2>3 DEF ToSet
  <2>7. PoolSound'
    BY <1>0, <1>1, <2>1, <2>2, <2>4 DEF PoolSound, IsInjective
  <2>8. NewNode \notin InUse /\ InUse' = InUse \cup {NewNode}
    BY <2>1, <2>3, <2>5, <2>6 DEF InUse
  <2> QED BY <1>0, <1>1, <2>3, <2>7, <2>8 DEF Nodes
<1> QED BY <1>2, <1>3

\* rbtree_node_free puts the node at the end of the queue.
LEMMA Freed ==
  ASSUME PoolSound, NEW x \in InUse, ls' = Append(ls, x), pool_count' = pool_count
  PROVE  PoolSound' /\ InUse' = InUse \ {x}
<1>1. /\ pool_count \in Nat /\ ls \in Seq(1 .. pool_count)
      /\ \A i, j \in DOMAIN ls : ls[i] = ls[j] => i = j
  BY RbTreeAssumption DEF PoolSound, IsInjective
<1>2. x \in 1 .. pool_count /\ x \notin ToSet(ls)
  BY DEF InUse
<1>3. /\ Len(ls) \in Nat /\ DOMAIN ls = 1 .. Len(ls) /\ ls' \in Seq(1 .. pool_count)
      /\ DOMAIN ls' = 1 .. Len(ls) + 1 /\ ls'[Len(ls) + 1] = x
      /\ \A i \in 1 .. Len(ls) : ls'[i] = ls[i]
  BY <1>1, <1>2
<1>4. \A i \in 1 .. Len(ls) : ls[i] # x
  BY <1>2, <1>3 DEF ToSet
<1>5. \A i, j \in DOMAIN ls' : ls'[i] = ls'[j] => i = j
  BY <1>1, <1>3, <1>4
<1>6. ToSet(ls') = ToSet(ls) \cup {x}
  <2>1. ASSUME NEW n \in ToSet(ls') PROVE n \in ToSet(ls) \cup {x}
    <3>1. PICK i \in 1 .. Len(ls) + 1 : n = ls'[i]
      BY <1>3 DEF ToSet
    <3> QED BY <1>3, <3>1 DEF ToSet
  <2>2. ASSUME NEW n \in ToSet(ls) PROVE n \in ToSet(ls')
    <3>1. PICK i \in 1 .. Len(ls) : n = ls[i]
      BY <1>3 DEF ToSet
    <3>2. i \in DOMAIN ls' /\ n = ls'[i]
      BY <1>3, <3>1
    <3> QED BY <3>2 DEF ToSet
  <2>3. x \in ToSet(ls')
    BY <1>3 DEF ToSet
  <2> QED BY <2>1, <2>2, <2>3
<1>7. PoolSound'
  BY <1>3, <1>5 DEF PoolSound, IsInjective
<1> QED BY <1>6, <1>7 DEF InUse

-----------------------------------------------------------------------------
(* The inductive invariant *)

\* The root; rbtree_delete forgets it when it is the node that goes.
Top == IF op = "delete" /\ head = NULL THEN del_tar ELSE head

Resting == Steady(node, head, InUse) /\ tar = NULL /\ flag = FALSE /\ del_tar = NULL

\* Only tar may be red under red.
Growing ==
  /\ IsTree(node, head, InUse) /\ Heights(node, InUse, {}, {}) /\ Quiet(node, InUse, {tar})
  /\ ~IsRed(node, head) /\ head # NULL
  /\ tar \in InUse /\ tar # head /\ flag = FALSE /\ del_tar = NULL

\* The leaf del_tar goes, and the ways through tar lack a black node until flag is reset.
Shrinking ==
  /\ IF flag THEN Short(node, Top, InUse, del_tar, tar) ELSE Pruning(node, Top, InUse, del_tar)
  /\ flag \in BOOLEAN
  /\ head # NULL => head # del_tar

TreeInv ==
  /\ PoolSound /\ Spare(node, InUse) /\ node \in Heap
  /\ op \in {"idle", "abort", "insert", "delete"}
  /\ op \in {"idle", "abort"} => Resting
  /\ op = "insert" => Growing
  /\ op = "delete" => Shrinking

\* The pool begins empty, and so does the tree.
LEMMA InitInv == TreeInit => TreeInv
<1> SUFFICES ASSUME TreeInit PROVE TreeInv
  OBVIOUS
<1>1. RBTREE_NODE_POOL_NUM \in Nat
  BY RbTreeAssumption
<1>2. PoolSound /\ InUse = {}
  <2>1. ls \in Seq(1 .. pool_count) /\ ToSet(ls) = {} /\ IsInjective(ls)
    BY DEF TreeInit, ToSet, IsInjective
  <2> QED BY <1>1, <2>1 DEF PoolSound, InUse, TreeInit
<1>3. Unused \in [kv : Int \X Int, par : Places, left : Places, right : Places, color : Colors]
  BY DEF Unused, Places, Colors
<1>4. node \in Heap /\ Spare(node, {})
  BY <1>3 DEF Heap, TreeInit, Spare
<1>5. Steady(node, head, InUse)
  BY <1>2, <1>4, EmptySteady DEF TreeInit
<1> QED BY <1>2, <1>4, <1>5 DEF TreeInv, Resting, TreeInit

-----------------------------------------------------------------------------
(* Every step keeps it *)

\* Between operations no loop runs.
LEMMA Rests ==
  ASSUME TreeInv, op = "idle"
  PROVE  /\ Steady(node, head, InUse) /\ tar = NULL /\ flag = FALSE /\ del_tar = NULL
         /\ PoolSound /\ Spare(node, InUse) /\ node \in Heap /\ InUse \subseteq Nodes /\ 0 \notin InUse
         /\ IsTree(node, head, InUse)
<1>1. Steady(node, head, InUse) /\ tar = NULL /\ flag = FALSE /\ del_tar = NULL
  BY DEF TreeInv, Resting
<1>2. IsTree(node, head, InUse)
  BY <1>1 DEF Steady
<1> QED BY <1>1, <1>2, TreeNodes DEF TreeInv

\* rbtree_insert of the first entry.
LEMMA InsertRootInv ==
  ASSUME TreeInv, NEW e \in Items, InsertRoot(e)
  PROVE  /\ TreeInv' /\ InUse = {} /\ InUse' = {NewNode} /\ node'[NewNode].kv = e
<1> DEFINE x == NewNode
<1>1. /\ op = "idle" /\ ~PoolEmpty /\ head = NULL /\ Alloc /\ head' = x
      /\ node' = [node EXCEPT ![x] = [Unused EXCEPT !.kv = e, !.color = "BLACK"]]
      /\ op' = op /\ tar' = tar /\ flag' = flag /\ del_tar' = del_tar
  BY DEF InsertRoot
<1>2. e \in Int \X Int
  BY RbTreeAssumption
<1>3. /\ Steady(node, head, InUse) /\ tar = NULL /\ flag = FALSE /\ del_tar = NULL
      /\ PoolSound /\ Spare(node, InUse) /\ node \in Heap /\ IsTree(node, head, InUse)
  BY <1>1, Rests
<1>4. InUse = {}
  BY <1>1, <1>3, TreeNodes
<1>5. PoolSound' /\ x \in Nodes /\ x \notin InUse /\ InUse' = InUse \cup {x}
  BY <1>1, <1>3, Allocated
<1>6. Planted(node, node', x, e)
  BY <1>1 DEF Planted
<1> HIDE DEF x
<1>7. Steady(node', x, {x}) /\ node'[x].kv = e
  BY <1>2, <1>3, <1>5, <1>6, RootPlanted
<1>8. InUse' = {x}
  BY <1>4, <1>5
<1>9. Steady(node', head', InUse') /\ Spare(node', InUse') /\ node' \in Heap
  <2>1. Steady(node', head', InUse')
    BY <1>1, <1>7, <1>8
  <2>2. IsTree(node', x, {x})
    BY <1>7 DEF Steady
  <2>3. node' \in Heap
    BY <2>2, TreeNodes
  <2>4. \A n \in Nodes \ {x} : node'[n] = Unused
    BY <1>3, <1>4, <1>5, <1>6 DEF Planted, Heap, Spare
  <2>5. Spare(node', InUse')
    BY <1>8, <2>4 DEF Spare
  <2> QED BY <2>1, <2>3, <2>5
<1>10. TreeInv'
  <2>1. Resting'
    BY <1>1, <1>3, <1>9 DEF Resting
  <2> QED BY <1>1, <1>5, <1>9, <2>1 DEF TreeInv
<1> QED BY <1>4, <1>7, <1>8, <1>10 DEF x

\* rbtree_insert up to its loop.
LEMMA InsertLeafInv ==
  ASSUME TreeInv, NEW e \in Items, InsertLeaf(e)
  PROVE  /\ TreeInv' /\ NewNode \notin InUse /\ InUse' = InUse \cup {NewNode} /\ del_tar = NULL
         /\ node'[NewNode].kv = e /\ \A n \in InUse : node'[n].kv = node[n].kv
<1> DEFINE x == NewNode
           p == Leaf(e[1])
<1>1. /\ op = "idle" /\ ~PoolEmpty /\ head # NULL /\ Alloc /\ head' = head
      /\ node' = [node EXCEPT ![x] = [Unused EXCEPT !.kv = e, !.par = p], ![p][Toward(p, e[1])] = x]
      /\ op' = "insert" /\ tar' = x /\ flag' = flag /\ del_tar' = del_tar
  BY DEF InsertLeaf
<1>2. e \in Int \X Int
  BY RbTreeAssumption
<1>3. /\ Steady(node, head, InUse) /\ tar = NULL /\ flag = FALSE /\ del_tar = NULL
      /\ PoolSound /\ Spare(node, InUse) /\ node \in Heap /\ IsTree(node, head, InUse)
      /\ InUse \subseteq Nodes
  BY <1>1, Rests
<1>4. PoolSound' /\ x \in Nodes /\ x \notin InUse /\ InUse' = InUse \cup {x}
  BY <1>1, <1>3, Allocated
<1>5. Grafted(node, node', x, p, Toward(p, e[1]), e)
  BY <1>1 DEF Grafted
<1>6. p = Leaf(e[1])
  OBVIOUS
<1> HIDE DEF x, p
<1>7. /\ IsTree(node', head, InUse \cup {x}) /\ Heights(node', InUse \cup {x}, {}, {})
      /\ Quiet(node', InUse \cup {x}, {x}) /\ ~IsRed(node', head)
      /\ Field(node', "kv")[x] = e /\ Kept(Field(node, "kv"), Field(node', "kv"), InUse, x)
  BY <1>1, <1>2, <1>3, <1>4, <1>5, <1>6, LeafPlanted
<1>8. head \in InUse
  BY <1>1, <1>3, TreeNodes
<1>9. Growing'
  BY <1>1, <1>3, <1>4, <1>7, <1>8 DEF Growing
<1>10. node' \in Heap
  BY <1>7, TreeNodes
<1>11. Spare(node', InUse')
  <2>1. p \in InUse
    <3>1. PICK N, pos, lo, hi : Tree(node, head, InUse, N, pos, lo, hi)
      BY <1>3 DEF IsTree
    <3>2. e[1] \in Int
      BY <1>2
    <3> QED BY <1>1, <1>3, <1>6, <3>1, <3>2, LeafPlace
  <2>2. \A n \in Nodes \ (InUse \cup {x}) : node'[n] = node[n]
    BY <1>3, <1>4, <1>5, <2>1 DEF Grafted, Heap
  <2> QED BY <1>3, <1>4, <2>2 DEF Spare
<1>12. TreeInv'
  BY <1>1, <1>4, <1>9, <1>10, <1>11 DEF TreeInv
<1>13. node'[x].kv = e /\ \A n \in InUse : node'[n].kv = node[n].kv
  BY <1>3, <1>4, <1>7 DEF Field, Kept
<1> QED BY <1>3, <1>4, <1>12, <1>13 DEF x

-----------------------------------------------------------------------------
(* No pass writes to a node outside the tree *)

\* The links of U stay in U.
Bounded(h, U) ==
  /\ h \in Heap /\ U \in SUBSET Nodes
  /\ \A n \in U : /\ h[n].left \in U \cup {NULL} /\ h[n].right \in U \cup {NULL}
                  /\ h[n].par \in U \cup {NULL}

\* From h to hh only nodes of U were written.
Local(h, hh, U) == hh \in Heap /\ \A n \in Nodes \ U : hh[n] = h[n]

\* The links of a tree lead to its nodes only.
LEMMA TreeBounded ==
  ASSUME NEW h, NEW r, NEW U, IsTree(h, r, U)
  PROVE  Bounded(h, U) /\ Local(h, h, U)
<1>1. PICK N, pos, lo, hi : Tree(h, r, U, N, pos, lo, hi)
  BY DEF IsTree
<1>2. /\ h \in Heap /\ U \in SUBSET Nodes
      /\ \A n \in U : n # r => h[n].par \in U
      /\ \A n \in U : n # r <=> h[n].par # NULL
  BY TreeNodes
<1>3. \A n \in U : h[n].left \in U \cup {NULL} /\ h[n].right \in U \cup {NULL}
  BY <1>1, FitsHeap
<1> QED BY <1>2, <1>3 DEF Bounded, Local

\* One assignment to a field of a node.
LEMMA LocalSet ==
  ASSUME NEW h, NEW g, NEW U \in SUBSET Nodes, Local(h, g, U), NEW n \in U, NEW d \in Sides,
         NEW m \in U \cup {NULL}
  PROVE  Local(h, Set(g, n, d, m), U)
<1>1. m \in Places /\ n \in Nodes
  BY DEF Places
<1>2. CASE d = "left"
  BY <1>1, <1>2 DEF Local, Heap, Set
<1>3. CASE d = "right"
  BY <1>1, <1>3 DEF Local, Heap, Set
<1> QED BY <1>2, <1>3 DEF Sides

\* The same with the way back.
LEMMA LocalLink ==
  ASSUME NEW h, NEW g, NEW U \in SUBSET Nodes, Local(h, g, U), NEW n \in U, NEW d \in Sides,
         NEW m \in U \cup {NULL}
  PROVE  Local(h, Link(g, n, d, m), U)
<1> DEFINE s == Set(g, n, d, m)
<1>1. Local(h, s, U)
  BY LocalSet
<1>2. Link(g, n, d, m) = Adopt(s, m, n)
  BY DEF Link
<1> HIDE DEF s
<1>3. CASE m = NULL
  BY <1>1, <1>2, <1>3 DEF Adopt
<1>4. CASE m # NULL
  <2>1. m \in U /\ m \in Nodes /\ n \in Places /\ Adopt(s, m, n) = [s EXCEPT ![m].par = n]
    BY <1>4 DEF Adopt, Places
  <2>2. Local(h, [s EXCEPT ![m].par = n], U)
    BY <1>1, <2>1, SMTT(60), ZenonT(60) DEF Local, Heap
  <2> QED BY <1>2, <2>1, <2>2
<1> QED BY <1>3, <1>4

\* A painted node of the tree.
LEMMA LocalPaint ==
  ASSUME NEW h, NEW g, NEW U \in SUBSET Nodes, Local(h, g, U), NEW n \in U, NEW c \in Colors
  PROVE  Local(h, Paint(g, n, c), U)
BY DEF Local, Heap, Paint

\* Two nodes of the tree that change their entries.
LEMMA LocalSwap ==
  ASSUME NEW h, NEW g, NEW U \in SUBSET Nodes, Local(h, g, U), NEW n \in U, NEW m \in U
  PROVE  Local(h, Swap(g, n, m), U)
BY DEF Local, Heap, Swap

\* The records of a bounded heap, from either side.
LEMMA BoundedSides ==
  ASSUME NEW h, NEW U, Bounded(h, U), NEW d \in Sides
  PROVE  /\ Other(d) \in Sides /\ \A n \in U : h[n][d] \in U \cup {NULL} /\ h[n][Other(d)] \in U \cup {NULL}
         /\ \A n \in U : h[n].par \in U \cup {NULL}
BY DEF Bounded, Sides, Other

\* The red-sibling case touches only nodes of the tree.
LEMMA SiblingLocal ==
  ASSUME NEW h, NEW U, Bounded(h, U), NEW t \in U, NEW v \in U, NEW d \in Sides
  PROVE  Local(h, SiblingRed(h, t, v, d), U)
<1> DEFINE o == Other(d)
           h1 == Swap(h, t, v)
           h2 == Link(h1, t, o, h[v][o])
           h3 == Set(h2, v, o, h[v][d])
           h4 == Link(h3, v, d, h[t][d])
<1>1. U \in SUBSET Nodes /\ Local(h, h, U)
  BY DEF Bounded, Local
<1>2. /\ o \in Sides /\ h[v][o] \in U \cup {NULL} /\ h[v][d] \in U \cup {NULL} /\ h[t][d] \in U \cup {NULL}
      /\ v \in U \cup {NULL}
  BY BoundedSides
<1>3. SiblingRed(h, t, v, d) = Link(h4, t, d, v)
  BY DEF SiblingRed
<1>4. Local(h, h1, U)
  BY <1>1, LocalSwap
<1> HIDE DEF o, h1
<1>5. Local(h, h2, U)
  BY <1>1, <1>2, <1>4, LocalLink
<1> HIDE DEF h2
<1>6. Local(h, h3, U)
  BY <1>1, <1>2, <1>5, LocalSet
<1> HIDE DEF h3
<1>7. Local(h, h4, U)
  BY <1>1, <1>2, <1>6, LocalLink
<1> HIDE DEF h4
<1> QED BY <1>1, <1>2, <1>3, <1>7, LocalLink

\* So does the far-red case.
LEMMA FarLocal ==
  ASSUME NEW h, NEW U, Bounded(h, U), NEW t \in U, NEW v \in U, NEW d \in Sides, h[v][Other(d)] # NULL
  PROVE  Local(h, FarRed(h, t, v, d), U)
<1> DEFINE o == Other(d)
           w == h[v][o]
           h1 == Swap(h, t, v)
           h2 == Link(h1, t, o, w)
           h3 == Set(h2, v, o, h[v][d])
           h4 == Link(h3, v, d, h[t][d])
           h5 == Link(h4, t, d, v)
<1>1. U \in SUBSET Nodes /\ Local(h, h, U)
  BY DEF Bounded, Local
<1>2. /\ o \in Sides /\ w \in U /\ w \in U \cup {NULL} /\ h[v][d] \in U \cup {NULL} /\ h[t][d] \in U \cup {NULL}
      /\ v \in U \cup {NULL} /\ "BLACK" \in Colors
  BY BoundedSides DEF Colors
<1>3. FarRed(h, t, v, d) = Paint(h5, w, "BLACK")
  BY DEF FarRed
<1>4. Local(h, h1, U)
  BY <1>1, LocalSwap
<1> HIDE DEF o, w, h1
<1>5. Local(h, h2, U)
  BY <1>1, <1>2, <1>4, LocalLink
<1> HIDE DEF h2
<1>6. Local(h, h3, U)
  BY <1>1, <1>2, <1>5, LocalSet
<1> HIDE DEF h3
<1>7. Local(h, h4, U)
  BY <1>1, <1>2, <1>6, LocalLink
<1> HIDE DEF h4
<1>8. Local(h, h5, U)
  BY <1>1, <1>2, <1>7, LocalLink
<1> HIDE DEF h5
<1> QED BY <1>1, <1>2, <1>3, <1>8, LocalPaint

\* So does the near-red case.
LEMMA NearLocal ==
  ASSUME NEW h, NEW U, Bounded(h, U), NEW t \in U, NEW v \in U, NEW d \in Sides, h[v][d] # NULL
  PROVE  Local(h, NearRed(h, t, v, d), U)
<1> DEFINE o == Other(d)
           w == h[v][d]
           h1 == Swap(h, t, w)
           h2 == Link(h1, v, d, h[w][o])
           h3 == Set(h2, w, o, h[w][d])
           h4 == Link(h3, w, d, h[t][d])
           h5 == Link(h4, t, d, w)
<1>1. U \in SUBSET Nodes /\ Local(h, h, U)
  BY DEF Bounded, Local
<1>2. /\ o \in Sides /\ w \in U /\ w \in U \cup {NULL} /\ h[t][d] \in U \cup {NULL}
      /\ "BLACK" \in Colors
  BY BoundedSides DEF Colors
<1>2a. h[w][d] \in U \cup {NULL} /\ h[w][o] \in U \cup {NULL}
  BY <1>2, BoundedSides
<1>3. NearRed(h, t, v, d) = Paint(h5, w, "BLACK")
  BY DEF NearRed
<1> HIDE DEF o, w
<1>4. Local(h, h1, U)
  BY <1>1, <1>2, LocalSwap
<1> HIDE DEF h1
<1>5. Local(h, h2, U)
  BY <1>1, <1>2, <1>2a, <1>4, LocalLink
<1> HIDE DEF h2
<1>6. Local(h, h3, U)
  BY <1>1, <1>2, <1>2a, <1>5, LocalSet
<1> HIDE DEF h3
<1>7. Local(h, h4, U)
  BY <1>1, <1>2, <1>6, LocalLink
<1> HIDE DEF h4
<1>8. Local(h, h5, U)
  BY <1>1, <1>2, <1>7, LocalLink
<1> HIDE DEF h5
<1> QED BY <1>1, <1>2, <1>3, <1>8, LocalPaint

\* So does a rotation with an inner grandchild.
LEMMA InnerLocal ==
  ASSUME NEW h0, NEW h, NEW U, Bounded(h, U), Local(h0, h, U), NEW t \in U, NEW p \in U, NEW g \in U,
         NEW d \in Sides
  PROVE  Local(h0, RotateInner(h, t, p, g, d).heap, U)
<1> DEFINE o == Other(d)
           h1 == Swap(h, g, t)
           h2 == Paint(h1, t, "BLACK")
           h3 == Link(h2, p, o, h[t][d])
           h4 == Set(h3, t, d, h[t][o])
           h5 == Link(h4, t, o, h[g][o])
<1>1. U \in SUBSET Nodes
  BY DEF Bounded
<1>2. /\ o \in Sides /\ h[t][o] \in U \cup {NULL} /\ h[t][d] \in U \cup {NULL} /\ h[g][o] \in U \cup {NULL}
      /\ t \in U \cup {NULL} /\ "BLACK" \in Colors
  BY BoundedSides DEF Colors
<1>3. RotateInner(h, t, p, g, d).heap = Link(h5, g, o, t)
  BY DEF RotateInner
<1>4. Local(h0, h1, U)
  BY <1>1, LocalSwap
<1> HIDE DEF o, h1
<1>5. Local(h0, h2, U)
  BY <1>1, <1>2, <1>4, LocalPaint
<1> HIDE DEF h2
<1>6. Local(h0, h3, U)
  BY <1>1, <1>2, <1>5, LocalLink
<1> HIDE DEF h3
<1>7. Local(h0, h4, U)
  BY <1>1, <1>2, <1>6, LocalSet
<1> HIDE DEF h4
<1>8. Local(h0, h5, U)
  BY <1>1, <1>2, <1>7, LocalLink
<1> HIDE DEF h5
<1> QED BY <1>1, <1>2, <1>3, <1>8, LocalLink

\* So does a rotation of two left children.
LEMMA LeftLeftLocal ==
  ASSUME NEW h0, NEW h, NEW U, Bounded(h, U), Local(h0, h, U), NEW p \in U, NEW g \in U
  PROVE  Local(h0, RotateLeftLeft(h, p, g).heap, U)
<1> DEFINE gg == h[g].par
           h1 == [h EXCEPT ![p].par = gg]
           h2 == IF gg = NULL THEN h1 ELSE Set(h1, gg, SideOf(h, g), p)
           h3 == Link(h2, g, "left", h[p].right)
<1>1. U \in SUBSET Nodes /\ gg \in U \cup {NULL} /\ h[p].right \in U \cup {NULL} /\ p \in U \cup {NULL}
      /\ g \in U \cup {NULL} /\ gg \in Places /\ "left" \in Sides /\ "right" \in Sides
  BY DEF Bounded, Places, Sides
<1>2. RotateLeftLeft(h, p, g).heap = Link(h3, p, "right", g)
  BY DEF RotateLeftLeft
<1>3. SideOf(h, g) \in Sides
  BY DEF SideOf, Sides
<1>4. Local(h0, h1, U)
  <2> HIDE DEF gg
  <2> QED BY <1>1 DEF Local, Heap
<1> HIDE DEF gg, h1
<1>5. Local(h0, h2, U)
  <2>1. CASE gg = NULL
    BY <1>4, <2>1
  <2>2. CASE gg # NULL
    <3>1. gg \in U
      BY <1>1, <2>2
    <3>2. Local(h0, Set(h1, gg, SideOf(h, g), p), U)
      BY <1>1, <1>3, <1>4, <3>1, LocalSet
    <3> QED BY <2>2, <3>2
  <2> QED BY <2>1, <2>2
<1> HIDE DEF h2
<1>6. Local(h0, h3, U)
  BY <1>1, <1>5, LocalLink
<1> HIDE DEF h3
<1> QED BY <1>1, <1>2, <1>6, LocalLink

\* So does a rotation of two right children.
LEMMA RightRightLocal ==
  ASSUME NEW h0, NEW h, NEW U, Bounded(h, U), Local(h0, h, U), NEW t \in U, NEW p \in U, NEW g \in U
  PROVE  Local(h0, RotateRightRight(h, t, p, g).heap, U)
<1> DEFINE h1 == [h EXCEPT ![g].kv = h[p].kv, ![p].kv = h[t].kv, ![t].kv = h[g].kv]
           h2 == Link(h1, p, "right", h[t].right)
           h3 == Link(h2, t, "right", h[p].left)
           h4 == Link(h3, p, "left", h[t].left)
           h5 == Link(h4, t, "left", h[g].left)
           h6 == Link(h5, g, "left", t)
           h7 == Paint(h6, g, "BLACK")
<1>1. U \in SUBSET Nodes /\ h[t].right \in U \cup {NULL} /\ h[p].left \in U \cup {NULL}
      /\ h[t].left \in U \cup {NULL} /\ h[g].left \in U \cup {NULL} /\ t \in U \cup {NULL}
      /\ "left" \in Sides /\ "right" \in Sides /\ "BLACK" \in Colors /\ "RED" \in Colors
  BY DEF Bounded, Sides, Colors
<1>2. RotateRightRight(h, t, p, g).heap = Paint(h7, p, "RED")
  BY DEF RotateRightRight
<1>3. Local(h0, h1, U)
  <2>1. h \in Heap /\ t \in Nodes /\ p \in Nodes /\ g \in Nodes
    BY <1>1 DEF Bounded
  <2>2. h[t].kv \in Int \X Int /\ h[p].kv \in Int \X Int /\ h[g].kv \in Int \X Int
    BY <2>1 DEF Heap
  <2> DEFINE i == h[p].kv
             j == h[t].kv
             k == h[g].kv
             a1 == [h EXCEPT ![g].kv = i]
             a2 == [a1 EXCEPT ![p].kv = j]
  <2>3. h1 = [a2 EXCEPT ![t].kv = k]
    OBVIOUS
  <2>4. i \in Int \X Int /\ j \in Int \X Int /\ k \in Int \X Int
    BY <2>2
  <2> HIDE DEF i, j, k, h1
  <2>5. Local(h0, a1, U)
    BY <2>1, <2>4 DEF Local, Heap
  <2> HIDE DEF a1
  <2>6. Local(h0, a2, U)
    BY <2>1, <2>4, <2>5, SMTT(60), ZenonT(60) DEF Local, Heap
  <2> HIDE DEF a2
  <2>7. Local(h0, [a2 EXCEPT ![t].kv = k], U)
    BY <2>1, <2>4, <2>6, SMTT(60), ZenonT(60) DEF Local, Heap
  <2> QED BY <2>3, <2>7
<1> HIDE DEF h1
<1>4. Local(h0, h2, U)
  BY <1>1, <1>3, LocalLink
<1> HIDE DEF h2
<1>5. Local(h0, h3, U)
  BY <1>1, <1>4, LocalLink
<1> HIDE DEF h3
<1>6. Local(h0, h4, U)
  BY <1>1, <1>5, LocalLink
<1> HIDE DEF h4
<1>7. Local(h0, h5, U)
  BY <1>1, <1>6, LocalLink
<1> HIDE DEF h5
<1>8. Local(h0, h6, U)
  BY <1>1, <1>7, LocalLink
<1> HIDE DEF h6
<1>9. Local(h0, h7, U)
  BY <1>1, <1>8, LocalPaint
<1> HIDE DEF h7
<1> QED BY <1>1, <1>2, <1>9, LocalPaint

\* A colour is no link.
LEMMA BoundedPaint ==
  ASSUME NEW h, NEW U, Bounded(h, U), NEW n \in U, NEW c \in Colors
  PROVE  /\ Bounded(Paint(h, n, c), U)
         /\ \A m \in Nodes : /\ Paint(h, n, c)[m].par = h[m].par /\ Paint(h, n, c)[m].left = h[m].left
                             /\ Paint(h, n, c)[m].right = h[m].right
BY DEF Bounded, Heap, Paint

\* So does a pass of rbtree_insert.
LEMMA PassLocal ==
  ASSUME NEW h, NEW r, NEW U, IsTree(h, r, U), NEW t \in U, t # r, ~IsRed(h, r),
         h[h[t].par].color = "RED"
  PROVE  Local(h, InsertPass(h, t).heap, U)
<1> DEFINE p == h[t].par
           g == h[p].par
           a == SideOf(h, p)
           h1 == Paint(h, p, "BLACK")
           hr == Paint(h1, g, "RED")
           u == Uncle(h, t)
<1>1. Bounded(h, U) /\ Local(h, h, U) /\ U \in SUBSET Nodes /\ 0 \notin U
  BY TreeBounded, TreeNodes
<1>2. p \in U /\ p # r
  BY <1>1, TreeNodes DEF IsRed, NULL
<1>3. g \in U
  BY <1>2, TreeNodes
<1>4. a \in Sides /\ Other(a) \in Sides /\ u = h[g][Other(a)]
  BY DEF SideOf, Sides, Other, Uncle
<1>5. u \in U \cup {NULL}
  BY <1>1, <1>3, <1>4, BoundedSides
<1>6. "RED" \in Colors /\ "BLACK" \in Colors
  BY DEF Colors
<1>7. Recoloured(h, t) = hr
  BY DEF Recoloured
<1>8. InsertPass(h, t).heap = IF IsRed(h, u) THEN Paint(hr, u, "BLACK") ELSE rotate(hr, t).heap
  <2> HIDE DEF hr, u
  <2> QED BY <1>7 DEF InsertPass, u
<1>p. h[t].par = p /\ h[p].par = g
  OBVIOUS
<1> HIDE DEF p, g, a, u
<1>9. Local(h, h1, U) /\ Bounded(h1, U) /\ \A m \in Nodes : h1[m].par = h[m].par
  BY <1>1, <1>2, <1>6, LocalPaint, BoundedPaint, SMTT(60), ZenonT(60)
<1> HIDE DEF h1
<1>10. Local(h, hr, U) /\ Bounded(hr, U) /\ \A m \in Nodes : hr[m].par = h1[m].par
  BY <1>1, <1>3, <1>6, <1>9, LocalPaint, BoundedPaint, SMTT(60), ZenonT(60)
<1>11. hr[t].par = p /\ hr[p].par = g
  BY <1>1, <1>2, <1>9, <1>10, <1>p
<1> HIDE DEF hr
<1>12. CASE IsRed(h, u)
  <2>1. u \in U
    BY <1>5, <1>12 DEF IsRed
  <2>2. Local(h, Paint(hr, u, "BLACK"), U)
    BY <1>1, <1>6, <1>10, <2>1, LocalPaint
  <2> QED BY <1>8, <1>12, <2>2
<1>13. CASE ~IsRed(h, u)
  <2> DEFINE d == SideOf(hr, p)
  <2>1. d \in Sides
    BY DEF SideOf, Sides
  <2>2. CASE d # SideOf(hr, t)
    <3>1. rotate(hr, t) = RotateInner(hr, t, p, g, d)
      BY <1>11, <2>2 DEF rotate
    <3> HIDE DEF d
    <3>2. Local(h, RotateInner(hr, t, p, g, d).heap, U)
      BY <1>2, <1>3, <1>10, <2>1, InnerLocal
    <3> QED BY <1>8, <1>13, <3>1, <3>2
  <2>3. CASE d = SideOf(hr, t) /\ d = "left"
    <3>1. rotate(hr, t) = RotateLeftLeft(hr, p, g)
      BY <1>11, <2>3 DEF rotate
    <3>2. Local(h, RotateLeftLeft(hr, p, g).heap, U)
      BY <1>2, <1>3, <1>10, LeftLeftLocal
    <3> QED BY <1>8, <1>13, <3>1, <3>2
  <2>4. CASE d = SideOf(hr, t) /\ d = "right"
    <3>1. rotate(hr, t) = RotateRightRight(hr, t, p, g)
      BY <1>11, <2>4 DEF rotate
    <3>2. Local(h, RotateRightRight(hr, t, p, g).heap, U)
      BY <1>2, <1>3, <1>10, RightRightLocal
    <3> QED BY <1>8, <1>13, <3>1, <3>2
  <2> QED BY <2>1, <2>2, <2>3, <2>4 DEF Sides
<1> QED BY <1>12, <1>13

\* Nodes outside the tree stay as they are.
LEMMA SpareKept ==
  ASSUME NEW h, NEW hh, NEW U, Spare(h, U), Local(h, hh, U)
  PROVE  Spare(hh, U)
BY DEF Spare, Local

-----------------------------------------------------------------------------
(* The repair steps keep the invariant *)

\* A pass of the loop of rbtree_insert keeps the invariant and exchanges entries at most.
LEMMA InsertRepairInv ==
  ASSUME TreeInv, InsertRepair
  PROVE  /\ TreeInv' /\ InUse' = InUse /\ del_tar = NULL /\ del_tar' = NULL
         /\ \E s : Turned(node, node', InUse, s)
<1> DEFINE U == InUse
           hh == InsertPass(node, tar).heap
           top == InsertPass(node, tar).top
<1>1. /\ op = "insert" /\ node[tar].color = "RED" /\ node[node[tar].par].color = "RED"
      /\ pool_count' = pool_count /\ ls' = ls /\ flag' = flag /\ del_tar' = del_tar
  BY DEF InsertRepair
<1>2. /\ IsTree(node, head, U) /\ Heights(node, U, {}, {}) /\ Quiet(node, U, {tar})
      /\ ~IsRed(node, head) /\ head # NULL /\ tar \in U /\ tar # head /\ flag = FALSE /\ del_tar = NULL
  BY <1>1 DEF TreeInv, Growing
<1>3. PassEnds(node, hh, U, head, top)
  BY <1>1, <1>2, InsertPassEnds
<1>4. Local(node, hh, U)
  BY <1>1, <1>2, PassLocal
<1>5. \/ /\ hh[top].par = NULL /\ head' = top /\ node' = Paint(hh, top, "BLACK")
         /\ op' = "idle" /\ tar' = NULL
      \/ hh[top].par # NULL /\ node' = hh /\ tar' = top /\ head' = head /\ op' = op
  BY DEF InsertRepair
<1>6. InUse' = InUse /\ PoolSound' /\ Spare(node, InUse)
  BY <1>1 DEF InUse, PoolSound, TreeInv
<1> HIDE DEF hh, top
<1>7. /\ top \in U /\ Heights(hh, U, {}, {}) /\ Quiet(hh, U, {top})
      /\ IsTree(hh, IF hh[top].par = NULL THEN top ELSE head, U)
      /\ hh[top].par # NULL => ~IsRed(hh, head)
  BY <1>3 DEF PassEnds
<1>8. PICK s : Turned(node, hh, U, s)
  BY <1>3 DEF PassEnds
<1>9. hh \in Heap /\ U \in SUBSET Nodes /\ 0 \notin U
  BY <1>7, TreeNodes
<1>10. CASE hh[top].par = NULL
  <2>1. head' = top /\ node' = Paint(hh, top, "BLACK") /\ op' = "idle" /\ tar' = NULL
    BY <1>5, <1>10
  <2>2. IsTree(hh, top, U) /\ top # NULL
    BY <1>7, <1>9, <1>10 DEF NULL
  <2>3. /\ IsTree(node', top, U) /\ Heights(node', U, {}, {}) /\ Quiet(node', U, {}) /\ ~IsRed(node', top)
        /\ Field(node', "kv") = Field(hh, "kv")
    BY <1>7, <2>1, <2>2, RootPainted
  <2>4. Local(node, node', U)
    <3>1. "BLACK" \in Colors
      BY DEF Colors
    <3> QED BY <1>4, <1>7, <1>9, <2>1, <3>1, LocalPaint
  <2>5. Spare(node', U) /\ node' \in Heap
    BY <1>6, <2>4, SpareKept DEF Local
  <2>6. Resting'
    BY <1>1, <1>2, <1>6, <2>1, <2>3 DEF Resting, Steady
  <2>7. TreeInv'
    BY <1>6, <2>1, <2>5, <2>6 DEF TreeInv
  <2>8. Turned(node, node', U, s)
    BY <1>8, <2>3 DEF Turned
  <2> QED BY <1>1, <1>2, <1>6, <2>7, <2>8
<1>11. CASE hh[top].par # NULL
  <2>1. node' = hh /\ tar' = top /\ head' = head /\ op' = op
    BY <1>5, <1>11
  <2>2. IsTree(hh, head, U) /\ ~IsRed(hh, head)
    BY <1>7, <1>11
  <2>3. top # head
    BY <1>7, <1>11, <2>2, TreeNodes
  <2>4. Spare(hh, U)
    BY <1>4, <1>6, SpareKept
  <2>5. Growing'
    BY <1>1, <1>2, <1>6, <1>7, <2>1, <2>2, <2>3 DEF Growing
  <2>6. TreeInv'
    BY <1>1, <1>6, <1>9, <2>1, <2>4, <2>5 DEF TreeInv
  <2> QED BY <1>1, <1>2, <1>6, <1>8, <2>1, <2>6
<1> QED BY <1>10, <1>11

\* The end of the loop of rbtree_insert.
LEMMA InsertDoneInv ==
  ASSUME TreeInv, InsertDone
  PROVE  TreeInv' /\ InUse' = InUse /\ del_tar' = del_tar /\ node' = node
<1>1. /\ op = "insert" /\ ~ (node[tar].color = "RED" /\ node[node[tar].par].color = "RED")
      /\ op' = "idle" /\ tar' = NULL /\ head' = head /\ node' = node
      /\ pool_count' = pool_count /\ ls' = ls /\ flag' = flag /\ del_tar' = del_tar
  BY DEF InsertDone
<1>2. /\ IsTree(node, head, InUse) /\ Heights(node, InUse, {}, {}) /\ Quiet(node, InUse, {tar})
      /\ ~IsRed(node, head) /\ tar \in InUse /\ flag = FALSE /\ del_tar = NULL
  BY <1>1 DEF TreeInv, Growing
<1>3. InUse' = InUse /\ PoolSound' /\ Spare(node, InUse) /\ node \in Heap
  BY <1>1 DEF InUse, PoolSound, TreeInv
<1> DEFINE A == Field(node, "left")
           B == Field(node, "right")
           P == Field(node, "par")
           C == Field(node, "color")
<1>4. Calm(A, B, C, InUse, {tar})
  BY <1>2 DEF Quiet
<1>5. Family(A, B, P, InUse)
  BY <1>2, TreeFamily DEF IsTree, Facing
<1>6. InUse \subseteq Nodes
  BY <1>2, TreeNodes
<1>7. \A n \in Nodes : C[n] = node[n].color /\ P[n] = node[n].par
  BY DEF Field
<1> HIDE DEF A, B, P, C
<1>8. ASSUME NEW n \in InUse, C[n] = "RED" PROVE ~Red(C, A[n]) /\ ~Red(C, B[n])
  <2>1. ASSUME NEW m \in {A[n], B[n]}, Red(C, m) PROVE FALSE
    <3>1. m = tar /\ C[m] = "RED"
      BY <1>4, <1>8, <2>1 DEF Calm, Red
    <3>2. P[m] = n
      BY <1>5, <2>1 DEF Family, Red, NULL
    <3>3. node[tar].color = "RED" /\ node[tar].par = n /\ node[n].color = "RED"
      BY <1>2, <1>6, <1>7, <1>8, <3>1, <3>2
    <3> QED BY <1>1, <3>3
  <2> QED BY <2>1
<1>9. Quiet(node, InUse, {})
  BY <1>8 DEF Quiet, Calm, A, B, C
<1>10. Resting'
  BY <1>1, <1>2, <1>3, <1>9 DEF Resting, Steady
<1> QED BY <1>1, <1>3, <1>10 DEF TreeInv

\* rbtree_delete up to its loop.
LEMMA TreeDeleteInv ==
  ASSUME TreeInv, NEW k \in Int, TreeDelete(k)
  PROVE  /\ TreeInv' /\ InUse' = InUse /\ del_tar = NULL
         /\ Search(k) \in InUse /\ node[Search(k)].kv[1] = k /\ del_tar' \in InUse
         /\ Vacating(node, node', InUse, Search(k), del_tar')
<1> DEFINE t == Search(k)
           x == Vacated(t).del
           hh == Vacated(t).heap
<1>1. /\ op = "idle" /\ t # NULL /\ node' = hh /\ head' = (IF x = head THEN NULL ELSE head)
      /\ del_tar' = x /\ tar' = x /\ flag' = (hh[x].color = "BLACK") /\ op' = "delete"
      /\ pool_count' = pool_count /\ ls' = ls
  BY DEF TreeDelete
<1>2. /\ Steady(node, head, InUse) /\ del_tar = NULL /\ PoolSound /\ Spare(node, InUse)
      /\ node \in Heap /\ IsTree(node, head, InUse) /\ 0 \notin InUse
  BY <1>1, Rests
<1>3. t \in InUse /\ node[t].kv[1] = k
  BY <1>1, <1>2, SearchFinds
<1>4. x = Vacated(t).del /\ hh = Vacated(t).heap
  OBVIOUS
<1> HIDE DEF t, x, hh
<1>5. /\ Steady(hh, head, InUse) /\ x \in InUse /\ Childless(hh, x) /\ hh \in Heap
      /\ Vacating(node, hh, InUse, t, x) /\ \A n \in Nodes \ InUse : hh[n] = node[n]
  BY <1>2, <1>3, <1>4, VacatedSteady
<1>6. /\ hh[x].color = "BLACK" => Short(hh, head, InUse, x, x)
      /\ hh[x].color # "BLACK" => Pruning(hh, head, InUse, x)
  BY <1>5, LeafGivenUp
<1>7. InUse' = InUse /\ PoolSound'
  BY <1>1, <1>2 DEF InUse, PoolSound
<1>8. Spare(node', InUse')
  BY <1>1, <1>2, <1>5, <1>7 DEF Spare
<1>9. Top' = head
  <2>1. head # NULL
    BY <1>2, <1>5, TreeNodes
  <2> QED BY <1>1, <2>1 DEF Top
<1>10. Shrinking'
  <2>1. x # NULL
    BY <1>2, <1>5 DEF NULL
  <2>2. flag' \in BOOLEAN /\ (head' # NULL => head' # del_tar')
    BY <1>1
  <2>3. IF flag' THEN Short(node', Top', InUse', del_tar', tar') ELSE Pruning(node', Top', InUse', del_tar')
    BY <1>1, <1>6, <1>7, <1>9
  <2> QED BY <2>2, <2>3 DEF Shrinking
<1>11. TreeInv'
  BY <1>1, <1>5, <1>7, <1>8, <1>10 DEF TreeInv
<1> QED BY <1>1, <1>2, <1>3, <1>5, <1>7, <1>11 DEF t

\* A pass of the loop of rbtree_delete keeps the invariant and exchanges entries at most.
LEMMA DeleteRepairInv ==
  ASSUME TreeInv, DeleteRepair
  PROVE  /\ TreeInv' /\ InUse' = InUse /\ del_tar' = del_tar /\ del_tar \in InUse
         /\ \E q : Turned(node, node', InUse \ {del_tar}, q)
<1> DEFINE U == InUse
           x == del_tar
           s == tar
           r == Top
           a == SideOf(node, s)
           b == Other(a)
           t == node[s].par
           v == node[t][b]
<1>1. /\ op = "delete" /\ flag /\ t # NULL
      /\ head' = head /\ pool_count' = pool_count /\ ls' = ls /\ op' = op /\ del_tar' = del_tar
  BY SMTT(60), ZenonT(60) DEF DeleteRepair
<1>2. \/ /\ IsRed(node, v)
         /\ node' = SiblingRed(node, t, v, a)
         /\ tar' = tar /\ flag' = flag
      \/ /\ ~IsRed(node, v) /\ IsRed(node, node[v][a])
         /\ node' = NearRed(node, t, v, a)
         /\ flag' = FALSE /\ tar' = t
      \/ /\ ~IsRed(node, v) /\ ~IsRed(node, node[v][a]) /\ IsRed(node, node[v][b])
         /\ node' = FarRed(node, t, v, a)
         /\ flag' = FALSE /\ tar' = t
      \/ /\ ~IsRed(node, v) /\ ~IsRed(node, node[v][a]) /\ ~IsRed(node, node[v][b])
         /\ node' = Paint(Paint(node, v, "RED"), t, "BLACK")
         /\ flag' = (node[t].color = "BLACK") /\ tar' = t
  BY DEF DeleteRepair
<1>3. Short(node, r, U, x, s) /\ (head # NULL => head # x)
  BY <1>1 DEF TreeInv, Shrinking
<1>4. IsTree(node, r, U) /\ x \in U /\ s \in U
  BY <1>3 DEF Short
<1>5. InUse' = U /\ PoolSound' /\ Spare(node, U) /\ Top' = r
  BY <1>1 DEF InUse, PoolSound, TreeInv, Top
<1>6. Bounded(node, U) /\ U \in SUBSET Nodes /\ Local(node, node, U)
  BY <1>4, TreeBounded, TreeNodes
<1>7. a \in Sides /\ b \in Sides
  BY DEF SideOf, Other, Sides
<1>8. s # r
  BY <1>1, <1>4, TreeNodes
<1>9. t \in U /\ v \in U \cup {NULL}
  <2>1. t \in U
    BY <1>4, <1>8, TreeNodes
  <2> QED BY <1>6, <1>7, <2>1, BoundedSides
<1>10. v \in U
  <2> DEFINE A == Field(node, a)
             B == Field(node, b)
             P == Field(node, "par")
             K == Field(node, "kv")
             C == Field(node, "color")
  <2>1. View(node, a, b, A, B, P, K, C)
    BY <1>6, HeapView DEF Bounded
  <2> HIDE DEF A, B, P, K, C
  <2>2. PICK N, pos, lo, hi, bh : OneShort(A, B, P, C, U, N, r, pos, lo, hi, bh, x, s, t, v)
    BY <1>1, <1>3, <2>1, ShortView
  <2> QED BY <2>2, OneShortFacts DEF ShortFacts
<1>11. a = SideOf(node, s) /\ b = Other(a) /\ t = node[s].par /\ v = node[t][b] /\ node[s].par # NULL
  BY <1>1
<1>12. "RED" \in Colors /\ "BLACK" \in Colors
  BY DEF Colors
<1> HIDE DEF U, x, s, r, a, b, t, v
<1>l. Lean(node, r, U, x, s, a, b, t, v)
  BY <1>3, <1>11 DEF Lean
<1>13. /\ Local(node, node', U) /\ (\E q : Turned(node, node', U \ {x}, q))
       /\ IF flag' THEN Short(node', r, U, x, tar') ELSE Pruning(node', r, U, x)
       /\ flag' \in BOOLEAN
  <2>1. CASE IsRed(node, v) /\ node' = SiblingRed(node, t, v, a) /\ tar' = tar /\ flag' = flag
    <3>1. Short(node', r, U, x, s) /\ \E q : Turned(node, node', U \ {x}, q)
      BY <1>l, <2>1, SiblingEnds
    <3>2. Local(node, node', U)
      BY <1>6, <1>7, <1>9, <1>10, <2>1, SiblingLocal
    <3>3. flag' \in BOOLEAN /\ flag' /\ tar' = s
      BY <1>1, <2>1 DEF TreeInv, Shrinking, s
    <3> QED BY <3>1, <3>2, <3>3
  <2>2. CASE /\ ~IsRed(node, v) /\ IsRed(node, node[v][a])
             /\ node' = NearRed(node, t, v, a) /\ flag' = FALSE /\ tar' = t
    <3>1. Pruning(node', r, U, x) /\ \E q : Turned(node, node', U \ {x}, q)
      BY <1>l, <2>2, NearEnds
    <3>2. node[v][a] # NULL
      BY <2>2 DEF IsRed
    <3>3. Local(node, node', U)
      BY <1>6, <1>7, <1>9, <1>10, <2>2, <3>2, NearLocal
    <3> QED BY <2>2, <3>1, <3>3
  <2>3. CASE /\ ~IsRed(node, v) /\ ~IsRed(node, node[v][a]) /\ IsRed(node, node[v][b])
             /\ node' = FarRed(node, t, v, a) /\ flag' = FALSE /\ tar' = t
    <3>1. Pruning(node', r, U, x) /\ \E q : Turned(node, node', U \ {x}, q)
      BY <1>l, <2>3, FarEnds
    <3>2. node[v][Other(a)] # NULL
      BY <1>11, <2>3 DEF IsRed
    <3>3. Local(node, node', U)
      BY <1>6, <1>7, <1>9, <1>10, <2>3, <3>2, FarLocal
    <3> QED BY <2>3, <3>1, <3>3
  <2>4. CASE /\ ~IsRed(node, v) /\ ~IsRed(node, node[v][a]) /\ ~IsRed(node, node[v][b])
             /\ node' = Paint(Paint(node, v, "RED"), t, "BLACK")
             /\ flag' = (node[t].color = "BLACK") /\ tar' = t
    <3>1. /\ node[t].color = "BLACK" => Short(node', r, U, x, t)
          /\ node[t].color # "BLACK" => Pruning(node', r, U, x)
          /\ \E q : Turned(node, node', U \ {x}, q)
      <4>1. /\ ~IsRed(node, v) /\ ~IsRed(node, node[v][a]) /\ ~IsRed(node, node[v][b])
            /\ node' = Paint(Paint(node, v, "RED"), t, "BLACK")
        BY <2>4
      <4>2. Darkened(node, node', r, U, x, t)
        BY <1>l, <4>1, BlackEnds
      <4> QED BY <4>2 DEF Darkened
    <3>2. Local(node, node', U)
      <4>1. Local(node, Paint(node, v, "RED"), U)
        BY <1>6, <1>10, <1>12, LocalPaint
      <4> QED BY <1>6, <1>9, <1>12, <2>4, <4>1, LocalPaint
    <3> QED BY <2>4, <3>1, <3>2
  <2> QED BY <1>2, <2>1, <2>2, <2>3, <2>4
<1>14. Spare(node', U) /\ node' \in Heap
  BY <1>5, <1>13, SpareKept DEF Local
<1>15. Shrinking'
  BY <1>1, <1>3, <1>5, <1>13 DEF Shrinking, x
<1>16. TreeInv'
  BY <1>1, <1>5, <1>14, <1>15 DEF TreeInv
<1> QED BY <1>1, <1>4, <1>5, <1>13, <1>16 DEF U, x

\* rbtree_node_free after the loop takes the leaf off.
LEMMA DeleteDoneInv ==
  ASSUME TreeInv, DeleteDone
  PROVE  /\ TreeInv' /\ InUse' = InUse \ {del_tar} /\ del_tar' = NULL
         /\ \A n \in InUse \ {del_tar} : node'[n].kv = node[n].kv
<1> DEFINE U == InUse
           x == del_tar
           r == Top
           p == node[x].par
<1>1. /\ op = "delete" /\ (~flag \/ node[tar].par = NULL)
      /\ node' = [IF p = NULL THEN node ELSE Set(node, p, SideOf(node, x), NULL) EXCEPT ![x] = Unused]
      /\ ls' = Append(ls, x) /\ op' = "idle" /\ tar' = NULL /\ flag' = FALSE /\ del_tar' = NULL
      /\ head' = head /\ pool_count' = pool_count
  BY DEF DeleteDone
<1>2. /\ IF flag THEN Short(node, r, U, x, tar) ELSE Pruning(node, r, U, x)
      /\ flag \in BOOLEAN /\ (head # NULL => head # x)
  BY <1>1 DEF TreeInv, Shrinking
<1>3. Pruning(node, r, U, x)
  <2>1. CASE flag
    <3>1. Short(node, r, U, x, tar) /\ node[tar].par = NULL
      BY <1>1, <1>2, <2>1
    <3> HIDE DEF U, x, r
    <3> QED BY <3>1, ShortRoot
  <2>2. CASE ~flag
    BY <1>2, <2>2
  <2> QED BY <2>1, <2>2
<1>4. IsTree(node, r, U) /\ x \in U /\ Childless(node, x)
  BY <1>3 DEF Pruning
<1>5. U \in SUBSET Nodes /\ 0 \notin U /\ (r # NULL => r \in U) /\ (r = NULL => U = {}) /\ (x # r <=> p # NULL)
  BY <1>4, TreeNodes
<1>6. PoolSound /\ Spare(node, U) /\ node \in Heap
  BY DEF TreeInv
<1>7. PoolSound' /\ InUse' = U \ {x}
  BY <1>1, <1>4, <1>6, Freed
<1>8. r = (IF head = NULL THEN x ELSE head)
  BY <1>1 DEF Top
<1>9. /\ Steady(node', head, U \ {x}) /\ node' \in Heap /\ node'[x] = Unused
      /\ \A n \in Nodes \ U : node'[n] = node[n]
      /\ \A n \in U \ {x} : node'[n].kv = node[n].kv
  <2>1. CASE head = NULL
    <3>1. r = x /\ p = NULL /\ r # NULL
      BY <1>4, <1>5, <1>8, <2>1 DEF NULL
    <3>2. U = {x}
      <4> HIDE DEF U, x, r
      <4> QED BY <1>4, <3>1, LoneRoot
    <3>3. node' = [node EXCEPT ![x] = Unused]
      BY <1>1, <3>1
    <3> HIDE DEF U, x, r
    <3>4. Unused \in [kv : Int \X Int, par : Places, left : Places, right : Places, color : Colors]
      BY DEF Unused, Places, Colors
    <3>5. x \in Nodes
      BY <1>4, <1>5
    <3>6. node' \in Heap /\ node'[x] = Unused /\ \A n \in Nodes \ {x} : node'[n] = node[n]
      BY <1>6, <3>3, <3>4, <3>5 DEF Heap
    <3>7. Steady(node', NULL, {})
      BY <3>6, EmptySteady
    <3>8. U \ {x} = {}
      BY <3>2
    <3> QED BY <2>1, <3>2, <3>6, <3>7, <3>8
  <2>2. CASE head # NULL
    <3>1. r = head /\ x # r
      BY <1>2, <1>8, <2>2
    <3>2. p # NULL
      BY <1>5, <3>1
    <3>3. CutOff(node, node', x, node[x].par, SideOf(node, x))
      BY <1>1, <3>2 DEF CutOff
    <3> HIDE DEF U, x, r
    <3>4. /\ Steady(node', r, U \ {x}) /\ node' \in Heap /\ node'[x] = Unused
          /\ Kept(Field(node, "kv"), Field(node', "kv"), U, x)
          /\ \A n \in Nodes \ U : node'[n] = node[n]
      <4>1. x # r
        BY <3>1
      <4>2. CutEnds(node, node', r, U, x)
        BY <1>3, <3>3, <4>1, LeafCutOff
      <4> QED BY <4>2 DEF CutEnds
    <3>5. \A n \in U \ {x} : node'[n].kv = node[n].kv
      BY <1>5, <3>4 DEF Kept, Field
    <3> QED BY <3>1, <3>4, <3>5
  <2> QED BY <2>1, <2>2
<1> HIDE DEF U, x, r
<1>10. Spare(node', U \ {x})
  BY <1>6, <1>9 DEF Spare
<1>11. Resting'
  BY <1>1, <1>7, <1>9 DEF Resting
<1>12. TreeInv'
  BY <1>1, <1>7, <1>9, <1>10, <1>11 DEF TreeInv
<1> QED BY <1>1, <1>7, <1>9, <1>12 DEF U, x

\* A call of tv_abort leaves the tree as it is.
LEMMA InsertFailsInv ==
  ASSUME TreeInv, InsertFails
  PROVE  TreeInv' /\ InUse' = InUse /\ node' = node /\ del_tar' = del_tar
<1>1. /\ op = "idle" /\ op' = "abort" /\ head' = head /\ node' = node /\ pool_count' = pool_count
      /\ ls' = ls /\ tar' = tar /\ flag' = flag /\ del_tar' = del_tar
  BY DEF InsertFails
<1>2. InUse' = InUse
  BY <1>1 DEF InUse
<1>3. Resting'
  BY <1>1, <1>2 DEF TreeInv, Resting
<1> QED BY <1>1, <1>2, <1>3 DEF TreeInv, PoolSound

\* The invariant is inductive.
LEMMA NextInv == TreeInv /\ [TreeNext]_treeVars => TreeInv'
<1> SUFFICES ASSUME TreeInv, [TreeNext]_treeVars PROVE TreeInv'
  OBVIOUS
<1>1. ASSUME NEW e \in Items, InsertRoot(e) PROVE TreeInv'
  BY <1>1, InsertRootInv
<1>2. ASSUME NEW e \in Items, InsertLeaf(e) PROVE TreeInv'
  BY <1>2, InsertLeafInv
<1>3. CASE InsertFails
  BY <1>3, InsertFailsInv
<1>4. ASSUME NEW e \in Items, TreeDelete(e[1]) PROVE TreeInv'
  <2>1. e[1] \in Int
    BY RbTreeAssumption
  <2> QED BY <1>4, <2>1, TreeDeleteInv
<1>5. CASE InsertRepair
  BY <1>5, InsertRepairInv
<1>6. CASE InsertDone
  BY <1>6, InsertDoneInv
<1>7. CASE DeleteRepair
  BY <1>7, DeleteRepairInv
<1>8. CASE DeleteDone
  BY <1>8, DeleteDoneInv
<1>9. CASE UNCHANGED treeVars
  BY <1>9 DEF treeVars, TreeInv, PoolSound, InUse, Resting, Growing, Shrinking, Top
<1> QED BY <1>1, <1>2, <1>3, <1>4, <1>5, <1>6, <1>7, <1>8, <1>9 DEF TreeNext, TreeStep

-----------------------------------------------------------------------------
(* The nodes from left to right *)

\* The nodes of U at the places 1 to N.
Line(U, N, pos, line) ==
  line \in Seq(U) /\ Len(line) = N /\ \A i \in 1 .. N : line[i] \in U /\ pos[line[i]] = i

\* f[n] is the walk through the nodes below n.
Walks(h, f) ==
  f = [n \in Places |-> IF n = NULL THEN <<>> ELSE f[h[n].left] \o <<n>> \o f[h[n].right]]

\* The places are full, so that the nodes are a line.
LEMMA LineExists ==
  ASSUME NEW U, NEW N \in Nat, NEW pos, Placed(U, N, pos)
  PROVE  \E line : Line(U, N, pos, line)
<1> DEFINE line == [i \in 1 .. N |-> CHOOSE n \in U : pos[n] = i]
<1>1. ASSUME NEW i \in 1 .. N PROVE line[i] \in U /\ pos[line[i]] = i
  <2>1. \E n \in U : pos[n] = i
    BY DEF Placed
  <2> QED BY <2>1
<1>2. line \in Seq(U) /\ Len(line) = N
  <2>1. line \in [1 .. N -> U]
    BY <1>1
  <2>2. DOMAIN line = 1 .. N
    OBVIOUS
  <2> HIDE DEF line
  <2> QED BY <2>1, <2>2
<1> HIDE DEF line
<1> QED BY <1>1, <1>2 DEF Line

\* The part of the line that the nodes below n fill.
Part(U, lo, hi, line) ==
  [n \in Places |-> IF n \in U THEN SubSeq(line, lo[n], hi[n]) ELSE IF n = NULL THEN <<>> ELSE <<n>>]

\* The parts of the line are the walks below the nodes.
LEMMA PartsWalk ==
  ASSUME NEW h, NEW r, NEW U, NEW N, NEW pos, NEW lo, NEW hi, Tree(h, r, U, N, pos, lo, hi), Spare(h, U),
         NEW line, Line(U, N, pos, line)
  PROVE  Walks(h, Part(U, lo, hi, line))
<1> DEFINE f == Part(U, lo, hi, line)
<1>1. /\ U \subseteq Nodes /\ NULL \notin U /\ NULL \notin Nodes /\ NULL \in Places /\ Nodes \subseteq Places
      /\ Placed(U, N, pos) /\ N \in Nat
  BY DEF Tree, Shape, Measures, Nodes, NULL, Places
<1>2. /\ \A n \in U : f[n] = SubSeq(line, lo[n], hi[n])
      /\ \A n \in Nodes \ U : f[n] = <<n>>
      /\ f[NULL] = <<>>
      /\ f = [n \in Places |-> f[n]]
  BY <1>1 DEF Part
<1> HIDE DEF f
<1>3. ASSUME NEW n \in U PROVE f[n] = f[h[n].left] \o <<n>> \o f[h[n].right]
  <2> DEFINE a == h[n].left
             b == h[n].right
  <2>1. /\ pos[n] \in Int /\ lo[n] \in Int /\ hi[n] \in Int
        /\ 1 <= lo[n] /\ lo[n] <= pos[n] /\ pos[n] <= hi[n] /\ hi[n] <= N
        /\ a = NULL => lo[n] = pos[n]
        /\ a # NULL => a \in U /\ lo[a] = lo[n] /\ hi[a] = pos[n] - 1
        /\ b = NULL => hi[n] = pos[n]
        /\ b # NULL => b \in U /\ lo[b] = pos[n] + 1 /\ hi[b] = hi[n]
    BY FitsHeap
  <2> HIDE DEF a, b
  <2>2. line \in Seq(U) /\ Len(line) = N
    BY DEF Line
  <2>3. f[a] = SubSeq(line, lo[n], pos[n] - 1)
    <3>1. CASE a = NULL
      <4>1. SubSeq(line, lo[n], pos[n] - 1) = <<>>
        BY <2>1, <3>1, SubSeqEmpty
      <4> QED BY <1>2, <3>1, <4>1
    <3>2. CASE a # NULL
      BY <1>2, <2>1, <3>2
    <3> QED BY <3>1, <3>2
  <2>4. f[b] = SubSeq(line, pos[n] + 1, hi[n])
    <3>1. CASE b = NULL
      <4>1. SubSeq(line, pos[n] + 1, hi[n]) = <<>>
        BY <2>1, <3>1, SubSeqEmpty
      <4> QED BY <1>2, <3>1, <4>1
    <3>2. CASE b # NULL
      BY <1>2, <2>1, <3>2
    <3> QED BY <3>1, <3>2
  <2>5. line[pos[n]] = n
    <3>1. pos[n] \in 1 .. N
      BY <1>1, <2>1
    <3> QED BY <1>1, <3>1 DEF Line, Placed
  <2>6. SubSeq(line, lo[n], pos[n]) = SubSeq(line, lo[n], pos[n] - 1) \o <<n>>
    <3>1. lo[n] \in 1 .. Len(line) /\ pos[n] \in lo[n] .. Len(line)
      BY <1>1, <2>1, <2>2
    <3> QED BY <2>2, <2>5, <3>1, SubSeqRecursiveSecond
  <2>7. SubSeq(line, lo[n], pos[n]) \o SubSeq(line, pos[n] + 1, hi[n]) = SubSeq(line, lo[n], hi[n])
    <3>1. lo[n] \in 1 .. Len(line) + 1 /\ pos[n] \in lo[n] - 1 .. Len(line) /\ hi[n] \in pos[n] .. Len(line)
      BY <1>1, <2>1, <2>2
    <3> QED BY <2>2, <3>1, ConcatAdjacentSubSeq
  <2>8. f[n] = f[a] \o <<n>> \o f[b]
    BY <1>2, <2>3, <2>4, <2>6, <2>7
  <2> QED BY <2>8 DEF a, b
<1>4. ASSUME NEW n \in Nodes \ U PROVE f[n] = f[h[n].left] \o <<n>> \o f[h[n].right]
  <2>1. h[n].left = NULL /\ h[n].right = NULL
    BY DEF Spare, Unused
  <2>2. <<n>> \in Seq(Nodes)
    OBVIOUS
  <2>3. <<>> \o <<n>> \o <<>> = <<n>>
    BY <2>2, ConcatEmptySeq, SMTT(60), ZenonT(60)
  <2> QED BY <1>2, <2>1, <2>3
<1>5. \A n \in Places : f[n] = IF n = NULL THEN <<>> ELSE f[h[n].left] \o <<n>> \o f[h[n].right]
  BY <1>1, <1>2, <1>3, <1>4 DEF Places
<1>6. Walks(h, f)
  BY <1>2, <1>5 DEF Walks
<1> QED BY <1>6 DEF f

\* There is only one walk.
LEMMA WalkUnique ==
  ASSUME NEW h, NEW r, NEW U, NEW N, NEW pos, NEW lo, NEW hi, Tree(h, r, U, N, pos, lo, hi), Spare(h, U),
         NEW f, NEW g, Walks(h, f), Walks(h, g)
  PROVE  \A n \in Places : f[n] = g[n]
<1> DEFINE rank == Rank(U, lo, hi)
           bad == {rank[n] : n \in {m \in Places : f[m] # g[m]}}
<1>1. /\ \A n \in Places : rank[n] \in Nat
      /\ \A n \in Nodes, d \in Sides : h[n][d] \in Places /\ rank[h[n][d]] < rank[n]
  BY RankFalls
<1>2. \A n \in Nodes : /\ h[n].left \in Places /\ rank[h[n].left] < rank[n]
                       /\ h[n].right \in Places /\ rank[h[n].right] < rank[n]
  BY <1>1, SMTT(60), ZenonT(60) DEF Sides
<1> HIDE DEF rank
<1>3. \A n \in Places : /\ f[n] = IF n = NULL THEN <<>> ELSE f[h[n].left] \o <<n>> \o f[h[n].right]
                        /\ g[n] = IF n = NULL THEN <<>> ELSE g[h[n].left] \o <<n>> \o g[h[n].right]
  BY DEF Walks
<1>4. ASSUME NEW k \in bad PROVE \E l \in bad : ~(k <= l)
  <2>1. PICK n \in Places : f[n] # g[n] /\ rank[n] = k
    OBVIOUS
  <2>2. n \in Nodes /\ n # NULL
    BY <1>3, <2>1 DEF Places, NULL, Nodes
  <2>3. f[h[n].left] # g[h[n].left] \/ f[h[n].right] # g[h[n].right]
    BY <1>3, <2>1, <2>2
  <2>4. PICK m \in Places : f[m] # g[m] /\ rank[m] < rank[n]
    BY <1>2, <2>2, <2>3
  <2>5. rank[m] \in bad /\ rank[m] \in Nat /\ k \in Nat /\ rank[m] < k
    BY <1>1, <2>1, <2>4
  <2> HIDE DEF bad
  <2> QED BY <2>5
<1>5. bad \in SUBSET Nat
  BY <1>1
<1>6. bad = {}
  <2> HIDE DEF bad
  <2> QED BY <1>4, <1>5, LeastElement
<1> QED BY <1>6

\* The walk from the root is the line.
LEMMA InOrderIs ==
  ASSUME NEW r, NEW U, NEW N, NEW pos, NEW lo, NEW hi, Tree(node, r, U, N, pos, lo, hi), Spare(node, U),
         NEW line, Line(U, N, pos, line)
  PROVE  /\ head = r => InOrder = line
         /\ head = NULL => InOrder = <<>>
<1> DEFINE walk[n \in Places] == IF n = NULL THEN <<>> ELSE walk[node[n].left] \o <<n>> \o walk[node[n].right]
           part == Part(U, lo, hi, line)
<1>1. InOrder = walk[head]
  BY Zenon DEF InOrder, Places
<1>2. walk = CHOOSE f : Walks(node, f)
  BY DEF Walks
<1> HIDE DEF walk
<1>3. Walks(node, part)
  BY PartsWalk
<1>4. Walks(node, walk)
  BY <1>2, <1>3, Zenon
<1>5. \A n \in Places : walk[n] = part[n]
  <2> HIDE DEF part
  <2> QED BY <1>3, <1>4, WalkUnique
<1>6. NULL \in Places /\ NULL \notin U /\ part[NULL] = <<>> /\ \A n \in U : n \in Places /\ part[n] = SubSeq(line, lo[n], hi[n])
  <2>1. NULL \in Places /\ NULL \notin U /\ U \subseteq Places
    BY DEF Tree, Shape, Measures, Places, Nodes, NULL
  <2> QED BY <2>1 DEF Part
<1> HIDE DEF part
<1>7. ASSUME head = NULL PROVE InOrder = <<>>
  BY <1>1, <1>5, <1>6, <1>7
<1>8. ASSUME head = r PROVE InOrder = line
  <2>1. Rooted(Field(node, "par"), U, N, r, lo, hi)
    BY DEF Tree, Shape
  <2>2. CASE r = NULL
    <3>1. line = <<>>
      BY <2>1, <2>2 DEF Rooted, Line
    <3> QED BY <1>7, <1>8, <2>2, <3>1
  <2>3. CASE r # NULL
    <3>1. r \in U /\ lo[r] = 1 /\ hi[r] = N
      BY <2>1, <2>3 DEF Rooted
    <3>2. SubSeq(line, 1, N) = line
      BY SubSeqFull DEF Line
    <3> QED BY <1>1, <1>5, <1>6, <1>8, <3>1, <3>2
  <2> QED BY <2>2, <2>3
<1> QED BY <1>7, <1>8

-----------------------------------------------------------------------------
(* What the invariant says of the walk *)

\* In every state the nodes in use are a tree; the root is head unless the last node goes.
LEMMA Standing ==
  ASSUME TreeInv
  PROVE  /\ IsTree(node, Top, InUse) /\ Spare(node, InUse) /\ PoolSound
         /\ head # NULL => Top = head
         /\ head = NULL => InUse \subseteq {del_tar}
         /\ del_tar # NULL => del_tar \in InUse
<1>1. op \in {"idle", "abort", "insert", "delete"} /\ Spare(node, InUse) /\ PoolSound
  BY DEF TreeInv
<1>2. head # NULL => Top = head
  BY DEF Top
<1>3. CASE op = "delete"
  <2>1. Shrinking
    BY <1>3 DEF TreeInv
  <2>2. IsTree(node, Top, InUse) /\ del_tar \in InUse /\ Childless(node, del_tar)
    BY <2>1 DEF Shrinking, Short, Pruning
  <2>3. head = NULL => InUse = {del_tar}
    <3>1. del_tar # NULL
      BY <2>2, TreeNodes DEF NULL
    <3>2. head = NULL => Top = del_tar
      BY <1>3 DEF Top
    <3> QED BY <2>2, <3>1, <3>2, LoneRoot
  <2> QED BY <1>1, <1>2, <2>2, <2>3
<1>4. CASE op # "delete"
  <2>1. IsTree(node, head, InUse) /\ del_tar = NULL
    BY <1>1, <1>4 DEF TreeInv, Resting, Steady, Growing
  <2>2. Top = head
    BY <1>4 DEF Top
  <2>3. head = NULL => InUse = {}
    BY <2>1, TreeNodes
  <2> QED BY <1>1, <1>2, <2>1, <2>2, <2>3
<1> QED BY <1>3, <1>4

\* The walk meets the nodes of the line.
LEMMA LineNodes ==
  ASSUME NEW U, NEW N, NEW pos, NEW line, Line(U, N, pos, line), Placed(U, N, pos), N \in Nat
  PROVE  ToSet(line) = U /\ IsInjective(line)
<1>1. line \in Seq(U) /\ Len(line) = N /\ \A i \in 1 .. N : line[i] \in U /\ pos[line[i]] = i
  BY DEF Line
<1>2. DOMAIN line = 1 .. N
  BY <1>1
<1>3. ToSet(line) \subseteq U
  BY <1>1, <1>2 DEF ToSet
<1>4. ASSUME NEW n \in U PROVE n \in ToSet(line)
  <2>1. pos[n] \in 1 .. N /\ line[pos[n]] = n
    BY <1>1 DEF Placed
  <2> QED BY <1>2, <2>1 DEF ToSet
<1>5. IsInjective(line)
  BY <1>1, <1>2 DEF IsInjective
<1> QED BY <1>3, <1>4, <1>5

\* The nodes that can be reached are those in use; only the last one to go cannot.
LEMMA Reached ==
  ASSUME TreeInv
  PROVE  /\ ToSet(InOrder) \subseteq InUse /\ InUse \subseteq ToSet(InOrder) \cup {del_tar}
         /\ IsInjective(InOrder)
         /\ \A i \in 1 .. Len(InOrder) - 1 : node[InOrder[i]].kv[1] <= node[InOrder[i + 1]].kv[1]
<1>1. /\ IsTree(node, Top, InUse) /\ Spare(node, InUse) /\ PoolSound
      /\ head # NULL => Top = head
      /\ head = NULL => InUse \subseteq {del_tar}
  BY Standing
<1>2. PICK N, pos, lo, hi : Tree(node, Top, InUse, N, pos, lo, hi)
  BY <1>1 DEF IsTree
<1>3. Placed(InUse, N, pos) /\ N \in Nat
  BY <1>2 DEF Tree, Shape, Measures
<1>4. PICK line : Line(InUse, N, pos, line)
  BY <1>3, LineExists
<1>5. CASE head = NULL
  <2>1. InOrder = <<>>
    BY <1>1, <1>2, <1>4, <1>5, InOrderIs
  <2>2. ToSet(InOrder) = {} /\ IsInjective(InOrder) /\ Len(InOrder) = 0
    BY <2>1 DEF ToSet, IsInjective
  <2> QED BY <1>1, <1>5, <2>2
<1>6. CASE head # NULL
  <2>1. InOrder = line
    BY <1>1, <1>2, <1>4, <1>6, InOrderIs
  <2>2. ToSet(line) = InUse /\ IsInjective(line)
    BY <1>3, <1>4, LineNodes
  <2>3. ASSUME NEW i \in 1 .. Len(line) - 1 PROVE node[line[i]].kv[1] <= node[line[i + 1]].kv[1]
    <3>1. /\ line[i] \in InUse /\ line[i + 1] \in InUse
          /\ pos[line[i]] <= pos[line[i + 1]]
      BY <1>3, <1>4, <2>3 DEF Line
    <3> QED BY <1>2, <3>1, KeyOrder
  <2> QED BY <2>1, <2>2, <2>3
<1> QED BY <1>5, <1>6

\* The nodes of the walk that stay.
LEMMA StoredIs ==
  ASSUME TreeInv
  PROVE  Stored = InUse \ {del_tar}
BY Reached DEF Stored

\* The links are sound at every pass.
LEMMA LinksInv == TreeInv => LinksSound
<1> SUFFICES ASSUME TreeInv PROVE LinksSound
  OBVIOUS
<1>1. Stored = (1 .. pool_count) \ (ToSet(ls) \cup {del_tar})
  BY StoredIs DEF InUse
<1>2. IsInjective(ls)
  BY DEF TreeInv, PoolSound
<1>3. IsTree(node, Top, InUse) /\ (head # NULL => Top = head)
  BY Standing
<1>4. head # NULL => node[head].par = NULL
  BY <1>3, TreeNodes
<1>5. ASSUME NEW n \in InUse, NEW d \in Sides, node[n][d] # NULL PROVE node[node[n][d]].par = n
  <2>1. PICK N, pos, lo, hi : Tree(node, Top, InUse, N, pos, lo, hi)
    BY <1>3 DEF IsTree
  <2>2. /\ node[n].left # NULL => node[node[n].left].par = n
        /\ node[n].right # NULL => node[node[n].right].par = n
    BY <2>1, FitsHeap
  <2> QED BY <1>5, <2>2 DEF Sides
<1> QED BY <1>1, <1>2, <1>4, <1>5, Reached DEF LinksSound

-----------------------------------------------------------------------------
(* What the invariant says of the heights *)

\* f[n] holds the number of black nodes on each way down from n.
Counts(h, f) ==
  f = [n \in Places |->
         IF n = NULL THEN {1}
         ELSE {k + (IF IsRed(h, n) THEN 0 ELSE 1) : k \in f[h[n].left] \cup f[h[n].right]}]

\* The ways down from a node of a balanced tree pass bh[n] black nodes.
OneHeight(U, bh) == [n \in Places |-> IF n \in U THEN {bh[n]} ELSE {1}]

\* The heights of a balanced tree are such a function.
LEMMA HeightsCount ==
  ASSUME NEW h, NEW r, NEW U, NEW N, NEW pos, NEW lo, NEW hi, Tree(h, r, U, N, pos, lo, hi), Spare(h, U),
         NEW bh, Balanced(Field(h, "left"), Field(h, "right"), Field(h, "color"), U, bh, {}, {})
  PROVE  Counts(h, OneHeight(U, bh))
<1> DEFINE f == OneHeight(U, bh)
<1>1. /\ U \subseteq Nodes /\ NULL \notin U /\ NULL \notin Nodes /\ NULL \in Places /\ Nodes \subseteq Places
  BY DEF Tree, Shape, Measures, Nodes, NULL, Places
<1>2. /\ \A n \in U : f[n] = {bh[n]}
      /\ \A n \in Places \ U : f[n] = {1}
      /\ f = [n \in Places |-> f[n]]
  BY <1>1 DEF OneHeight
<1> HIDE DEF f
<1>3. bh \in [Places -> Int] /\ bh[NULL] = 1
  BY DEF Balanced
<1>4. ASSUME NEW n \in U
      PROVE  f[n] = {k + (IF IsRed(h, n) THEN 0 ELSE 1) : k \in f[h[n].left] \cup f[h[n].right]}
  <2> DEFINE a == h[n].left
             b == h[n].right
             c == IF IsRed(h, n) THEN 0 ELSE 1
  <2>1. Even(Field(h, "left"), Field(h, "right"), Field(h, "color"), bh, {}, n)
    BY DEF Balanced
  <2>2. Field(h, "left")[n] = a /\ Field(h, "right")[n] = b /\ Field(h, "color")[n] = h[n].color /\ n # NULL
    BY <1>1 DEF Field
  <2>3. bh[a] = bh[b] /\ bh[n] = bh[a] + c
    BY <2>1, <2>2 DEF Even, Due, IsRed
  <2>4. (a = NULL \/ a \in U) /\ (b = NULL \/ b \in U)
    BY FitsHeap
  <2> HIDE DEF a, b, c
  <2>5. f[a] = {bh[a]} /\ f[b] = {bh[a]}
    BY <1>1, <1>2, <1>3, <2>3, <2>4
  <2>6. f[n] = {k + c : k \in f[a] \cup f[b]}
    BY <1>2, <2>3, <2>5
  <2> QED BY <2>6 DEF a, b, c
<1>5. ASSUME NEW n \in Nodes \ U
      PROVE  f[n] = {k + (IF IsRed(h, n) THEN 0 ELSE 1) : k \in f[h[n].left] \cup f[h[n].right]}
  <2>1. h[n].left = NULL /\ h[n].right = NULL /\ IsRed(h, n)
    BY <1>1 DEF Spare, Unused, IsRed
  <2>2. f[NULL] = {1} /\ f[n] = {1}
    BY <1>1, <1>2
  <2>3. {1} = {k + 0 : k \in {1} \cup {1}}
    OBVIOUS
  <2> QED BY <2>1, <2>2, <2>3
<1>6. f[NULL] = {1}
  BY <1>1, <1>2
<1>7. \A n \in Places : f[n] = IF n = NULL THEN {1}
                               ELSE {k + (IF IsRed(h, n) THEN 0 ELSE 1) : k \in f[h[n].left] \cup f[h[n].right]}
  BY <1>1, <1>4, <1>5, <1>6 DEF Places
<1>8. Counts(h, f)
  BY <1>2, <1>7 DEF Counts
<1> QED BY <1>8 DEF f

\* There is only one such function.
LEMMA CountUnique ==
  ASSUME NEW h, NEW r, NEW U, NEW N, NEW pos, NEW lo, NEW hi, Tree(h, r, U, N, pos, lo, hi), Spare(h, U),
         NEW f, NEW g, Counts(h, f), Counts(h, g)
  PROVE  \A n \in Places : f[n] = g[n]
<1> DEFINE rank == Rank(U, lo, hi)
           bad == {rank[n] : n \in {m \in Places : f[m] # g[m]}}
<1>1. /\ \A n \in Places : rank[n] \in Nat
      /\ \A n \in Nodes, d \in Sides : h[n][d] \in Places /\ rank[h[n][d]] < rank[n]
  BY RankFalls
<1>2. \A n \in Nodes : /\ h[n].left \in Places /\ rank[h[n].left] < rank[n]
                       /\ h[n].right \in Places /\ rank[h[n].right] < rank[n]
  BY <1>1 DEF Sides
<1> HIDE DEF rank
<1>3. \A n \in Places :
        /\ f[n] = IF n = NULL THEN {1}
                  ELSE {k + (IF IsRed(h, n) THEN 0 ELSE 1) : k \in f[h[n].left] \cup f[h[n].right]}
        /\ g[n] = IF n = NULL THEN {1}
                  ELSE {k + (IF IsRed(h, n) THEN 0 ELSE 1) : k \in g[h[n].left] \cup g[h[n].right]}
  BY DEF Counts
<1>4. ASSUME NEW k \in bad PROVE \E l \in bad : ~(k <= l)
  <2>1. PICK n \in Places : f[n] # g[n] /\ rank[n] = k
    OBVIOUS
  <2>2. n \in Nodes /\ n # NULL
    BY <1>3, <2>1 DEF Places, NULL, Nodes
  <2>3. f[h[n].left] # g[h[n].left] \/ f[h[n].right] # g[h[n].right]
    BY <1>3, <2>1, <2>2, Zenon
  <2>4. PICK m \in Places : f[m] # g[m] /\ rank[m] < rank[n]
    BY <1>2, <2>2, <2>3
  <2>5. rank[m] \in bad /\ rank[m] \in Nat /\ k \in Nat /\ rank[m] < k
    BY <1>1, <2>1, <2>4
  <2> HIDE DEF bad
  <2> QED BY <2>5
<1>5. bad \in SUBSET Nat
  BY <1>1
<1>6. bad = {}
  <2> HIDE DEF bad
  <2> QED BY <1>4, <1>5, LeastElement
<1> QED BY <1>6

\* The tree is balanced between operations.
LEMMA BalanceInv == TreeInv => RedBlack
<1> SUFFICES ASSUME TreeInv PROVE RedBlack
  OBVIOUS
<1> DEFINE height[n \in {NULL} \cup Nodes] ==
             IF n = NULL THEN {1}
             ELSE {h + (IF IsRed(node, n) THEN 0 ELSE 1) : h \in height[node[n].left] \cup height[node[n].right]}
           Level ==
             op = "idle" =>
               /\ ~IsRed(node, head)
               /\ \A n \in ToSet(InOrder) :
                    IsRed(node, n) => ~IsRed(node, node[n].left) /\ ~IsRed(node, node[n].right)
               /\ \A n \in {NULL} \cup ToSet(InOrder) : \A h1, h2 \in height[n] : h1 = h2
<1>1. RedBlack <=> Level
  BY Zenon DEF RedBlack
<1>2. height = CHOOSE f : Counts(node, f)
  BY Zenon DEF Counts, Places
<1> HIDE DEF height
<1>3. ASSUME op = "idle"
      PROVE  /\ ~IsRed(node, head)
             /\ \A n \in ToSet(InOrder) :
                  IsRed(node, n) => ~IsRed(node, node[n].left) /\ ~IsRed(node, node[n].right)
             /\ \A n \in {NULL} \cup ToSet(InOrder) : \A h1, h2 \in height[n] : h1 = h2
  <2>1. /\ Steady(node, head, InUse) /\ Spare(node, InUse) /\ IsTree(node, head, InUse)
        /\ InUse \subseteq Nodes /\ node \in Heap
    BY <1>3, Rests
  <2>2. ~IsRed(node, head) /\ Heights(node, InUse, {}, {}) /\ Quiet(node, InUse, {})
    BY <2>1 DEF Steady
  <2>3. ToSet(InOrder) \subseteq InUse
    BY Reached
  <2>4. ASSUME NEW n \in ToSet(InOrder), IsRed(node, n)
        PROVE  ~IsRed(node, node[n].left) /\ ~IsRed(node, node[n].right)
    <3>1. n \in InUse /\ n \in Nodes /\ Field(node, "color")[n] = "RED"
          /\ node[n].left \in Places /\ node[n].right \in Places
      BY <2>1, <2>3, <2>4 DEF IsRed, Field, Heap
    <3>2. ~Red(Field(node, "color"), Field(node, "left")[n]) /\ ~Red(Field(node, "color"), Field(node, "right")[n])
      BY <2>2, <3>1 DEF Quiet, Calm
    <3>3. Field(node, "left")[n] = node[n].left /\ Field(node, "right")[n] = node[n].right
      BY <3>1 DEF Field
    <3> QED BY <3>1, <3>2, <3>3, RedField
  <2>5. PICK N, pos, lo, hi : Tree(node, head, InUse, N, pos, lo, hi)
    BY <2>1 DEF IsTree
  <2>6. PICK bh : Balanced(Field(node, "left"), Field(node, "right"), Field(node, "color"), InUse, bh, {}, {})
    BY <2>2 DEF Heights
  <2>7. Counts(node, OneHeight(InUse, bh))
    BY <2>1, <2>5, <2>6, HeightsCount
  <2>8. Counts(node, height)
    BY <1>2, <2>7, Zenon
  <2>9. \A n \in Places : height[n] = OneHeight(InUse, bh)[n]
    BY <2>1, <2>5, <2>7, <2>8, CountUnique
  <2>10. ASSUME NEW n \in {NULL} \cup ToSet(InOrder), NEW h1 \in height[n], NEW h2 \in height[n] PROVE h1 = h2
    <3>1. n \in Places
      BY <2>1, <2>3 DEF Places
    <3>2. \E k : OneHeight(InUse, bh)[n] = {k}
      BY <3>1 DEF OneHeight
    <3> QED BY <2>9, <2>10, <3>1, <3>2
  <2> QED BY <2>2, <2>4, <2>10
<1>4. Level
  BY <1>3
<1> QED BY <1>1, <1>4

-----------------------------------------------------------------------------
(* The theorems *)

\* The tree of rbtree.c is sound at every pass of every loop and balanced between
\* operations, for every size of the pool and every sequence of calls.
THEOREM TreeAlwaysSound == TreeSpec => []TreeSound
<1>1. TreeSpec => []TreeInv
  BY InitInv, NextInv, PTL DEF TreeSpec
<1>2. TreeInv => TreeSound
  BY LinksInv, BalanceInv DEF TreeSound
<1> QED BY <1>1, <1>2, PTL

-----------------------------------------------------------------------------
(* Bags of entries *)

\* How often e is in the bag B.
Amount(B, e) == IF e \in DOMAIN B THEN B[e] ELSE 0

IsBag(B) == B = [e \in DOMAIN B |-> B[e]] /\ \A e \in DOMAIN B : B[e] \in Nat /\ B[e] > 0

Added(B, x) == [e \in DOMAIN B \cup {x} |-> Amount(B, e) + (IF e = x THEN 1 ELSE 0)]

Taken(B, x) == [e \in {d \in DOMAIN B : d = x => B[d] > 1} |-> IF e = x THEN B[e] - 1 ELSE B[e]]

\* B has one x more than A.
OneMore(A, B, x) == \A e : Amount(B, e) = Amount(A, e) + (IF e = x THEN 1 ELSE 0)

\* How often each entry is in a bag determines it.
LEMMA SameAmounts ==
  ASSUME NEW A, NEW B, IsBag(A), IsBag(B), \A e : Amount(A, e) = Amount(B, e)
  PROVE  A = B
<1>1. DOMAIN A = DOMAIN B
  BY DEF IsBag, Amount
<1>2. \A e \in DOMAIN A : A[e] = B[e]
  BY <1>1 DEF Amount
<1> QED BY <1>1, <1>2 DEF IsBag

\* An entry is added to a bag.
LEMMA AddedIs ==
  ASSUME NEW A, NEW B, NEW x, IsBag(A), IsBag(B), OneMore(A, B, x)
  PROVE  B = Added(A, x)
<1> DEFINE D == Added(A, x)
<1>1. \A e : Amount(A, e) \in Nat /\ (e \in DOMAIN A => Amount(A, e) > 0)
  BY DEF IsBag, Amount
<1>2. \A e : Amount(D, e) = Amount(A, e) + (IF e = x THEN 1 ELSE 0)
  <2> TAKE e
  <2>1. CASE e \in DOMAIN A \cup {x}
    BY <2>1 DEF Added, Amount
  <2>2. CASE e \notin DOMAIN A \cup {x}
    BY <2>2 DEF Added, Amount
  <2> QED BY <2>1, <2>2
<1>3. IsBag(D)
  <2>1. DOMAIN D = DOMAIN A \cup {x} /\ D = [e \in DOMAIN D |-> D[e]]
    BY DEF Added
  <2>2. \A e \in DOMAIN D : D[e] = Amount(A, e) + (IF e = x THEN 1 ELSE 0)
    BY DEF Added
  <2>3. ASSUME NEW e \in DOMAIN D PROVE D[e] \in Nat /\ D[e] > 0
    <3> HIDE DEF D
    <3> QED BY <1>1, <2>1, <2>2, <2>3
  <2> HIDE DEF D
  <2> QED BY <2>1, <2>3 DEF IsBag
<1> HIDE DEF D
<1>4. \A e : Amount(B, e) = Amount(D, e)
  BY <1>2 DEF OneMore
<1>5. B = D
  BY <1>3, <1>4, SameAmounts
<1> QED BY <1>5 DEF D

\* An entry is taken from a bag.
LEMMA TakenIs ==
  ASSUME NEW A, NEW B, NEW x, IsBag(A), IsBag(B), OneMore(A, B, x)
  PROVE  A = Taken(B, x) /\ x \in DOMAIN B
<1> DEFINE D == Taken(B, x)
<1>1. \A e : Amount(A, e) \in Nat /\ (e \in DOMAIN A <=> Amount(A, e) > 0)
  BY DEF IsBag, Amount
<1>2. \A e \in DOMAIN B : Amount(B, e) = B[e] /\ B[e] \in Nat /\ B[e] > 0
  BY DEF Amount, IsBag
<1>3. x \in DOMAIN B
  <2>1. Amount(B, x) = Amount(A, x) + 1
    BY DEF OneMore
  <2>2. Amount(B, x) > 0
    BY <1>1, <2>1
  <2> QED BY <2>2 DEF Amount
<1>4. IsBag(D)
  <2>1. DOMAIN D = {d \in DOMAIN B : d = x => B[d] > 1} /\ D = [e \in DOMAIN D |-> D[e]]
    BY DEF Taken
  <2>2. \A e \in DOMAIN D : D[e] = IF e = x THEN B[e] - 1 ELSE B[e]
    BY DEF Taken
  <2> HIDE DEF D
  <2> QED BY <1>2, <2>1, <2>2 DEF IsBag
<1>5. \A e : Amount(D, e) = IF e = x THEN Amount(B, e) - 1 ELSE Amount(B, e)
  <2> TAKE e
  <2>1. CASE e \in DOMAIN D
    BY <1>2, <2>1 DEF Taken, Amount
  <2>2. CASE e \notin DOMAIN D /\ e \in DOMAIN B
    <3>1. e = x /\ B[e] = 1
      BY <1>2, <2>2 DEF Taken
    <3> QED BY <1>2, <2>2, <3>1 DEF Amount
  <2>3. CASE e \notin DOMAIN B
    BY <1>3, <2>3 DEF Taken, Amount
  <2> QED BY <2>1, <2>2, <2>3
<1> HIDE DEF D
<1>6. \A e : Amount(A, e) = Amount(D, e)
  BY <1>1, <1>5 DEF OneMore
<1>7. A = D
  BY <1>4, <1>6, SameAmounts
<1> QED BY <1>3, <1>7 DEF D

-----------------------------------------------------------------------------
(* The entries of a set of nodes *)

Holding(h, V, e) == {n \in V : h[n].kv = e}

EntriesOf(h, V) == [e \in {h[n].kv : n \in V} |-> Cardinality({n \in V : h[n].kv = e})]

\* The number of nodes that hold e.
LEMMA EntryAmounts ==
  ASSUME NEW h, NEW V \in SUBSET Nodes
  PROVE  /\ IsBag(EntriesOf(h, V))
         /\ \A e : Amount(EntriesOf(h, V), e) = Cardinality(Holding(h, V, e))
         /\ \A e : IsFiniteSet(Holding(h, V, e)) /\ Cardinality(Holding(h, V, e)) \in Nat
<1> DEFINE B == EntriesOf(h, V)
<1>1. IsFiniteSet(Nodes)
  BY RbTreeAssumption, FS_Interval DEF Nodes
<1>2. ASSUME NEW e
      PROVE  IsFiniteSet(Holding(h, V, e)) /\ Cardinality(Holding(h, V, e)) \in Nat
  <2>1. Holding(h, V, e) \in SUBSET Nodes
    BY DEF Holding
  <2>2. IsFiniteSet(Holding(h, V, e))
    BY <1>1, <2>1, FS_Subset
  <2> QED BY <2>2, FS_CardinalityType
<1>3. DOMAIN B = {h[n].kv : n \in V} /\ B = [e \in DOMAIN B |-> B[e]]
      /\ \A e \in DOMAIN B : B[e] = Cardinality(Holding(h, V, e))
  BY DEF EntriesOf, Holding
<1>4. ASSUME NEW e PROVE e \in DOMAIN B <=> Holding(h, V, e) # {}
  BY <1>3 DEF Holding
<1> HIDE DEF B
<1>5. ASSUME NEW e PROVE Cardinality(Holding(h, V, e)) = 0 <=> Holding(h, V, e) = {}
  BY <1>2, FS_EmptySet
<1>6. IsBag(B)
  <2>1. ASSUME NEW e \in DOMAIN B PROVE B[e] \in Nat /\ B[e] > 0
    <3>1. B[e] = Cardinality(Holding(h, V, e)) /\ Cardinality(Holding(h, V, e)) # 0
      BY <1>3, <1>4, <1>5, SMTT(60), ZenonT(60)
    <3>2. Cardinality(Holding(h, V, e)) \in Nat
      BY <1>2
    <3> QED BY <3>1, <3>2
  <2> QED BY <1>3, <2>1 DEF IsBag
<1>7. ASSUME NEW e PROVE Amount(B, e) = Cardinality(Holding(h, V, e))
  <2>1. CASE e \in DOMAIN B
    BY <1>3, <2>1 DEF Amount
  <2>2. CASE e \notin DOMAIN B
    <3>1. Cardinality(Holding(h, V, e)) = 0
      BY <1>4, <1>5, <2>2
    <3> QED BY <2>2, <3>1 DEF Amount
  <2> QED BY <2>1, <2>2
<1> QED BY <1>2, <1>6, <1>7 DEF B

\* One node more is one entry more.
LEMMA OneNodeMore ==
  ASSUME NEW h, NEW V \in SUBSET Nodes, NEW x \in Nodes, x \notin V
  PROVE  OneMore(EntriesOf(h, V), EntriesOf(h, V \cup {x}), h[x].kv)
<1>1. V \cup {x} \in SUBSET Nodes
  OBVIOUS
<1>2. ASSUME NEW e
      PROVE  Cardinality(Holding(h, V \cup {x}, e))
               = Cardinality(Holding(h, V, e)) + (IF e = h[x].kv THEN 1 ELSE 0)
  <2>1. IsFiniteSet(Holding(h, V, e)) /\ Cardinality(Holding(h, V, e)) \in Nat /\ x \notin Holding(h, V, e)
    <3>1. x \notin Holding(h, V, e)
      BY DEF Holding
    <3> QED BY <3>1, EntryAmounts
  <2>2. CASE e = h[x].kv
    <3>1. Holding(h, V \cup {x}, e) = Holding(h, V, e) \cup {x}
      BY <2>2 DEF Holding
    <3> QED BY <2>1, <2>2, <3>1, FS_AddElement
  <2>3. CASE e # h[x].kv
    <3>1. Holding(h, V \cup {x}, e) = Holding(h, V, e)
      BY <2>3 DEF Holding
    <3> QED BY <2>1, <2>3, <3>1
  <2> QED BY <2>2, <2>3
<1>3. \A e : /\ Amount(EntriesOf(h, V), e) = Cardinality(Holding(h, V, e))
             /\ Amount(EntriesOf(h, V \cup {x}), e) = Cardinality(Holding(h, V \cup {x}, e))
  BY <1>1, EntryAmounts
<1> QED BY <1>2, <1>3 DEF OneMore

\* The bag depends only on the entries.
LEMMA SameEntries ==
  ASSUME NEW h, NEW hh, NEW V, \A n \in V : hh[n].kv = h[n].kv
  PROVE  EntriesOf(hh, V) = EntriesOf(h, V)
<1>1. {hh[n].kv : n \in V} = {h[n].kv : n \in V}
  OBVIOUS
<1>2. \A e : {n \in V : hh[n].kv = e} = {n \in V : h[n].kv = e}
  OBVIOUS
<1> QED BY <1>1, <1>2 DEF EntriesOf

\* Nodes that exchange their entries hold the same bag.
LEMMA TurnedEntries ==
  ASSUME NEW h, NEW hh, NEW V \in SUBSET Nodes, NEW s, Turned(h, hh, V, s)
  PROVE  EntriesOf(hh, V) = EntriesOf(h, V)
<1>1. /\ \A n \in V : s[n] \in V
      /\ \A m, n \in V : s[m] = s[n] => m = n
      /\ \A n \in V : \E m \in V : s[m] = n
  BY DEF Turned, Permutes
<1>2. \A n \in V : hh[n].kv = h[s[n]].kv
  <2>1. \A n \in V : n \in Nodes /\ s[n] \in Nodes
    BY <1>1
  <2> QED BY <2>1 DEF Turned, Field
<1>3. ASSUME NEW e PROVE Cardinality(Holding(hh, V, e)) = Cardinality(Holding(h, V, e))
  <2> DEFINE S == Holding(hh, V, e)
             T == Holding(h, V, e)
             f == [n \in S |-> s[n]]
  <2>1. IsFiniteSet(S)
    BY EntryAmounts
  <2>2. f \in [S -> T]
    BY <1>1, <1>2 DEF Holding
  <2>3. \A m, n \in S : f[m] = f[n] => m = n
    BY <1>1 DEF Holding
  <2>4. ASSUME NEW n \in T PROVE \E m \in S : f[m] = n
    <3>1. PICK m \in V : s[m] = n
      BY <1>1 DEF Holding
    <3>2. m \in S
      BY <1>2, <3>1 DEF Holding
    <3> QED BY <3>1, <3>2
  <2> HIDE DEF S, T, f
  <2>5. f \in Bijection(S, T)
    BY <2>2, <2>3, <2>4 DEF Bijection, Injection, Surjection, IsInjective
  <2>6. ExistsBijection(S, T)
    BY <2>5 DEF ExistsBijection
  <2>7. Cardinality(T) = Cardinality(S)
    BY <2>1, <2>6, FS_Bijection
  <2> QED BY <2>7 DEF S, T
<1>4. \A e : Amount(EntriesOf(hh, V), e) = Amount(EntriesOf(h, V), e)
  BY <1>3, EntryAmounts
<1>5. IsBag(EntriesOf(hh, V)) /\ IsBag(EntriesOf(h, V))
  BY EntryAmounts
<1> QED BY <1>4, <1>5, SameAmounts

\* B is R but for the entry in front of t, which has the value of t.
ValueStays(h, U, t, R, B) ==
  \E m \in U \ {t} : \E Q : /\ Before(h, U, m, t) /\ IsBag(Q)
                             /\ OneMore(Q, R, h[m].kv)
                             /\ OneMore(Q, B, <<h[m].kv[1], h[t].kv[2]>>)

\* A deletion takes the entry of t; what it copies upwards does not matter
\* unless it leaves the value of t behind.
LEMMA VacatedEntries ==
  ASSUME NEW h, NEW hh, NEW U \in SUBSET Nodes, NEW t \in U, NEW x \in U, Vacating(h, hh, U, t, x),
         NEW A, A = EntriesOf(h, U), NEW R, R = EntriesOf(h, U \ {t}), NEW B, B = EntriesOf(hh, U \ {x})
  PROVE  /\ IsBag(A) /\ IsBag(R) /\ IsBag(B) /\ OneMore(R, A, h[t].kv)
         /\ B = R \/ ValueStays(h, U, t, R, B)
<1>1. IsBag(A) /\ IsBag(R) /\ IsBag(B)
  <2>1. U \ {t} \in SUBSET Nodes /\ U \ {x} \in SUBSET Nodes
    OBVIOUS
  <2> QED BY <2>1, EntryAmounts
<1>2. OneMore(R, A, h[t].kv)
  <2>1. U \ {t} \in SUBSET Nodes /\ t \in Nodes /\ t \notin U \ {t} /\ (U \ {t}) \cup {t} = U
    OBVIOUS
  <2> QED BY <2>1, OneNodeMore
<1>3. CASE x = t /\ hh = h
  BY <1>1, <1>2, <1>3
<1>4. CASE x # t /\ hh[t].kv = h[x].kv /\ \A n \in U \ {t, x} : hh[n].kv = h[n].kv
  <2> DEFINE V == U \ {t, x}
  <2>1. /\ V \in SUBSET Nodes /\ t \in Nodes /\ t \notin V /\ V \cup {t} = U \ {x}
        /\ x \in Nodes /\ x \notin V /\ V \cup {x} = U \ {t}
    BY <1>4
  <2>2. EntriesOf(hh, V) = EntriesOf(h, V)
    BY <1>4, SameEntries
  <2> HIDE DEF V
  <2>3. OneMore(EntriesOf(h, V), R, h[x].kv)
    BY <2>1, OneNodeMore
  <2>4. OneMore(EntriesOf(h, V), B, h[x].kv)
    <3>1. OneMore(EntriesOf(hh, V), EntriesOf(hh, V \cup {t}), hh[t].kv)
      BY <2>1, OneNodeMore
    <3> QED BY <1>4, <2>1, <2>2, <3>1
  <2>5. \A e : Amount(B, e) = Amount(R, e)
    BY <2>3, <2>4 DEF OneMore
  <2>6. B = R
    BY <1>1, <2>5, SameAmounts
  <2> QED BY <1>1, <1>2, <2>6
<1>5. ASSUME NEW m \in U \ {t}, Before(h, U, m, t), x # t,
             hh[t].kv = <<h[m].kv[1], h[t].kv[2]>>,
             x # m => hh[m].kv = h[x].kv,
             \A n \in U \ {t, m, x} : hh[n].kv = h[n].kv
      PROVE  \E Q : /\ IsBag(Q) /\ OneMore(Q, R, h[m].kv) /\ OneMore(Q, B, <<h[m].kv[1], h[t].kv[2]>>)
  <2> DEFINE V == U \ {t, m}
             W == U \ {t, x}
             Q == EntriesOf(h, V)
  <2>1. /\ V \in SUBSET Nodes /\ m \in Nodes /\ m \notin V /\ V \cup {m} = U \ {t}
        /\ W \in SUBSET Nodes /\ t \in Nodes /\ t \notin W /\ W \cup {t} = U \ {x}
    BY <1>5
  <2>2. EntriesOf(hh, W) = Q
    <3>1. CASE x = m
      BY <1>5, <3>1, SameEntries
    <3>2. CASE x # m
      <4> DEFINE Z == U \ {t, m, x}
      <4>1. /\ Z \in SUBSET Nodes /\ x \in Nodes /\ x \notin Z /\ Z \cup {x} = V
            /\ m \in Nodes /\ m \notin Z /\ Z \cup {m} = W
        BY <1>5, <3>2
      <4>2. EntriesOf(hh, Z) = EntriesOf(h, Z)
        BY <1>5, SameEntries
      <4> HIDE DEF V, W, Z, Q
      <4>3. OneMore(EntriesOf(h, Z), EntriesOf(h, V), h[x].kv)
        BY <4>1, OneNodeMore
      <4>4. OneMore(EntriesOf(hh, Z), EntriesOf(hh, W), hh[m].kv)
        BY <4>1, OneNodeMore
      <4>5. \A e : Amount(EntriesOf(hh, W), e) = Amount(EntriesOf(h, V), e)
        BY <1>5, <3>2, <4>2, <4>3, <4>4 DEF OneMore
      <4>6. IsBag(EntriesOf(hh, W)) /\ IsBag(EntriesOf(h, V))
        BY <2>1, EntryAmounts
      <4> QED BY <4>5, <4>6, SameAmounts DEF Q
    <3> QED BY <3>1, <3>2
  <2> HIDE DEF V, W
  <2>3. IsBag(Q)
    BY <2>1, EntryAmounts
  <2>4. OneMore(Q, R, h[m].kv)
    BY <2>1, OneNodeMore
  <2>5. OneMore(Q, B, hh[t].kv)
    <3>1. OneMore(EntriesOf(hh, W), EntriesOf(hh, W \cup {t}), hh[t].kv)
      BY <2>1, OneNodeMore
    <3> QED BY <2>1, <2>2, <3>1
  <2> HIDE DEF Q
  <2> QED BY <1>5, <2>3, <2>4, <2>5
<1> QED BY <1>1, <1>2, <1>3, <1>4, <1>5 DEF Vacating, ValueStays

-----------------------------------------------------------------------------
(* The tree implements OrderedMap *)

\* The operators of Bags, as OrderedMap uses them.
Plus(B1, B2) == [e \in (DOMAIN B1) \cup (DOMAIN B2) |->
                   (IF e \in DOMAIN B1 THEN B1[e] ELSE 0) + (IF e \in DOMAIN B2 THEN B2[e] ELSE 0)]

Minus(B1, B2) == LET B == [e \in DOMAIN B1 |-> IF e \in DOMAIN B2 THEN B1[e] - B2[e] ELSE B1[e]]
                 IN  [e \in {d \in DOMAIN B : B[d] > 0} |-> B[e]]

\* A bag with one entry more.
LEMMA PlusOne ==
  ASSUME NEW B, NEW x
  PROVE  Plus(B, Map!One(x)) = Added(B, x)
BY DEF Plus, Map!One, Map!SetToBag, Added, Amount

\* A bag with one entry less.
LEMMA MinusOne ==
  ASSUME NEW B, IsBag(B), NEW x
  PROVE  Minus(B, Map!One(x)) = Taken(B, x)
<1> DEFINE D == [e \in DOMAIN B |-> IF e \in DOMAIN Map!One(x) THEN B[e] - Map!One(x)[e] ELSE B[e]]
<1>1. DOMAIN Map!One(x) = {x} /\ Map!One(x)[x] = 1
  BY DEF Map!One, Map!SetToBag
<1>2. DOMAIN D = DOMAIN B /\ \A e \in DOMAIN B : D[e] = IF e = x THEN B[e] - 1 ELSE B[e]
  BY <1>1
<1>3. {d \in DOMAIN D : D[d] > 0} = {d \in DOMAIN B : d = x => B[d] > 1}
  BY <1>2 DEF IsBag
<1>4. [e \in {d \in DOMAIN D : D[d] > 0} |-> D[e]] = Taken(B, x)
  <2>1. \A e \in {d \in DOMAIN B : d = x => B[d] > 1} : D[e] = IF e = x THEN B[e] - 1 ELSE B[e]
    BY <1>2
  <2> HIDE DEF D
  <2> QED BY <1>3, <2>1 DEF Taken
<1> QED BY <1>4 DEF Minus

\* An insertion of OrderedMap.
LEMMA MapInsert ==
  ASSUME NEW e, BagOfEntries' = Added(BagOfEntries, e)
  PROVE  Map!Insert(e)
<1>1. BagOfEntries' = Plus(BagOfEntries, Map!One(e))
  BY PlusOne
<1> QED BY <1>1, Zenon DEF Map!Insert, Map!(+), Plus

\* A deletion of OrderedMap that leaves every other entry.
LEMMA MapDelete ==
  ASSUME NEW e, IsBag(BagOfEntries), e \in DOMAIN BagOfEntries,
         BagOfEntries' = Taken(BagOfEntries, e)
  PROVE  Map!Delete(e)
<1>1. BagOfEntries' = Minus(BagOfEntries, Map!One(e))
  BY MinusOne
<1>2. Map!BagIn(e, BagOfEntries)
  BY DEF Map!BagIn, Map!BagToSet
<1> QED BY <1>1, <1>2, Zenon DEF Map!Delete, Map!(-), Minus

\* R holds p, and no key of R is between p and the key k.
Ahead(R, p, k) == p \in DOMAIN R /\ p[1] <= k /\ \A q \in DOMAIN R : q[1] < k => q[1] <= p[1]

\* A deletion of OrderedMap that leaves the value of e with the key of p.
LEMMA MapDeleteLeaves ==
  ASSUME NEW e, NEW p, NEW R, IsBag(BagOfEntries), e \in DOMAIN BagOfEntries,
         R = Taken(BagOfEntries, e), IsBag(R), Ahead(R, p, e[1]),
         BagOfEntries' = Added(Taken(R, p), <<p[1], e[2]>>)
  PROVE  Map!Delete(e)
<1>1. R = Minus(BagOfEntries, Map!One(e))
  BY MinusOne
<1>2. Map!BagIn(e, BagOfEntries) /\ p \in Map!BagToSet(R)
  BY DEF Map!BagIn, Map!BagToSet, Ahead
<1>3. Map!Precedes(p, e[1], R)
  BY DEF Map!Precedes, Map!BagToSet, Ahead
<1>4. BagOfEntries' = Plus(Minus(R, Map!One(p)), Map!One(<<p[1], e[2]>>))
  BY PlusOne, MinusOne
<1>5. \E q \in Map!BagToSet(R) :
         /\ Map!Precedes(q, e[1], R)
         /\ BagOfEntries' = Plus(Minus(R, Map!One(q)), Map!One(<<q[1], e[2]>>))
  BY <1>2, <1>3, <1>4
<1>6. \E q \in Map!BagToSet(Minus(BagOfEntries, Map!One(e))) :
         /\ Map!Precedes(q, e[1], Minus(BagOfEntries, Map!One(e)))
         /\ BagOfEntries' = Plus(Minus(Minus(BagOfEntries, Map!One(e)), Map!One(q)), Map!One(<<q[1], e[2]>>))
  BY <1>1, <1>5, Zenon
<1> QED BY <1>2, <1>6, Zenon DEF Map!Delete, Map!(+), Map!(-), Plus, Minus

\* The bag of the nodes in use.
LEMMA EntriesAre == TreeInv => BagOfEntries = EntriesOf(node, InUse \ {del_tar})
<1> SUFFICES ASSUME TreeInv PROVE BagOfEntries = EntriesOf(node, InUse \ {del_tar})
  OBVIOUS
<1>1. Stored = InUse \ {del_tar}
  BY StoredIs
<1> QED BY <1>1, Zenon DEF BagOfEntries, EntriesOf

\* The same after a step.
LEMMA EntriesNext == TreeInv' => BagOfEntries' = EntriesOf(node', InUse' \ {del_tar'})
<1>1. TreeInv' => (BagOfEntries = EntriesOf(node, InUse \ {del_tar}))'
  BY EntriesAre, PTL
<1> QED BY <1>1

\* The nodes in use are nodes.
LEMMA InUseNodes ==
  ASSUME TreeInv
  PROVE  InUse \in SUBSET Nodes /\ NULL \notin InUse
<1>1. IsTree(node, Top, InUse)
  BY Standing
<1> QED BY <1>1, TreeNodes DEF NULL

\* What rbtree_insert does is an insertion.
LEMMA InsertMaps ==
  ASSUME TreeInv, TreeInv', NEW e \in Items, InsertRoot(e) \/ InsertLeaf(e)
  PROVE  Map!Insert(e)
<1> DEFINE x == NewNode
<1>1. /\ InUse \in SUBSET Nodes /\ NULL \notin InUse
  BY InUseNodes
<1>2. x \in Nodes /\ x \notin InUse /\ x # NULL
  <2>1. PoolSound /\ ~PoolEmpty /\ Alloc
    BY DEF TreeInv, InsertRoot, InsertLeaf
  <2> QED BY <2>1, Allocated DEF Nodes, NULL
<1>3. /\ InUse' = InUse \cup {x} /\ node'[x].kv = e
      /\ \A n \in InUse : node'[n].kv = node[n].kv
  <2>1. CASE InsertRoot(e)
    <3>1. InUse = {} /\ InUse' = {x} /\ node'[x].kv = e
      BY <2>1, InsertRootInv
    <3> QED BY <3>1
  <2>2. CASE InsertLeaf(e)
    BY <2>2, InsertLeafInv
  <2> QED BY <2>1, <2>2
<1>4. del_tar = NULL /\ del_tar' = NULL
  <2>1. op = "idle" /\ del_tar' = del_tar
    BY DEF InsertRoot, InsertLeaf
  <2> QED BY <2>1, Rests
<1> HIDE DEF x
<1>5. BagOfEntries = EntriesOf(node, InUse) /\ BagOfEntries' = EntriesOf(node', InUse \cup {x})
  <2>1. InUse \ {del_tar} = InUse /\ InUse' \ {del_tar'} = InUse \cup {x}
    BY <1>1, <1>2, <1>3, <1>4
  <2> QED BY <2>1, EntriesAre, EntriesNext
<1>6. EntriesOf(node', InUse) = EntriesOf(node, InUse)
  BY <1>3, SameEntries
<1>7. OneMore(EntriesOf(node', InUse), EntriesOf(node', InUse \cup {x}), node'[x].kv)
  BY <1>1, <1>2, OneNodeMore
<1>8. IsBag(BagOfEntries) /\ IsBag(BagOfEntries')
  <2>1. InUse \cup {x} \in SUBSET Nodes
    BY <1>1, <1>2
  <2> QED BY <1>1, <1>5, <2>1, EntryAmounts
<1>9. OneMore(BagOfEntries, BagOfEntries', e)
  BY <1>3, <1>5, <1>6, <1>7, SMTT(60), ZenonT(60)
<1>10. BagOfEntries' = Added(BagOfEntries, e)
  BY <1>8, <1>9, AddedIs
<1> QED BY <1>10, MapInsert

\* What rbtree_delete does is a deletion, of an entry with the key that was asked for.
LEMMA DeleteMaps ==
  ASSUME TreeInv, TreeInv', NEW k \in Int, TreeDelete(k)
  PROVE  \E e \in DOMAIN BagOfEntries : e[1] = k /\ Map!Delete(e)
<1> DEFINE t == Search(k)
           U == InUse
           x == del_tar'
           e == node[t].kv
           A == EntriesOf(node, U)
           R == EntriesOf(node, U \ {t})
           B == EntriesOf(node', U \ {x})
<1>1. /\ InUse' = U /\ del_tar = NULL /\ t \in U /\ e[1] = k /\ x \in U
      /\ Vacating(node, node', U, t, x)
  BY TreeDeleteInv
<1>2. U \in SUBSET Nodes /\ NULL \notin U
  BY InUseNodes
<1>3. BagOfEntries = A /\ BagOfEntries' = B
  <2>1. InUse \ {del_tar} = U /\ InUse' \ {del_tar'} = U \ {x}
    BY <1>1, <1>2
  <2> QED BY <2>1, EntriesAre, EntriesNext
<1> HIDE DEF t, U, x
<1>a. A = EntriesOf(node, U) /\ R = EntriesOf(node, U \ {t}) /\ B = EntriesOf(node', U \ {x})
  OBVIOUS
<1>5. DOMAIN R = {node[n].kv : n \in U \ {t}}
  BY DEF EntriesOf
<1> HIDE DEF A, R, B
<1>4. /\ IsBag(A) /\ IsBag(R) /\ IsBag(B) /\ OneMore(R, A, e)
      /\ B = R \/ ValueStays(node, U, t, R, B)
  BY <1>1, <1>2, <1>a, VacatedEntries, ZenonT(60), SMTT(60)
<1>6. R = Taken(A, e) /\ e \in DOMAIN A
  BY <1>4, TakenIs
<1>7. CASE B = R
  <2>1. Map!Delete(e)
    BY <1>3, <1>4, <1>6, <1>7, MapDelete
  <2> QED BY <1>1, <1>3, <1>6, <2>1
<1>8. CASE B # R
  <2>1. PICK m \in U \ {t} : \E Q : /\ Before(node, U, m, t) /\ IsBag(Q)
                                    /\ OneMore(Q, R, node[m].kv)
                                    /\ OneMore(Q, B, <<node[m].kv[1], node[t].kv[2]>>)
    BY <1>4, <1>8 DEF ValueStays
  <2> DEFINE p == node[m].kv
  <2>2. PICK Q : Before(node, U, m, t) /\ IsBag(Q) /\ OneMore(Q, R, p) /\ OneMore(Q, B, <<p[1], e[2]>>)
    BY <2>1
  <2>3. Q = Taken(R, p)
    BY <1>4, <2>2, TakenIs
  <2>4. B = Added(Q, <<p[1], e[2]>>)
    BY <1>4, <2>2, AddedIs
  <2>5. Ahead(R, p, e[1])
    BY <1>5, <2>2 DEF Ahead, Before
  <2> HIDE DEF e, p
  <2>6. Map!Delete(e)
    BY <1>3, <1>4, <1>6, <2>3, <2>4, <2>5, MapDeleteLeaves
  <2> QED BY <1>1, <1>3, <1>6, <2>6
<1> QED BY <1>7, <1>8

\* No pass of a loop changes what is stored.
LEMMA PassMaps ==
  ASSUME TreeInv, TreeInv', InsertFails \/ TreeStep \/ UNCHANGED treeVars
  PROVE  BagOfEntries' = BagOfEntries
<1> DEFINE V == InUse \ {del_tar}
<1>1. V \in SUBSET Nodes /\ NULL \notin V /\ NULL \notin InUse
  BY InUseNodes
<1>2. BagOfEntries = EntriesOf(node, V) /\ BagOfEntries' = EntriesOf(node', InUse' \ {del_tar'})
  BY EntriesAre, EntriesNext
<1>3. CASE InsertFails \/ InsertDone \/ UNCHANGED treeVars
  <2>1. InUse' = InUse /\ node' = node /\ del_tar' = del_tar
    BY <1>3, InsertFailsInv, InsertDoneInv DEF treeVars, InUse
  <2> QED BY <1>2, <2>1
<1>4. CASE InsertRepair
  <2>1. InUse' = InUse /\ del_tar = NULL /\ del_tar' = NULL /\ \E s : Turned(node, node', InUse, s)
    BY <1>4, InsertRepairInv
  <2>2. V = InUse /\ InUse' \ {del_tar'} = V
    BY <1>1, <2>1
  <2>3. PICK s : Turned(node, node', V, s)
    BY <2>1, <2>2
  <2> HIDE DEF V
  <2> QED BY <1>1, <1>2, <2>2, <2>3, TurnedEntries
<1>5. CASE DeleteRepair
  <2>1. InUse' = InUse /\ del_tar' = del_tar /\ \E q : Turned(node, node', V, q)
    BY <1>5, DeleteRepairInv
  <2>2. PICK q : Turned(node, node', V, q)
    BY <2>1
  <2>3. InUse' \ {del_tar'} = V
    BY <2>1
  <2> HIDE DEF V
  <2> QED BY <1>1, <1>2, <2>2, <2>3, TurnedEntries
<1>6. CASE DeleteDone
  <2>1. InUse' = V /\ del_tar' = NULL /\ \A n \in V : node'[n].kv = node[n].kv
    BY <1>6, DeleteDoneInv
  <2>2. InUse' \ {del_tar'} = V
    BY <1>1, <2>1
  <2> HIDE DEF V
  <2> QED BY <1>2, <2>1, <2>2, SameEntries
<1> QED BY <1>3, <1>4, <1>5, <1>6 DEF TreeStep

\* Every step of the tree is a step of OrderedMap, or none.
LEMMA StepMaps == TreeInv /\ TreeInv' /\ [TreeNext]_treeVars => [Map!Next]_BagOfEntries
<1> SUFFICES ASSUME TreeInv, TreeInv', [TreeNext]_treeVars PROVE [Map!Next]_BagOfEntries
  OBVIOUS
<1>1. ASSUME NEW e \in Items, InsertRoot(e) \/ InsertLeaf(e) PROVE Map!Next
  <2>1. Map!Insert(e)
    BY <1>1, InsertMaps
  <2> QED BY <2>1 DEF Map!Next
<1>2. ASSUME NEW e \in Items, TreeDelete(e[1]) PROVE Map!Next
  <2>1. e[1] \in Int
    BY RbTreeAssumption
  <2>2. \E f \in DOMAIN BagOfEntries : Map!Delete(f)
    BY <1>2, <2>1, DeleteMaps
  <2> QED BY <2>2 DEF Map!Next, Map!BagToSet
<1>3. CASE InsertFails \/ TreeStep \/ UNCHANGED treeVars
  BY <1>3, PassMaps
<1> QED BY <1>1, <1>2, <1>3 DEF TreeNext

\* The tree begins as the empty map.
LEMMA InitMaps == TreeInit => Map!Init
<1> SUFFICES ASSUME TreeInit PROVE Map!Init
  OBVIOUS
<1>1. TreeInv
  BY InitInv
<1>2. InUse \ {del_tar} = {}
  <2>1. op = "idle" /\ head = NULL
    BY DEF TreeInit
  <2>2. IsTree(node, head, InUse)
    BY <1>1, <2>1, Rests
  <2> QED BY <2>1, <2>2, TreeNodes
<1>3. BagOfEntries = EntriesOf(node, {})
  BY <1>1, <1>2, EntriesAre
<1>4. EntriesOf(node, {}) = [e \in {} |-> 1]
  BY DEF EntriesOf
<1> QED BY <1>3, <1>4, Zenon DEF Map!Init, Map!EmptyBag, Map!SetToBag

\* rbtree_insert adds one entry, rbtree_delete takes one and leaves at most its value
\* to the key in front, and no pass of a repair loop changes what is stored.
THEOREM TreeImplementsMap == TreeSpec => ImplementsOrderedMap
<1>1. TreeSpec => []TreeInv
  BY InitInv, NextInv, PTL DEF TreeSpec
<1>2. QED
  BY <1>1, InitMaps, StepMaps, PTL DEF TreeSpec, ImplementsOrderedMap, Map!Spec

\* rbtree_search returns a node that holds the key, and NULL only if there is none.
SearchRight ==
  op = "idle" =>
    \A k \in Int : IF k \in {node[n].kv[1] : n \in Stored}
                   THEN Search(k) \in Stored /\ node[Search(k)].kv[1] = k
                   ELSE Search(k) = NULL

\* Between operations rbtree_search finds exactly the keys that are stored.
THEOREM SearchAlwaysRight == TreeSpec => []SearchRight
<1>1. TreeSpec => []TreeInv
  BY InitInv, NextInv, PTL DEF TreeSpec
<1>2. TreeInv => SearchRight
  <2> SUFFICES ASSUME TreeInv, op = "idle", NEW k \in Int
               PROVE  IF k \in {node[n].kv[1] : n \in Stored}
                      THEN Search(k) \in Stored /\ node[Search(k)].kv[1] = k
                      ELSE Search(k) = NULL
    BY DEF SearchRight
  <2>1. IsTree(node, head, InUse) /\ Spare(node, InUse) /\ del_tar = NULL /\ 0 \notin InUse
    BY Rests
  <2>2. Stored = InUse
    BY <2>1, StoredIs DEF NULL
  <2>3. /\ k \in KeysOf(node, InUse) => Search(k) \in InUse /\ node[Search(k)].kv[1] = k
        /\ k \notin KeysOf(node, InUse) => Search(k) = NULL
    BY <2>1, SearchFinds
  <2> QED BY <2>2, <2>3 DEF KeysOf
<1> QED BY <1>1, <1>2, PTL

\* The entry that a call of rbtree_delete takes has the key of the call.
DeleteRight == \A k \in Int : TreeDelete(k) => \E e \in DOMAIN BagOfEntries : e[1] = k /\ Map!Delete(e)

\* rbtree_delete takes one entry, and one with the key that its caller named.
THEOREM DeleteAlwaysRight == TreeSpec => [][DeleteRight]_treeVars
<1>1. TreeSpec => []TreeInv
  BY InitInv, NextInv, PTL DEF TreeSpec
<1>2. TreeInv /\ TreeInv' => DeleteRight
  BY DeleteMaps DEF DeleteRight
<1> QED BY <1>1, <1>2, PTL

=============================================================================
