---------------------------- MODULE LibraryProof ----------------------------
(***************************************************************************)
(* The list, the queue and the bitmap for any number of nodes, for bitmaps *)
(* of any size and for any sequence of calls; the string functions for a   *)
(* memory of any size and any bytes; printf for every format and buffer.   *)
(*                                                                         *)
(* Of the string functions, the loops that search are instances of one     *)
(* walk, the loops that copy have closed forms, the loops that make digits *)
(* and numbers recur to smaller numbers; what they compute is found by     *)
(* taking the least counterexample.  The digits are compared with the      *)
(* numeral through the weights of their places, and a format of one        *)
(* conversion is followed from stage to stage.                             *)
(***************************************************************************)
EXTENDS KList, KQueue, Bitmap, CString, Printf,
        SequenceTheorems, FiniteSetTheorems, WellFoundedInduction, TLAPS

-----------------------------------------------------------------------------
(* Sets of numbers *)

\* A set of numbers has a least element: the natural numbers are well founded.
LEMMA LeastElement ==
  ASSUME NEW T \in SUBSET Nat, T # {}
  PROVE  \E x \in T : \A y \in T : x <= y
<1>1. ASSUME NEW R, \E x \in T : \A y \in T : ~(<<y, x>> \in R),
             \A x, y \in Nat : x < y => <<x, y>> \in R
      PROVE  \E x \in T : \A y \in T : x <= y
  <2>1. PICK x \in T : \A y \in T : ~(<<y, x>> \in R)
    BY <1>1
  <2>2. ASSUME NEW y \in T PROVE x <= y
    <3>1. ~(y < x)
      BY <1>1, <2>1
    <3> QED BY <3>1
  <2> QED BY <2>2
<1> DEFINE Less == OpToRel(<, Nat)
<1>2. \E x \in T : \A y \in T : ~(<<y, x>> \in Less)
  BY NatLessThanWellFounded, WFMin
<1>3. \A x, y \in Nat : x < y => <<x, y>> \in Less
  BY Zenon DEF OpToRel
<1> HIDE DEF Less
<1> QED BY <1>1, <1>2, <1>3, Zenon

-----------------------------------------------------------------------------
(* Sequences that gain or lose one element *)

\* t is s with e put in at place k.
Inserted(t, s, k, e) ==
  /\ Len(t) = Len(s) + 1
  /\ \A i \in 1 .. Len(t) : t[i] = IF i < k THEN s[i] ELSE IF i = k THEN e ELSE s[i - 1]

\* t is s without its place k.
Removed(t, s, k) ==
  /\ Len(t) = Len(s) - 1
  /\ \A i \in 1 .. Len(t) : t[i] = IF i < k THEN s[i] ELSE s[i + 1]

\* What InsertAt makes of a sequence.
LEMMA InsertAtFacts ==
  ASSUME NEW S, NEW s \in Seq(S), NEW k \in 1 .. Len(s) + 1, NEW e \in S
  PROVE  InsertAt(s, k, e) \in Seq(S) /\ Inserted(InsertAt(s, k, e), s, k, e)
<1> DEFINE a == SubSeq(s, 1, k - 1)
           b == SubSeq(s, k, Len(s))
           ae == a \o <<e>>
<1>0. Len(s) \in Nat /\ k \in Int /\ k - 1 \in Int /\ \A i \in 1 .. Len(s) : s[i] \in S
  BY ElementOfSeq
<1>1. a \in Seq(S) /\ Len(a) = k - 1 /\ \A i \in 1 .. k - 1 : a[i] = s[i]
  <2>1. \A i \in 1 .. k - 1 : s[i] \in S
    BY <1>0
  <2>2. a \in Seq(S) /\ Len(a) = (IF 1 <= k - 1 THEN k - 1 - 1 + 1 ELSE 0)
        /\ \A i \in 1 .. k - 1 - 1 + 1 : a[i] = s[1 + i - 1]
    BY <1>0, <2>1, SubSeqProperties
  <2> HIDE DEF a
  <2> QED BY <1>0, <2>2
<1>2. b \in Seq(S) /\ Len(b) = Len(s) - k + 1 /\ \A i \in 1 .. Len(s) - k + 1 : b[i] = s[k + i - 1]
  <2>1. \A i \in k .. Len(s) : s[i] \in S
    BY <1>0
  <2>2. b \in Seq(S) /\ Len(b) = (IF k <= Len(s) THEN Len(s) - k + 1 ELSE 0)
        /\ \A i \in 1 .. Len(s) - k + 1 : b[i] = s[k + i - 1]
    BY <1>0, <2>1, SubSeqProperties
  <2> HIDE DEF b
  <2> QED BY <1>0, <2>2
<1> HIDE DEF a, b
<1>3. ae \in Seq(S) /\ Len(ae) = k /\ \A i \in 1 .. k : ae[i] = IF i < k THEN a[i] ELSE e
  <2>1. <<e>> \in Seq(S) /\ Len(<<e>>) = 1 /\ <<e>>[1] = e
    OBVIOUS
  <2>2. ae \in Seq(S) /\ Len(ae) = (k - 1) + 1
        /\ \A i \in 1 .. (k - 1) + 1 : ae[i] = IF i <= k - 1 THEN a[i] ELSE <<e>>[i - (k - 1)]
    BY <1>0, <1>1, <2>1, ConcatProperties
  <2> HIDE DEF ae
  <2>3. ASSUME NEW i \in 1 .. k PROVE ae[i] = IF i < k THEN a[i] ELSE e
    <3>1. CASE i < k
      BY <1>0, <2>2, <3>1
    <3>2. CASE ~(i < k)
      <4>1. i = k /\ i - (k - 1) = 1
        BY <1>0, <3>2
      <4> QED BY <1>0, <2>1, <2>2, <4>1
    <3> QED BY <3>1, <3>2
  <2> QED BY <1>0, <2>2, <2>3
<1>4. InsertAt(s, k, e) = ae \o b
  BY DEF InsertAt, ae, a, b
<1> HIDE DEF ae
<1>5. ae \o b \in Seq(S) /\ Len(ae \o b) = Len(s) + 1
      /\ \A i \in 1 .. Len(s) + 1 : (ae \o b)[i] = IF i <= k THEN ae[i] ELSE b[i - k]
  <2>1. ae \o b \in Seq(S) /\ Len(ae \o b) = k + (Len(s) - k + 1)
      /\ \A i \in 1 .. k + (Len(s) - k + 1) : (ae \o b)[i] = IF i <= k THEN ae[i] ELSE b[i - k]
    BY <1>2, <1>3, ConcatProperties
  <2>2. k + (Len(s) - k + 1) = Len(s) + 1
    BY <1>0
  <2> QED BY <2>1, <2>2
<1>6. ASSUME NEW i \in 1 .. Len(s) + 1
      PROVE  (ae \o b)[i] = IF i < k THEN s[i] ELSE IF i = k THEN e ELSE s[i - 1]
  <2>1. CASE i <= k
    BY <1>0, <1>1, <1>3, <1>5, <2>1, SMTT(60), ZenonT(60)
  <2>2. CASE ~(i <= k)
    <3>1. i - k \in 1 .. Len(s) - k + 1 /\ k + (i - k) - 1 = i - 1
      BY <1>0, <2>2
    <3>2. b[i - k] = s[i - 1]
      BY <1>2, <3>1
    <3> QED BY <1>0, <1>5, <2>2, <3>2, SMTT(60), ZenonT(60)
  <2> QED BY <2>1, <2>2
<1> QED BY <1>4, <1>5, <1>6 DEF Inserted

\* Insertion in front is insertion at the first place.
LEMMA PrependFacts ==
  ASSUME NEW S, NEW s \in Seq(S), NEW e \in S
  PROVE  <<e>> \o s \in Seq(S) /\ Inserted(<<e>> \o s, s, 1, e)
<1> DEFINE t == <<e>> \o s
<1>1. <<e>> \in Seq(S) /\ Len(<<e>>) = 1 /\ <<e>>[1] = e
  OBVIOUS
<1>2. t \in Seq(S) /\ Len(t) = 1 + Len(s)
      /\ \A i \in 1 .. 1 + Len(s) : t[i] = IF i <= 1 THEN <<e>>[i] ELSE s[i - 1]
  BY <1>1, ConcatProperties
<1>3. Len(s) \in Nat
  OBVIOUS
<1> HIDE DEF t
<1>4. ASSUME NEW i \in 1 .. Len(s) + 1
      PROVE  t[i] = IF i < 1 THEN s[i] ELSE IF i = 1 THEN e ELSE s[i - 1]
  <2>1. i \in 1 .. 1 + Len(s) /\ ~(i < 1) /\ (i <= 1 <=> i = 1)
    BY <1>3
  <2> QED BY <1>1, <1>2, <2>1
<1>5. Len(t) = Len(s) + 1
  BY <1>2, <1>3
<1> QED BY <1>2, <1>4, <1>5 DEF t, Inserted

\* Insertion at the end is insertion at the last place.
LEMMA AppendFacts ==
  ASSUME NEW S, NEW s \in Seq(S), NEW e \in S
  PROVE  Append(s, e) \in Seq(S) /\ Inserted(Append(s, e), s, Len(s) + 1, e)
<1> DEFINE t == Append(s, e)
<1>1. t \in Seq(S) /\ Len(t) = Len(s) + 1 /\ (\A i \in 1 .. Len(s) : t[i] = s[i]) /\ t[Len(s) + 1] = e
  BY AppendProperties
<1>2. Len(s) \in Nat
  OBVIOUS
<1> HIDE DEF t
<1> QED BY <1>1, <1>2 DEF t, Inserted

\* What RemoveAt makes of a sequence.
LEMMA RemoveAtFacts ==
  ASSUME NEW S, NEW s \in Seq(S), NEW k \in 1 .. Len(s)
  PROVE  RemoveAt(s, k) \in Seq(S) /\ Removed(RemoveAt(s, k), s, k)
<1> DEFINE a == SubSeq(s, 1, k - 1)
           b == SubSeq(s, k + 1, Len(s))
<1>0. Len(s) \in Nat /\ k \in Int /\ k - 1 \in Int /\ k + 1 \in Int /\ \A i \in 1 .. Len(s) : s[i] \in S
  BY ElementOfSeq
<1>1. a \in Seq(S) /\ Len(a) = k - 1 /\ \A i \in 1 .. k - 1 : a[i] = s[i]
  <2>1. \A i \in 1 .. k - 1 : s[i] \in S
    BY <1>0
  <2>2. a \in Seq(S) /\ Len(a) = (IF 1 <= k - 1 THEN k - 1 - 1 + 1 ELSE 0)
        /\ \A i \in 1 .. k - 1 - 1 + 1 : a[i] = s[1 + i - 1]
    BY <1>0, <2>1, SubSeqProperties
  <2> HIDE DEF a
  <2> QED BY <1>0, <2>2
<1>2. b \in Seq(S) /\ Len(b) = Len(s) - k /\ \A i \in 1 .. Len(s) - k : b[i] = s[k + i]
  <2>1. \A i \in k + 1 .. Len(s) : s[i] \in S
    BY <1>0
  <2>2. b \in Seq(S) /\ Len(b) = (IF k + 1 <= Len(s) THEN Len(s) - (k + 1) + 1 ELSE 0)
        /\ \A i \in 1 .. Len(s) - (k + 1) + 1 : b[i] = s[k + 1 + i - 1]
    BY <1>0, <2>1, SubSeqProperties
  <2> HIDE DEF b
  <2>3. Len(s) - (k + 1) + 1 = Len(s) - k
    BY <1>0, SMTT(60), ZenonT(60)
  <2>4. ASSUME NEW i \in 1 .. Len(s) - k PROVE b[i] = s[k + i]
    <3>1. k + 1 + i - 1 = k + i
      BY <1>0
    <3> QED BY <2>2, <2>3, <3>1
  <2>5. Len(b) = Len(s) - k
    <3> DEFINE m == Len(s)
               n == Len(b)
    <3>1. m \in Nat /\ k \in 1 .. m /\ n = IF k + 1 <= m THEN m - (k + 1) + 1 ELSE 0
      BY <1>0, <2>2
    <3> HIDE DEF m, n
    <3>2. n = m - k
      BY <3>1
    <3> QED BY <3>2 DEF m, n
  <2> QED BY <2>2, <2>4, <2>5
<1>3. RemoveAt(s, k) = a \o b
  BY DEF RemoveAt, a, b
<1> HIDE DEF a, b
<1>4. a \o b \in Seq(S) /\ Len(a \o b) = Len(s) - 1
      /\ \A i \in 1 .. Len(s) - 1 : (a \o b)[i] = IF i <= k - 1 THEN a[i] ELSE b[i - (k - 1)]
  <2>1. a \o b \in Seq(S) /\ Len(a \o b) = (k - 1) + (Len(s) - k)
      /\ \A i \in 1 .. (k - 1) + (Len(s) - k) : (a \o b)[i] = IF i <= k - 1 THEN a[i] ELSE b[i - (k - 1)]
    <3>1. a \in Seq(S) /\ b \in Seq(S) /\ Len(a) = k - 1 /\ Len(b) = Len(s) - k
      BY <1>1, <1>2
    <3>2. a \o b \in Seq(S) /\ Len(a \o b) = Len(a) + Len(b)
          /\ \A i \in 1 .. Len(a) + Len(b) : (a \o b)[i] = IF i <= Len(a) THEN a[i] ELSE b[i - Len(a)]
      BY <3>1, ConcatProperties
    <3> QED BY <3>1, <3>2
  <2>2. (k - 1) + (Len(s) - k) = Len(s) - 1
    BY <1>0
  <2> QED BY <2>1, <2>2
<1>5. ASSUME NEW i \in 1 .. Len(s) - 1
      PROVE  (a \o b)[i] = IF i < k THEN s[i] ELSE s[i + 1]
  <2>1. CASE i < k
    BY <1>0, <1>1, <1>4, <2>1
  <2>2. CASE ~(i < k)
    <3>1. i - (k - 1) \in 1 .. Len(s) - k /\ k + (i - (k - 1)) = i + 1 /\ ~(i <= k - 1)
      BY <1>0, <2>2
    <3>2. b[i - (k - 1)] = s[i + 1]
      BY <1>2, <3>1
    <3> QED BY <1>4, <2>2, <3>1, <3>2
  <2> QED BY <2>1, <2>2
<1> QED BY <1>3, <1>4, <1>5 DEF Removed

\* To take the tail is to remove at the first place.
LEMMA TailFacts ==
  ASSUME NEW S, NEW s \in Seq(S), s # <<>>
  PROVE  Tail(s) \in Seq(S) /\ Removed(Tail(s), s, 1) /\ Len(s) \in Nat \ {0}
<1>1. Tail(s) \in Seq(S) /\ Len(Tail(s)) = Len(s) - 1 /\ \A i \in 1 .. Len(Tail(s)) : Tail(s)[i] = s[i + 1]
  BY HeadTailProperties
<1>2. Len(s) \in Nat \ {0}
  BY EmptySeq
<1> QED BY <1>1, <1>2 DEF Removed

\* The elements after an insertion.
LEMMA InsertedSet ==
  ASSUME NEW S, NEW s \in Seq(S), NEW t \in Seq(S), NEW k \in 1 .. Len(s) + 1, NEW e,
         e \notin ToSet(s), IsInjective(s), Inserted(t, s, k, e)
  PROVE  IsInjective(t) /\ ToSet(t) = ToSet(s) \cup {e}
<1>0. Len(s) \in Nat /\ DOMAIN s = 1 .. Len(s) /\ DOMAIN t = 1 .. Len(s) + 1 /\ Len(t) = Len(s) + 1
  BY DEF Inserted
\* The place in s of what is at place i of t.
<1> DEFINE p(i) == IF i < k THEN i ELSE i - 1
<1>1. ASSUME NEW i \in DOMAIN t
      PROVE  (i = k /\ t[i] = e) \/ (i # k /\ p(i) \in DOMAIN s /\ t[i] = s[p(i)] /\ t[i] # e)
  <2>1. CASE i = k
    BY <1>0, <2>1 DEF Inserted
  <2>2. CASE i # k
    <3>1. p(i) \in DOMAIN s /\ t[i] = s[p(i)]
      BY <1>0, <2>2 DEF Inserted
    <3> QED BY <2>2, <3>1 DEF ToSet
  <2> QED BY <2>1, <2>2
<1>2. ASSUME NEW i \in DOMAIN t, NEW j \in DOMAIN t, t[i] = t[j] PROVE i = j
  <2>1. CASE i = k \/ j = k
    BY <1>1, <1>2, <2>1
  <2>2. CASE i # k /\ j # k
    <3>1. p(i) = p(j)
      <4> HIDE DEF p
      <4> QED BY <1>1, <1>2, <2>2 DEF IsInjective
    <3> QED BY <1>0, <2>2, <3>1
  <2> QED BY <2>1, <2>2
<1>3. ASSUME NEW j \in DOMAIN s PROVE \E i \in DOMAIN t : t[i] = s[j]
  <2> DEFINE i == IF j < k THEN j ELSE j + 1
  <2>1. i \in DOMAIN t /\ i # k /\ p(i) = j
    BY <1>0
  <2> HIDE DEF i, p
  <2> QED BY <1>1, <2>1
<1>4. k \in DOMAIN t /\ t[k] = e
  BY <1>0, <1>1
<1>5. ToSet(t) = ToSet(s) \cup {e}
  <2> HIDE DEF p
  <2> QED BY <1>1, <1>3, <1>4 DEF ToSet
<1>6. IsInjective(t)
  BY <1>2 DEF IsInjective
<1> QED BY <1>5, <1>6

\* The elements after a removal.
LEMMA RemovedSet ==
  ASSUME NEW S, NEW s \in Seq(S), NEW t \in Seq(S), NEW k \in 1 .. Len(s),
         IsInjective(s), Removed(t, s, k)
  PROVE  IsInjective(t) /\ ToSet(t) = ToSet(s) \ {s[k]}
<1>0. Len(s) \in Nat /\ DOMAIN s = 1 .. Len(s) /\ DOMAIN t = 1 .. Len(s) - 1 /\ Len(t) = Len(s) - 1
  BY DEF Removed
<1> DEFINE p(i) == IF i < k THEN i ELSE i + 1
<1>1. ASSUME NEW i \in DOMAIN t
      PROVE  p(i) \in DOMAIN s /\ t[i] = s[p(i)] /\ t[i] # s[k]
  <2>1. p(i) \in DOMAIN s /\ t[i] = s[p(i)] /\ p(i) # k
    BY <1>0 DEF Removed
  <2> HIDE DEF p
  <2> QED BY <1>0, <2>1 DEF IsInjective
<1>2. ASSUME NEW i \in DOMAIN t, NEW j \in DOMAIN t, t[i] = t[j] PROVE i = j
  <2>1. p(i) = p(j)
    <3> HIDE DEF p
    <3> QED BY <1>1, <1>2 DEF IsInjective
  <2> QED BY <1>0, <2>1
<1>3. ASSUME NEW j \in DOMAIN s, j # k PROVE \E i \in DOMAIN t : t[i] = s[j]
  <2> DEFINE i == IF j < k THEN j ELSE j - 1
  <2>1. i \in DOMAIN t /\ p(i) = j
    BY <1>0, <1>3
  <2> HIDE DEF i, p
  <2> QED BY <1>1, <2>1
<1>5. ToSet(t) = ToSet(s) \ {s[k]}
  <2> HIDE DEF p
  <2>1. ASSUME NEW x \in ToSet(t) PROVE x \in ToSet(s) /\ x # s[k]
    BY <1>1 DEF ToSet
  <2>2. ASSUME NEW x \in ToSet(s), x # s[k] PROVE x \in ToSet(t)
    BY <1>3, <2>2 DEF ToSet
  <2> QED BY <2>1, <2>2
<1>6. IsInjective(t)
  BY <1>2 DEF IsInjective
<1> QED BY <1>5, <1>6

-----------------------------------------------------------------------------
(* The list *)

Links == [ListNodes -> ListNodes \cup {NoNode}]

\* No node is in the list twice: that makes ListAgrees inductive.
ListInv ==
  /\ inList \in Seq(ListNodes) /\ IsInjective(inList)
  /\ next \in Links /\ pre \in Links
  /\ ListAgrees

\* ListAgrees with the length for the counter and indices for Head and Last; d
\* is the set of the nodes in the list.
Linked(s, L, d, f, l, c, nx, pv) ==
  /\ L \in Nat /\ c = L
  /\ L # 0 => 1 \in 1 .. L /\ L \in 1 .. L
  /\ \A i \in 1 .. L : s[i] \in ListNodes /\ s[i] \in d
  /\ f = IF L = 0 THEN NoNode ELSE s[1]
  /\ l = IF L = 0 THEN NoNode ELSE s[L]
  /\ \A i \in 1 .. L : /\ nx[s[i]] = IF i = L THEN NoNode ELSE s[i + 1]
                       /\ pv[s[i]] = IF i = 1 THEN NoNode ELSE s[i - 1]
  /\ \A n \in ListNodes \ d : nx[n] = NoNode /\ pv[n] = NoNode
  /\ \A i, j \in 1 .. L : s[i] = s[j] => i = j

\* The invariant of the list, written out.
LEMMA ListFacts ==
  ASSUME ListInv
  PROVE  Linked(inList, Len(inList), ToSet(inList), first, last, count, next, pre)
<1>1. inList \in Seq(ListNodes) /\ IsInjective(inList) /\ ListAgrees
  BY DEF ListInv
<1>2. Len(inList) \in Nat /\ DOMAIN inList = 1 .. Len(inList) /\ (Len(inList) = 0 <=> inList = <<>>)
  BY <1>1, EmptySeq
<1>3. inList # <<>> => Head(inList) = inList[1]
  BY <1>1
<1>4. \A i \in 1 .. Len(inList) : inList[i] \in ListNodes /\ inList[i] \in ToSet(inList)
  BY <1>1, <1>2 DEF ToSet
<1>5. Len(inList) # 0 => 1 \in 1 .. Len(inList) /\ Len(inList) \in 1 .. Len(inList)
  BY <1>2
<1>6. \A i, j \in 1 .. Len(inList) : inList[i] = inList[j] => i = j
  BY <1>1, <1>2 DEF IsInjective
<1> QED BY <1>1, <1>2, <1>3, <1>4, <1>5, <1>6 DEF ListAgrees, Last, Linked

\* And back, for the state after a step.
LEMMA ListFactsBack ==
  ASSUME inList' \in Seq(ListNodes), IsInjective(inList'), next' \in Links, pre' \in Links,
         count' = Len(inList'),
         first' = IF Len(inList') = 0 THEN NoNode ELSE inList'[1],
         last' = IF Len(inList') = 0 THEN NoNode ELSE inList'[Len(inList')],
         \A i \in 1 .. Len(inList') :
            /\ next'[inList'[i]] = IF i = Len(inList') THEN NoNode ELSE inList'[i + 1]
            /\ pre'[inList'[i]] = IF i = 1 THEN NoNode ELSE inList'[i - 1],
         \A n \in ListNodes \ ToSet(inList') : next'[n] = NoNode /\ pre'[n] = NoNode
  PROVE  ListInv'
<1>2. DOMAIN inList' = 1 .. Len(inList') /\ (Len(inList') = 0 <=> inList' = <<>>)
  BY EmptySeq
<1>3. inList' # <<>> => Head(inList') = inList'[1]
  OBVIOUS
<1>4. ListAgrees'
  BY <1>2, <1>3 DEF ListAgrees, Last
<1> QED BY <1>4 DEF ListInv

\* ListInsertFirst links the new node in front.
LEMMA InsertFirstStep ==
  ASSUME ListInv, NEW n \in ListNodes, ListInsertFirst(n)
  PROVE  ListInv'
<1> DEFINE s == inList
           t == inList'
           L == Len(inList)
           d == ToSet(inList)
<1>0. Linked(s, L, d, first, last, count, next, pre)
  BY ListFacts
<1>1. s \in Seq(ListNodes) /\ IsInjective(s) /\ next \in Links /\ pre \in Links
  BY DEF ListInv
<1>2. t = <<n>> \o s /\ n \notin d
  BY DEF ListInsertFirst, Absent
<1>3. t \in Seq(ListNodes) /\ Inserted(t, s, 1, n)
  BY <1>1, <1>2, PrependFacts
<1>4. 1 \in 1 .. L + 1
  BY <1>0 DEF Linked
<1>5. IsInjective(t) /\ ToSet(t) = d \cup {n}
  <2>1. 1 \in 1 .. Len(s) + 1 /\ n \notin ToSet(s)
    BY <1>2, <1>4
  <2> HIDE DEF s, t
  <2>2. IsInjective(t) /\ ToSet(t) = ToSet(s) \cup {n}
    BY <1>1, <1>3, <2>1, InsertedSet
  <2> QED BY <2>2 DEF s
<1>6. Len(t) = L + 1 /\ t[1] = n /\ \A i \in 1 .. L : t[i + 1] = s[i]
  BY <1>1, <1>3 DEF Inserted
<1>7. /\ next' = [next EXCEPT ![n] = first] /\ first' = n /\ count' = count + 1
      /\ last' = (IF count = 0 THEN n ELSE last)
      /\ pre' = IF count = 0 THEN [pre EXCEPT ![n] = NoNode] ELSE [pre EXCEPT ![n] = NoNode, ![first] = n]
  BY DEF ListInsertFirst
<1> HIDE DEF s, t, L, d
<1>8. next' \in Links /\ pre' \in Links
  <2>1. first \in ListNodes \cup {NoNode} /\ (count # 0 => first \in ListNodes)
    BY <1>0 DEF Linked
  <2> QED BY <1>1, <1>7, <2>1 DEF Links
<1>9. ASSUME NEW i \in 1 .. L
      PROVE  /\ next'[s[i]] = (IF i = L THEN NoNode ELSE s[i + 1])
             /\ pre'[s[i]] = IF i = 1 THEN n ELSE s[i - 1]
  <2>1. s[i] \in ListNodes /\ s[i] # n /\ count # 0 /\ first = s[1] /\ (s[i] = s[1] => i = 1)
    BY <1>0, <1>2 DEF Linked
  <2>2. next[s[i]] = (IF i = L THEN NoNode ELSE s[i + 1]) /\ pre[s[i]] = IF i = 1 THEN NoNode ELSE s[i - 1]
    BY <1>0 DEF Linked
  <2> QED BY <1>1, <1>7, <2>1, <2>2 DEF Links
<1>10. /\ next'[n] = (IF L = 0 THEN NoNode ELSE s[1]) /\ pre'[n] = NoNode
  <2>1. (L = 0 <=> count = 0) /\ first = (IF L = 0 THEN NoNode ELSE s[1]) /\ (L # 0 => s[1] # n)
    BY <1>0, <1>2 DEF Linked
  <2> QED BY <1>1, <1>7, <2>1 DEF Links
<1>11. ASSUME NEW i \in 1 .. Len(t)
       PROVE  /\ next'[t[i]] = (IF i = Len(t) THEN NoNode ELSE t[i + 1])
              /\ pre'[t[i]] = IF i = 1 THEN NoNode ELSE t[i - 1]
  <2>0. L \in Nat
    BY <1>0 DEF Linked
  <2>1. CASE i = 1
    <3>1. L # 0 => t[1 + 1] = s[1]
      BY <1>6, <2>0
    <3> QED BY <1>6, <1>10, <2>0, <2>1, <3>1
  <2>2. CASE i # 1
    <3>1. PICK j \in 1 .. L : i = j + 1
      <4>1. i - 1 \in 1 .. L /\ i = (i - 1) + 1
        BY <1>6, <2>0, <2>2
      <4> QED BY <4>1
    <3>2. t[i] = s[j] /\ (j # L => t[i + 1] = s[j + 1]) /\ (t[i - 1] = IF j = 1 THEN n ELSE s[j - 1])
      <4>1. j # L => j + 1 \in 1 .. L
        BY <2>0
      <4>2. j # 1 => j - 1 \in 1 .. L /\ t[(j - 1) + 1] = s[j - 1] /\ (j - 1) + 1 = i - 1
        BY <1>6, <2>0, <3>1
      <4> QED BY <1>6, <2>0, <3>1, <4>1, <4>2, SMTT(60), ZenonT(60)
    <3> QED BY <1>6, <1>9, <2>0, <3>1, <3>2
  <2> QED BY <2>1, <2>2
<1>12. ASSUME NEW m \in ListNodes \ ToSet(t) PROVE next'[m] = NoNode /\ pre'[m] = NoNode
  <2>1. m \in ListNodes \ d /\ m # n
    BY <1>5
  <2>2. next[m] = NoNode /\ pre[m] = NoNode /\ (count # 0 => m # first)
    BY <1>0, <2>1 DEF Linked
  <2> QED BY <1>1, <1>7, <2>1, <2>2 DEF Links
<1>13. count' = Len(t) /\ Len(t) # 0 /\ first' = t[1] /\ last' = t[Len(t)]
  <2>1. L \in Nat /\ count = L /\ last = IF L = 0 THEN NoNode ELSE s[L]
    BY <1>0 DEF Linked
  <2>2. L # 0 => t[L + 1] = s[L]
    BY <1>6, <2>1
  <2> QED BY <1>6, <1>7, <2>1, <2>2
<1> QED BY <1>3, <1>5, <1>8, <1>11, <1>12, <1>13, ListFactsBack DEF t

\* ListInsertLast links the new node behind.
LEMMA InsertLastStep ==
  ASSUME ListInv, NEW n \in ListNodes, ListInsertLast(n)
  PROVE  ListInv'
<1> DEFINE s == inList
           t == inList'
           L == Len(inList)
           d == ToSet(inList)
<1>0. Linked(s, L, d, first, last, count, next, pre)
  BY ListFacts
<1>1. s \in Seq(ListNodes) /\ IsInjective(s) /\ next \in Links /\ pre \in Links
  BY DEF ListInv
<1>2. t = Append(s, n) /\ n \notin d
  BY DEF ListInsertLast, Absent
<1>3. t \in Seq(ListNodes) /\ Inserted(t, s, L + 1, n)
  BY <1>1, <1>2, AppendFacts
<1>5. IsInjective(t) /\ ToSet(t) = d \cup {n}
  <2>1. L + 1 \in 1 .. Len(s) + 1 /\ n \notin ToSet(s)
    BY <1>0, <1>2 DEF Linked
  <2> HIDE DEF s, t
  <2>2. IsInjective(t) /\ ToSet(t) = ToSet(s) \cup {n}
    BY <1>1, <1>3, <2>1, InsertedSet
  <2> QED BY <2>2 DEF s
<1>6. Len(t) = L + 1 /\ t[L + 1] = n /\ \A i \in 1 .. L : t[i] = s[i]
  BY <1>1, <1>3 DEF Inserted
<1>7. /\ pre' = [pre EXCEPT ![n] = last] /\ last' = n /\ count' = count + 1
      /\ first' = (IF count = 0 THEN n ELSE first)
      /\ next' = IF count = 0 THEN [next EXCEPT ![n] = NoNode] ELSE [next EXCEPT ![n] = NoNode, ![last] = n]
  BY DEF ListInsertLast
<1> HIDE DEF s, t, L, d
<1>8. next' \in Links /\ pre' \in Links
  <2>1. last \in ListNodes \cup {NoNode} /\ (count # 0 => last \in ListNodes)
    BY <1>0 DEF Linked
  <2> QED BY <1>1, <1>7, <2>1 DEF Links
<1>9. ASSUME NEW i \in 1 .. L
      PROVE  /\ next'[s[i]] = (IF i = L THEN n ELSE s[i + 1])
             /\ pre'[s[i]] = IF i = 1 THEN NoNode ELSE s[i - 1]
  <2>1. s[i] \in ListNodes /\ s[i] # n /\ count # 0 /\ last = s[L] /\ (s[i] = s[L] => i = L)
    BY <1>0, <1>2 DEF Linked
  <2>2. next[s[i]] = (IF i = L THEN NoNode ELSE s[i + 1]) /\ pre[s[i]] = IF i = 1 THEN NoNode ELSE s[i - 1]
    BY <1>0 DEF Linked
  <2> QED BY <1>1, <1>7, <2>1, <2>2 DEF Links
<1>10. /\ pre'[n] = (IF L = 0 THEN NoNode ELSE s[L]) /\ next'[n] = NoNode
  <2>1. (L = 0 <=> count = 0) /\ last = (IF L = 0 THEN NoNode ELSE s[L]) /\ (L # 0 => s[L] # n)
    BY <1>0, <1>2 DEF Linked
  <2> QED BY <1>1, <1>7, <2>1 DEF Links
<1>11. ASSUME NEW i \in 1 .. Len(t)
       PROVE  /\ next'[t[i]] = (IF i = Len(t) THEN NoNode ELSE t[i + 1])
              /\ pre'[t[i]] = IF i = 1 THEN NoNode ELSE t[i - 1]
  <2>0. L \in Nat
    BY <1>0 DEF Linked
  <2>1. CASE i = L + 1
    <3>1. L # 0 => t[i - 1] = s[L]
      BY <1>6, <2>0, <2>1
    <3> QED BY <1>6, <1>10, <2>0, <2>1, <3>1
  <2>2. CASE i # L + 1
    <3>1. i \in 1 .. L /\ (i # 1 => i - 1 \in 1 .. L) /\ (i # L => i + 1 \in 1 .. L)
      BY <1>6, <2>0, <2>2
    <3>2. t[i] = s[i] /\ (i # 1 => t[i - 1] = s[i - 1]) /\ (t[i + 1] = IF i = L THEN n ELSE s[i + 1])
      BY <1>6, <3>1
    <3> QED BY <1>6, <1>9, <2>0, <2>2, <3>1, <3>2
  <2> QED BY <2>1, <2>2
<1>12. ASSUME NEW m \in ListNodes \ ToSet(t) PROVE next'[m] = NoNode /\ pre'[m] = NoNode
  <2>1. m \in ListNodes \ d /\ m # n
    BY <1>5
  <2>2. next[m] = NoNode /\ pre[m] = NoNode /\ (count # 0 => m # last)
    BY <1>0, <2>1 DEF Linked
  <2> QED BY <1>1, <1>7, <2>1, <2>2 DEF Links
<1>13. count' = Len(t) /\ Len(t) # 0 /\ first' = t[1] /\ last' = t[Len(t)]
  <2>1. L \in Nat /\ count = L /\ first = IF L = 0 THEN NoNode ELSE s[1]
    BY <1>0 DEF Linked
  <2>2. t[1] = IF L = 0 THEN n ELSE s[1]
    BY <1>6, <2>1, SMTT(60), ZenonT(60)
  <2> QED BY <1>6, <1>7, <2>1, <2>2
<1> QED BY <1>3, <1>5, <1>8, <1>11, <1>12, <1>13, ListFactsBack DEF t

\* What list_delete and list_delete_first have in common.
LEMMA DeleteAtStep ==
  ASSUME ListInv, NEW k \in 1 .. Len(inList), NEW n, n = inList[k],
         first' = IF n = first THEN next[n] ELSE first,
         last' = IF n = last THEN pre[n] ELSE last,
         next' = [(IF pre[n] = NoNode THEN next ELSE [next EXCEPT ![pre[n]] = next[n]]) EXCEPT ![n] = NoNode],
         pre' = [(IF next[n] = NoNode THEN pre ELSE [pre EXCEPT ![next[n]] = pre[n]]) EXCEPT ![n] = NoNode],
         count' = count - 1,
         inList' \in Seq(ListNodes), Removed(inList', inList, k)
  PROVE  ListInv'
<1> DEFINE s == inList
           t == inList'
           L == Len(inList)
           d == ToSet(inList)
<1>0. Linked(s, L, d, first, last, count, next, pre)
  BY ListFacts
<1>1. s \in Seq(ListNodes) /\ IsInjective(s) /\ next \in Links /\ pre \in Links
  BY DEF ListInv
<1>3. t \in Seq(ListNodes) /\ Removed(t, s, k) /\ k \in 1 .. L /\ n = s[k]
  OBVIOUS
<1>5. IsInjective(t) /\ ToSet(t) = d \ {n}
  <2> HIDE DEF s, t
  <2>2. IsInjective(t) /\ ToSet(t) = ToSet(s) \ {s[k]}
    <3>1. k \in 1 .. Len(s)
      BY <1>3 DEF s
    <3> QED BY <1>1, <1>3, <3>1, RemovedSet
  <2> QED BY <1>3, <2>2 DEF s
<1>6. Len(t) = L - 1 /\ \A i \in 1 .. L - 1 : t[i] = IF i < k THEN s[i] ELSE s[i + 1]
  BY <1>3 DEF Removed
<1>7. n \in ListNodes /\ L \in Nat /\ L # 0 /\ k \in 1 .. L /\ count = L
      /\ next[n] = (IF k = L THEN NoNode ELSE s[k + 1])
      /\ pre[n] = (IF k = 1 THEN NoNode ELSE s[k - 1])
      /\ (n = first <=> k = 1) /\ (n = last <=> k = L)
      /\ (k # 1 => k - 1 \in 1 .. L /\ s[k - 1] \in ListNodes)
      /\ (k # L => k + 1 \in 1 .. L /\ s[k + 1] \in ListNodes)
  <2> HIDE DEF s, t, L, d
  <2>1. n \in ListNodes /\ L \in Nat /\ L # 0 /\ count = L
    BY <1>0, <1>3 DEF Linked
  <2>2. (k # 1 => k - 1 \in 1 .. L) /\ (k # L => k + 1 \in 1 .. L) /\ 1 \in 1 .. L /\ L \in 1 .. L
    BY <1>3, <2>1
  <2>3. next[n] = (IF k = L THEN NoNode ELSE s[k + 1]) /\ pre[n] = (IF k = 1 THEN NoNode ELSE s[k - 1])
    BY <1>0, <1>3 DEF Linked
  <2>4. (n = first <=> k = 1) /\ (n = last <=> k = L)
    BY <1>0, <1>3, <2>1, <2>2 DEF Linked
  <2>5. (k # 1 => s[k - 1] \in ListNodes) /\ (k # L => s[k + 1] \in ListNodes)
    BY <1>0, <2>2 DEF Linked
  <2> QED BY <1>3, <2>1, <2>2, <2>3, <2>4, <2>5
<1> HIDE DEF s, t, L, d
<1>8. next' = (IF k = 1 THEN [next EXCEPT ![n] = NoNode] ELSE [next EXCEPT ![s[k - 1]] = next[n], ![n] = NoNode])
      /\ pre' = (IF k = L THEN [pre EXCEPT ![n] = NoNode] ELSE [pre EXCEPT ![s[k + 1]] = pre[n], ![n] = NoNode])
  BY <1>7, ListAssumption
<1>9. next' \in Links /\ pre' \in Links
  BY <1>1, <1>7, <1>8, SMTT(60), ZenonT(60) DEF Links
<1>10. ASSUME NEW i \in 1 .. L, i # k
       PROVE  /\ next'[s[i]] = (IF i = k - 1 THEN next[n] ELSE IF i = L THEN NoNode ELSE s[i + 1])
              /\ pre'[s[i]] = (IF i = k + 1 THEN pre[n] ELSE IF i = 1 THEN NoNode ELSE s[i - 1])
  <2>1. s[i] \in ListNodes /\ s[i] # n /\ (k # 1 => (s[i] = s[k - 1] <=> i = k - 1))
        /\ (k # L => (s[i] = s[k + 1] <=> i = k + 1))
    BY <1>0, <1>3, <1>7, <1>10, SMTT(60), ZenonT(60) DEF Linked
  <2>2. next[s[i]] = (IF i = L THEN NoNode ELSE s[i + 1]) /\ pre[s[i]] = IF i = 1 THEN NoNode ELSE s[i - 1]
    BY <1>0 DEF Linked
  <2>3. (k = 1 => i # k - 1) /\ (k = L => i # k + 1)
    BY <1>7
  <2> QED BY <1>1, <1>7, <1>8, <2>1, <2>2, <2>3, SMTT(60), ZenonT(60) DEF Links
<1>11. ASSUME NEW i \in 1 .. L - 1
       PROVE  /\ next'[t[i]] = (IF i = L - 1 THEN NoNode ELSE t[i + 1])
              /\ pre'[t[i]] = IF i = 1 THEN NoNode ELSE t[i - 1]
  <2>0. L \in Int /\ k \in Int /\ i \in Int /\ 1 <= i /\ i <= L - 1 /\ 1 <= k /\ k <= L
    BY <1>7
  <2>1. /\ i # L - 1 => i + 1 \in 1 .. L - 1
        /\ i # 1 => i - 1 \in 1 .. L - 1
        /\ (i - 1) + 1 = i
    BY <2>0
  <2>2. CASE i < k
    <3>1. /\ i \in 1 .. L /\ i # k /\ i # k + 1
          /\ i # 1 => i - 1 < k
          /\ i + 1 < k <=> i # k - 1
          /\ i = k - 1 => (i = L - 1 <=> k = L) /\ i + 1 = k
          /\ i # k - 1 => i # L - 1
          /\ i # L
      <4>1. i \in 1 .. L /\ i # k /\ i # k + 1 /\ i # L
        BY <2>0, <2>2
      <4>2. i # 1 => i - 1 < k
        BY <2>0, <2>2
      <4>3. i + 1 < k <=> i # k - 1
        BY <2>0, <2>2
      <4>4. i = k - 1 => (i = L - 1 <=> k = L) /\ i + 1 = k
        BY <2>0
      <4>5. i # k - 1 => i # L - 1
        BY <2>0, <2>2
      <4> QED BY <4>1, <4>2, <4>3, <4>4, <4>5
    <3>2. t[i] = s[i] /\ (i # 1 => t[i - 1] = s[i - 1])
      BY <1>6, <2>1, <2>2, <3>1
    <3>3. i # L - 1 => t[i + 1] = IF i = k - 1 THEN s[k + 1] ELSE s[i + 1]
      BY <1>6, <2>1, <3>1
    <3>4. /\ next'[s[i]] = (IF i = k - 1 THEN next[n] ELSE IF i = L THEN NoNode ELSE s[i + 1])
          /\ pre'[s[i]] = (IF i = k + 1 THEN pre[n] ELSE IF i = 1 THEN NoNode ELSE s[i - 1])
      BY <1>10, <3>1
    <3>5. next[n] = IF k = L THEN NoNode ELSE s[k + 1]
      BY <1>7
    <3> QED BY <3>1, <3>2, <3>3, <3>4, <3>5
  <2>3. CASE ~(i < k)
    <3> DEFINE j == i + 1
    <3>1. /\ j \in 1 .. L /\ j # k /\ j # k - 1 /\ j # 1 /\ j - 1 = i
          /\ j = k + 1 <=> i = k
          /\ i # 1 => (i - 1 < k <=> i = k)
          /\ i = k => (i = 1 <=> k = 1) /\ i - 1 = k - 1
          /\ i # k => i # 1
          /\ i = L - 1 <=> j = L
          /\ ~(i + 1 < k)
      <4>1. j \in 1 .. L /\ j # k /\ j # k - 1 /\ j # 1 /\ j - 1 = i /\ ~(i + 1 < k)
        BY <2>0, <2>3
      <4>2. (j = k + 1 <=> i = k) /\ (i = L - 1 <=> j = L)
        BY <2>0
      <4>3. i # 1 => (i - 1 < k <=> i = k)
        BY <2>0, <2>3
      <4>4. (i = k => (i = 1 <=> k = 1) /\ i - 1 = k - 1) /\ (i # k => i # 1)
        BY <2>0, <2>3
      <4> QED BY <4>1, <4>2, <4>3, <4>4
    <3>2. t[i] = s[j] /\ (i # L - 1 => t[i + 1] = s[j + 1])
      BY <1>6, <2>1, <2>3, <3>1
    <3>3. i # 1 => t[i - 1] = IF i = k THEN s[k - 1] ELSE s[i]
      BY <1>6, <2>1, <3>1
    <3> HIDE DEF j
    <3>4. /\ next'[s[j]] = (IF j = k - 1 THEN next[n] ELSE IF j = L THEN NoNode ELSE s[j + 1])
          /\ pre'[s[j]] = (IF j = k + 1 THEN pre[n] ELSE IF j = 1 THEN NoNode ELSE s[j - 1])
      BY <1>10, <3>1
    <3>5. pre[n] = IF k = 1 THEN NoNode ELSE s[k - 1]
      BY <1>7
    <3> QED BY <3>1, <3>2, <3>3, <3>4, <3>5
  <2> QED BY <2>2, <2>3
<1>12. ASSUME NEW m \in ListNodes \ ToSet(t) PROVE next'[m] = NoNode /\ pre'[m] = NoNode
  <2>1. CASE m = n
    BY <1>1, <1>7, <1>8, <2>1 DEF Links
  <2>2. CASE m # n
    <3>1. m \in ListNodes \ d
      BY <1>5, <2>2
    <3>2. next[m] = NoNode /\ pre[m] = NoNode /\ (k # 1 => m # s[k - 1]) /\ (k # L => m # s[k + 1])
      BY <1>0, <1>7, <3>1 DEF Linked
    <3> QED BY <1>1, <1>7, <1>8, <2>2, <3>2 DEF Links
  <2> QED BY <2>1, <2>2
<1>13. /\ count' = Len(t) /\ first' = (IF Len(t) = 0 THEN NoNode ELSE t[1])
       /\ last' = (IF Len(t) = 0 THEN NoNode ELSE t[Len(t)])
  <2>1. first = s[1] /\ last = s[L]
    BY <1>0, <1>7 DEF Linked
  <2>2. L # 1 => t[1] = (IF k = 1 THEN s[k + 1] ELSE s[1]) /\ t[L - 1] = (IF k = L THEN s[k - 1] ELSE s[L])
    <3>1. L # 1 => 1 \in 1 .. L - 1 /\ L - 1 \in 1 .. L - 1 /\ L - 1 + 1 = L
      BY <1>7
    <3>2. (1 < k <=> k # 1) /\ (L - 1 < k <=> k = L)
      BY <1>7
    <3> QED BY <1>6, <1>7, <3>1, <3>2
  <2>3. L = 1 => k = 1 /\ k = L
    BY <1>7
  <2>4. count' = L - 1
    BY <1>7
  <2>5. L - 1 = 0 <=> L = 1
    BY <1>7
  <2> QED BY <1>6, <1>7, <2>1, <2>2, <2>3, <2>4, <2>5
<1>14. \A i \in 1 .. Len(t) : /\ next'[t[i]] = (IF i = Len(t) THEN NoNode ELSE t[i + 1])
                              /\ pre'[t[i]] = IF i = 1 THEN NoNode ELSE t[i - 1]
  BY <1>6, <1>11, ZenonT(60), SMTT(60)
<1> QED BY <1>3, <1>5, <1>9, <1>12, <1>13, <1>14, ListFactsBack DEF t

\* ListDelete unlinks a node of the list.
LEMMA DeleteStep ==
  ASSUME ListInv, NEW n \in ListNodes, ListDelete(n)
  PROVE  ListInv'
<1>1. inList \in Seq(ListNodes)
  BY DEF ListInv
<1>2. PICK k \in DOMAIN inList : inList[k] = n /\ inList' = RemoveAt(inList, k)
  BY DEF ListDelete
<1>3. k \in 1 .. Len(inList)
  BY <1>1
<1>4. inList' \in Seq(ListNodes) /\ Removed(inList', inList, k)
  BY <1>1, <1>2, <1>3, RemoveAtFacts
<1> QED BY <1>2, <1>3, <1>4, DeleteAtStep DEF ListDelete

\* ListDeleteFirst unlinks the first node.
LEMMA DeleteFirstStep ==
  ASSUME ListInv, ListDeleteFirst
  PROVE  ListInv'
<1> DEFINE L == Len(inList)
           n == first
           second == next[first]
<1>0. inList \in Seq(ListNodes) /\ next \in Links /\ pre \in Links
  BY DEF ListInv
<1>1. Linked(inList, L, ToSet(inList), first, last, count, next, pre)
  BY ListFacts
<1> HIDE DEF L
<1>2. /\ L # 0 /\ L \in Nat /\ 1 \in 1 .. L /\ n = inList[1] /\ n \in ListNodes
      /\ pre[n] = NoNode /\ (second = NoNode <=> L = 1) /\ (n = last <=> L = 1)
  <2>1. /\ L # 0 /\ L \in Nat /\ 1 \in 1 .. L /\ L \in 1 .. L /\ n = inList[1] /\ n \in ListNodes
        /\ pre[n] = NoNode /\ second = (IF 1 = L THEN NoNode ELSE inList[1 + 1])
        /\ last = inList[L]
    BY <1>1 DEF Linked, ListDeleteFirst
  <2>2. L # 1 => inList[1 + 1] \in ListNodes
    <3>1. L # 1 => 1 + 1 \in 1 .. L
      BY <2>1
    <3> QED BY <1>1, <3>1 DEF Linked
  <2>3. inList[1] = inList[L] => 1 = L
    BY <1>1, <2>1 DEF Linked
  <2> QED BY <2>1, <2>2, <2>3, ListAssumption
<1>3. inList # <<>>
  <2>1. inList = <<>> => L = 0
    BY DEF L
  <2> QED BY <1>2, <2>1
<1>4. inList' \in Seq(ListNodes) /\ Removed(inList', inList, 1)
  BY <1>0, <1>3, TailFacts DEF ListDeleteFirst
<1>5. /\ first' = (IF n = first THEN next[n] ELSE first)
      /\ last' = (IF n = last THEN pre[n] ELSE last)
      /\ count' = count - 1
  BY <1>2 DEF ListDeleteFirst
<1>6. next' = [(IF pre[n] = NoNode THEN next ELSE [next EXCEPT ![pre[n]] = next[n]]) EXCEPT ![n] = NoNode]
  BY <1>2 DEF ListDeleteFirst
<1>7. pre' = [(IF next[n] = NoNode THEN pre ELSE [pre EXCEPT ![next[n]] = pre[n]]) EXCEPT ![n] = NoNode]
  BY <1>2 DEF ListDeleteFirst
<1>8. 1 \in 1 .. Len(inList)
  BY <1>2 DEF L
<1> HIDE DEF n
<1>9. n = inList[1] /\ n = first
  BY <1>2 DEF n
<1> QED BY <1>4, <1>5, <1>6, <1>7, <1>8, <1>9, DeleteAtStep

\* However the operations of lib/list.c are called within their contract, the
\* links in both directions, first, last and count agree with what was put in.
THEOREM ListAlwaysAgrees == ListSpec => []ListAgrees
<1>1. ListInit => ListInv
  <2> SUFFICES ASSUME ListInit PROVE ListInv
    OBVIOUS
  <2>1. inList = <<>> /\ ToSet(inList) = {} /\ DOMAIN inList = {} /\ Len(inList) = 0
    BY DEF ListInit, ToSet
  <2>2. ListAgrees
    BY <2>1 DEF ListInit, ListAgrees
  <2> QED BY <2>1, <2>2 DEF ListInit, ListInv, IsInjective, Links
<1>2. ListInv /\ [ListNext]_listVars => ListInv'
  <2> SUFFICES ASSUME ListInv, [ListNext]_listVars PROVE ListInv'
    OBVIOUS
  <2>1. CASE ListNext
    BY <2>1, InsertFirstStep, InsertLastStep, DeleteStep, DeleteFirstStep DEF ListNext
  <2>2. CASE UNCHANGED listVars
    BY <2>2 DEF listVars, ListInv, ListAgrees
  <2> QED BY <2>1, <2>2
<1>3. ListInv => ListAgrees
  BY DEF ListInv
<1> QED BY <1>1, <1>2, <1>3, PTL DEF ListSpec

-----------------------------------------------------------------------------
(* The queue *)

\* The nodes from sentinel to sentinel.
Whole(s) == <<QHead>> \o s \o <<QTail>>

QLinks == [AllNodes -> AllNodes \cup {NoQueueNode}]

\* c is a chain of m nodes, those in d, that is linked in both directions; the
\* nodes outside have no links.
Chained(c, m, d, nx, pv) ==
  /\ m \in Nat /\ m > 1
  /\ \A i \in 1 .. m : c[i] \in AllNodes /\ c[i] \in d
  /\ \A i \in 1 .. m - 1 : nx[c[i]] = c[i + 1]
  /\ \A i \in 2 .. m : pv[c[i]] = c[i - 1]
  /\ pv[c[1]] = NoQueueNode /\ nx[c[m]] = NoQueueNode
  /\ \A n \in AllNodes \ d : nx[n] = NoQueueNode /\ pv[n] = NoQueueNode
  /\ \A i, j \in 1 .. m : c[i] = c[j] => i = j

\* t is the chain c of m nodes with e behind place k, or without place k.
ChainIn(t, c, m, k, e) ==
  \A i \in 1 .. m + 1 : t[i] = IF i < k + 1 THEN c[i] ELSE IF i = k + 1 THEN e ELSE c[i - 1]
ChainOut(t, c, m, k) ==
  \A i \in 1 .. m - 1 : t[i] = IF i < k THEN c[i] ELSE c[i + 1]

\* The links after queue_insert and queue_remove.
NextIn(nx, c, k, e) == [nx EXCEPT ![e] = c[k + 1], ![c[k]] = e]
PrevIn(pv, c, k, e) == [pv EXCEPT ![c[k + 1]] = e, ![e] = c[k]]
NextOut(nx, pv, e) == [nx EXCEPT ![pv[e]] = nx[e], ![e] = NoQueueNode]
PrevOut(nx, pv, e) == [pv EXCEPT ![nx[e]] = pv[e], ![e] = NoQueueNode]

\* A chain stays one when a node is linked in behind a place.
LEMMA ChainInsert ==
  ASSUME NEW c, NEW m, NEW d, NEW nx \in QLinks, NEW pv \in QLinks, Chained(c, m, d, nx, pv),
         NEW k \in 1 .. m - 1, NEW e \in AllNodes \ d, NEW t, ChainIn(t, c, m, k, e)
  PROVE  /\ Chained(t, m + 1, d \cup {e}, NextIn(nx, c, k, e), PrevIn(pv, c, k, e))
         /\ NextIn(nx, c, k, e) \in QLinks /\ PrevIn(pv, c, k, e) \in QLinks
<1> DEFINE nx1 == NextIn(nx, c, k, e)
           pv1 == PrevIn(pv, c, k, e)
<1>. /\ nx1 = [nx EXCEPT ![e] = c[k + 1], ![c[k]] = e] /\ pv1 = [pv EXCEPT ![c[k + 1]] = e, ![e] = c[k]]
     /\ \A i \in 1 .. m + 1 : t[i] = IF i < k + 1 THEN c[i] ELSE IF i = k + 1 THEN e ELSE c[i - 1]
  BY DEF ChainIn, NextIn, PrevIn
<1> HIDE DEF nx1, pv1
<1>0. m \in Int /\ m > 1 /\ k \in Int /\ 1 <= k /\ k < m
  BY DEF Chained
<1>1. k \in 1 .. m /\ k + 1 \in 1 .. m /\ k + 1 \in 2 .. m /\ (k + 1) - 1 = k
  BY <1>0
<1>2. /\ c[k] \in AllNodes /\ c[k + 1] \in AllNodes /\ c[k] # c[k + 1] /\ e # c[k] /\ e # c[k + 1]
      /\ nx[c[k]] = c[k + 1] /\ pv[c[k + 1]] = c[k]
  BY <1>0, <1>1 DEF Chained
<1>3. nx1 \in QLinks /\ pv1 \in QLinks
  BY <1>2 DEF QLinks
<1>4. nx1[e] = c[k + 1] /\ pv1[e] = c[k]
  BY <1>2 DEF QLinks
<1>5. ASSUME NEW i \in 1 .. m
      PROVE  /\ c[i] \in AllNodes /\ c[i] \in d /\ c[i] # e
             /\ nx1[c[i]] = (IF i = k THEN e ELSE nx[c[i]])
             /\ pv1[c[i]] = (IF i = k + 1 THEN e ELSE pv[c[i]])
  <2>1. c[i] \in AllNodes /\ c[i] \in d /\ (c[i] = c[k] <=> i = k) /\ (c[i] = c[k + 1] <=> i = k + 1)
    BY <1>1 DEF Chained
  <2> QED BY <1>2, <2>1 DEF QLinks
<1>6. ASSUME NEW i \in 1 .. m + 1 PROVE t[i] \in AllNodes /\ t[i] \in d \cup {e}
  <2>1. i < k + 1 => i \in 1 .. m
    BY <1>0
  <2>2. ~(i < k + 1) /\ i # k + 1 => i - 1 \in 1 .. m
    BY <1>0
  <2> QED BY <1>5, <2>1, <2>2
<1>7. ASSUME NEW i \in 1 .. m PROVE nx1[t[i]] = t[i + 1]
  <2>0. i \in 1 .. m + 1 /\ i + 1 \in 1 .. m + 1
    BY <1>0
  <2>1. CASE i < k
    <3>1. i < k + 1 /\ i + 1 < k + 1 /\ i # k /\ i \in 1 .. m - 1
      BY <1>0, <2>1
    <3>2. t[i] = c[i] /\ t[i + 1] = c[i + 1]
      BY <2>0, <3>1
    <3> QED BY <1>5, <3>1, <3>2 DEF Chained
  <2>2. CASE i = k
    <3>1. t[i] = c[k] /\ t[i + 1] = e
      BY <1>0, <2>0, <2>2
    <3> QED BY <1>1, <1>5, <3>1
  <2>3. CASE i = k + 1
    <3>1. t[i] = e
      BY <1>0, <2>0, <2>3
    <3>2. t[i + 1] = c[k + 1]
      <4>1. ~(i + 1 < k + 1) /\ i + 1 # k + 1 /\ (i + 1) - 1 = k + 1
        BY <1>0, <2>3
      <4> QED BY <2>0, <4>1
    <3> QED BY <1>4, <3>1, <3>2
  <2>4. CASE i > k + 1
    <3> DEFINE j == i - 1
    <3>1. j \in 1 .. m - 1 /\ j \in 1 .. m /\ j # k /\ j + 1 = i
          /\ ~(i < k + 1) /\ i # k + 1 /\ ~(i + 1 < k + 1) /\ i + 1 # k + 1 /\ (i + 1) - 1 = i
      BY <1>0, <2>4
    <3>2. t[i] = c[j] /\ t[i + 1] = c[j + 1]
      BY <2>0, <3>1
    <3> HIDE DEF j
    <3> QED BY <1>5, <3>1, <3>2, ZenonT(60), SMTT(60) DEF Chained
  <2> QED BY <1>0, <2>1, <2>2, <2>3, <2>4
<1>8. ASSUME NEW i \in 2 .. m + 1 PROVE pv1[t[i]] = t[i - 1]
  <2>0. i \in 1 .. m + 1 /\ i - 1 \in 1 .. m + 1
    BY <1>0
  <2>1. CASE i < k + 1
    <3>1. i - 1 < k + 1 /\ i # k + 1 /\ i \in 2 .. m /\ i \in 1 .. m
      BY <1>0, <2>1
    <3>2. t[i] = c[i] /\ t[i - 1] = c[i - 1]
      BY <2>0, <2>1, <3>1
    <3> QED BY <1>5, <3>1, <3>2 DEF Chained
  <2>2. CASE i = k + 1
    <3>1. t[i] = e /\ t[i - 1] = c[k]
      BY <1>0, <2>0, <2>2
    <3> QED BY <1>4, <3>1
  <2>3. CASE i = k + 2
    <3>1. t[i] = c[k + 1]
      <4>1. ~(i < k + 1) /\ i # k + 1 /\ i - 1 = k + 1
        BY <1>0, <2>3
      <4> QED BY <2>0, <4>1
    <3>2. t[i - 1] = e
      BY <1>0, <2>0, <2>3
    <3> QED BY <1>1, <1>5, <3>1, <3>2
  <2>4. CASE i > k + 2
    <3> DEFINE j == i - 1
    <3>1. j \in 2 .. m /\ j \in 1 .. m /\ j # k + 1
          /\ ~(i < k + 1) /\ i # k + 1 /\ ~(j < k + 1) /\ j # k + 1
      BY <1>0, <2>4
    <3>2. t[i] = c[j] /\ t[i - 1] = c[j - 1]
      BY <2>0, <3>1
    <3> HIDE DEF j
    <3> QED BY <1>5, <3>1, <3>2 DEF Chained
  <2> QED BY <1>0, <2>1, <2>2, <2>3, <2>4
<1>9. pv1[t[1]] = NoQueueNode /\ nx1[t[m + 1]] = NoQueueNode
  <2>1. 1 \in 1 .. m /\ 1 < k + 1 /\ 1 # k + 1 /\ 1 \in 1 .. m + 1
    BY <1>0
  <2>2. m \in 1 .. m /\ m # k /\ ~(m + 1 < k + 1) /\ m + 1 # k + 1 /\ (m + 1) - 1 = m /\ m + 1 \in 1 .. m + 1
    BY <1>0
  <2>3. t[1] = c[1] /\ t[m + 1] = c[m]
    BY <2>1, <2>2
  <2>4. pv1[c[1]] = pv[c[1]] /\ nx1[c[m]] = nx[c[m]]
    BY <1>5, <2>1, <2>2
  <2> QED BY <2>3, <2>4 DEF Chained
<1>10. ASSUME NEW n \in AllNodes \ (d \cup {e}) PROVE nx1[n] = NoQueueNode /\ pv1[n] = NoQueueNode
  <2>1. n # e /\ n # c[k] /\ n # c[k + 1] /\ nx[n] = NoQueueNode /\ pv[n] = NoQueueNode
    BY <1>1 DEF Chained
  <2> QED BY <1>2, <2>1 DEF QLinks
<1>11. ASSUME NEW i \in 1 .. m + 1, NEW j \in 1 .. m + 1, t[i] = t[j] PROVE i = j
  <2> DEFINE p(x) == IF x < k + 1 THEN x ELSE x - 1
  <2>1. ASSUME NEW x \in 1 .. m + 1, x # k + 1 PROVE p(x) \in 1 .. m /\ t[x] = c[p(x)] /\ t[x] # e
    <3>1. p(x) \in 1 .. m
      BY <1>0, <2>1
    <3>2. t[x] = c[p(x)]
      BY <2>1
    <3> HIDE DEF p
    <3> QED BY <1>5, <3>1, <3>2
  <2>2. t[k + 1] = e
    BY <1>0
  <2>3. CASE i = k + 1 \/ j = k + 1
    <3> HIDE DEF p
    <3> QED BY <1>11, <2>1, <2>2, <2>3
  <2>4. CASE i # k + 1 /\ j # k + 1
    <3>1. p(i) = p(j)
      <4> HIDE DEF p
      <4> QED BY <1>11, <2>1, <2>4 DEF Chained
    <3> QED BY <1>0, <2>4, <3>1
  <2> QED BY <2>3, <2>4
<1>12. m + 1 \in Nat /\ m + 1 > 1 /\ (m + 1) - 1 = m
  BY <1>0
<1> QED BY <1>3, <1>6, <1>7, <1>8, <1>9, <1>10, <1>11, <1>12 DEF Chained, nx1, pv1

\* A chain stays one when a node is unlinked.
LEMMA ChainRemove ==
  ASSUME NEW c, NEW m, NEW d, NEW nx \in QLinks, NEW pv \in QLinks, Chained(c, m, d, nx, pv),
         NEW k \in 2 .. m - 1, NEW e, e = c[k], NEW t, ChainOut(t, c, m, k)
  PROVE  /\ Chained(t, m - 1, d \ {e}, NextOut(nx, pv, e), PrevOut(nx, pv, e))
         /\ NextOut(nx, pv, e) \in QLinks /\ PrevOut(nx, pv, e) \in QLinks
<1> DEFINE nx1 == NextOut(nx, pv, e)
           pv1 == PrevOut(nx, pv, e)
<1>. /\ nx1 = [nx EXCEPT ![pv[e]] = nx[e], ![e] = NoQueueNode] /\ pv1 = [pv EXCEPT ![nx[e]] = pv[e], ![e] = NoQueueNode]
     /\ \A i \in 1 .. m - 1 : t[i] = IF i < k THEN c[i] ELSE c[i + 1]
  BY DEF ChainOut, NextOut, PrevOut
<1> HIDE DEF nx1, pv1
<1>0. m \in Int /\ k \in Int /\ 1 < k /\ k < m
  BY DEF Chained
<1>1. k \in 1 .. m /\ k \in 2 .. m /\ k \in 1 .. m - 1 /\ k - 1 \in 1 .. m /\ k + 1 \in 1 .. m /\ k - 1 # k + 1
  BY <1>0
<1>2. /\ e \in AllNodes /\ c[k - 1] \in AllNodes /\ c[k + 1] \in AllNodes
      /\ nx[e] = c[k + 1] /\ pv[e] = c[k - 1] /\ e # c[k - 1] /\ e # c[k + 1]
  BY <1>0, <1>1 DEF Chained
<1>3. nx1 \in QLinks /\ pv1 \in QLinks
  BY <1>2 DEF QLinks
<1>4. nx1[e] = NoQueueNode /\ pv1[e] = NoQueueNode
  BY <1>2 DEF QLinks
<1>5. ASSUME NEW i \in 1 .. m, i # k
      PROVE  /\ c[i] \in AllNodes /\ c[i] \in d /\ c[i] # e
             /\ nx1[c[i]] = (IF i = k - 1 THEN c[k + 1] ELSE nx[c[i]])
             /\ pv1[c[i]] = (IF i = k + 1 THEN c[k - 1] ELSE pv[c[i]])
  <2>1. c[i] \in AllNodes /\ c[i] \in d /\ (c[i] = c[k - 1] <=> i = k - 1) /\ (c[i] = c[k + 1] <=> i = k + 1)
        /\ c[i] # e
    BY <1>1, <1>5 DEF Chained
  <2> QED BY <1>2, <2>1 DEF QLinks
<1> DEFINE p(x) == IF x < k THEN x ELSE x + 1
<1>6. ASSUME NEW i \in 1 .. m - 1
      PROVE  p(i) \in 1 .. m /\ p(i) # k /\ t[i] = c[p(i)] /\ t[i] \in AllNodes /\ t[i] \in d \ {e}
  <2>1. p(i) \in 1 .. m /\ p(i) # k
    BY <1>0
  <2>2. t[i] = c[p(i)]
    OBVIOUS
  <2> HIDE DEF p
  <2> QED BY <1>5, <2>1, <2>2
<1>7. ASSUME NEW i \in 1 .. (m - 1) - 1 PROVE nx1[t[i]] = t[i + 1]
  <2>0. i \in 1 .. m - 1 /\ i + 1 \in 1 .. m - 1
    BY <1>0
  <2>1. CASE i < k - 1
    <3>1. i < k /\ i + 1 < k /\ i # k - 1 /\ i # k /\ i \in 1 .. m
      BY <1>0, <2>1
    <3>2. t[i] = c[i] /\ t[i + 1] = c[i + 1] /\ nx[c[i]] = c[i + 1]
      BY <2>0, <3>1 DEF Chained
    <3> QED BY <1>5, <3>1, <3>2
  <2>2. CASE i = k - 1
    <3>1. i < k /\ i # k /\ i \in 1 .. m /\ ~(i + 1 < k) /\ (i + 1) + 1 = k + 1
      BY <1>0, <2>2
    <3>2. t[i] = c[i] /\ t[i + 1] = c[k + 1]
      BY <2>0, <3>1
    <3> QED BY <1>5, <2>2, <3>1, <3>2
  <2>3. CASE i > k - 1
    <3> DEFINE j == i + 1
    <3>1. j \in 1 .. m /\ j \in 1 .. m - 1 /\ j # k /\ j # k - 1 /\ ~(i < k) /\ ~(i + 1 < k)
      BY <1>0, <2>3
    <3>2. t[i] = c[j] /\ t[i + 1] = c[j + 1]
      BY <2>0, <3>1
    <3> HIDE DEF j
    <3>3. nx[c[j]] = c[j + 1]
      BY <3>1 DEF Chained
    <3> QED BY <1>5, <3>1, <3>2, <3>3
  <2> QED BY <1>0, <2>1, <2>2, <2>3
<1>8. ASSUME NEW i \in 2 .. m - 1 PROVE pv1[t[i]] = t[i - 1]
  <2>0. i \in 1 .. m - 1 /\ i - 1 \in 1 .. m - 1
    BY <1>0
  <2>1. CASE i < k
    <3>1. i - 1 < k /\ i # k /\ i # k + 1 /\ i \in 1 .. m /\ i \in 2 .. m
      BY <1>0, <2>1
    <3>2. t[i] = c[i] /\ t[i - 1] = c[i - 1] /\ pv[c[i]] = c[i - 1]
      BY <2>0, <2>1, <3>1 DEF Chained
    <3> QED BY <1>5, <3>1, <3>2
  <2>2. CASE i = k
    <3>1. t[i] = c[k + 1] /\ t[i - 1] = c[k - 1] /\ k + 1 \in 1 .. m /\ k + 1 # k
      BY <1>0, <2>0, <2>2
    <3> QED BY <1>5, <3>1
  <2>3. CASE i > k
    <3> DEFINE j == i + 1
    <3>1. j \in 1 .. m /\ j \in 2 .. m /\ j # k /\ j # k + 1 /\ ~(i < k) /\ ~(i - 1 < k)
          /\ (i - 1) + 1 = j - 1
      BY <1>0, <2>3
    <3>2. t[i] = c[j] /\ t[i - 1] = c[j - 1]
      BY <2>0, <3>1
    <3> HIDE DEF j
    <3>3. pv[c[j]] = c[j - 1]
      BY <3>1 DEF Chained
    <3> QED BY <1>5, <3>1, <3>2, <3>3
  <2> QED BY <1>0, <2>1, <2>2, <2>3
<1>9. pv1[t[1]] = NoQueueNode /\ nx1[t[m - 1]] = NoQueueNode
  <2>1. 1 \in 1 .. m /\ 1 < k /\ 1 # k + 1 /\ 1 \in 1 .. m - 1 /\ 1 # k
    BY <1>0
  <2>2. m \in 1 .. m /\ m # k /\ m # k - 1 /\ ~(m - 1 < k) /\ (m - 1) + 1 = m /\ m - 1 \in 1 .. m - 1
    BY <1>0
  <2>3. t[1] = c[1] /\ t[m - 1] = c[m]
    BY <2>1, <2>2
  <2>4. pv1[c[1]] = pv[c[1]] /\ nx1[c[m]] = nx[c[m]]
    BY <1>5, <2>1, <2>2
  <2> QED BY <2>3, <2>4 DEF Chained
<1>10. ASSUME NEW n \in AllNodes \ (d \ {e}) PROVE nx1[n] = NoQueueNode /\ pv1[n] = NoQueueNode
  <2>1. CASE n = e
    BY <1>4, <2>1
  <2>2. CASE n # e
    <3>1. n # c[k - 1] /\ n # c[k + 1] /\ nx[n] = NoQueueNode /\ pv[n] = NoQueueNode
      BY <1>1, <2>2 DEF Chained
    <3> QED BY <1>2, <2>2, <3>1 DEF QLinks
  <2> QED BY <2>1, <2>2
<1>11. ASSUME NEW i \in 1 .. m - 1, NEW j \in 1 .. m - 1, t[i] = t[j] PROVE i = j
  <2>1. p(i) = p(j)
    <3> HIDE DEF p
    <3> QED BY <1>6, <1>11 DEF Chained
  <2> QED BY <1>0, <2>1
<1>12. m - 1 \in Nat /\ m - 1 > 1
  BY <1>0
<1> HIDE DEF p
<1> QED BY <1>3, <1>6, <1>7, <1>8, <1>9, <1>10, <1>11, <1>12 DEF Chained, nx1, pv1

\* The equations of the two walks over the links.
CheckFrom(f, nx, pv) ==
  f = [n \in AllNodes |-> IF nx[n] = NoQueueNode THEN n = QTail
                          ELSE pv[nx[n]] = n /\ f[nx[n]]]
FindFrom(f, q, nx) ==
  f = [n \in AllNodes |-> n # QTail /\ (n = q \/ (nx[n] # NoQueueNode /\ f[nx[n]]))]

\* From every place of a chain the check comes to its end.
LEMMA CheckWalk ==
  ASSUME NEW c, NEW m, NEW d, NEW nx, NEW pv, Chained(c, m, d, nx, pv), c[m] = QTail,
         \A n \in d : \E i \in 1 .. m : c[i] = n, QTail \in d
  PROVE  /\ \E f : CheckFrom(f, nx, pv)
         /\ \A f : CheckFrom(f, nx, pv) => \A i \in 1 .. m : f[c[i]]
<1>0. m \in Nat /\ m > 1 /\ m \in 1 .. m
  BY DEF Chained
<1>1. \E f : CheckFrom(f, nx, pv)
  <2> DEFINE g == [n \in AllNodes |-> n \in d]
             B(n) == IF nx[n] = NoQueueNode THEN n = QTail ELSE pv[nx[n]] = n /\ g[nx[n]]
  <2>1. ASSUME NEW n \in AllNodes PROVE (n \in d) <=> B(n)
    <3>1. CASE n \notin d
      BY <3>1 DEF Chained
    <3>2. CASE n \in d
      <4>1. PICK i \in 1 .. m : c[i] = n
        BY <3>2
      <4>2. CASE i = m
        BY <3>2, <4>1, <4>2 DEF Chained
      <4>3. CASE i # m
        <5>1. i \in 1 .. m - 1 /\ i + 1 \in 1 .. m /\ i + 1 \in 2 .. m /\ (i + 1) - 1 = i
          BY <1>0, <4>3
        <5>2. nx[n] = c[i + 1] /\ c[i + 1] \in AllNodes /\ c[i + 1] \in d
          BY <4>1, <5>1 DEF Chained
        <5>3. pv[c[i + 1]] = c[(i + 1) - 1]
          BY <5>1 DEF Chained
        <5>4. g[c[i + 1]]
          BY <5>2
        <5>5. nx[n] # NoQueueNode
          BY <5>2, QueueAssumption
        <5> HIDE DEF g
        <5> QED BY <3>2, <4>1, <5>1, <5>2, <5>3, <5>4, <5>5
      <4> QED BY <4>2, <4>3
    <3> QED BY <3>1, <3>2
  <2>2. \A n : B(n) \in BOOLEAN
    BY Zenon
  <2>3. g = [n \in AllNodes |-> B(n)]
    <3> HIDE DEF B
    <3>1. \A n \in AllNodes : (n \in d) = B(n)
      BY <2>1, <2>2
    <3> QED BY <3>1
  <2> HIDE DEF g
  <2> QED BY <2>3, Zenon DEF CheckFrom
<1>2. ASSUME NEW f, CheckFrom(f, nx, pv) PROVE \A i \in 1 .. m : f[c[i]]
  <2> DEFINE bad == {k \in 0 .. m - 1 : ~f[c[m - k]]}
  <2>1. ASSUME NEW n \in AllNodes
        PROVE  f[n] <=> (IF nx[n] = NoQueueNode THEN n = QTail ELSE pv[nx[n]] = n /\ f[nx[n]])
    BY <1>2, Zenon DEF CheckFrom
  <2>2. ASSUME NEW k \in bad PROVE \E l \in bad : ~(k <= l)
    <3>1. k \in 0 .. m - 1 /\ ~f[c[m - k]] /\ m - k \in 1 .. m
      BY <1>0
    <3>2. c[m - k] \in AllNodes
      BY <3>1 DEF Chained
    <3>3. k # 0
      <4>1. CASE k = 0
        <5>1. m - k = m
          BY <1>0, <4>1
        <5>2. nx[c[m]] = NoQueueNode
          BY DEF Chained
        <5> HIDE DEF bad
        <5> QED BY <2>1, <3>1, <3>2, <5>1, <5>2, Zenon
      <4> QED BY <4>1
    <3>4. /\ m - k \in 1 .. m - 1 /\ (m - k) + 1 \in 2 .. m /\ (m - k) + 1 = m - (k - 1)
          /\ ((m - k) + 1) - 1 = m - k /\ k - 1 \in 0 .. m - 1 /\ ~(k <= k - 1) /\ (m - k) + 1 \in 1 .. m
      BY <1>0, <3>1, <3>3
    <3>5. nx[c[m - k]] = c[(m - k) + 1] /\ pv[c[(m - k) + 1]] = c[m - k] /\ c[(m - k) + 1] \in AllNodes
      BY <3>4 DEF Chained
    <3>6. ~f[c[(m - k) + 1]]
      <4> HIDE DEF bad
      <4>1. nx[c[m - k]] # NoQueueNode
        BY <3>5, QueueAssumption
      <4> QED BY <2>1, <3>1, <3>2, <3>5, <4>1, ZenonT(60), SMTT(60)
    <3>7. k - 1 \in bad
      BY <3>4, <3>6
    <3> HIDE DEF bad
    <3> QED BY <3>4, <3>7
  <2>3. bad \in SUBSET Nat
    BY <1>0
  <2>4. bad = {}
    <3> HIDE DEF bad
    <3> QED BY <2>2, <2>3, LeastElement
  <2>5. ASSUME NEW i \in 1 .. m PROVE f[c[i]]
    <3>1. m - i \in 0 .. m - 1 /\ m - (m - i) = i
      BY <1>0
    <3>2. f[c[m - (m - i)]]
      BY <2>4, <3>1
    <3> QED BY <3>1, <3>2
  <2> QED BY <2>5
<1> QED BY <1>1, <1>2

\* From every place but the first the search passes the rest of the chain.
LEMMA FindWalk ==
  ASSUME NEW c, NEW m, NEW d, NEW nx, NEW pv, Chained(c, m, d, nx, pv), c[m] = QTail,
         \A n \in d : \E i \in 1 .. m : c[i] = n, QTail \in d,
         NEW q \in QueueNodes
  PROVE  /\ \E f : FindFrom(f, q, nx)
         /\ \A f : FindFrom(f, q, nx) => (f[c[2]] <=> \E j \in 2 .. m : c[j] = q)
<1>0. m \in Nat /\ m > 1 /\ m \in 1 .. m /\ q # QTail
  BY QueueAssumption DEF Chained
<1> DEFINE After(i) == \E j \in 1 .. m : i <= j /\ c[j] = q
\* The last place holds the sentinel; another one what the rest holds, or q.
<1>1. ~After(m)
  <2>1. \A j \in 1 .. m : m <= j => j = m
    BY <1>0
  <2> QED BY <1>0, <2>1
<1>2. ASSUME NEW i \in 1 .. m - 1
      PROVE  /\ After(i) <=> (c[i] = q \/ After(i + 1))
             /\ i \in 1 .. m /\ i + 1 \in 1 .. m
             /\ nx[c[i]] = c[i + 1] /\ c[i] \in AllNodes /\ c[i + 1] \in AllNodes
             /\ c[i] # QTail /\ nx[c[i]] # NoQueueNode
  <2>1. i \in 1 .. m /\ i + 1 \in 1 .. m /\ i # m /\ i <= i
        /\ \A j \in 1 .. m : i <= j <=> (i = j \/ i + 1 <= j)
    BY <1>0
  <2>2. nx[c[i]] = c[i + 1] /\ c[i] \in AllNodes /\ c[i + 1] \in AllNodes /\ c[i] # QTail
    BY <1>0, <2>1 DEF Chained
  <2> QED BY <2>1, <2>2, QueueAssumption
<1>3. \E f : FindFrom(f, q, nx)
  <2> DEFINE A(n) == \E i \in 1 .. m : c[i] = n /\ After(i)
             g == [n \in AllNodes |-> n # QTail /\ (n = q \/ A(n))]
             B(n) == n # QTail /\ (n = q \/ (nx[n] # NoQueueNode /\ g[nx[n]]))
  <2>1. ASSUME NEW i \in 1 .. m PROVE A(c[i]) <=> After(i)
    <3> HIDE DEF After
    <3> QED BY DEF Chained
  <2>2. ASSUME NEW n \in AllNodes PROVE (n # QTail /\ (n = q \/ A(n))) <=> B(n)
    <3>1. CASE n = QTail \/ n = q
      BY <3>1, Zenon
    <3>2. CASE n # QTail /\ n # q /\ n \notin d
      <4>1. nx[n] = NoQueueNode /\ \A i \in 1 .. m : c[i] # n
        BY <3>2 DEF Chained
      <4> QED BY <3>2, <4>1, Zenon
    <3>3. CASE n # QTail /\ n # q /\ n \in d
      <4>1. PICK i \in 1 .. m : c[i] = n
        BY <3>3
      <4>2. i \in 1 .. m - 1
        <5>1. i # m
          BY <3>3, <4>1
        <5> QED BY <1>0, <5>1
      <4>3. A(n) <=> After(i)
        BY <2>1, <4>1
      <4>4. After(i) <=> After(i + 1)
        BY <1>2, <3>3, <4>1, <4>2
      <4>5. nx[n] = c[i + 1] /\ nx[n] # NoQueueNode /\ c[i + 1] \in AllNodes /\ i + 1 \in 1 .. m
        BY <1>2, <4>1, <4>2
      <4>6. A(c[i + 1]) <=> After(i + 1)
        BY <2>1, <4>5
      <4>7. After(i + 1) => c[i + 1] # QTail
        <5>1. CASE i + 1 = m
          BY <1>1, <5>1
        <5>2. CASE i + 1 # m
          <6>1. i + 1 \in 1 .. m - 1
            BY <1>0, <4>5, <5>2
          <6> QED BY <1>2, <6>1
        <5> QED BY <5>1, <5>2
      <4>8. c[i + 1] = q => After(i + 1)
        <5>1. i + 1 <= i + 1
          BY <4>2
        <5> QED BY <4>5, <5>1
      <4> HIDE DEF After, A
      <4>9. g[c[i + 1]] <=> After(i + 1)
        BY <4>5, <4>6, <4>7, <4>8, Zenon
      <4> HIDE DEF g
      <4> QED BY <3>3, <4>3, <4>4, <4>5, <4>9, Zenon
    <3> QED BY <3>1, <3>2, <3>3
  <2>3. \A n : B(n) \in BOOLEAN /\ (n # QTail /\ (n = q \/ A(n))) \in BOOLEAN
    BY Zenon
  <2>4. g = [n \in AllNodes |-> B(n)]
    <3> HIDE DEF A, B
    <3>1. \A n \in AllNodes : (n # QTail /\ (n = q \/ A(n))) = B(n)
      BY <2>2, <2>3
    <3> QED BY <3>1
  <2> HIDE DEF g
  <2> QED BY <2>4, Zenon DEF FindFrom
<1>4. ASSUME NEW f, FindFrom(f, q, nx) PROVE \A i \in 1 .. m : f[c[i]] <=> After(i)
  <2> DEFINE bad == {k \in 0 .. m - 1 : ~(f[c[m - k]] <=> After(m - k))}
  <2>1. ASSUME NEW n \in AllNodes
        PROVE  f[n] <=> (n # QTail /\ (n = q \/ (nx[n] # NoQueueNode /\ f[nx[n]])))
    BY <1>4, Zenon DEF FindFrom
  <2> HIDE DEF After
  <2>2. ASSUME NEW k \in bad PROVE \E l \in bad : ~(k <= l)
    <3>1. k \in 0 .. m - 1 /\ ~(f[c[m - k]] <=> After(m - k)) /\ m - k \in 1 .. m
      BY <1>0
    <3>2. c[m - k] \in AllNodes
      BY <3>1 DEF Chained
    <3>3. k # 0
      <4>1. CASE k = 0
        <5>1. m - k = m
          BY <1>0, <4>1
        <5> HIDE DEF bad
        <5> QED BY <1>1, <2>1, <3>1, <3>2, <5>1, Zenon
      <4> QED BY <4>1
    <3> DEFINE p == m - k
    <3>4. /\ p \in 1 .. m - 1 /\ p + 1 = m - (k - 1) /\ k - 1 \in 0 .. m - 1 /\ ~(k <= k - 1)
      BY <1>0, <3>1, <3>3
    <3>5. ~(f[c[p]] <=> After(p))
      BY <3>1
    <3> HIDE DEF p
    <3>6. ~(f[c[p + 1]] <=> After(p + 1))
      <4> HIDE DEF bad
      <4>1. /\ After(p) <=> (c[p] = q \/ After(p + 1))
            /\ nx[c[p]] = c[p + 1] /\ c[p] \in AllNodes /\ c[p] # QTail /\ nx[c[p]] # NoQueueNode
        BY <1>2, <3>4
      <4> QED BY <2>1, <3>5, <4>1, Zenon
    <3>7. ~(f[c[m - (k - 1)]] <=> After(m - (k - 1)))
      BY <3>4, <3>6
    <3>8. k - 1 \in bad
      BY <3>4, <3>7
    <3> HIDE DEF bad
    <3> QED BY <3>4, <3>8
  <2>3. bad \in SUBSET Nat
    BY <1>0
  <2>4. bad = {}
    <3> HIDE DEF bad
    <3> QED BY <2>2, <2>3, LeastElement
  <2>5. ASSUME NEW i \in 1 .. m PROVE f[c[i]] <=> After(i)
    <3>1. m - i \in 0 .. m - 1 /\ m - (m - i) = i
      BY <1>0
    <3>2. f[c[m - (m - i)]] <=> After(m - (m - i))
      BY <2>4, <3>1
    <3> QED BY <3>1, <3>2
  <2> QED BY <2>5
<1>5. After(2) <=> \E j \in 2 .. m : c[j] = q
  <2>1. \A j : j \in 2 .. m <=> (j \in 1 .. m /\ 2 <= j)
    BY <1>0
  <2> QED BY <2>1, Zenon
<1>6. 2 \in 1 .. m
  BY <1>0
<1> HIDE DEF After
<1> QED BY <1>3, <1>4, <1>5, <1>6

\* The queue with its two sentinels.
LEMMA WholeFacts ==
  ASSUME NEW s \in Seq(QueueNodes)
  PROVE  /\ Len(Whole(s)) = Len(s) + 2 /\ Len(s) \in Nat
         /\ \A i \in 1 .. Len(s) + 2 :
              Whole(s)[i] = IF i = 1 THEN QHead ELSE IF i = Len(s) + 2 THEN QTail ELSE s[i - 1]
<1> DEFINE a == <<QHead>> \o s
           b == <<QTail>>
<1>0. /\ s \in Seq(AllNodes) /\ <<QHead>> \in Seq(AllNodes) /\ b \in Seq(AllNodes)
      /\ Len(<<QHead>>) = 1 /\ <<QHead>>[1] = QHead /\ Len(b) = 1 /\ b[1] = QTail
  <2>1. s \in Seq(AllNodes)
    <3>1. QueueNodes \subseteq AllNodes
      BY DEF AllNodes
    <3> QED BY <3>1, SeqMonotonic
  <2> QED BY <2>1 DEF AllNodes
<1>1. Len(s) \in Nat
  OBVIOUS
<1>2. a \in Seq(AllNodes) /\ Len(a) = 1 + Len(s)
      /\ \A i \in 1 .. 1 + Len(s) : a[i] = IF i <= 1 THEN <<QHead>>[i] ELSE s[i - 1]
  BY <1>0, ConcatProperties
<1>3. Whole(s) = a \o b
  BY DEF Whole
<1> HIDE DEF a, b
<1>4. Len(a \o b) = (1 + Len(s)) + 1
      /\ \A i \in 1 .. (1 + Len(s)) + 1 : (a \o b)[i] = IF i <= 1 + Len(s) THEN a[i] ELSE b[i - (1 + Len(s))]
  <2>1. a \in Seq(AllNodes) /\ b \in Seq(AllNodes) /\ Len(a) = 1 + Len(s) /\ Len(b) = 1
    BY <1>0, <1>2
  <2>2. Len(a \o b) = Len(a) + Len(b)
        /\ \A i \in 1 .. Len(a) + Len(b) : (a \o b)[i] = IF i <= Len(a) THEN a[i] ELSE b[i - Len(a)]
    BY <2>1, ConcatProperties
  <2> QED BY <2>1, <2>2
<1>5. (1 + Len(s)) + 1 = Len(s) + 2
  BY <1>1
<1>6. ASSUME NEW i \in 1 .. Len(s) + 2
      PROVE  (a \o b)[i] = IF i = 1 THEN QHead ELSE IF i = Len(s) + 2 THEN QTail ELSE s[i - 1]
  <2>1. CASE i = Len(s) + 2
    <3>1. ~(i <= 1 + Len(s)) /\ i - (1 + Len(s)) = 1 /\ i # 1
      BY <1>1, <2>1
    <3> QED BY <1>0, <1>4, <1>5, <2>1, <3>1
  <2>2. CASE i # Len(s) + 2
    <3>1. i <= 1 + Len(s) /\ i \in 1 .. 1 + Len(s) /\ (i <= 1 <=> i = 1)
      BY <1>1, <2>2
    <3>2. (a \o b)[i] = a[i]
      BY <1>4, <1>5, <3>1
    <3>3. a[i] = IF i = 1 THEN QHead ELSE s[i - 1]
      BY <1>0, <1>2, <3>1
    <3> QED BY <2>2, <3>2, <3>3
  <2> QED BY <2>1, <2>2
<1> QED BY <1>1, <1>3, <1>4, <1>5, <1>6

\* As for the list; the sentinels close the chain.
QueueInv ==
  /\ inQueue \in Seq(QueueNodes) /\ IsInjective(inQueue)
  /\ qnext \in QLinks /\ qprev \in QLinks
  /\ Chained(Whole(inQueue), Len(inQueue) + 2, ToSet(inQueue) \cup {QHead, QTail}, qnext, qprev)

\* Linking a node in behind a place of the queue keeps its invariant.
LEMMA QueueInsertAt ==
  ASSUME QueueInv, NEW k \in 1 .. Len(inQueue) + 1, NEW n \in QueueNodes, Outside(n),
         inQueue' \in Seq(QueueNodes), Inserted(inQueue', inQueue, k, n),
         qnext' = [qnext EXCEPT ![n] = Whole(inQueue)[k + 1], ![Whole(inQueue)[k]] = n],
         qprev' = [qprev EXCEPT ![Whole(inQueue)[k + 1]] = n, ![n] = Whole(inQueue)[k]]
  PROVE  QueueInv'
<1> DEFINE s == inQueue
           s1 == inQueue'
           L == Len(inQueue)
           m == Len(inQueue) + 2
           c == Whole(inQueue)
           t == Whole(inQueue')
           d == ToSet(inQueue) \cup {QHead, QTail}
<1>0. s \in Seq(QueueNodes) /\ IsInjective(s) /\ qnext \in QLinks /\ qprev \in QLinks
      /\ Chained(c, m, d, qnext, qprev) /\ L \in Nat /\ s1 \in Seq(QueueNodes)
  BY DEF QueueInv
<1>1. IsInjective(s1) /\ ToSet(s1) = ToSet(s) \cup {n}
  <2>1. k \in 1 .. Len(s) + 1 /\ n \notin ToSet(s) /\ Inserted(s1, s, k, n)
    BY DEF Outside
  <2> HIDE DEF s, s1
  <2> QED BY <1>0, <2>1, InsertedSet
<1>2. n \in AllNodes \ d
  BY QueueAssumption DEF AllNodes, Outside
<1>3. Len(s1) = L + 1 /\ \A i \in 1 .. L + 1 : s1[i] = IF i < k THEN s[i] ELSE IF i = k THEN n ELSE s[i - 1]
  BY DEF Inserted
<1>4. \A i \in 1 .. L + 2 : c[i] = IF i = 1 THEN QHead ELSE IF i = L + 2 THEN QTail ELSE s[i - 1]
  BY <1>0, WholeFacts
<1>5. \A i \in 1 .. L + 3 : t[i] = IF i = 1 THEN QHead ELSE IF i = L + 3 THEN QTail ELSE s1[i - 1]
  <2>1. \A i \in 1 .. Len(s1) + 2 : t[i] = IF i = 1 THEN QHead ELSE IF i = Len(s1) + 2 THEN QTail ELSE s1[i - 1]
    BY <1>0, WholeFacts
  <2>2. Len(s1) + 2 = L + 3
    BY <1>0, <1>3
  <2> QED BY <2>1, <2>2
<1>6. k \in 1 .. m - 1 /\ m + 1 = L + 3 /\ Len(s1) + 2 = m + 1 /\ k \in Int /\ 1 <= k /\ k <= L + 1
  BY <1>0, <1>3
<1>10. qnext' = [qnext EXCEPT ![n] = c[k + 1], ![c[k]] = n] /\ qprev' = [qprev EXCEPT ![c[k + 1]] = n, ![n] = c[k]]
  OBVIOUS
<1> HIDE DEF s, s1, L, m, c, t, d
<1>7. ASSUME NEW i \in 1 .. m + 1
      PROVE  t[i] = IF i < k + 1 THEN c[i] ELSE IF i = k + 1 THEN n ELSE c[i - 1]
  <2>0. i \in Int /\ 1 <= i /\ i <= L + 3 /\ L \in Int /\ L >= 0 /\ i \in 1 .. L + 3
    BY <1>0, <1>6
  <2>1. CASE i = 1
    BY <1>4, <1>5, <1>6, <2>0, <2>1
  <2>2. CASE i = L + 3
    <3>1. ~(i < k + 1) /\ i # k + 1 /\ i - 1 = L + 2 /\ i # 1 /\ L + 2 \in 1 .. L + 2 /\ L + 2 # 1
      BY <1>6, <2>0, <2>2
    <3> QED BY <1>4, <1>5, <2>0, <2>2, <3>1
  <2>3. CASE i # 1 /\ i # L + 3
    <3> DEFINE j == i - 1
    <3>1. j \in 1 .. L + 1
      BY <2>0, <2>3
    <3>2. t[i] = s1[j] /\ s1[j] = IF j < k THEN s[j] ELSE IF j = k THEN n ELSE s[j - 1]
      BY <1>3, <1>5, <2>0, <2>3, <3>1
    <3>3. CASE j < k
      <4>1. i < k + 1 /\ i \in 1 .. L + 2 /\ i # L + 2
        BY <1>6, <2>0, <3>3
      <4> QED BY <1>4, <2>3, <3>2, <3>3, <4>1
    <3>4. CASE j = k
      <4>1. ~(i < k + 1) /\ i = k + 1
        BY <1>6, <2>0, <3>4
      <4> QED BY <1>6, <2>0, <3>2, <3>4, <4>1
    <3>5. CASE ~(j < k) /\ j # k
      <4>1. ~(i < k + 1) /\ i # k + 1 /\ j \in 1 .. L + 2 /\ j # 1 /\ j # L + 2
        BY <1>6, <2>0, <2>3, <3>1, <3>5
      <4>2. c[j] = s[j - 1]
        <5> HIDE DEF j
        <5> QED BY <1>4, <4>1
      <4> QED BY <3>2, <3>5, <4>1, <4>2
    <3> QED BY <3>3, <3>4, <3>5
  <2> QED BY <2>1, <2>2, <2>3
<1>8. Chained(t, m + 1, d \cup {n}, qnext', qprev') /\ qnext' \in QLinks /\ qprev' \in QLinks
  <2>1. k \in 1 .. m - 1
    BY <1>6
  <2>2. ChainIn(t, c, m, k, n)
    BY <1>7 DEF ChainIn
  <2>3. qnext' = NextIn(qnext, c, k, n) /\ qprev' = PrevIn(qprev, c, k, n)
    BY <1>10 DEF NextIn, PrevIn
  <2>4. qnext \in QLinks /\ qprev \in QLinks /\ Chained(c, m, d, qnext, qprev)
    BY <1>0
  <2>5. /\ Chained(t, m + 1, d \cup {n}, NextIn(qnext, c, k, n), PrevIn(qprev, c, k, n))
        /\ NextIn(qnext, c, k, n) \in QLinks /\ PrevIn(qprev, c, k, n) \in QLinks
    BY <1>2, <2>1, <2>2, <2>4, ChainInsert, Zenon
  <2> QED BY <2>3, <2>5
<1>9. d \cup {n} = ToSet(s1) \cup {QHead, QTail}
  BY <1>1 DEF d, s
<1> QED BY <1>0, <1>1, <1>6, <1>8, <1>9 DEF QueueInv, t, s1

\* Unlinking a node of the queue keeps its invariant.
LEMMA QueueRemoveAt ==
  ASSUME QueueInv, NEW k \in 1 .. Len(inQueue), NEW n, n = inQueue[k], Unlink(n),
         inQueue' \in Seq(QueueNodes), Removed(inQueue', inQueue, k)
  PROVE  QueueInv'
<1> DEFINE s == inQueue
           s1 == inQueue'
           L == Len(inQueue)
           m == Len(inQueue) + 2
           c == Whole(inQueue)
           t == Whole(inQueue')
           d == ToSet(inQueue) \cup {QHead, QTail}
<1>0. s \in Seq(QueueNodes) /\ IsInjective(s) /\ qnext \in QLinks /\ qprev \in QLinks
      /\ Chained(c, m, d, qnext, qprev) /\ L \in Nat /\ s1 \in Seq(QueueNodes) /\ n \in QueueNodes
  BY DEF QueueInv
<1>1. IsInjective(s1) /\ ToSet(s1) = ToSet(s) \ {n}
  <2>1. k \in 1 .. Len(s) /\ Removed(s1, s, k) /\ n = s[k]
    OBVIOUS
  <2> HIDE DEF s, s1
  <2> QED BY <1>0, <2>1, RemovedSet
<1>3. Len(s1) = L - 1 /\ \A i \in 1 .. L - 1 : s1[i] = IF i < k THEN s[i] ELSE s[i + 1]
  BY DEF Removed
<1>4. \A i \in 1 .. L + 2 : c[i] = IF i = 1 THEN QHead ELSE IF i = L + 2 THEN QTail ELSE s[i - 1]
  BY <1>0, WholeFacts
<1>5. \A i \in 1 .. L + 1 : t[i] = IF i = 1 THEN QHead ELSE IF i = L + 1 THEN QTail ELSE s1[i - 1]
  <2>1. \A i \in 1 .. Len(s1) + 2 : t[i] = IF i = 1 THEN QHead ELSE IF i = Len(s1) + 2 THEN QTail ELSE s1[i - 1]
    BY <1>0, WholeFacts
  <2>2. Len(s1) + 2 = L + 1
    BY <1>0, <1>3
  <2> QED BY <2>1, <2>2
<1>6. k + 1 \in 2 .. m - 1 /\ m - 1 = L + 1 /\ Len(s1) + 2 = m - 1 /\ k \in Int /\ 1 <= k /\ k <= L /\ n = s[k]
  BY <1>0, <1>3
<1>10. /\ qnext' = [qnext EXCEPT ![qprev[n]] = qnext[n], ![n] = NoQueueNode]
       /\ qprev' = [qprev EXCEPT ![qnext[n]] = qprev[n], ![n] = NoQueueNode]
  BY DEF Unlink
<1> HIDE DEF s, s1, L, m, c, t, d
<1>2. n = c[k + 1]
  <2>1. k + 1 \in 1 .. L + 2 /\ k + 1 # 1 /\ k + 1 # L + 2 /\ (k + 1) - 1 = k
    BY <1>0, <1>6
  <2> QED BY <1>4, <1>6, <2>1
<1>7. ASSUME NEW i \in 1 .. m - 1
      PROVE  t[i] = IF i < k + 1 THEN c[i] ELSE c[i + 1]
  <2>0. i \in Int /\ 1 <= i /\ i <= L + 1 /\ L \in Int /\ L >= 0 /\ i \in 1 .. L + 1
    BY <1>0, <1>6
  <2>1. CASE i = 1
    BY <1>4, <1>5, <1>6, <2>0, <2>1
  <2>2. CASE i = L + 1
    <3>1. ~(i < k + 1) /\ i + 1 = L + 2 /\ i # 1 /\ L + 2 \in 1 .. L + 2 /\ L + 2 # 1
      BY <1>6, <2>0, <2>2
    <3> QED BY <1>4, <1>5, <2>0, <2>2, <3>1
  <2>3. CASE i # 1 /\ i # L + 1
    <3> DEFINE j == i - 1
    <3>1. j \in 1 .. L - 1 /\ j + 1 = i
      BY <2>0, <2>3
    <3>2. t[i] = s1[j] /\ s1[j] = IF j < k THEN s[j] ELSE s[j + 1]
      BY <1>3, <1>5, <2>0, <2>3, <3>1
    <3>3. CASE j < k
      <4>1. i < k + 1 /\ i \in 1 .. L + 2 /\ i # L + 2
        BY <1>6, <2>0, <3>3
      <4> QED BY <1>4, <2>3, <3>2, <3>3, <4>1
    <3>4. CASE ~(j < k)
      <4>1. ~(i < k + 1) /\ i + 1 \in 1 .. L + 2 /\ i + 1 # 1 /\ i + 1 # L + 2 /\ (i + 1) - 1 = i
        BY <1>6, <2>0, <2>3, <3>4
      <4>2. c[i + 1] = s[i]
        BY <1>4, <4>1
      <4> QED BY <3>1, <3>2, <3>4, <4>1, <4>2
    <3> QED BY <3>3, <3>4
  <2> QED BY <2>1, <2>2, <2>3
<1>8. Chained(t, m - 1, d \ {n}, qnext', qprev') /\ qnext' \in QLinks /\ qprev' \in QLinks
  <2>1. k + 1 \in 2 .. m - 1
    BY <1>6
  <2>2. ChainOut(t, c, m, k + 1)
    BY <1>7 DEF ChainOut
  <2>3. qnext' = NextOut(qnext, qprev, n) /\ qprev' = PrevOut(qnext, qprev, n)
    BY <1>10 DEF NextOut, PrevOut
  <2> QED BY <1>0, <1>2, <2>1, <2>2, <2>3, ChainRemove
<1>9. d \ {n} = ToSet(s1) \cup {QHead, QTail}
  BY <1>0, <1>1, QueueAssumption DEF d, s
<1> QED BY <1>0, <1>1, <1>6, <1>8, <1>9 DEF QueueInv, t, s1

\* Where a node of the queue, or a sentinel, is in the chain.
LEMMA PlaceFacts ==
  ASSUME QueueInv, NEW p \in AllNodes, p \in {QHead, QTail} \/ ~Outside(p)
  PROVE  /\ Len(inQueue) \in Nat
         /\ Place(p) \in 0 .. Len(inQueue) + 1 /\ Whole(inQueue)[Place(p) + 1] = p
         /\ p # QTail => Place(p) \in 0 .. Len(inQueue)
         /\ p # QHead => Place(p) \in 1 .. Len(inQueue) + 1
<1> DEFINE s == inQueue
           L == Len(inQueue)
           c == Whole(inQueue)
<1>0. s \in Seq(QueueNodes) /\ L \in Nat /\ DOMAIN s = 1 .. L
  BY DEF QueueInv
<1>1. \A i \in 1 .. L + 2 : c[i] = IF i = 1 THEN QHead ELSE IF i = L + 2 THEN QTail ELSE s[i - 1]
  BY <1>0, WholeFacts
<1>2. CASE p = QHead
  <2>1. Place(p) = 0
    BY <1>2 DEF Place
  <2>2. 0 + 1 \in 1 .. L + 2 /\ 0 + 1 = 1 /\ 0 \in 0 .. L + 1 /\ 0 \in 0 .. L
    BY <1>0
  <2> QED BY <1>0, <1>1, <1>2, <2>1, <2>2
<1>3. CASE p = QTail
  <2>1. Place(p) = L + 1
    BY <1>3, QueueAssumption DEF Place
  <2>2. (L + 1) + 1 = L + 2 /\ L + 2 \in 1 .. L + 2 /\ L + 2 # 1 /\ L + 1 \in 0 .. L + 1 /\ L + 1 \in 1 .. L + 1
    BY <1>0
  <2> QED BY <1>0, <1>1, <1>3, <2>1, <2>2
<1>4. CASE p # QHead /\ p # QTail
  <2>1. \E i \in DOMAIN s : s[i] = p
    BY <1>4 DEF Outside, ToSet
  <2>2. Place(p) = CHOOSE i \in DOMAIN s : s[i] = p
    BY <1>4 DEF Place
  <2>3. Place(p) \in DOMAIN s /\ s[Place(p)] = p
    BY <2>1, <2>2
  <2> DEFINE k == Place(p)
  <2>4. k \in 1 .. L /\ s[k] = p
    BY <1>0, <2>3
  <2> HIDE DEF k, L, s, c
  <2>5. k + 1 \in 1 .. L + 2 /\ k + 1 # 1 /\ k + 1 # L + 2 /\ (k + 1) - 1 = k
        /\ k \in 0 .. L + 1 /\ k \in 0 .. L /\ k \in 1 .. L + 1
    BY <1>0, <2>4
  <2>6. c[k + 1] = p
    BY <1>1, <2>4, <2>5
  <2> QED BY <1>0, <2>5, <2>6 DEF k, L, c
<1> QED BY <1>2, <1>3, <1>4

\* Neighbours in the chain.
LEMMA ChainLinks ==
  ASSUME QueueInv, NEW k \in 1 .. Len(inQueue) + 1
  PROVE  /\ Whole(inQueue)[k] \in AllNodes /\ Whole(inQueue)[k + 1] \in AllNodes
         /\ qnext[Whole(inQueue)[k]] = Whole(inQueue)[k + 1]
         /\ qprev[Whole(inQueue)[k + 1]] = Whole(inQueue)[k]
<1> DEFINE c == Whole(inQueue)
           m == Len(inQueue) + 2
           d == ToSet(inQueue) \cup {QHead, QTail}
<1>1. Chained(c, m, d, qnext, qprev)
  BY DEF QueueInv
<1>2. Len(inQueue) \in Nat
  BY DEF QueueInv
<1>3. k \in 1 .. m - 1 /\ k \in 1 .. m /\ k + 1 \in 1 .. m /\ k + 1 \in 2 .. m /\ (k + 1) - 1 = k
  BY <1>2
<1> HIDE DEF c, m, d
<1>4. c[k] \in AllNodes /\ c[k + 1] \in AllNodes /\ qnext[c[k]] = c[k + 1]
  BY <1>1, <1>3 DEF Chained
<1>5. qprev[c[k + 1]] = c[(k + 1) - 1]
  BY <1>1, <1>3 DEF Chained
<1> QED BY <1>3, <1>4, <1>5 DEF c

\* queue_insert links a node in behind a node.
LEMMA QueueInsertStep ==
  ASSUME QueueInv, NEW n \in QueueNodes, NEW p \in AllNodes, queue_insert(n, p)
  PROVE  QueueInv'
<1> DEFINE k == Place(p) + 1
           c == Whole(inQueue)
<1>0. inQueue \in Seq(QueueNodes) /\ Outside(n) /\ p # QTail
  BY DEF QueueInv, queue_insert
<1>1. k \in 1 .. Len(inQueue) + 1 /\ c[k] = p
  <2>1. Len(inQueue) \in Nat /\ Place(p) \in 0 .. Len(inQueue) /\ c[Place(p) + 1] = p
    BY <1>0, PlaceFacts DEF queue_insert
  <2> QED BY <2>1
<1>2. qnext[p] = c[k + 1]
  BY <1>1, ChainLinks
<1>3. qnext' = [qnext EXCEPT ![n] = c[k + 1], ![c[k]] = n] /\ qprev' = [qprev EXCEPT ![c[k + 1]] = n, ![n] = c[k]]
  BY <1>1, <1>2 DEF queue_insert, InsertBetween
<1>4. inQueue' = InsertAt(inQueue, k, n)
  BY DEF queue_insert
<1> HIDE DEF k
<1>5. inQueue' \in Seq(QueueNodes) /\ Inserted(inQueue', inQueue, k, n)
  BY <1>0, <1>1, <1>4, InsertAtFacts
<1> QED BY <1>0, <1>1, <1>3, <1>5, QueueInsertAt

\* queue_insert_prev links a node in front of a node.
LEMMA QueueInsertPrevStep ==
  ASSUME QueueInv, NEW n \in QueueNodes, NEW p \in AllNodes, queue_insert_prev(n, p)
  PROVE  QueueInv'
<1> DEFINE k == Place(p)
           c == Whole(inQueue)
<1>0. inQueue \in Seq(QueueNodes) /\ Outside(n) /\ p # QHead /\ qnext \in QLinks /\ qprev \in QLinks
  BY DEF QueueInv, queue_insert_prev
<1>1. k \in 1 .. Len(inQueue) + 1 /\ c[k + 1] = p
  BY <1>0, PlaceFacts DEF queue_insert_prev
<1>4. inQueue' = InsertAt(inQueue, k, n)
  BY DEF queue_insert_prev
<1> HIDE DEF k
<1>2. qprev[p] = c[k] /\ c[k] \in AllNodes /\ n \in AllNodes /\ n # p /\ n # c[k]
  <2>1. qprev[p] = c[k] /\ c[k] \in AllNodes
    BY <1>1, ChainLinks
  <2>2. n \in AllNodes /\ qprev[n] = NoQueueNode /\ qnext[n] = NoQueueNode
    <3>1. n \in AllNodes \ (ToSet(inQueue) \cup {QHead, QTail})
      BY <1>0, QueueAssumption DEF AllNodes, Outside
    <3> QED BY <3>1 DEF QueueInv, Chained
  <2>3. qnext[c[k]] = p
    BY <1>1, ChainLinks
  <2> QED BY <2>1, <2>2, <2>3, QueueAssumption
<1>3. qnext' = [qnext EXCEPT ![n] = c[k + 1], ![c[k]] = n] /\ qprev' = [qprev EXCEPT ![c[k + 1]] = n, ![n] = c[k]]
  <2> DEFINE a == c[k]
  <2>1. qprev' = [qprev EXCEPT ![n] = a, ![p] = n] /\ qnext' = [qnext EXCEPT ![a] = n, ![n] = p]
    BY <1>2 DEF queue_insert_prev
  <2>2. a \in AllNodes /\ n \in AllNodes /\ n # p /\ n # a
    BY <1>2
  <2> HIDE DEF a
  <2>3. qprev' = [qprev EXCEPT ![p] = n, ![n] = a] /\ qnext' = [qnext EXCEPT ![n] = p, ![a] = n]
    BY <1>0, <2>1, <2>2 DEF QLinks
  <2> QED BY <1>1, <2>3 DEF a
<1>5. inQueue' \in Seq(QueueNodes) /\ Inserted(inQueue', inQueue, k, n)
  BY <1>0, <1>1, <1>4, InsertAtFacts
<1> QED BY <1>0, <1>1, <1>3, <1>5, QueueInsertAt

\* queue_list_enque links a node in front of the tail.
LEMMA EnqueStep ==
  ASSUME QueueInv, NEW n \in QueueNodes, queue_list_enque(n)
  PROVE  QueueInv'
<1> DEFINE k == Len(inQueue) + 1
           c == Whole(inQueue)
<1>0. inQueue \in Seq(QueueNodes) /\ Outside(n) /\ k \in 1 .. Len(inQueue) + 1
  BY DEF QueueInv, queue_list_enque
<1>1. c[k + 1] = QTail
  <2>1. Place(QTail) = k
    BY QueueAssumption DEF Place
  <2>2. Whole(inQueue)[Place(QTail) + 1] = QTail
    BY PlaceFacts DEF AllNodes
  <2> QED BY <2>1, <2>2
<1> HIDE DEF k
<1>2. qprev[QTail] = c[k] /\ qnext[c[k]] = c[k + 1]
  BY <1>0, <1>1, ChainLinks
<1>3. qnext' = [qnext EXCEPT ![n] = c[k + 1], ![c[k]] = n] /\ qprev' = [qprev EXCEPT ![c[k + 1]] = n, ![n] = c[k]]
  BY <1>1, <1>2 DEF queue_list_enque, InsertBetween
<1>5. inQueue' \in Seq(QueueNodes) /\ Inserted(inQueue', inQueue, k, n)
  BY <1>0, AppendFacts DEF queue_list_enque, k
<1> QED BY <1>0, <1>3, <1>5, QueueInsertAt

\* Removal of a node the queue holds.
LEMMA QueueRemoveStep ==
  ASSUME QueueInv, NEW n \in QueueNodes, queue_remove(n)
  PROVE  QueueInv'
<1>1. inQueue \in Seq(QueueNodes)
  BY DEF QueueInv
<1>2. PICK k \in DOMAIN inQueue : inQueue[k] = n /\ inQueue' = RemoveAt(inQueue, k)
  BY DEF queue_remove
<1>3. k \in 1 .. Len(inQueue)
  BY <1>1
<1>4. inQueue' \in Seq(QueueNodes) /\ Removed(inQueue', inQueue, k)
  BY <1>1, <1>2, <1>3, RemoveAtFacts
<1>5. Unlink(n)
  BY DEF queue_remove
<1> QED BY <1>2, <1>3, <1>4, <1>5, QueueRemoveAt

\* queue_list_is_empty looks two nodes ahead of the head.
LEMMA EmptyFacts ==
  ASSUME QueueInv
  PROVE  /\ queue_list_is_empty <=> inQueue = <<>>
         /\ inQueue # <<>> => qnext[QHead] = inQueue[1]
<1> DEFINE L == Len(inQueue)
           c == Whole(inQueue)
<1>0. inQueue \in Seq(QueueNodes) /\ L \in Nat /\ (L = 0 <=> inQueue = <<>>)
  BY EmptySeq DEF QueueInv
<1>1. \A i \in 1 .. L + 2 : c[i] = IF i = 1 THEN QHead ELSE IF i = L + 2 THEN QTail ELSE inQueue[i - 1]
  BY <1>0, WholeFacts
<1>2. c[1] = QHead /\ c[2] = IF L = 0 THEN QTail ELSE inQueue[1]
  <2>1. 1 \in 1 .. L + 2 /\ 2 \in 1 .. L + 2 /\ (2 = L + 2 <=> L = 0) /\ 2 - 1 = 1
    BY <1>0
  <2> HIDE DEF c, L
  <2>2. c[1] = QHead
    BY <1>1, <2>1
  <2>3. c[2] = IF 2 = L + 2 THEN QTail ELSE inQueue[2 - 1]
    BY <1>1, <2>1
  <2> QED BY <2>1, <2>2, <2>3
<1>3. qnext[c[1]] = c[2]
  <2>1. 1 \in 1 .. Len(inQueue) + 1 /\ 1 + 1 = 2
    BY <1>0
  <2> QED BY <2>1, ChainLinks
<1>4. qnext[QTail] = NoQueueNode
  <2>1. c[L + 2] = QTail
    <3>1. L + 2 \in 1 .. L + 2 /\ L + 2 # 1
      BY <1>0
    <3> HIDE DEF c, L
    <3> QED BY <1>1, <3>1
  <2>2. qnext[c[L + 2]] = NoQueueNode
    BY DEF QueueInv, Chained
  <2> QED BY <2>1, <2>2
<1>5. L # 0 => qnext[c[2]] \in AllNodes
  <2>1. L # 0 => 2 \in 1 .. Len(inQueue) + 1
    BY <1>0
  <2>2. L # 0 => qnext[c[2]] = c[2 + 1] /\ c[2 + 1] \in AllNodes
    BY <2>1, ChainLinks
  <2> QED BY <2>2
<1> HIDE DEF c, L
<1> QED BY <1>0, <1>2, <1>3, <1>4, <1>5, QueueAssumption DEF queue_list_is_empty

\* queue_list_pop unlinks the first node.
LEMMA PopStep ==
  ASSUME QueueInv, queue_list_pop
  PROVE  QueueInv'
<1>1. inQueue # <<>> /\ Unlink(inQueue[1]) /\ inQueue' = Tail(inQueue)
  BY EmptyFacts DEF queue_list_pop
<1>2. inQueue \in Seq(QueueNodes)
  BY DEF QueueInv
<1>3. inQueue' \in Seq(QueueNodes) /\ Removed(inQueue', inQueue, 1) /\ Len(inQueue) \in Nat \ {0}
  BY <1>1, <1>2, TailFacts
<1>4. 1 \in 1 .. Len(inQueue)
  BY <1>3
<1> QED BY <1>1, <1>3, <1>4, QueueRemoveAt

\* The links of the queue as the properties state them.
LEMMA QueueInvAgrees ==
  ASSUME QueueInv
  PROVE  QueueAgrees
<1> DEFINE c == Whole(inQueue)
           m == Len(inQueue) + 2
           d == ToSet(inQueue) \cup {QHead, QTail}
<1>0. inQueue \in Seq(QueueNodes) /\ Len(inQueue) \in Nat /\ DOMAIN inQueue = 1 .. Len(inQueue)
  BY DEF QueueInv
<1>1. Chained(c, m, d, qnext, qprev)
  BY DEF QueueInv
<1>2. \A i \in 1 .. m : c[i] = IF i = 1 THEN QHead ELSE IF i = m THEN QTail ELSE inQueue[i - 1]
  BY <1>0, WholeFacts
<1>3. /\ 1 \in 1 .. m /\ m \in 1 .. m /\ m # 1 /\ m - 1 \in Nat /\ Len(c) = m
      /\ \A i \in 1 .. Len(inQueue) : i + 1 \in 2 .. m /\ i + 1 \in 1 .. m /\ i + 1 # 1 /\ i + 1 # m /\ (i + 1) - 1 = i
      /\ \A j \in 2 .. m : j \in 1 .. m /\ j # 1 /\ (j # m => j - 1 \in 1 .. Len(inQueue))
  <2>1. Len(c) = m
    BY <1>0, WholeFacts
  <2> HIDE DEF c
  <2> QED BY <1>0, <2>1
<1>4. d = ToSet(inQueue) \cup {QHead, QTail}
  OBVIOUS
<1>5. queue_list_is_empty = (inQueue = <<>>)
  <2>1. queue_list_is_empty <=> inQueue = <<>>
    BY EmptyFacts
  <2>2. queue_list_is_empty \in BOOLEAN
    BY Zenon DEF queue_list_is_empty
  <2> QED BY <2>1, <2>2
<1>6. \A i \in 1 .. Len(c) - 1 : qnext[c[i]] = c[i + 1] /\ qprev[c[i + 1]] = c[i]
  <2>1. Len(c) - 1 = Len(inQueue) + 1
    BY <1>0, <1>3
  <2> HIDE DEF c
  <2> QED BY <2>1, ChainLinks DEF c
<1>7. c = <<QHead>> \o inQueue \o <<QTail>>
  BY DEF Whole
<1> HIDE DEF c, m, d
<1>8. c[1] = QHead /\ c[m] = QTail
  BY <1>2, <1>3
<1>9. \A i \in 1 .. Len(inQueue) : c[i + 1] = inQueue[i]
  BY <1>2, <1>3
<1>10. \A n \in d : \E i \in 1 .. m : c[i] = n
  <2> SUFFICES ASSUME NEW n \in d PROVE \E i \in 1 .. m : c[i] = n
    OBVIOUS
  <2>1. CASE n = QHead \/ n = QTail
    BY <1>3, <1>8, <2>1
  <2>2. CASE n \in ToSet(inQueue)
    <3>1. PICK i \in 1 .. Len(inQueue) : inQueue[i] = n
      BY <1>0, <2>2 DEF ToSet
    <3> QED BY <1>3, <1>9, <3>1
  <2> QED BY <1>4, <2>1, <2>2
<1>11. QTail \in d /\ QHead \in AllNodes
  BY <1>4 DEF AllNodes
<1>12. queue_list_check
  <2> DEFINE from[n \in AllNodes] == IF qnext[n] = NoQueueNode THEN n = QTail
                                     ELSE qprev[qnext[n]] = n /\ from[qnext[n]]
  <2>1. from = CHOOSE f : CheckFrom(f, qnext, qprev)
    BY DEF CheckFrom
  <2>2. queue_list_check <=> qprev[QHead] = NoQueueNode /\ qnext[QTail] = NoQueueNode /\ from[QHead]
    BY Zenon DEF queue_list_check
  <2> HIDE DEF from
  <2>3. CheckFrom(from, qnext, qprev)
    BY <1>1, <1>8, <1>10, <1>11, <2>1, CheckWalk
  <2>4. from[c[1]]
    BY <1>1, <1>3, <1>8, <1>10, <1>11, <2>3, CheckWalk
  <2>5. qprev[c[1]] = NoQueueNode /\ qnext[c[m]] = NoQueueNode
    BY <1>1 DEF Chained
  <2> QED BY <1>8, <2>2, <2>4, <2>5
<1>13. ASSUME NEW q \in QueueNodes PROVE queue_list_find(q) = ~Outside(q)
  <2> DEFINE from[n \in AllNodes] ==
               n # QTail /\ (n = q \/ (qnext[n] # NoQueueNode /\ from[qnext[n]]))
  <2>1. from = CHOOSE f : FindFrom(f, q, qnext)
    BY DEF FindFrom
  <2>2. queue_list_find(q) = from[qnext[QHead]]
    BY Zenon DEF queue_list_find
  <2> HIDE DEF from
  <2>3. FindFrom(from, q, qnext)
    BY <1>1, <1>8, <1>10, <1>11, <2>1, FindWalk
  <2>4. from[c[2]] <=> \E j \in 2 .. m : c[j] = q
    BY <1>1, <1>8, <1>10, <1>11, <2>3, FindWalk
  <2>5. qnext[QHead] = c[2] /\ c[2] \in AllNodes
    <3>1. 1 \in 1 .. Len(inQueue) + 1 /\ 1 + 1 = 2
      BY <1>0
    <3> QED BY <1>8, <3>1, ChainLinks DEF c
  <2>6. (\E j \in 2 .. m : c[j] = q) <=> ~Outside(q)
    <3>1. ~Outside(q) <=> \E i \in 1 .. Len(inQueue) : inQueue[i] = q
      BY <1>0 DEF Outside, ToSet
    <3>2. ASSUME NEW i \in 1 .. Len(inQueue), inQueue[i] = q PROVE \E j \in 2 .. m : c[j] = q
      BY <1>3, <1>9, <3>2
    <3>3. ASSUME NEW j \in 2 .. m, c[j] = q PROVE \E i \in 1 .. Len(inQueue) : inQueue[i] = q
      <4>1. j # m
        BY <1>8, <3>3, QueueAssumption
      <4> QED BY <1>2, <1>3, <3>3, <4>1
    <3> QED BY <3>1, <3>2, <3>3
  <2>7. from[c[2]] \in BOOLEAN /\ Outside(q) \in BOOLEAN
    <3>1. from = [n \in AllNodes |-> n # QTail /\ (n = q \/ (qnext[n] # NoQueueNode /\ from[qnext[n]]))]
      BY <2>3 DEF FindFrom
    <3>2. from[c[2]] = (c[2] # QTail /\ (c[2] = q \/ (qnext[c[2]] # NoQueueNode /\ from[qnext[c[2]]])))
      BY <2>5, <3>1, Zenon
    <3> QED BY <3>2, Zenon DEF Outside
  <2>8. from[c[2]] <=> ~Outside(q)
    BY <2>4, <2>6
  <2>9. from[c[2]] = ~Outside(q)
    BY <2>7, <2>8
  <2> QED BY <2>2, <2>5, <2>9
<1> QED BY <1>5, <1>6, <1>7, <1>12, <1>13 DEF QueueAgrees

\* However the operations of lib/queue.c are called within their contract, its own
\* check accepts the queue, the search finds exactly what is in it, the links
\* follow the order and it says that it is empty only when it is.
THEOREM QueueAlwaysAgrees == QueueSpec => []QueueAgrees
<1>1. QueueInit => QueueInv
  <2> SUFFICES ASSUME QueueInit PROVE QueueInv
    OBVIOUS
  <2> DEFINE c == Whole(inQueue)
             d == {QHead, QTail}
  <2>1. inQueue = <<>> /\ ToSet(inQueue) = {} /\ DOMAIN inQueue = {} /\ Len(inQueue) = 0
        /\ inQueue \in Seq(QueueNodes)
    BY DEF QueueInit, ToSet
  <2>2. qnext \in QLinks /\ qprev \in QLinks
    BY DEF QueueInit, QLinks, AllNodes
  <2>3. c[1] = QHead /\ c[2] = QTail
    <3> DEFINE L == Len(inQueue)
    <3>1. \A i \in 1 .. L + 2 : c[i] = IF i = 1 THEN QHead ELSE IF i = L + 2 THEN QTail ELSE inQueue[i - 1]
      BY <2>1, WholeFacts
    <3>2. L = 0 /\ 1 \in 1 .. L + 2 /\ 2 \in 1 .. L + 2 /\ 2 = L + 2
      BY <2>1
    <3> HIDE DEF c, L
    <3> QED BY <3>1, <3>2
  <2>4. Chained(Whole(inQueue), Len(inQueue) + 2, ToSet(inQueue) \cup {QHead, QTail}, qnext, qprev)
    <3>1. ToSet(inQueue) \cup {QHead, QTail} = d /\ Len(inQueue) + 2 = 2
      BY <2>1
    <3>2. /\ qnext[QHead] = QTail /\ qprev[QTail] = QHead
          /\ qprev[QHead] = NoQueueNode /\ qnext[QTail] = NoQueueNode
          /\ \A n \in AllNodes \ d : qnext[n] = NoQueueNode /\ qprev[n] = NoQueueNode
          /\ QHead \in AllNodes /\ QTail \in AllNodes /\ QHead \in d /\ QTail \in d /\ QHead # QTail
      BY QueueAssumption DEF QueueInit, AllNodes
    <3>3. 1 .. 2 = {1, 2} /\ 2 .. 2 = {2} /\ 1 .. 2 - 1 = {1} /\ 1 + 1 = 2 /\ 2 - 1 = 1
      OBVIOUS
    <3> HIDE DEF c, d
    <3>4. Chained(c, 2, d, qnext, qprev)
      BY <2>3, <3>2, <3>3 DEF Chained
    <3> QED BY <2>1, <3>1, <3>4 DEF c
  <2> QED BY <2>1, <2>2, <2>4 DEF QueueInv, IsInjective
<1>2. QueueInv /\ [QueueNext]_queueVars => QueueInv'
  <2> SUFFICES ASSUME QueueInv, [QueueNext]_queueVars PROVE QueueInv'
    OBVIOUS
  <2>1. CASE QueueNext
    BY <2>1, QueueInsertStep, QueueInsertPrevStep, EnqueStep, QueueRemoveStep, PopStep DEF QueueNext
  <2>2. CASE UNCHANGED queueVars
    BY <2>2 DEF queueVars, QueueInv
  <2> QED BY <2>1, <2>2
<1>3. QueueInv => QueueAgrees
  BY QueueInvAgrees
<1> QED BY <1>1, <1>2, <1>3, PTL DEF QueueSpec

-----------------------------------------------------------------------------
(* The bitmap *)

\* The bytes hold the bits, and no bit beyond the size is ever set.
BitmapInv ==
  \/ size = 0
  \/ /\ size \in Sizes
     /\ bits \in [0 .. (size + 7) \div 8 - 1 -> SUBSET (0 .. 7)]
     /\ \A b \in 0 .. (size + 7) \div 8 - 1 : \A k \in bits[b] : 8 * b + k < size

\* The byte and the place in it of bit i, of s in all.
LEMMA BytePlace ==
  ASSUME NEW s \in Nat
  PROVE  /\ (s + 7) \div 8 \in Nat /\ s <= 8 * ((s + 7) \div 8)
         /\ \A i \in 0 .. 8 * ((s + 7) \div 8) - 1 :
              i \div 8 \in 0 .. (s + 7) \div 8 - 1 /\ i % 8 \in 0 .. 7 /\ i = 8 * (i \div 8) + (i % 8)
         /\ \A i \in 0 .. s - 1 : i \in 0 .. 8 * ((s + 7) \div 8) - 1
<1> DEFINE D == (s + 7) \div 8
<1>1. D \in Nat /\ s <= 8 * D
  OBVIOUS
<1> HIDE DEF D
<1>2. ASSUME NEW i \in 0 .. 8 * D - 1
      PROVE  i \div 8 \in 0 .. D - 1 /\ i % 8 \in 0 .. 7 /\ i = 8 * (i \div 8) + (i % 8)
  <2> DEFINE q == i \div 8
             r == i % 8
  <2>1. i \in Nat /\ i < 8 * D
    BY <1>1
  <2>2. q \in Nat /\ r \in 0 .. 7 /\ i = 8 * q + r
    BY <2>1
  <2> HIDE DEF q, r
  <2>3. q \in 0 .. D - 1
    BY <1>1, <2>1, <2>2
  <2> QED BY <2>2, <2>3 DEF q, r
<1>3. \A i \in 0 .. s - 1 : i \in 0 .. 8 * D - 1
  BY <1>1
<1> QED BY <1>1, <1>2, <1>3 DEF D

\* The first of a set of numbers, when there is one, is its least element.
LEMMA FirstFacts ==
  ASSUME NEW T \in SUBSET Nat, T # {}
  PROVE  First(T) \in T /\ \A j \in T : First(T) <= j
<1>1. \E i \in T : \A j \in T : i <= j
  BY LeastElement
<1> QED BY <1>1, Zenon DEF First

\* Nothing that is computed from the size wraps around.
LEMMA SizeFacts ==
  ASSUME BitmapInv, size # 0
  PROVE  size \in Nat \ {0} /\ WordSize \in Nat /\ 2 * size + 2 < WordSize /\ size + 3 < WordSize + 1
<1>1. size \in Nat \ {0} /\ WordSize \in Nat /\ 2 * size + 2 < WordSize
  BY BitmapAssumption DEF BitmapInv
<1> QED BY <1>1

\* Setting or clearing a bit below the size touches its byte alone.
LEMMA BitSetStep ==
  ASSUME BitmapInv, NEW i \in 0 .. size + 1, bitmap_set(i) \/ bitmap_clear(i)
  PROVE  BitmapInv'
<1> DEFINE D == (size + 7) \div 8
           e == i \div 8
<1>1. size # 0 /\ i < size /\ size' = size
  BY DEF bitmap_set, bitmap_clear
<1>2. size \in Sizes /\ size \in Nat \ {0} /\ bits \in [0 .. D - 1 -> SUBSET (0 .. 7)]
      /\ \A b \in 0 .. D - 1 : \A k \in bits[b] : 8 * b + k < size
  BY <1>1, SizeFacts DEF BitmapInv
<1>3. i \in 0 .. size - 1
  BY <1>1, <1>2
<1>4. e \in 0 .. D - 1 /\ i % 8 \in 0 .. 7 /\ i = 8 * e + (i % 8)
  BY <1>2, <1>3, BytePlace
<1>5. PICK w \in SUBSET (0 .. 7) : bits' = [bits EXCEPT ![e] = w] /\ \A k \in w : k \in bits[e] \/ k = i % 8
  <2>1. bits[e] \in SUBSET (0 .. 7)
    BY <1>2, <1>4
  <2> HIDE DEF e
  <2> QED BY <1>4, <2>1 DEF bitmap_set, bitmap_clear, e
<1> HIDE DEF D, e
<1>6. bits' \in [0 .. D - 1 -> SUBSET (0 .. 7)]
  BY <1>2, <1>5
<1>7. ASSUME NEW b \in 0 .. D - 1, NEW k \in bits'[b] PROVE 8 * b + k < size
  <2>1. CASE b = e
    <3>1. k \in w
      BY <1>2, <1>5, <1>7, <2>1
    <3>2. CASE k \in bits[e]
      BY <1>2, <1>4, <2>1, <3>2
    <3>3. CASE k = i % 8
      <4>1. 8 * b + k = i
        BY <1>4, <2>1, <3>3
      <4> QED BY <1>1, <4>1
    <3> QED BY <1>5, <3>1, <3>2, <3>3
  <2>2. CASE b # e
    <3>1. bits'[b] = bits[b]
      BY <1>2, <1>5, <2>2
    <3> QED BY <1>2, <1>7, <3>1
  <2> QED BY <2>1, <2>2
<1>8. size' \in Sizes /\ (size' + 7) \div 8 = D
  BY <1>1, <1>2 DEF D
<1> QED BY <1>1, <1>6, <1>7, <1>8 DEF BitmapInv

\* The bits that are set, over all the bytes, against bitmap_test.
LEMMA UsedFacts ==
  ASSUME BitmapInv, size # 0
  PROVE  LET used == {i \in 0 .. 8 * Cardinality(DOMAIN bits) - 1 : i % 8 \in bits[i \div 8]} IN
         /\ used \subseteq 0 .. size - 1
         /\ \A i \in 0 .. size - 1 : bitmap_test(i) <=> i \in used
<1> DEFINE D == (size + 7) \div 8
           used == {i \in 0 .. 8 * Cardinality(DOMAIN bits) - 1 : i % 8 \in bits[i \div 8]}
<1>1. size \in Nat \ {0} /\ bits \in [0 .. D - 1 -> SUBSET (0 .. 7)]
      /\ \A b \in 0 .. D - 1 : \A k \in bits[b] : 8 * b + k < size
  BY SizeFacts DEF BitmapInv
<1>2. /\ D \in Nat /\ size <= 8 * D
      /\ \A i \in 0 .. 8 * D - 1 : i \div 8 \in 0 .. D - 1 /\ i % 8 \in 0 .. 7 /\ i = 8 * (i \div 8) + (i % 8)
      /\ \A i \in 0 .. size - 1 : i \in 0 .. 8 * D - 1
  BY <1>1, BytePlace
<1> HIDE DEF D
<1>3. Cardinality(DOMAIN bits) = D
  <2>1. DOMAIN bits = 0 .. D - 1
    BY <1>1
  <2>2. Cardinality(0 .. D - 1) = IF 0 > D - 1 THEN 0 ELSE D - 1 - 0 + 1
    <3>1. 0 \in Int /\ D - 1 \in Int
      BY <1>2
    <3> QED BY <3>1, FS_Interval
  <2> QED BY <1>2, <2>1, <2>2
<1>4. used = {i \in 0 .. 8 * D - 1 : i % 8 \in bits[i \div 8]}
  BY <1>3
<1>5. ASSUME NEW i \in used PROVE i \in 0 .. size - 1
  <2>1. i \in 0 .. 8 * D - 1 /\ i % 8 \in bits[i \div 8]
    BY <1>4
  <2>2. 8 * (i \div 8) + (i % 8) < size
    BY <1>1, <1>2, <2>1
  <2>3. i < size
    BY <1>2, <2>1, <2>2
  <2> QED BY <1>1, <1>2, <2>1, <2>3
<1>6. ASSUME NEW i \in 0 .. size - 1 PROVE bitmap_test(i) <=> i \in used
  <2>1. i \in 0 .. 8 * D - 1 /\ i < size
    BY <1>1, <1>2
  <2> QED BY <1>4, <2>1 DEF bitmap_test
<1> QED BY <1>5, <1>6

\* A request that fits ends below the size: the subtraction of the code is exact,
\* and both searches run over the same places.
LEMMA SearchFits ==
  ASSUME BitmapInv, size # 0, NEW used,
         \A i \in 0 .. size - 1 : bitmap_test(i) <=> i \in used,
         NEW n \in 0 .. size
  PROVE  bitmap_find_contiguous_free(n)
           = First({i \in 0 .. size - n : i .. i + n - 1 \subseteq (0 .. size - 1) \ used})
<1> DEFINE A == {i \in 0 .. size : Fits(n, i)}
           B == {i \in 0 .. size - n : i .. i + n - 1 \subseteq (0 .. size - 1) \ used}
<1>1. size \in Nat \ {0} /\ WordSize \in Nat /\ size < WordSize /\ n \in Nat /\ n <= size
  BY SizeFacts
<1>2. (size - n) % WordSize = size - n /\ size - n \in 0 .. size
  BY <1>1
<1>3. ASSUME NEW i \in 0 .. size PROVE i \in A <=> i \in B
  <2>1. i \in A <=> (i <= size - n /\ \A j \in 0 .. n - 1 : ~bitmap_test(i + j))
    BY <1>2 DEF Fits
  <2>2. i \in B <=> (i <= size - n /\ i .. i + n - 1 \subseteq (0 .. size - 1) \ used)
    BY <1>1, <1>2
  <2>3. ASSUME i <= size - n
        PROVE  (\A j \in 0 .. n - 1 : ~bitmap_test(i + j)) <=> i .. i + n - 1 \subseteq (0 .. size - 1) \ used
    <3>1. ASSUME NEW j \in 0 .. n - 1 PROVE i + j \in 0 .. size - 1 /\ i + j \in i .. i + n - 1
      BY <1>1, <2>3
    <3>2. ASSUME NEW k \in i .. i + n - 1 PROVE k - i \in 0 .. n - 1 /\ i + (k - i) = k /\ k \in 0 .. size - 1
      BY <1>1, <2>3
    <3>3. ASSUME \A j \in 0 .. n - 1 : ~bitmap_test(i + j), NEW k \in i .. i + n - 1
          PROVE  k \in (0 .. size - 1) \ used
      <4>1. ~bitmap_test(i + (k - i))
        BY <3>2, <3>3, Zenon
      <4>2. ~bitmap_test(k)
        BY <3>2, <4>1
      <4> QED BY <3>2, <4>2
    <3>4. ASSUME i .. i + n - 1 \subseteq (0 .. size - 1) \ used, NEW j \in 0 .. n - 1
          PROVE  ~bitmap_test(i + j)
      BY <3>1, <3>4
    <3> QED BY <3>3, <3>4
  <2> HIDE DEF A, B
  <2> QED BY <2>1, <2>2, <2>3
<1>4. A = B
  <2>1. A \subseteq 0 .. size /\ B \subseteq 0 .. size
    BY <1>1
  <2> HIDE DEF A, B
  <2> QED BY <1>3, <2>1
<1> HIDE DEF B
<1> QED BY <1>4 DEF bitmap_find_contiguous_free, B

\* A larger request: the subtraction wraps, every place is tried, and the bits
\* beyond the end count as free.
LEMMA SearchWraps ==
  ASSUME BitmapInv, size # 0, NEW used,
         \A i \in 0 .. size - 1 : bitmap_test(i) <=> i \in used,
         NEW n \in size + 1 .. size + 2
  PROVE  LET i == bitmap_find_contiguous_free(n)
         IN i .. size - 1 \subseteq (0 .. size - 1) \ used /\ (i = 0 \/ i - 1 \in used)
<1> DEFINE A == {i \in 0 .. size : Fits(n, i)}
           f == First(A)
           Clear(i) == \A j \in 0 .. n - 1 : ~bitmap_test(i + j)
<1>1. /\ size \in Nat \ {0} /\ WordSize \in Nat /\ 2 * size + 2 < WordSize
      /\ n \in Nat /\ size < n /\ n <= size + 2
  BY SizeFacts
<1>2. (size - n) % WordSize \in Nat /\ size <= (size - n) % WordSize
  <2>1. CASE n = size + 1
    <3>1. size - n = -1 /\ (-1) % WordSize = WordSize - 1
      BY <1>1, <2>1
    <3> QED BY <1>1, <3>1
  <2>2. CASE n = size + 2
    <3>1. size - n = -2 /\ (-2) % WordSize = WordSize - 2
      BY <1>1, <2>2
    <3> QED BY <1>1, <3>1
  <2>3. n = size + 1 \/ n = size + 2
    BY <1>1
  <2> QED BY <2>1, <2>2, <2>3
<1>3. ASSUME NEW i \in 0 .. size PROVE i \in A <=> Clear(i)
  <2>1. i <= (size - n) % WordSize
    BY <1>1, <1>2
  <2> QED BY <2>1 DEF Fits
<1>4. \A i \in Nat : i >= size => ~bitmap_test(i)
  BY <1>1 DEF bitmap_test
<1>5. size \in A
  <2>1. size \in 0 .. size /\ \A j \in 0 .. n - 1 : size + j \in Nat /\ size + j >= size
    BY <1>1
  <2> HIDE DEF A
  <2> QED BY <1>3, <1>4, <2>1
<1>6. f \in A /\ (\A j \in A : f <= j) /\ f \in 0 .. size
  <2>1. A \in SUBSET Nat /\ A # {} /\ A \subseteq 0 .. size
    BY <1>1, <1>5
  <2> HIDE DEF A
  <2> QED BY <2>1, FirstFacts
<1>7. bitmap_find_contiguous_free(n) = f
  BY DEF bitmap_find_contiguous_free
<1> HIDE DEF A, f
<1>8. Clear(f)
  BY <1>3, <1>6
<1>9. ASSUME NEW k \in f .. size - 1 PROVE k \in (0 .. size - 1) \ used
  <2>1. k - f \in 0 .. n - 1 /\ f + (k - f) = k /\ k \in 0 .. size - 1
    BY <1>1, <1>6
  <2>2. ~bitmap_test(f + (k - f))
    BY <1>8, <2>1, Zenon
  <2>3. ~bitmap_test(k)
    BY <2>1, <2>2
  <2> QED BY <2>1, <2>3
<1>10. ASSUME f # 0 PROVE f - 1 \in used
  <2>1. f - 1 \in 0 .. size /\ f - 1 \in 0 .. size - 1 /\ ~(f <= f - 1)
    BY <1>1, <1>6, <1>10
  <2>2. ~Clear(f - 1)
    <3> HIDE DEF Clear
    <3> QED BY <1>3, <1>6, <2>1
  <2>3. PICK j \in 0 .. n - 1 : bitmap_test((f - 1) + j)
    BY <2>2
  <2>4. j = 0
    <3>1. CASE j # 0
      <4>1. j - 1 \in 0 .. n - 1 /\ f + (j - 1) = (f - 1) + j
        BY <1>1, <1>6, <3>1
      <4>2. ~bitmap_test(f + (j - 1))
        BY <1>8, <4>1, Zenon
      <4> QED BY <2>3, <4>1, <4>2
    <3> QED BY <3>1
  <2>5. (f - 1) + j = f - 1
    BY <1>6, <2>4
  <2> QED BY <2>1, <2>3, <2>5
<1> QED BY <1>7, <1>9, <1>10

\* Whatever was set and cleared before: no bit beyond the size is set, a search
\* returns the first place where the pages are free, and a request larger than the
\* bitmap is given its free end.
THEOREM BitmapAlwaysSearches == BitmapSpec => []BitmapSearches
<1>1. BitmapStart => BitmapInv
  BY DEF BitmapStart, BitmapInv
<1>2. BitmapInv /\ [BitmapNext]_bitmapVars => BitmapInv'
  <2> SUFFICES ASSUME BitmapInv, [BitmapNext]_bitmapVars PROVE BitmapInv'
    OBVIOUS
  <2>1. ASSUME NEW s \in Sizes, BitmapCreate(s) PROVE BitmapInv'
    <3>1. size' = s /\ bits' = [b \in 0 .. (s + 7) \div 8 - 1 |-> {}]
      BY <2>1 DEF BitmapCreate, BitmapBytes
    <3> DEFINE D == (s + 7) \div 8 - 1
    <3>2. bits' = [b \in 0 .. D |-> {}]
      BY <3>1
    <3> HIDE DEF D
    <3>3. bits' \in [0 .. D -> SUBSET (0 .. 7)] /\ \A b \in 0 .. D : bits'[b] = {}
      BY <3>2
    <3> QED BY <3>1, <3>3 DEF BitmapInv, D
  <2>2. CASE UNCHANGED bitmapVars
    BY <2>2 DEF bitmapVars, BitmapInv
  <2> QED BY <2>1, <2>2, BitSetStep DEF BitmapNext
<1>3. BitmapInv => BitmapSearches
  <2> SUFFICES ASSUME BitmapInv, size # 0 PROVE BitmapSearches
    BY DEF BitmapSearches
  <2> DEFINE used == {i \in 0 .. 8 * Cardinality(DOMAIN bits) - 1 : i % 8 \in bits[i \div 8]}
             free == (0 .. size - 1) \ used
  <2>1. used \subseteq 0 .. size - 1 /\ \A i \in 0 .. size - 1 : bitmap_test(i) <=> i \in used
    BY UsedFacts
  <2>2. BitmapSearches <=>
          /\ used \subseteq 0 .. size - 1
          /\ bitmap_find_first_free = First(free)
          /\ \A n \in 0 .. size :
               bitmap_find_contiguous_free(n) = First({i \in 0 .. size - n : i .. i + n - 1 \subseteq free})
          /\ \A n \in size + 1 .. size + 2 :
               LET i == bitmap_find_contiguous_free(n)
               IN i .. size - 1 \subseteq free /\ (i = 0 \/ i - 1 \in used)
    BY Zenon DEF BitmapSearches
  <2> HIDE DEF used
  <2>3. bitmap_find_first_free = First(free)
    <3>1. {i \in 0 .. size - 1 : ~bitmap_test(i)} = free
      BY <2>1
    <3> QED BY <3>1 DEF bitmap_find_first_free
  <2>4. \A n \in 0 .. size :
          bitmap_find_contiguous_free(n) = First({i \in 0 .. size - n : i .. i + n - 1 \subseteq free})
    BY <2>1, SearchFits
  <2>5. \A n \in size + 1 .. size + 2 :
          LET i == bitmap_find_contiguous_free(n)
          IN i .. size - 1 \subseteq free /\ (i = 0 \/ i - 1 \in used)
    BY <2>1, SearchWraps
  <2> QED BY <2>1, <2>2, <2>3, <2>4, <2>5
<1> QED BY <1>1, <1>2, <1>3, PTL DEF BitmapSpec

-----------------------------------------------------------------------------
(* Least addresses *)

\* The least address of a set of addresses.
LEMMA LeastFacts ==
  ASSUME NEW T \in SUBSET Nat
  PROVE  /\ T = {} => Least(T) = NullPtr
         /\ \A i \in T : (\A j \in T : i <= j) => Least(T) = i
<1>1. ASSUME NEW i \in T, \A j \in T : i <= j PROVE Least(T) = i
  <2>1. T # {} /\ Least(T) = CHOOSE k \in T : \A j \in T : k <= j
    BY DEF Least
  <2>2. \A k \in T : (\A j \in T : k <= j) => k = i
    BY <1>1
  <2> QED BY <1>1, <2>1, <2>2
<1> QED BY <1>1 DEF Least

-----------------------------------------------------------------------------
(* The walk *)

\* A loop from lo that ends at hi or at the first place in T, with its result in r.
Walked(f, lo, hi, T, r) ==
  f = [i \in lo .. hi |-> IF i = hi \/ i \in T THEN r[i] ELSE f[i + 1]]

\* j is where such a loop ends that starts at i.
EndsAt(j, i, hi, T) ==
  /\ j \in i .. hi
  /\ j = hi \/ j \in T
  /\ \A k \in i .. j - 1 : k \notin T

\* Such a loop ends.
LEMMA EndExists ==
  ASSUME NEW i \in Int, NEW hi \in Int, i <= hi, NEW T
  PROVE  \E j \in i .. hi : EndsAt(j, i, hi, T)
<1> DEFINE U == {k \in 0 .. hi - i : i + k = hi \/ i + k \in T}
<1>1. U \in SUBSET Nat /\ U # {}
  <2>1. hi - i \in 0 .. hi - i /\ i + (hi - i) = hi
    OBVIOUS
  <2>2. hi - i \in U
    BY <2>1
  <2>3. U \subseteq Nat
    OBVIOUS
  <2> QED BY <2>2, <2>3
<1>2. PICK k \in U : \A l \in U : k <= l
  <2> HIDE DEF U
  <2> QED BY <1>1, LeastElement
<1>3. k \in 0 .. hi - i /\ (i + k = hi \/ i + k \in T) /\ i + k \in i .. hi
  BY <1>2
<1>4. ASSUME NEW x \in i .. i + k - 1 PROVE x \notin T
  <2>1. x - i \in 0 .. hi - i /\ i + (x - i) = x /\ ~(k <= x - i)
    BY <1>3
  <2>2. x - i \notin U
    <3> HIDE DEF U
    <3> QED BY <1>2, <2>1
  <2> QED BY <2>1, <2>2
<1> HIDE DEF U
<1> QED BY <1>3, <1>4 DEF EndsAt

\* It ends at one place.
LEMMA EndUnique ==
  ASSUME NEW i \in Int, NEW hi \in Int, NEW T,
         NEW j \in Int, NEW k \in Int, EndsAt(j, i, hi, T), EndsAt(k, i, hi, T)
  PROVE  j = k
<1>1. ~(j < k)
  <2>1. j < k => j \in i .. k - 1 /\ j # hi
    BY DEF EndsAt
  <2> QED BY <2>1 DEF EndsAt
<1>2. ~(k < j)
  <2>1. k < j => k \in i .. j - 1 /\ k # hi
    BY DEF EndsAt
  <2> QED BY <2>1 DEF EndsAt
<1> QED BY <1>1, <1>2

\* One pass further a loop that does not end here ends where it did.
LEMMA EndNext ==
  ASSUME NEW i \in Int, NEW hi \in Int, i < hi, NEW T, i \notin T, NEW j \in Int
  PROVE  EndsAt(j, i, hi, T) <=> EndsAt(j, i + 1, hi, T)
<1>1. ASSUME EndsAt(j, i, hi, T) PROVE EndsAt(j, i + 1, hi, T)
  <2>1. j # i
    BY <1>1 DEF EndsAt
  <2> QED BY <1>1, <2>1 DEF EndsAt
<1>2. ASSUME EndsAt(j, i + 1, hi, T) PROVE EndsAt(j, i, hi, T)
  <2>1. \A k \in i .. j - 1 : k = i \/ k \in i + 1 .. j - 1
    OBVIOUS
  <2>2. j \in i .. hi
    BY <1>2 DEF EndsAt
  <2> QED BY <1>2, <2>1, <2>2 DEF EndsAt
<1> QED BY <1>1, <1>2

\* The walk is defined, and what it returns is the result where it ends.
LEMMA WalkFacts ==
  ASSUME NEW lo \in Int, NEW hi \in Int, NEW T, NEW r
  PROVE  /\ \E f : Walked(f, lo, hi, T, r)
         /\ \A f : Walked(f, lo, hi, T, r) =>
              \A i \in lo .. hi, j \in lo .. hi : EndsAt(j, i, hi, T) => f[i] = r[j]
<1>1. \E f : Walked(f, lo, hi, T, r)
  <2> DEFINE E(i) == CHOOSE j \in Int : EndsAt(j, i, hi, T)
             g == [i \in lo .. hi |-> r[E(i)]]
  <2>1. ASSUME NEW i \in lo .. hi, NEW j \in Int, EndsAt(j, i, hi, T) PROVE E(i) = j
    <3>1. E(i) \in Int /\ EndsAt(E(i), i, hi, T)
      BY <2>1, Zenon
    <3>2. i \in Int
      OBVIOUS
    <3> HIDE DEF E
    <3> QED BY <2>1, <3>1, <3>2, EndUnique
  <2>2. ASSUME NEW i \in lo .. hi
        PROVE  r[E(i)] = IF i = hi \/ i \in T THEN r[i] ELSE g[i + 1]
    <3> HIDE DEF E
    <3>1. CASE i = hi \/ i \in T
      <4>1. EndsAt(i, i, hi, T) /\ i \in Int
        BY <3>1 DEF EndsAt
      <4> QED BY <2>1, <3>1, <4>1
    <3>2. CASE ~(i = hi \/ i \in T)
      <4>1. i + 1 \in lo .. hi /\ i \in Int /\ i + 1 \in Int /\ i < hi /\ i + 1 <= hi /\ i \notin T
        BY <3>2
      <4>2. PICK j \in i + 1 .. hi : EndsAt(j, i + 1, hi, T)
        BY <4>1, EndExists
      <4>3. j \in Int
        BY <4>1, <4>2
      <4>4. EndsAt(j, i, hi, T)
        BY <4>1, <4>2, <4>3, EndNext
      <4>5. E(i) = j /\ E(i + 1) = j
        BY <2>1, <4>1, <4>2, <4>3, <4>4
      <4> QED BY <3>2, <4>1, <4>5
    <3> QED BY <3>1, <3>2
  <2>3. g = [i \in lo .. hi |-> IF i = hi \/ i \in T THEN r[i] ELSE g[i + 1]]
    <3> DEFINE B(i) == IF i = hi \/ i \in T THEN r[i] ELSE g[i + 1]
    <3>1. \A i \in lo .. hi : r[E(i)] = B(i)
      BY <2>2
    <3> HIDE DEF B, E
    <3>2. g = [i \in lo .. hi |-> B(i)]
      BY <3>1
    <3> HIDE DEF g
    <3> QED BY <3>2 DEF B
  <2> HIDE DEF g
  <2> QED BY <2>3 DEF Walked
<1>2. ASSUME NEW f, Walked(f, lo, hi, T, r)
      PROVE  \A i \in lo .. hi, j \in lo .. hi : EndsAt(j, i, hi, T) => f[i] = r[j]
  <2> DEFINE Right(i) == \A j \in lo .. hi : EndsAt(j, i, hi, T) => f[i] = r[j]
             bad == {k \in 0 .. hi - lo : ~Right(hi - k)}
  <2>1. \A i \in lo .. hi : f[i] = IF i = hi \/ i \in T THEN r[i] ELSE f[i + 1]
    BY <1>2 DEF Walked
  <2>2. ASSUME NEW i \in lo .. hi, i = hi \/ i \in T PROVE Right(i)
    <3>1. EndsAt(i, i, hi, T) /\ i \in Int
      BY <2>2 DEF EndsAt
    <3>2. \A j \in lo .. hi : EndsAt(j, i, hi, T) => j = i
      BY <3>1, EndUnique
    <3> QED BY <2>1, <2>2, <3>2
  <2>3. ASSUME NEW i \in lo .. hi, i # hi, i \notin T, Right(i + 1) PROVE Right(i)
    <3>1. i \in Int /\ i < hi
      BY <2>3
    <3>2. f[i] = f[i + 1]
      BY <2>1, <2>3
    <3>3. \A j \in lo .. hi : EndsAt(j, i, hi, T) => EndsAt(j, i + 1, hi, T)
      BY <2>3, <3>1, EndNext
    <3> QED BY <2>3, <3>2, <3>3
  <2> HIDE DEF Right
  <2>4. ASSUME NEW k \in bad PROVE \E l \in bad : ~(k <= l)
    <3>1. k \in 0 .. hi - lo /\ ~Right(hi - k) /\ hi - k \in lo .. hi
      OBVIOUS
    <3>2. hi - k # hi /\ hi - k \notin T /\ ~Right((hi - k) + 1)
      <4> HIDE DEF bad
      <4> QED BY <2>2, <2>3, <3>1
    <3>3. k - 1 \in 0 .. hi - lo /\ (hi - k) + 1 = hi - (k - 1) /\ ~(k <= k - 1)
      BY <3>1, <3>2
    <3>4. ~Right(hi - (k - 1))
      BY <3>2, <3>3
    <3>5. k - 1 \in bad
      BY <3>3, <3>4
    <3> HIDE DEF bad
    <3> QED BY <3>3, <3>5
  <2>5. bad \in SUBSET Nat
    OBVIOUS
  <2>6. bad = {}
    <3> HIDE DEF bad
    <3> QED BY <2>4, <2>5, LeastElement
  <2>7. ASSUME NEW i \in lo .. hi PROVE Right(i)
    <3>1. hi - i \in 0 .. hi - lo /\ hi - (hi - i) = i
      OBVIOUS
    <3>2. Right(hi - (hi - i))
      BY <2>6, <3>1
    <3> QED BY <3>1, <3>2
  <2> QED BY <2>7 DEF Right
<1> QED BY <1>1, <1>2

-----------------------------------------------------------------------------
(* Strings *)

\* The string at a ends at e.
IsEnd(m, a, e) == e \in a .. MemSize - 1 /\ m[e] = 0 /\ \A k \in a .. e - 1 : m[k] # 0

\* The loop to the terminator finds the first one.
LEMMA StrEndFacts ==
  ASSUME NEW m, NEW a \in Addrs, \E b \in a .. MemSize - 1 : m[b] = 0
  PROVE  IsEnd(m, a, StrEnd(m, a))
<1> DEFINE from[b \in a .. MemSize] ==
             IF b = MemSize THEN PastEnd ELSE IF m[b] = 0 THEN b ELSE from[b + 1]
           T == {b \in a .. MemSize - 1 : m[b] = 0}
           r == [b \in a .. MemSize |-> IF b = MemSize THEN PastEnd ELSE b]
<1>0. a \in Int /\ MemSize \in Int /\ a <= MemSize /\ a \in a .. MemSize
  BY CStringAssumption DEF Addrs
<1>1. StrEnd(m, a) = from[a]
  BY DEF StrEnd
<1>2. ASSUME NEW f
      PROVE  Walked(f, a, MemSize, T, r) <=>
               f = [b \in a .. MemSize |-> IF b = MemSize THEN PastEnd ELSE IF m[b] = 0 THEN b ELSE f[b + 1]]
  <2>1. ASSUME NEW b \in a .. MemSize
        PROVE  (IF b = MemSize \/ b \in T THEN r[b] ELSE f[b + 1])
                 = (IF b = MemSize THEN PastEnd ELSE IF m[b] = 0 THEN b ELSE f[b + 1])
    <3>1. b # MemSize => b \in a .. MemSize - 1
      BY <1>0
    <3> QED BY <3>1
  <2> HIDE DEF T, r
  <2>2. [b \in a .. MemSize |-> IF b = MemSize \/ b \in T THEN r[b] ELSE f[b + 1]]
          = [b \in a .. MemSize |-> IF b = MemSize THEN PastEnd ELSE IF m[b] = 0 THEN b ELSE f[b + 1]]
    BY <2>1
  <2> QED BY <2>2, Zenon DEF Walked
<1>3. Walked(from, a, MemSize, T, r)
  <2>1. from = CHOOSE f : f = [b \in a .. MemSize |-> IF b = MemSize THEN PastEnd ELSE IF m[b] = 0 THEN b ELSE f[b + 1]]
    OBVIOUS
  <2> HIDE DEF from, T, r
  <2>2. \E f : Walked(f, a, MemSize, T, r)
    BY <1>0, WalkFacts
  <2> QED BY <1>2, <2>1, <2>2, Zenon
<1>4. PICK j \in a .. MemSize : EndsAt(j, a, MemSize, T)
  BY <1>0, EndExists
<1>5. from[a] = r[j]
  <2> HIDE DEF from, T, r
  <2> QED BY <1>0, <1>3, <1>4, WalkFacts
<1>6. j # MemSize
  <2>1. PICK b \in T : TRUE
    OBVIOUS
  <2>2. b \in a .. MemSize - 1
    OBVIOUS
  <2> HIDE DEF T
  <2> QED BY <1>4, <2>2 DEF EndsAt
<1>7. j \in T /\ r[j] = j
  BY <1>4, <1>6 DEF EndsAt
<1>8. ASSUME NEW k \in a .. j - 1 PROVE m[k] # 0
  <2>1. k \notin T
    BY <1>4 DEF EndsAt
  <2>2. k \in a .. MemSize - 1
    BY <1>0, <1>4
  <2> QED BY <2>1, <2>2
<1> QED BY <1>1, <1>5, <1>7, <1>8 DEF IsEnd

\* The string as a sequence.
LEMMA StrFacts ==
  ASSUME NEW m \in [Addrs -> Bytes], NEW a \in Addrs, NEW e, IsEnd(m, a, e)
  PROVE  /\ e - a \in 0 .. MemSize /\ Str(m, a) \in Seq(Bytes) /\ Len(Str(m, a)) = e - a
         /\ \A i \in 1 .. e - a : Str(m, a)[i] = m[a + i - 1]
<1> DEFINE P(l) == m[a + l] = 0 /\ \A k \in 0 .. l - 1 : m[a + k] # 0
           l0 == CHOOSE l \in 0 .. MemSize : P(l)
<1>0. a \in Nat /\ MemSize \in Nat /\ a < MemSize /\ e \in a .. MemSize - 1
  BY CStringAssumption DEF Addrs, IsEnd
<1>1. e - a \in 0 .. MemSize /\ a + (e - a) = e /\ e \in Nat
  BY <1>0
<1>2. P(e - a)
  <2>1. \A k \in 0 .. (e - a) - 1 : a + k \in a .. e - 1
    BY <1>0
  <2> QED BY <1>1, <2>1 DEF IsEnd
<1>3. ASSUME NEW l \in 0 .. MemSize, P(l) PROVE l = e - a
  <2> DEFINE n == e - a
  <2>1. n \in Int /\ P(n)
    BY <1>1, <1>2
  <2> HIDE DEF n
  <2>2. ~(l < n)
    <3>1. l < n => l \in 0 .. n - 1
      BY <2>1
    <3> QED BY <1>3, <2>1, <3>1
  <2>3. ~(n < l)
    <3>1. n < l => n \in 0 .. l - 1
      BY <1>1, <2>1 DEF n
    <3> QED BY <1>3, <2>1, <3>1
  <2> QED BY <2>1, <2>2, <2>3 DEF n
<1>4. l0 = e - a
  <2> HIDE DEF P
  <2> QED BY <1>1, <1>2, <1>3
<1>5. Str(m, a) = [i \in 1 .. e - a |-> m[a + i - 1]]
  <2>1. Str(m, a) = [i \in 1 .. l0 |-> m[a + i - 1]]
    BY DEF Str
  <2> HIDE DEF l0
  <2> QED BY <1>4, <2>1
<1>6. ASSUME NEW i \in 1 .. e - a PROVE m[a + i - 1] \in Bytes
  <2>1. a + i - 1 \in Addrs
    BY <1>0 DEF Addrs
  <2> QED BY <2>1
<1> DEFINE n == e - a
           s == [i \in 1 .. n |-> m[a + i - 1]]
<1>7. n \in Nat
  BY <1>1
<1> HIDE DEF n
<1>8. s \in Seq(Bytes) /\ Len(s) = n /\ \A i \in 1 .. n : s[i] = m[a + i - 1]
  BY <1>6, <1>7 DEF n
<1> QED BY <1>1, <1>5, <1>8 DEF n

-----------------------------------------------------------------------------
(* Copies *)

\* The passes of a copy of n bytes: pass i puts the byte at S[i] to D[i].
Passes(p, m, n, D, S) ==
  p = [i \in 0 .. n |-> IF i = 0 THEN m ELSE [p[i - 1] EXCEPT ![D[i]] = p[i - 1][S[i]]]]

\* When no pass reads or writes what an earlier one wrote, the memory after i
\* passes holds the old bytes of the places copied so far, and all others.
AfterPass(w, m, i, D, S) ==
  /\ w \in [Addrs -> Bytes]
  /\ \A k \in 1 .. i : w[D[k]] = m[S[k]]
  /\ \A a \in Addrs : (\A k \in 1 .. i : D[k] # a) => w[a] = m[a]

\* One more pass of a loop that copies.
LEMMA AfterPassNext ==
  ASSUME NEW m \in [Addrs -> Bytes], NEW n \in Nat,
         NEW D \in [1 .. n -> Addrs], NEW S \in [1 .. n -> Addrs],
         \A i, k \in 1 .. n : k < i => D[k] # S[i] /\ D[k] # D[i],
         NEW i \in 1 .. n, NEW w, AfterPass(w, m, i - 1, D, S)
  PROVE  AfterPass([w EXCEPT ![D[i]] = w[S[i]]], m, i, D, S)
<1> DEFINE v == [w EXCEPT ![D[i]] = w[S[i]]]
<1>0. /\ D[i] \in Addrs /\ S[i] \in Addrs /\ w \in [Addrs -> Bytes]
      /\ \A k \in 1 .. i : k = i \/ (k \in 1 .. i - 1 /\ k < i)
      /\ \A k \in 1 .. i - 1 : k \in 1 .. i /\ k \in 1 .. n /\ k < i
      /\ i \in 1 .. i
  BY DEF AfterPass
<1>1. w[S[i]] = m[S[i]]
  BY <1>0 DEF AfterPass
<1>2. v \in [Addrs -> Bytes] /\ v[D[i]] = m[S[i]] /\ \A a \in Addrs : a # D[i] => v[a] = w[a]
  BY <1>0, <1>1
<1> HIDE DEF v
<1>3. ASSUME NEW k \in 1 .. i PROVE v[D[k]] = m[S[k]]
  <2>1. CASE k = i
    BY <1>2, <2>1
  <2>2. CASE k # i
    <3>1. k \in 1 .. i - 1 /\ k \in 1 .. n /\ k < i
      BY <1>0, <2>2
    <3>2. D[k] \in Addrs /\ D[k] # D[i] /\ w[D[k]] = m[S[k]]
      BY <3>1 DEF AfterPass
    <3> QED BY <1>2, <3>2
  <2> QED BY <2>1, <2>2
<1>4. ASSUME NEW a \in Addrs, \A k \in 1 .. i : D[k] # a PROVE v[a] = m[a]
  <2>1. w[a] = m[a]
    BY <1>0, <1>4 DEF AfterPass
  <2> QED BY <1>0, <1>2, <1>4, <2>1
<1> QED BY <1>2, <1>3, <1>4 DEF v, AfterPass

\* The memory after the passes is determined.
LEMMA AfterPassUnique ==
  ASSUME NEW m, NEW i \in Nat, NEW D, NEW S,
         NEW w, NEW v, AfterPass(w, m, i, D, S), AfterPass(v, m, i, D, S)
  PROVE  w = v
<1>1. ASSUME NEW a \in Addrs PROVE w[a] = v[a]
  <2>1. CASE \A k \in 1 .. i : D[k] # a
    BY <2>1 DEF AfterPass
  <2>2. CASE \E k \in 1 .. i : D[k] = a
    BY <2>2 DEF AfterPass
  <2> QED BY <2>1, <2>2
<1> QED BY <1>1 DEF AfterPass

\* The loop that copies is defined, and its closed form is what it does.
LEMMA PassFacts ==
  ASSUME NEW m \in [Addrs -> Bytes], NEW n \in Nat,
         NEW D \in [1 .. n -> Addrs], NEW S \in [1 .. n -> Addrs],
         \A i, k \in 1 .. n : k < i => D[k] # S[i] /\ D[k] # D[i]
  PROVE  /\ \E p : Passes(p, m, n, D, S)
         /\ \A p : Passes(p, m, n, D, S) => AfterPass(p[n], m, n, D, S)
<1>1. AfterPass(m, m, 0, D, S)
  BY DEF AfterPass
<1>2. ASSUME NEW p, Passes(p, m, n, D, S) PROVE \A i \in 0 .. n : AfterPass(p[i], m, i, D, S)
  <2> DEFINE bad == {i \in 0 .. n : ~AfterPass(p[i], m, i, D, S)}
  <2>1. \A i \in 0 .. n : p[i] = IF i = 0 THEN m ELSE [p[i - 1] EXCEPT ![D[i]] = p[i - 1][S[i]]]
    BY <1>2 DEF Passes
  <2>2. ASSUME NEW i \in bad PROVE \E l \in bad : ~(i <= l)
    <3>1. i \in 0 .. n /\ ~AfterPass(p[i], m, i, D, S)
      OBVIOUS
    <3>2. i # 0
      BY <1>1, <2>1, <3>1
    <3>3. i \in 1 .. n /\ i - 1 \in 0 .. n /\ ~(i <= i - 1)
      BY <3>1, <3>2
    <3>4. p[i] = [p[i - 1] EXCEPT ![D[i]] = p[i - 1][S[i]]]
      BY <2>1, <3>2, <3>3
    <3>5. ~AfterPass(p[i - 1], m, i - 1, D, S)
      <4> DEFINE w == p[i - 1]
      <4>1. ~AfterPass([w EXCEPT ![D[i]] = w[S[i]]], m, i, D, S)
        BY <3>1, <3>4
      <4> HIDE DEF w, bad
      <4>2. ~AfterPass(w, m, i - 1, D, S)
        BY <3>3, <4>1, AfterPassNext
      <4> QED BY <4>2 DEF w
    <3>6. i - 1 \in bad
      BY <3>3, <3>5
    <3> HIDE DEF bad
    <3> QED BY <3>3, <3>6
  <2>3. bad \in SUBSET Nat
    OBVIOUS
  <2>4. bad = {}
    <3> HIDE DEF bad
    <3> QED BY <2>2, <2>3, LeastElement
  <2> QED BY <2>4
<1>3. \E p : Passes(p, m, n, D, S)
  <2> DEFINE W(i) == CHOOSE w : AfterPass(w, m, i, D, S)
             g == [i \in 0 .. n |-> W(i)]
             none == {i \in 0 .. n : ~\E w : AfterPass(w, m, i, D, S)}
  <2>1. none = {}
    <3>1. ASSUME NEW i \in none PROVE \E l \in none : ~(i <= l)
      <4>1. i \in 0 .. n /\ ~\E w : AfterPass(w, m, i, D, S)
        OBVIOUS
      <4>2. i # 0
        BY <1>1, <4>1
      <4>3. i \in 1 .. n /\ i - 1 \in 0 .. n /\ ~(i <= i - 1)
        BY <4>1, <4>2
      <4>4. ~\E w : AfterPass(w, m, i - 1, D, S)
        BY <4>1, <4>3, AfterPassNext
      <4>5. i - 1 \in none
        BY <4>3, <4>4
      <4> HIDE DEF none
      <4> QED BY <4>3, <4>5
    <3>2. none \in SUBSET Nat
      OBVIOUS
    <3> HIDE DEF none
    <3> QED BY <3>1, <3>2, LeastElement
  <2>2. ASSUME NEW i \in 0 .. n PROVE AfterPass(W(i), m, i, D, S)
    <3>1. \E w : AfterPass(w, m, i, D, S)
      BY <2>1
    <3> QED BY <3>1, Zenon
  <2> HIDE DEF W
  <2>3. ASSUME NEW i \in 0 .. n
        PROVE  W(i) = IF i = 0 THEN m ELSE [g[i - 1] EXCEPT ![D[i]] = g[i - 1][S[i]]]
    <3>1. CASE i = 0
      BY <1>1, <2>2, <3>1, AfterPassUnique
    <3>2. CASE i # 0
      <4>1. i \in 1 .. n /\ i - 1 \in 0 .. n /\ i \in Nat
        BY <3>2
      <4>2. g[i - 1] = W(i - 1) /\ AfterPass(W(i - 1), m, i - 1, D, S)
        BY <2>2, <4>1
      <4> HIDE DEF g
      <4>3. AfterPass([g[i - 1] EXCEPT ![D[i]] = g[i - 1][S[i]]], m, i, D, S)
        BY <4>1, <4>2, AfterPassNext
      <4>4. W(i) = [g[i - 1] EXCEPT ![D[i]] = g[i - 1][S[i]]]
        BY <2>2, <4>1, <4>3, AfterPassUnique
      <4> QED BY <3>2, <4>4
    <3> QED BY <3>1, <3>2
  <2>4. g = [i \in 0 .. n |-> IF i = 0 THEN m ELSE [g[i - 1] EXCEPT ![D[i]] = g[i - 1][S[i]]]]
    <3> DEFINE B(i) == IF i = 0 THEN m ELSE [g[i - 1] EXCEPT ![D[i]] = g[i - 1][S[i]]]
    <3>1. \A i \in 0 .. n : W(i) = B(i)
      BY <2>3
    <3> HIDE DEF B
    <3>2. g = [i \in 0 .. n |-> B(i)]
      BY <3>1
    <3> HIDE DEF g
    <3> QED BY <3>2 DEF B
  <2> HIDE DEF g
  <2> QED BY <2>4 DEF Passes
<1>4. n \in 0 .. n
  OBVIOUS
<1> QED BY <1>2, <1>3, <1>4

\* w is m with the n bytes at s copied to d.
Moved(w, m, d, s, n) ==
  /\ w \in [Addrs -> Bytes]
  /\ \A a \in Addrs : w[a] = IF a \in d .. d + n - 1 THEN m[s + (a - d)] ELSE m[a]

\* Copying from the first byte on moves the bytes where the areas allow it.
LEMMA CopyUpFacts ==
  ASSUME NEW m \in [Addrs -> Bytes], NEW d \in Nat, NEW s \in Nat, NEW n \in Nat,
         Fits8(d, n), Fits8(s, n), d <= s \/ Disjoint(d, s, n)
  PROVE  Moved(CopyUp(m, d, s, n), m, d, s, n)
<1> DEFINE D == [i \in 1 .. n |-> d + i - 1]
           S == [i \in 1 .. n |-> s + i - 1]
           pass[i \in 0 .. n] ==
             IF i = 0 THEN m ELSE [pass[i - 1] EXCEPT ![d + i - 1] = pass[i - 1][s + i - 1]]
           w == pass[n]
<1>0. MemSize \in Nat /\ d + n <= MemSize /\ s + n <= MemSize /\ (d <= s \/ d + n <= s \/ s + n <= d)
  BY CStringAssumption DEF Fits8, Disjoint
<1>1. CopyUp(m, d, s, n) = w
  BY DEF CopyUp
<1>2. D \in [1 .. n -> Addrs] /\ S \in [1 .. n -> Addrs]
  BY <1>0 DEF Addrs
<1>3. \A i, k \in 1 .. n : k < i => D[k] # S[i] /\ D[k] # D[i]
  BY <1>0
<1>4. ASSUME NEW p
      PROVE  Passes(p, m, n, D, S) <=>
               p = [i \in 0 .. n |-> IF i = 0 THEN m ELSE [p[i - 1] EXCEPT ![d + i - 1] = p[i - 1][s + i - 1]]]
  <2>1. ASSUME NEW i \in 0 .. n
        PROVE  (IF i = 0 THEN m ELSE [p[i - 1] EXCEPT ![D[i]] = p[i - 1][S[i]]])
                 = (IF i = 0 THEN m ELSE [p[i - 1] EXCEPT ![d + i - 1] = p[i - 1][s + i - 1]])
    <3>1. i # 0 => i \in 1 .. n
      OBVIOUS
    <3>2. i # 0 => D[i] = d + i - 1 /\ S[i] = s + i - 1
      BY <3>1
    <3> HIDE DEF D, S
    <3> QED BY <3>2
  <2> HIDE DEF D, S
  <2>2. [i \in 0 .. n |-> IF i = 0 THEN m ELSE [p[i - 1] EXCEPT ![D[i]] = p[i - 1][S[i]]]]
          = [i \in 0 .. n |-> IF i = 0 THEN m ELSE [p[i - 1] EXCEPT ![d + i - 1] = p[i - 1][s + i - 1]]]
    BY <2>1
  <2> QED BY <2>2, Zenon DEF Passes
<1>5. AfterPass(w, m, n, D, S)
  <2>1. pass = CHOOSE p : p = [i \in 0 .. n |-> IF i = 0 THEN m ELSE [p[i - 1] EXCEPT ![d + i - 1] = p[i - 1][s + i - 1]]]
    OBVIOUS
  <2> HIDE DEF pass, D, S
  <2>2. \E p : Passes(p, m, n, D, S)
    BY <1>2, <1>3, PassFacts
  <2>3. Passes(pass, m, n, D, S)
    BY <1>4, <2>1, <2>2, Zenon
  <2> QED BY <1>2, <1>3, <2>3, PassFacts
<1> HIDE DEF w, pass
<1>6. ASSUME NEW a \in Addrs PROVE w[a] = IF a \in d .. d + n - 1 THEN m[s + (a - d)] ELSE m[a]
  <2>0. a \in Nat
    BY <1>0 DEF Addrs
  <2>1. CASE a \in d .. d + n - 1
    <3>1. (a - d) + 1 \in 1 .. n /\ d + ((a - d) + 1) - 1 = a /\ s + ((a - d) + 1) - 1 = s + (a - d)
      BY <1>0, <2>0, <2>1
    <3>2. D[(a - d) + 1] = a /\ S[(a - d) + 1] = s + (a - d)
      BY <3>1
    <3> HIDE DEF D, S
    <3> QED BY <1>5, <2>1, <3>1, <3>2 DEF AfterPass
  <2>2. CASE a \notin d .. d + n - 1
    <3>1. \A k \in 1 .. n : d + k - 1 # a
      BY <1>0, <2>0, <2>2
    <3>2. \A k \in 1 .. n : D[k] # a
      BY <3>1
    <3> HIDE DEF D, S
    <3> QED BY <1>5, <2>2, <3>2 DEF AfterPass
  <2> QED BY <2>1, <2>2
<1>7. w \in [Addrs -> Bytes]
  BY <1>5 DEF AfterPass
<1> QED BY <1>1, <1>6, <1>7 DEF Moved

\* Copying from the last byte on moves the bytes where the areas allow it.
LEMMA CopyDownFacts ==
  ASSUME NEW m \in [Addrs -> Bytes], NEW d \in Nat, NEW s \in Nat, NEW n \in Nat,
         Fits8(d, n), Fits8(s, n), s < d
  PROVE  Moved(CopyDown(m, d, s, n), m, d, s, n)
<1> DEFINE D == [i \in 1 .. n |-> d + n - i]
           S == [i \in 1 .. n |-> s + n - i]
           pass[i \in 0 .. n] ==
             IF i = 0 THEN m ELSE [pass[i - 1] EXCEPT ![d + n - i] = pass[i - 1][s + n - i]]
           w == pass[n]
<1>0. MemSize \in Nat /\ d + n <= MemSize /\ s + n <= MemSize
  BY CStringAssumption DEF Fits8
<1>1. CopyDown(m, d, s, n) = w
  BY DEF CopyDown
<1>2. D \in [1 .. n -> Addrs] /\ S \in [1 .. n -> Addrs]
  BY <1>0 DEF Addrs
<1>3. \A i, k \in 1 .. n : k < i => D[k] # S[i] /\ D[k] # D[i]
  BY <1>0
<1>4. ASSUME NEW p
      PROVE  Passes(p, m, n, D, S) <=>
               p = [i \in 0 .. n |-> IF i = 0 THEN m ELSE [p[i - 1] EXCEPT ![d + n - i] = p[i - 1][s + n - i]]]
  <2>1. ASSUME NEW i \in 0 .. n
        PROVE  (IF i = 0 THEN m ELSE [p[i - 1] EXCEPT ![D[i]] = p[i - 1][S[i]]])
                 = (IF i = 0 THEN m ELSE [p[i - 1] EXCEPT ![d + n - i] = p[i - 1][s + n - i]])
    <3>1. i # 0 => i \in 1 .. n
      OBVIOUS
    <3>2. i # 0 => D[i] = d + n - i /\ S[i] = s + n - i
      BY <3>1
    <3> HIDE DEF D, S
    <3> QED BY <3>2
  <2> HIDE DEF D, S
  <2>2. [i \in 0 .. n |-> IF i = 0 THEN m ELSE [p[i - 1] EXCEPT ![D[i]] = p[i - 1][S[i]]]]
          = [i \in 0 .. n |-> IF i = 0 THEN m ELSE [p[i - 1] EXCEPT ![d + n - i] = p[i - 1][s + n - i]]]
    BY <2>1
  <2> QED BY <2>2, Zenon DEF Passes
<1>5. AfterPass(w, m, n, D, S)
  <2>1. pass = CHOOSE p : p = [i \in 0 .. n |-> IF i = 0 THEN m ELSE [p[i - 1] EXCEPT ![d + n - i] = p[i - 1][s + n - i]]]
    OBVIOUS
  <2> HIDE DEF pass, D, S
  <2>2. \E p : Passes(p, m, n, D, S)
    BY <1>2, <1>3, PassFacts
  <2>3. Passes(pass, m, n, D, S)
    BY <1>4, <2>1, <2>2, Zenon
  <2> QED BY <1>2, <1>3, <2>3, PassFacts
<1> HIDE DEF w, pass
<1>6. ASSUME NEW a \in Addrs PROVE w[a] = IF a \in d .. d + n - 1 THEN m[s + (a - d)] ELSE m[a]
  <2>0. a \in Nat
    BY <1>0 DEF Addrs
  <2>1. CASE a \in d .. d + n - 1
    <3>1. d + n - a \in 1 .. n /\ d + n - (d + n - a) = a /\ s + n - (d + n - a) = s + (a - d)
      BY <1>0, <2>0, <2>1
    <3>2. D[d + n - a] = a /\ S[d + n - a] = s + (a - d)
      BY <3>1
    <3> HIDE DEF D, S
    <3> QED BY <1>5, <2>1, <3>1, <3>2 DEF AfterPass
  <2>2. CASE a \notin d .. d + n - 1
    <3>1. \A k \in 1 .. n : d + n - k # a
      BY <1>0, <2>0, <2>2
    <3>2. \A k \in 1 .. n : D[k] # a
      BY <3>1
    <3> HIDE DEF D, S
    <3> QED BY <1>5, <2>2, <3>2 DEF AfterPass
  <2> QED BY <2>1, <2>2
<1>7. w \in [Addrs -> Bytes]
  BY <1>5 DEF AfterPass
<1> QED BY <1>1, <1>6, <1>7 DEF Moved

-----------------------------------------------------------------------------
(* The functions that write *)

\* The record of a call is not NoCall, and says what was called.
LEMMA CalledFacts ==
  ASSUME NEW f, f # "none", NEW d, NEW s, NEW n, Called(f, d, s, n)
  PROVE  /\ call' # NoCall
         /\ call'.fn = f /\ call'.d = d /\ call'.s = s /\ call'.n = n /\ call'.before = mem
BY DEF Called, NoCall

\* A call that has moved n bytes agrees with the reference of a copy.
LEMMA CopyStep ==
  ASSUME NEW d, NEW s, NEW n, Called("copy", d, s, n), Moved(mem', mem, d, s, n)
  PROVE  StringWrites'
<1>1. call' # NoCall /\ call'.fn = "copy" /\ call'.d = d /\ call'.s = s /\ call'.n = n /\ call'.before = mem
  BY CalledFacts
<1> QED BY <1>1 DEF StringWrites, Moved

\* memset agrees with its reference.
LEMMA SetStep ==
  ASSUME NEW d \in Addrs, NEW c \in Bytes, NEW n \in 0 .. MemSize, memset(d, c, n)
  PROVE  StringWrites'
<1>1. /\ call' # NoCall /\ call'.fn = "set" /\ call'.d = d /\ call'.s = c /\ call'.n = n
      /\ call'.before = mem
  BY CalledFacts DEF memset
<1>2. \A a \in Addrs : mem'[a] = IF a \in d .. d + n - 1 THEN c ELSE mem[a]
  BY DEF memset
<1> QED BY <1>1, <1>2 DEF StringWrites

\* What strcpy does is a copy of the string with its terminator.
LEMMA StrcpyMoves ==
  ASSUME mem \in [Addrs -> Bytes], NEW d \in Addrs, NEW s \in Addrs, strcpy(d, s)
  PROVE  Moved(mem', mem, d, s, strlen(s) + 1)
<1> DEFINE m == [mem EXCEPT ![d] = 0]
           t == StrEnd(mem, s)
           n == t - s + 1
<1>0. MemSize \in Nat /\ d \in Nat /\ s \in Nat /\ d < MemSize /\ s < MemSize /\ 0 \in Bytes
  BY CStringAssumption DEF Addrs
<1>1. IsEnd(mem, s, t)
  BY StrEndFacts DEF strcpy, IsString
<1>2. t \in s .. MemSize - 1
  BY <1>1 DEF IsEnd
<1>3. d + n <= MemSize /\ (d + n <= s \/ s + n <= d) /\ mem' = CopyUp(m, StrEnd(m, d), s, StrEnd(m, s) - s + 1)
      /\ strlen(s) + 1 = n
  BY DEF strcpy, Fits8, Disjoint, Appended, strlen
<1> HIDE DEF t
<1>4. m \in [Addrs -> Bytes] /\ m[d] = 0 /\ \A a \in Addrs : a # d => m[a] = mem[a]
  BY <1>0
<1> HIDE DEF m
<1>5. n \in Nat /\ n > 0 /\ s + n <= MemSize /\ d \notin s .. t /\ s .. t \subseteq Addrs
  BY <1>0, <1>2, <1>3 DEF Addrs
<1>6. StrEnd(m, d) = d
  <2>1. d \in d .. MemSize - 1
    BY <1>0
  <2>2. IsEnd(m, d, StrEnd(m, d))
    BY <1>4, <2>1, StrEndFacts
  <2>3. StrEnd(m, d) \in d .. MemSize - 1 /\ \A k \in d .. StrEnd(m, d) - 1 : m[k] # 0
    BY <2>2 DEF IsEnd
  <2>4. d \notin d .. StrEnd(m, d) - 1
    BY <1>4, <2>3
  <2> QED BY <1>0, <2>3, <2>4
<1>7. StrEnd(m, s) = t
  <2> DEFINE e == StrEnd(m, s)
  <2>1. t \in s .. t
    BY <1>0, <1>2
  <2>2. \A k \in s .. t : m[k] = mem[k]
    BY <1>4, <1>5
  <2>3. IsEnd(m, s, e)
    BY <1>1, <1>2, <2>1, <2>2, StrEndFacts DEF IsEnd
  <2> HIDE DEF e
  <2>4. e \in s .. MemSize - 1 /\ m[e] = 0 /\ \A k \in s .. e - 1 : m[k] # 0
    BY <2>3 DEF IsEnd
  <2>5. mem[t] = 0 /\ \A k \in s .. t - 1 : mem[k] # 0
    BY <1>1 DEF IsEnd
  <2>6. ~(t < e)
    <3>1. t < e => t \in s .. e - 1
      BY <1>0, <1>2, <2>4
    <3> QED BY <2>1, <2>2, <2>4, <2>5, <3>1
  <2>7. ~(e < t)
    <3>1. e < t => e \in s .. t - 1 /\ e \in s .. t
      BY <1>0, <1>2, <2>4
    <3> QED BY <2>2, <2>4, <2>5, <3>1
  <2>8. e = t
    BY <1>0, <1>2, <2>4, <2>6, <2>7
  <2> QED BY <2>8 DEF e
<1>8. mem' = CopyUp(m, d, s, n)
  BY <1>3, <1>6, <1>7
<1>10. n = t - s + 1
  OBVIOUS
<1> HIDE DEF n
<1>9. Moved(mem', m, d, s, n)
  <2>1. Fits8(d, n) /\ Fits8(s, n) /\ Disjoint(d, s, n)
    BY <1>3, <1>5 DEF Fits8, Disjoint
  <2> QED BY <1>0, <1>4, <1>5, <1>8, <2>1, CopyUpFacts
<1>11. ASSUME NEW a \in Addrs
       PROVE  mem'[a] = IF a \in d .. d + n - 1 THEN mem[s + (a - d)] ELSE mem[a]
  <2>1. CASE a \in d .. d + n - 1
    <3>1. s + (a - d) \in s .. t
      BY <1>0, <1>2, <1>5, <1>10, <2>1
    <3> QED BY <1>4, <1>5, <1>9, <2>1, <3>1 DEF Moved
  <2>2. CASE a \notin d .. d + n - 1
    <3>1. a # d
      BY <1>0, <1>5, <2>2
    <3> QED BY <1>4, <1>9, <2>2, <3>1 DEF Moved
  <2> QED BY <2>1, <2>2
<1> QED BY <1>3, <1>9, <1>11 DEF Moved

\* strcat appends.
LEMMA StrcatStep ==
  ASSUME mem \in [Addrs -> Bytes], NEW d \in Addrs, NEW s \in Addrs, strcat(d, s)
  PROVE  StringWrites' /\ mem' \in [Addrs -> Bytes]
<1> DEFINE e == StrEnd(mem, d)
           t == StrEnd(mem, s)
           n == t - s + 1
           x == Str(mem, d)
           y == Str(mem, s)
           joined == x \o y
<1>0. MemSize \in Nat /\ d \in Nat /\ s \in Nat /\ d < MemSize /\ s < MemSize
  BY CStringAssumption DEF Addrs
<1>1. IsEnd(mem, d, e) /\ IsEnd(mem, s, t)
  BY StrEndFacts DEF strcat, IsString
<1>2. e \in d .. MemSize - 1 /\ t \in s .. MemSize - 1 /\ mem[t] = 0
  BY <1>1 DEF IsEnd
<1>3. /\ d + ((e - d) + (t - s) + 1) <= MemSize
      /\ d + (e - d) + (t - s) < s \/ s + (t - s) < d
      /\ mem' = CopyUp(mem, e, s, n)
  BY DEF strcat, Fits8, Appended, strlen
<1>4. /\ x \in Seq(Bytes) /\ Len(x) = e - d /\ \A i \in 1 .. e - d : x[i] = mem[d + i - 1]
      /\ y \in Seq(Bytes) /\ Len(y) = t - s /\ \A i \in 1 .. t - s : y[i] = mem[s + i - 1]
  BY <1>1, StrFacts
<1>5. /\ call' # NoCall /\ call'.fn = "append" /\ call'.d = d /\ call'.s = s /\ call'.before = mem
  BY CalledFacts DEF strcat
<1> HIDE DEF e, t, x, y
<1>6. n \in Nat /\ e \in Nat /\ Fits8(e, n) /\ Fits8(s, n) /\ Disjoint(e, s, n)
  BY <1>0, <1>2, <1>3 DEF Fits8, Disjoint
<1>7. Moved(mem', mem, e, s, n)
  BY <1>0, <1>3, <1>6, CopyUpFacts
<1>8. /\ Len(joined) = Len(x) + Len(y)
      /\ \A i \in 1 .. Len(x) + Len(y) : joined[i] = IF i <= Len(x) THEN x[i] ELSE y[i - Len(x)]
  BY <1>4, ConcatProperties
<1> HIDE DEF joined
<1>9. Len(joined) = (e - d) + (t - s)
  BY <1>4, <1>8
<1>10. ASSUME NEW a \in Addrs
       PROVE  mem'[a] = IF a \in d .. d + Len(joined) - 1 THEN joined[a - d + 1]
                        ELSE IF a = d + Len(joined) THEN 0 ELSE mem[a]
  <2>0. a \in Nat
    BY <1>0 DEF Addrs
  <2>1. mem'[a] = IF a \in e .. e + n - 1 THEN mem[s + (a - e)] ELSE mem[a]
    BY <1>7 DEF Moved
  <2>2. CASE a \in d .. e - 1
    <3>1. /\ a \notin e .. e + n - 1 /\ a - d + 1 \in 1 .. e - d /\ d + (a - d + 1) - 1 = a
          /\ a - d + 1 <= e - d /\ a \in d .. d + Len(joined) - 1
          /\ a - d + 1 \in 1 .. (e - d) + (t - s)
      BY <1>0, <1>2, <1>9, <2>0, <2>2
    <3>2. joined[a - d + 1] = x[a - d + 1]
      BY <1>4, <1>8, <3>1
    <3>3. x[a - d + 1] = mem[d + (a - d + 1) - 1]
      BY <1>4, <3>1
    <3> QED BY <2>1, <3>1, <3>2, <3>3
  <2>3. CASE a \in e .. e + (t - s) - 1
    <3>1. /\ a \in e .. e + n - 1 /\ a - d + 1 \in 1 .. (e - d) + (t - s) /\ ~(a - d + 1 <= e - d)
          /\ (a - d + 1) - (e - d) \in 1 .. t - s /\ s + ((a - d + 1) - (e - d)) - 1 = s + (a - e)
          /\ a \in d .. d + Len(joined) - 1
      BY <1>0, <1>2, <1>9, <2>0, <2>3
    <3>2. joined[a - d + 1] = y[(a - d + 1) - (e - d)]
      BY <1>4, <1>8, <3>1
    <3>3. y[(a - d + 1) - (e - d)] = mem[s + ((a - d + 1) - (e - d)) - 1]
      BY <1>4, <3>1
    <3> QED BY <2>1, <3>1, <3>2, <3>3
  <2>4. CASE a = e + (t - s)
    <3>1. a \in e .. e + n - 1 /\ s + (a - e) = t /\ a = d + Len(joined) /\ a \notin d .. d + Len(joined) - 1
      BY <1>0, <1>2, <1>9, <2>0, <2>4
    <3> QED BY <1>2, <2>1, <3>1
  <2>5. CASE a \notin d .. e + (t - s)
    <3>1. a \notin e .. e + n - 1 /\ a # d + Len(joined) /\ a \notin d .. d + Len(joined) - 1
      BY <1>0, <1>2, <1>9, <2>0, <2>5
    <3> QED BY <2>1, <3>1
  <2>6. a \in d .. e - 1 \/ a \in e .. e + (t - s) - 1 \/ a = e + (t - s) \/ a \notin d .. e + (t - s)
    BY <1>0, <1>2, <2>0
  <2> QED BY <2>2, <2>3, <2>4, <2>5, <2>6
<1>11. joined = Str(mem, d) \o Str(mem, s)
  BY DEF joined, x, y
<1>12. StringWrites'
  <2> DEFINE J == Str(call'.before, call'.d) \o Str(call'.before, call'.s)
             inside(a, l) == a \in call'.d .. call'.d + l - 1
  <2>1. J = joined
    BY <1>5, <1>11
  <2> HIDE DEF J
  <2>2. ASSUME NEW a \in Addrs
        PROVE  mem'[a] =
                 CASE call'.fn = "copy" /\ inside(a, call'.n) -> call'.before[call'.s + (a - call'.d)]
                   [] call'.fn = "set" /\ inside(a, call'.n) -> call'.s
                   [] call'.fn = "append" /\ inside(a, Len(J)) -> J[a - call'.d + 1]
                   [] call'.fn = "append" /\ a = call'.d + Len(J) -> 0
                   [] OTHER -> call'.before[a]
    <3>1. a \in d .. d + Len(joined) - 1 => a # d + Len(joined)
      <4>1. a \in Int /\ d \in Int /\ Len(joined) \in Int
        BY <1>0, <1>2, <1>9 DEF Addrs
      <4> HIDE DEF J
      <4> QED BY <4>1
    <3> QED BY <1>5, <1>10, <2>1, <3>1
  <2> HIDE DEF inside
  <2> QED BY <2>2, Zenon DEF StringWrites, J, inside
<1> QED BY <1>7, <1>12 DEF Moved

\* The bytes of the memory stay bytes, and the last call did what it promises.
StringInv == mem \in [Addrs -> Bytes] /\ StringWrites

\* The memory has its type, and every call has written what its reference says.
LEMMA StringInvariant == StringSpec => []StringInv
<1>1. StringInit => StringInv
  BY DEF StringInit, StringInv, StringWrites
<1>2. StringInv /\ [StringNext]_stringVars => StringInv'
  <2> SUFFICES ASSUME StringInv, [StringNext]_stringVars PROVE StringInv'
    OBVIOUS
  <2>0. mem \in [Addrs -> Bytes] /\ MemSize \in Nat /\ \A a \in Addrs : a \in Nat
    BY CStringAssumption DEF StringInv, Addrs
  <2>1. ASSUME NEW d \in Addrs, NEW s \in Addrs, NEW n \in 0 .. MemSize, memcpy(d, s, n) PROVE StringInv'
    <3>1. Moved(mem', mem, d, s, n)
      BY <2>0, <2>1, CopyUpFacts DEF memcpy
    <3>2. StringWrites'
      BY <2>1, <3>1, CopyStep DEF memcpy
    <3> QED BY <3>1, <3>2 DEF StringInv, Moved
  <2>2. ASSUME NEW d \in Addrs, NEW s \in Addrs, NEW n \in 0 .. MemSize, memmove(d, s, n) PROVE StringInv'
    <3>0. Fits8(d, n) /\ Fits8(s, n) /\ (d <= s \/ s < d)
      BY <2>0, <2>2 DEF memmove
    <3>1. Moved(mem', mem, d, s, n)
      <4>1. CASE d <= s
        BY <2>0, <2>2, <3>0, <4>1, CopyUpFacts DEF memmove
      <4>2. CASE ~(d <= s)
        BY <2>0, <2>2, <3>0, <4>2, CopyDownFacts DEF memmove
      <4> QED BY <4>1, <4>2
    <3>2. StringWrites'
      BY <2>2, <3>1, CopyStep DEF memmove
    <3> QED BY <3>1, <3>2 DEF StringInv, Moved
  <2>3. ASSUME NEW d \in Addrs, NEW c \in Bytes, NEW n \in 0 .. MemSize, memset(d, c, n) PROVE StringInv'
    <3>1. mem' \in [Addrs -> Bytes]
      BY <2>0, <2>3 DEF memset
    <3> QED BY <2>3, <3>1, SetStep DEF StringInv
  <2>4. ASSUME NEW d \in Addrs, NEW s \in Addrs, strcat(d, s) PROVE StringInv'
    BY <2>0, <2>4, StrcatStep DEF StringInv
  <2>5. ASSUME NEW d \in Addrs, NEW s \in Addrs, strcpy(d, s) PROVE StringInv'
    <3>1. Moved(mem', mem, d, s, strlen(s) + 1)
      BY <2>0, <2>5, StrcpyMoves
    <3>2. Called("copy", d, s, strlen(s) + 1)
      BY <2>5 DEF strcpy
    <3>3. StringWrites'
      BY <3>1, <3>2, CopyStep
    <3> QED BY <3>1, <3>3 DEF StringInv, Moved
  <2>6. CASE UNCHANGED stringVars
    BY <2>6 DEF stringVars, StringInv, StringWrites
  <2> QED BY <2>1, <2>2, <2>3, <2>4, <2>5, <2>6 DEF StringNext
<1> QED BY <1>1, <1>2, PTL DEF StringSpec

\* Copies deliver the bytes that were there before the call, whatever overlap
\* memmove is given, and every function that writes changes no other byte.
LEMMA AlwaysWritten == StringSpec => []StringWrites
<1>1. StringInv => StringWrites
  BY DEF StringInv
<1> QED BY <1>1, StringInvariant, PTL

-----------------------------------------------------------------------------
(* The functions that read, as walks *)

\* x is the result of a loop from lo.
Result(x, lo, hi, T, r) == \E j \in lo .. hi : EndsAt(j, lo, hi, T) /\ x = r[j]

\* memchr ends at the first byte c.
LEMMA MemchrWalk ==
  ASSUME NEW a, NEW c, NEW n \in Nat
  PROVE  Result(memchr(a, c, n), 0, n,
                {i \in 0 .. n - 1 : mem[a + i] = c},
                [i \in 0 .. n |-> IF i = n THEN NullPtr ELSE a + i])
<1> DEFINE from[i \in 0 .. n] ==
             IF i = n THEN NullPtr ELSE IF mem[a + i] = c THEN a + i ELSE from[i + 1]
           T == {i \in 0 .. n - 1 : mem[a + i] = c}
           r == [i \in 0 .. n |-> IF i = n THEN NullPtr ELSE a + i]
<1>0. 0 \in Int /\ n \in Int /\ 0 <= n /\ 0 \in 0 .. n
  OBVIOUS
<1>1. memchr(a, c, n) = from[0]
  BY DEF memchr
<1>2. ASSUME NEW f
      PROVE  Walked(f, 0, n, T, r) <=>
               f = [i \in 0 .. n |-> IF i = n THEN NullPtr ELSE IF mem[a + i] = c THEN a + i ELSE f[i + 1]]
  <2>1. ASSUME NEW i \in 0 .. n
        PROVE  (IF i = n \/ i \in T THEN r[i] ELSE f[i + 1])
                 = (IF i = n THEN NullPtr ELSE IF mem[a + i] = c THEN a + i ELSE f[i + 1])
    <3>1. i # n => i \in 0 .. n - 1
      BY <1>0
    <3> QED BY <3>1
  <2> HIDE DEF T, r
  <2>2. [i \in 0 .. n |-> IF i = n \/ i \in T THEN r[i] ELSE f[i + 1]]
          = [i \in 0 .. n |-> IF i = n THEN NullPtr ELSE IF mem[a + i] = c THEN a + i ELSE f[i + 1]]
    BY <2>1
  <2> QED BY <2>2, Zenon DEF Walked
<1>3. Walked(from, 0, n, T, r)
  <2>1. from = CHOOSE f : f = [i \in 0 .. n |-> IF i = n THEN NullPtr ELSE IF mem[a + i] = c THEN a + i ELSE f[i + 1]]
    OBVIOUS
  <2> HIDE DEF from, T, r
  <2>2. \E f : Walked(f, 0, n, T, r)
    BY <1>0, WalkFacts
  <2> QED BY <1>2, <2>1, <2>2, Zenon
<1> HIDE DEF from, T, r
<1>4. PICK j \in 0 .. n : EndsAt(j, 0, n, T)
  BY <1>0, EndExists
<1>5. from[0] = r[j]
  BY <1>0, <1>3, <1>4, WalkFacts
<1>6. Result(from[0], 0, n, T, r)
  BY <1>4, <1>5 DEF Result
<1> QED BY <1>1, <1>6 DEF T, r

\* memcmp ends at the first difference.
LEMMA MemcmpWalk ==
  ASSUME NEW a, NEW b, NEW n \in Nat
  PROVE  Result(memcmp(a, b, n), 0, n,
                {i \in 0 .. n - 1 : mem[a + i] # mem[b + i]},
                [i \in 0 .. n |-> IF i = n THEN 0 ELSE mem[a + i] - mem[b + i]])
<1> DEFINE from[i \in 0 .. n] ==
             IF i = n THEN 0 ELSE IF mem[a + i] # mem[b + i] THEN mem[a + i] - mem[b + i] ELSE from[i + 1]
           T == {i \in 0 .. n - 1 : mem[a + i] # mem[b + i]}
           r == [i \in 0 .. n |-> IF i = n THEN 0 ELSE mem[a + i] - mem[b + i]]
<1>0. 0 \in Int /\ n \in Int /\ 0 <= n /\ 0 \in 0 .. n
  OBVIOUS
<1>1. memcmp(a, b, n) = from[0]
  BY DEF memcmp
<1>2. ASSUME NEW f
      PROVE  Walked(f, 0, n, T, r) <=>
               f = [i \in 0 .. n |-> IF i = n THEN 0 ELSE IF mem[a + i] # mem[b + i] THEN mem[a + i] - mem[b + i] ELSE f[i + 1]]
  <2>1. ASSUME NEW i \in 0 .. n
        PROVE  (IF i = n \/ i \in T THEN r[i] ELSE f[i + 1])
                 = (IF i = n THEN 0 ELSE IF mem[a + i] # mem[b + i] THEN mem[a + i] - mem[b + i] ELSE f[i + 1])
    <3>1. i # n => i \in 0 .. n - 1
      BY <1>0
    <3> QED BY <3>1
  <2> HIDE DEF T, r
  <2>2. [i \in 0 .. n |-> IF i = n \/ i \in T THEN r[i] ELSE f[i + 1]]
          = [i \in 0 .. n |-> IF i = n THEN 0 ELSE IF mem[a + i] # mem[b + i] THEN mem[a + i] - mem[b + i] ELSE f[i + 1]]
    BY <2>1
  <2> QED BY <2>2, Zenon DEF Walked
<1>3. Walked(from, 0, n, T, r)
  <2>1. from = CHOOSE f : f = [i \in 0 .. n |-> IF i = n THEN 0 ELSE IF mem[a + i] # mem[b + i] THEN mem[a + i] - mem[b + i] ELSE f[i + 1]]
    OBVIOUS
  <2> HIDE DEF from, T, r
  <2>2. \E f : Walked(f, 0, n, T, r)
    BY <1>0, WalkFacts
  <2> QED BY <1>2, <2>1, <2>2, Zenon
<1> HIDE DEF from, T, r
<1>4. PICK j \in 0 .. n : EndsAt(j, 0, n, T)
  BY <1>0, EndExists
<1>5. from[0] = r[j]
  BY <1>0, <1>3, <1>4, WalkFacts
<1>6. Result(from[0], 0, n, T, r)
  BY <1>4, <1>5 DEF Result
<1> QED BY <1>1, <1>6 DEF T, r

\* strncmp ends at the first difference or at the terminator.
LEMMA StrncmpWalk ==
  ASSUME NEW a, NEW b, NEW n \in Nat
  PROVE  Result(strncmp(a, b, n), 0, n,
                {i \in 0 .. n - 1 : mem[a + i] # mem[b + i] \/ mem[a + i] = 0},
                [i \in 0 .. n |-> IF i = n THEN 0 ELSE mem[a + i] - mem[b + i]])
<1> DEFINE from[i \in 0 .. n] ==
             IF i = n THEN 0 ELSE IF mem[a + i] # mem[b + i] \/ mem[a + i] = 0 THEN mem[a + i] - mem[b + i] ELSE from[i + 1]
           T == {i \in 0 .. n - 1 : mem[a + i] # mem[b + i] \/ mem[a + i] = 0}
           r == [i \in 0 .. n |-> IF i = n THEN 0 ELSE mem[a + i] - mem[b + i]]
<1>0. 0 \in Int /\ n \in Int /\ 0 <= n /\ 0 \in 0 .. n
  OBVIOUS
<1>1. strncmp(a, b, n) = from[0]
  BY DEF strncmp
<1>2. ASSUME NEW f
      PROVE  Walked(f, 0, n, T, r) <=>
               f = [i \in 0 .. n |-> IF i = n THEN 0 ELSE IF mem[a + i] # mem[b + i] \/ mem[a + i] = 0 THEN mem[a + i] - mem[b + i] ELSE f[i + 1]]
  <2>1. ASSUME NEW i \in 0 .. n
        PROVE  (IF i = n \/ i \in T THEN r[i] ELSE f[i + 1])
                 = (IF i = n THEN 0 ELSE IF mem[a + i] # mem[b + i] \/ mem[a + i] = 0 THEN mem[a + i] - mem[b + i] ELSE f[i + 1])
    <3>1. i # n => i \in 0 .. n - 1
      BY <1>0
    <3> QED BY <3>1
  <2> HIDE DEF T, r
  <2>2. [i \in 0 .. n |-> IF i = n \/ i \in T THEN r[i] ELSE f[i + 1]]
          = [i \in 0 .. n |-> IF i = n THEN 0 ELSE IF mem[a + i] # mem[b + i] \/ mem[a + i] = 0 THEN mem[a + i] - mem[b + i] ELSE f[i + 1]]
    BY <2>1
  <2> QED BY <2>2, Zenon DEF Walked
<1>3. Walked(from, 0, n, T, r)
  <2>1. from = CHOOSE f : f = [i \in 0 .. n |-> IF i = n THEN 0 ELSE IF mem[a + i] # mem[b + i] \/ mem[a + i] = 0 THEN mem[a + i] - mem[b + i] ELSE f[i + 1]]
    OBVIOUS
  <2> HIDE DEF from, T, r
  <2>2. \E f : Walked(f, 0, n, T, r)
    BY <1>0, WalkFacts
  <2> QED BY <1>2, <2>1, <2>2, Zenon
<1> HIDE DEF from, T, r
<1>4. PICK j \in 0 .. n : EndsAt(j, 0, n, T)
  BY <1>0, EndExists
<1>5. from[0] = r[j]
  BY <1>0, <1>3, <1>4, WalkFacts
<1>6. Result(from[0], 0, n, T, r)
  BY <1>4, <1>5 DEF Result
<1> QED BY <1>1, <1>6 DEF T, r

\* strchr ends at the first byte c or at the terminator.
LEMMA StrchrWalk ==
  ASSUME NEW a \in Addrs, NEW c
  PROVE  Result(strchr(a, c), a, MemSize,
                {b \in a .. MemSize - 1 : mem[b] = c \/ mem[b] = 0},
                [b \in a .. MemSize |-> IF b = MemSize THEN PastEnd ELSE IF mem[b] = c THEN b ELSE NullPtr])
<1> DEFINE from[b \in a .. MemSize] ==
             IF b = MemSize THEN PastEnd ELSE IF mem[b] = c THEN b ELSE IF mem[b] = 0 THEN NullPtr ELSE from[b + 1]
           T == {b \in a .. MemSize - 1 : mem[b] = c \/ mem[b] = 0}
           r == [b \in a .. MemSize |-> IF b = MemSize THEN PastEnd ELSE IF mem[b] = c THEN b ELSE NullPtr]
<1>0. a \in Int /\ MemSize \in Int /\ a <= MemSize /\ a \in a .. MemSize
  BY CStringAssumption DEF Addrs
<1>1. strchr(a, c) = from[a]
  BY DEF strchr
<1>2. ASSUME NEW f
      PROVE  Walked(f, a, MemSize, T, r) <=>
               f = [b \in a .. MemSize |-> IF b = MemSize THEN PastEnd ELSE IF mem[b] = c THEN b ELSE IF mem[b] = 0 THEN NullPtr ELSE f[b + 1]]
  <2>1. ASSUME NEW b \in a .. MemSize
        PROVE  (IF b = MemSize \/ b \in T THEN r[b] ELSE f[b + 1])
                 = (IF b = MemSize THEN PastEnd ELSE IF mem[b] = c THEN b ELSE IF mem[b] = 0 THEN NullPtr ELSE f[b + 1])
    <3>1. b # MemSize => b \in a .. MemSize - 1
      BY <1>0
    <3> QED BY <3>1
  <2> HIDE DEF T, r
  <2>2. [b \in a .. MemSize |-> IF b = MemSize \/ b \in T THEN r[b] ELSE f[b + 1]]
          = [b \in a .. MemSize |-> IF b = MemSize THEN PastEnd ELSE IF mem[b] = c THEN b ELSE IF mem[b] = 0 THEN NullPtr ELSE f[b + 1]]
    BY <2>1
  <2> QED BY <2>2, Zenon DEF Walked
<1>3. Walked(from, a, MemSize, T, r)
  <2>1. from = CHOOSE f : f = [b \in a .. MemSize |-> IF b = MemSize THEN PastEnd ELSE IF mem[b] = c THEN b ELSE IF mem[b] = 0 THEN NullPtr ELSE f[b + 1]]
    OBVIOUS
  <2> HIDE DEF from, T, r
  <2>2. \E f : Walked(f, a, MemSize, T, r)
    BY <1>0, WalkFacts
  <2> QED BY <1>2, <2>1, <2>2, Zenon
<1> HIDE DEF from, T, r
<1>4. PICK j \in a .. MemSize : EndsAt(j, a, MemSize, T)
  BY <1>0, EndExists
<1>5. from[a] = r[j]
  BY <1>0, <1>3, <1>4, WalkFacts
<1>6. Result(from[a], a, MemSize, T, r)
  BY <1>4, <1>5 DEF Result
<1> QED BY <1>1, <1>6 DEF T, r

\* strstr ends at the first match or where the rest of the string is too short.
LEMMA StrstrWalk ==
  ASSUME NEW a, NEW b, NEW l1 \in Nat, NEW l2 \in Nat \ {0}, strlen(a) = l1, strlen(b) = l2
  PROVE  Result(strstr(a, b), 0, l1 + 1,
                {i \in 0 .. l1 : l1 - i < l2 \/ memcmp(a + i, b, l2) = 0},
                [i \in 0 .. l1 + 1 |-> IF l1 - i < l2 THEN NullPtr ELSE a + i])
<1> DEFINE from[i \in 0 .. l1 + 1] ==
             IF l1 - i < l2 THEN NullPtr ELSE IF memcmp(a + i, b, l2) = 0 THEN a + i ELSE from[i + 1]
           T == {i \in 0 .. l1 : l1 - i < l2 \/ memcmp(a + i, b, l2) = 0}
           r == [i \in 0 .. l1 + 1 |-> IF l1 - i < l2 THEN NullPtr ELSE a + i]
<1>0. l1 + 1 \in Int /\ 0 \in Int /\ 0 <= l1 + 1 /\ 0 \in 0 .. l1 + 1
  OBVIOUS
<1>1. strstr(a, b) = from[0]
  BY DEF strstr
<1>2. ASSUME NEW f
      PROVE  Walked(f, 0, l1 + 1, T, r) <=>
               f = [i \in 0 .. l1 + 1 |-> IF l1 - i < l2 THEN NullPtr
                                          ELSE IF memcmp(a + i, b, l2) = 0 THEN a + i ELSE f[i + 1]]
  <2>1. ASSUME NEW i \in 0 .. l1 + 1
        PROVE  (IF i = l1 + 1 \/ i \in T THEN r[i] ELSE f[i + 1])
                 = (IF l1 - i < l2 THEN NullPtr ELSE IF memcmp(a + i, b, l2) = 0 THEN a + i ELSE f[i + 1])
    <3>1. (i # l1 + 1 => i \in 0 .. l1) /\ (i = l1 + 1 => l1 - i < l2)
      OBVIOUS
    <3> QED BY <3>1
  <2> HIDE DEF T, r
  <2>2. [i \in 0 .. l1 + 1 |-> IF i = l1 + 1 \/ i \in T THEN r[i] ELSE f[i + 1]]
          = [i \in 0 .. l1 + 1 |-> IF l1 - i < l2 THEN NullPtr
                                   ELSE IF memcmp(a + i, b, l2) = 0 THEN a + i ELSE f[i + 1]]
    BY <2>1
  <2> QED BY <2>2, Zenon DEF Walked
<1>3. Walked(from, 0, l1 + 1, T, r)
  <2>1. from = CHOOSE f : f = [i \in 0 .. l1 + 1 |-> IF l1 - i < l2 THEN NullPtr
                                   ELSE IF memcmp(a + i, b, l2) = 0 THEN a + i ELSE f[i + 1]]
    OBVIOUS
  <2> HIDE DEF from, T, r
  <2>2. \E f : Walked(f, 0, l1 + 1, T, r)
    BY <1>0, WalkFacts
  <2> QED BY <1>2, <2>1, <2>2, Zenon
<1> HIDE DEF from, T, r
<1>4. PICK j \in 0 .. l1 + 1 : EndsAt(j, 0, l1 + 1, T)
  BY <1>0, EndExists
<1>5. from[0] = r[j]
  <2> DEFINE h == l1 + 1
  <2>1. h \in Int /\ 0 \in 0 .. h /\ Walked(from, 0, h, T, r) /\ j \in 0 .. h /\ EndsAt(j, 0, h, T)
    BY <1>0, <1>3, <1>4
  <2> HIDE DEF h
  <2> QED BY <2>1, WalkFacts
<1>6. Result(from[0], 0, l1 + 1, T, r)
  BY <1>4, <1>5 DEF Result
<1> QED BY <1>1, <1>6 DEF T, r

-----------------------------------------------------------------------------
(* What they return *)

\* memchr returns the least place of the byte.
LEMMA MemchrReads ==
  ASSUME NEW a \in Addrs, NEW n \in 0 .. MemSize - a, NEW c
  PROVE  memchr(a, c, n) = Least({b \in a .. a + n - 1 : mem[b] = c})
<1> DEFINE T == {i \in 0 .. n - 1 : mem[a + i] = c}
           U == {b \in a .. a + n - 1 : mem[b] = c}
<1>0. a \in Nat /\ n \in Nat
  BY CStringAssumption DEF Addrs
<1> DEFINE r == [i \in 0 .. n |-> IF i = n THEN NullPtr ELSE a + i]
<1>1. PICK j \in 0 .. n : EndsAt(j, 0, n, T) /\ memchr(a, c, n) = r[j]
  <2>1. Result(memchr(a, c, n), 0, n, T, r)
    BY <1>0, MemchrWalk
  <2> HIDE DEF T, r
  <2> QED BY <2>1 DEF Result
<1>2. memchr(a, c, n) = IF j = n THEN NullPtr ELSE a + j
  BY <1>1
<1>3. \A k \in 0 .. j - 1 : k \notin T
  BY <1>1 DEF EndsAt
<1>4. U \in SUBSET Nat
  BY <1>0
<1>5. ASSUME NEW b \in U PROVE b - a \in T /\ b - a \in 0 .. n - 1 /\ b \in Nat
  <2>1. b \in a .. a + n - 1 /\ mem[b] = c
    OBVIOUS
  <2>2. b - a \in 0 .. n - 1 /\ a + (b - a) = b /\ b \in Nat
    BY <1>0, <2>1
  <2> QED BY <2>1, <2>2
<1>6. ASSUME NEW b \in U PROVE a + j <= b
  <2>1. b - a \notin 0 .. j - 1
    <3> HIDE DEF T, U
    <3> QED BY <1>3, <1>5
  <2>2. b - a \in 0 .. n - 1 /\ b \in Nat
    BY <1>5
  <2> HIDE DEF T, U
  <2> QED BY <1>0, <1>1, <2>1, <2>2
<1>7. CASE j = n
  <2>1. U = {}
    <3>1. ASSUME NEW b \in U PROVE FALSE
      <4>1. b \in a .. a + n - 1 /\ a + n <= b
        BY <1>6, <1>7
      <4> HIDE DEF T, U
      <4> QED BY <1>0, <4>1
    <3> QED BY <3>1
  <2> HIDE DEF T, U
  <2>2. Least(U) = NullPtr
    BY <1>4, <2>1, LeastFacts
  <2> QED BY <1>2, <1>7, <2>2 DEF U
<1>8. CASE j # n
  <2>1. j \in 0 .. n - 1 /\ mem[a + j] = c
    BY <1>1, <1>8 DEF EndsAt
  <2>2. a + j \in a .. a + n - 1
    BY <1>0, <2>1
  <2>3. a + j \in U
    BY <2>1, <2>2
  <2> HIDE DEF T, U
  <2>4. Least(U) = a + j
    BY <1>4, <1>6, <2>3, LeastFacts
  <2> QED BY <1>2, <1>8, <2>4 DEF U
<1> QED BY <1>7, <1>8

\* strchr returns the least place of the character.
LEMMA StrchrReads ==
  ASSUME NEW a \in Addrs, IsString(a), NEW c
  PROVE  strchr(a, c) = Least({b \in a .. a + strlen(a) : mem[b] = c})
<1> DEFINE T == {b \in a .. MemSize - 1 : mem[b] = c \/ mem[b] = 0}
           e == StrEnd(mem, a)
           U == {b \in a .. e : mem[b] = c}
           V == {b \in a .. a + strlen(a) : mem[b] = c}
<1>0. a \in Nat /\ MemSize \in Nat
  BY CStringAssumption DEF Addrs
<1>1. e \in a .. MemSize - 1 /\ mem[e] = 0 /\ \A k \in a .. e - 1 : mem[k] # 0
  BY StrEndFacts DEF IsString, IsEnd
<1>2. a + strlen(a) = e
  BY <1>0, <1>1 DEF strlen
<1>3. V = U
  BY <1>2
<1> DEFINE r == [b \in a .. MemSize |-> IF b = MemSize THEN PastEnd ELSE IF mem[b] = c THEN b ELSE NullPtr]
<1>4. PICK j \in a .. MemSize : EndsAt(j, a, MemSize, T) /\ strchr(a, c) = r[j]
  <2>1. Result(strchr(a, c), a, MemSize, T, r)
    BY StrchrWalk
  <2> HIDE DEF T, r
  <2> QED BY <2>1 DEF Result
<1>5. strchr(a, c) = IF j = MemSize THEN PastEnd ELSE IF mem[j] = c THEN j ELSE NullPtr
  BY <1>4
<1> HIDE DEF e
<1>6. e \in T
  BY <1>1
<1>7. (j = MemSize \/ j \in T) /\ \A k \in a .. j - 1 : k \notin T
  BY <1>4 DEF EndsAt
<1>8. j <= e
  <2> HIDE DEF T
  <2>1. e \notin a .. j - 1
    BY <1>6, <1>7
  <2> QED BY <1>0, <1>1, <1>4, <2>1
<1>9. j # MemSize /\ j \in a .. e /\ j \in Nat
  BY <1>0, <1>1, <1>4, <1>8
<1>10. U \in SUBSET Nat
  BY <1>0, <1>1
<1>11. ASSUME NEW b \in U PROVE j <= b
  <2>1. b \in a .. e /\ mem[b] = c
    OBVIOUS
  <2>2. b \in a .. MemSize - 1
    BY <1>0, <1>1, <2>1
  <2>3. b \in T
    BY <2>1, <2>2
  <2> HIDE DEF T, U
  <2>4. b \notin a .. j - 1
    BY <1>7, <2>3
  <2> QED BY <1>0, <1>1, <1>9, <2>1, <2>4
<1>12. CASE mem[j] = c
  <2>1. j \in U
    BY <1>9, <1>12
  <2> HIDE DEF T, U
  <2>2. Least(U) = j
    BY <1>10, <1>11, <2>1, LeastFacts
  <2> HIDE DEF V
  <2>3. strchr(a, c) = Least(V)
    BY <1>3, <1>5, <1>9, <1>12, <2>2
  <2> QED BY <2>3 DEF V
<1>13. CASE mem[j] # c
  <2>1. mem[j] = 0
    BY <1>7, <1>9, <1>13
  <2>2. j = e
    <3>1. j \notin a .. e - 1
      BY <1>1, <2>1
    <3> QED BY <1>0, <1>1, <1>9, <3>1
  <2>3. U = {}
    <3>1. ASSUME NEW b \in U PROVE FALSE
      <4>1. b \in a .. e /\ mem[b] = c /\ e <= b
        BY <1>11, <2>2
      <4>2. b = e
        <5> HIDE DEF U, T
        <5> QED BY <1>0, <1>1, <4>1
      <4> QED BY <1>13, <2>2, <4>1, <4>2
    <3> QED BY <3>1
  <2> HIDE DEF T, U
  <2>4. Least(U) = NullPtr
    BY <1>10, <2>3, LeastFacts
  <2> HIDE DEF V
  <2>5. strchr(a, c) = Least(V)
    BY <1>3, <1>5, <1>9, <1>13, <2>4
  <2> QED BY <2>5 DEF V
<1> QED BY <1>12, <1>13

\* memcmp returns 0 for equal bytes only.
LEMMA MemcmpReads ==
  ASSUME mem \in [Addrs -> Bytes], NEW a \in Nat, NEW b \in Nat, NEW n \in Nat,
         Fits8(a, n), Fits8(b, n)
  PROVE  memcmp(a, b, n) = 0 <=> \A i \in 0 .. n - 1 : mem[a + i] = mem[b + i]
<1> DEFINE T == {i \in 0 .. n - 1 : mem[a + i] # mem[b + i]}
<1>0. MemSize \in Nat /\ Bytes \subseteq Nat /\ a + n <= MemSize /\ b + n <= MemSize
  BY CStringAssumption DEF Fits8
<1> DEFINE r == [i \in 0 .. n |-> IF i = n THEN 0 ELSE mem[a + i] - mem[b + i]]
<1>1. PICK j \in 0 .. n : EndsAt(j, 0, n, T) /\ memcmp(a, b, n) = r[j]
  <2>1. Result(memcmp(a, b, n), 0, n, T, r)
    BY MemcmpWalk
  <2> HIDE DEF T, r
  <2> QED BY <2>1 DEF Result
<1>2. memcmp(a, b, n) = IF j = n THEN 0 ELSE mem[a + j] - mem[b + j]
  BY <1>1
<1>3. (j = n \/ j \in T) /\ \A k \in 0 .. j - 1 : k \notin T
  BY <1>1 DEF EndsAt
<1>4. CASE j = n
  BY <1>2, <1>3, <1>4
<1>5. CASE j # n
  <2>1. j \in 0 .. n - 1 /\ mem[a + j] # mem[b + j]
    BY <1>3, <1>5
  <2>2. a + j \in Addrs /\ b + j \in Addrs
    BY <1>0, <2>1 DEF Addrs
  <2>3. mem[a + j] \in Nat /\ mem[b + j] \in Nat
    BY <1>0, <2>2
  <2>4. mem[a + j] - mem[b + j] # 0
    <3> DEFINE x == mem[a + j]
               y == mem[b + j]
    <3>1. x \in Nat /\ y \in Nat /\ x # y
      BY <2>1, <2>3
    <3> HIDE DEF x, y
    <3>2. x - y # 0
      BY <3>1
    <3> QED BY <3>2 DEF x, y
  <2> QED BY <1>2, <1>5, <2>1, <2>4
<1> QED BY <1>4, <1>5

\* The byte at place i of a string, 0 behind its end.
At(s, i) == IF i <= Len(s) THEN s[i] ELSE 0

\* The order of two strings is that of their first different bytes.
LEMMA OrderFacts ==
  ASSUME NEW s, NEW t, Len(s) \in Nat, Len(t) \in Nat
  PROVE  /\ (\A i \in 1 .. Len(s) + Len(t) + 1 : At(s, i) = At(t, i)) => Order(s, t) = 0
         /\ \A k \in 1 .. Len(s) + Len(t) + 1 :
              (At(s, k) # At(t, k) /\ \A i \in 1 .. k - 1 : At(s, i) = At(t, i))
                => Order(s, t) = Sign(At(s, k) - At(t, k))
<1> DEFINE N == Len(s) + Len(t) + 1
           differ == {i \in 1 .. N : At(s, i) # At(t, i)}
           start == CHOOSE i \in differ : \A j \in differ : i <= j
<1>1. Order(s, t) = IF differ = {} THEN 0 ELSE Sign(At(s, start) - At(t, start))
  BY DEF Order, At
<1>2. N \in Nat
  OBVIOUS
<1> HIDE DEF N
<1>3. ASSUME \A i \in 1 .. N : At(s, i) = At(t, i) PROVE Order(s, t) = 0
  <2>1. differ = {}
    BY <1>3
  <2> QED BY <1>1, <2>1
<1>4. ASSUME NEW k \in 1 .. N, At(s, k) # At(t, k), \A i \in 1 .. k - 1 : At(s, i) = At(t, i)
      PROVE  Order(s, t) = Sign(At(s, k) - At(t, k))
  <2>1. k \in differ
    BY <1>4
  <2>2. ASSUME NEW j \in differ PROVE k <= j /\ j \in Int
    <3>1. j \in 1 .. N /\ At(s, j) # At(t, j)
      OBVIOUS
    <3>2. j \notin 1 .. k - 1
      BY <1>4, <3>1
    <3> HIDE DEF differ
    <3> QED BY <1>2, <1>4, <3>1, <3>2
  <2> HIDE DEF differ
  <2>3. \A i \in differ : (\A j \in differ : i <= j) => i = k
    BY <1>2, <1>4, <2>1, <2>2
  <2>4. start = k
    BY <2>1, <2>2, <2>3
  <2> HIDE DEF start
  <2> QED BY <1>1, <2>1, <2>4
<1> QED BY <1>3, <1>4 DEF N

\* At most the first n bytes of a string.
Cut(s, n) == SubSeq(s, 1, IF n < Len(s) THEN n ELSE Len(s))

\* The first n characters of a string.
LEMMA CutFacts ==
  ASSUME mem \in [Addrs -> Bytes], NEW a \in Addrs, NEW e, IsEnd(mem, a, e), NEW n \in Nat
  PROVE  /\ Len(Cut(Str(mem, a), n)) = IF n < e - a THEN n ELSE e - a
         /\ e - a \in Nat
         /\ \A i \in Nat \ {0} : At(Cut(Str(mem, a), n), i) = IF i <= n /\ i <= e - a THEN mem[a + i - 1] ELSE 0
         /\ n >= e - a => Cut(Str(mem, a), n) = Str(mem, a)
<1> DEFINE s == Str(mem, a)
           l == e - a
           c == IF n < l THEN n ELSE l
           u == SubSeq(s, 1, c)
<1>1. l \in Nat /\ s \in Seq(Bytes) /\ Len(s) = l /\ \A i \in 1 .. l : s[i] = mem[a + i - 1]
  <2>1. e - a \in 0 .. MemSize /\ MemSize \in Nat
    BY StrFacts, CStringAssumption
  <2>2. e - a \in Nat
    BY <2>1
  <2> QED BY <2>2, StrFacts
<1>2. Cut(s, n) = u
  BY <1>1 DEF Cut
<1> HIDE DEF s, l
<1>3. c \in Nat /\ c <= l /\ \A i \in Nat \ {0} : i <= c <=> (i <= n /\ i <= l)
  BY <1>1
<1>4. c = IF n < l THEN n ELSE l
  OBVIOUS
<1> HIDE DEF c
<1>5. \A i \in 1 .. c : s[i] \in Bytes /\ i \in 1 .. l
  <2>1. \A i \in 1 .. c : i \in 1 .. l
    BY <1>1, <1>3
  <2> QED BY <1>1, <2>1
<1>6. Len(u) = c /\ \A i \in 1 .. c : u[i] = s[i]
  <2>1. /\ Len(u) = IF 1 <= c THEN c - 1 + 1 ELSE 0
        /\ \A i \in 1 .. c - 1 + 1 : u[i] = s[1 + i - 1]
    <3>1. 1 \in Int /\ c \in Int
      BY <1>3
    <3> QED BY <1>5, <3>1, SubSeqProperties
  <2>2. c - 1 + 1 = c /\ (~(1 <= c) => c = 0) /\ \A i \in 1 .. c : 1 + i - 1 = i
    BY <1>3
  <2> HIDE DEF u
  <2> QED BY <2>1, <2>2
<1>7. ASSUME NEW i \in Nat \ {0} PROVE At(u, i) = IF i <= n /\ i <= l THEN mem[a + i - 1] ELSE 0
  <2>1. CASE i <= c
    <3>1. i \in 1 .. c
      BY <2>1, <1>3
    <3> HIDE DEF u
    <3> QED BY <1>1, <1>3, <1>5, <1>6, <2>1, <3>1 DEF At
  <2>2. CASE ~(i <= c)
    <3> HIDE DEF u
    <3> QED BY <1>3, <1>6, <2>2 DEF At
  <2> QED BY <2>1, <2>2
<1>8. n >= l => u = s
  <2>1. n >= l => c = Len(s)
    BY <1>1, <1>4
  <2> QED BY <1>1, <2>1, SubSeqFull
<1> HIDE DEF u
<1> QED BY <1>1, <1>2, <1>4, <1>6, <1>7, <1>8 DEF s, l

\* strncmp compares the first n characters.
LEMMA StrncmpReads ==
  ASSUME mem \in [Addrs -> Bytes], NEW a \in Addrs, NEW b \in Addrs, IsString(a), IsString(b),
         NEW n \in Nat
  PROVE  Sign(strncmp(a, b, n)) = Order(Cut(Str(mem, a), n), Cut(Str(mem, b), n))
<1> DEFINE ea == StrEnd(mem, a)
           eb == StrEnd(mem, b)
           la == ea - a
           lb == eb - b
           s == Cut(Str(mem, a), n)
           t == Cut(Str(mem, b), n)
           T == {i \in 0 .. n - 1 : mem[a + i] # mem[b + i] \/ mem[a + i] = 0}
           r == [i \in 0 .. n |-> IF i = n THEN 0 ELSE mem[a + i] - mem[b + i]]
<1>0. a \in Nat /\ b \in Nat /\ MemSize \in Nat
  BY CStringAssumption DEF Addrs
<1>1. IsEnd(mem, a, ea) /\ IsEnd(mem, b, eb)
  BY StrEndFacts DEF IsString
<1>2. /\ la \in Nat /\ mem[a + la] = 0 /\ \A k \in 0 .. la - 1 : mem[a + k] # 0
      /\ lb \in Nat /\ mem[b + lb] = 0 /\ \A k \in 0 .. lb - 1 : mem[b + k] # 0
  <2>1. /\ ea \in a .. MemSize - 1 /\ mem[ea] = 0 /\ \A k \in a .. ea - 1 : mem[k] # 0
        /\ eb \in b .. MemSize - 1 /\ mem[eb] = 0 /\ \A k \in b .. eb - 1 : mem[k] # 0
    BY <1>1 DEF IsEnd
  <2> HIDE DEF ea, eb
  <2>2. /\ ea - a \in Nat /\ a + (ea - a) = ea /\ \A k \in 0 .. (ea - a) - 1 : a + k \in a .. ea - 1
        /\ eb - b \in Nat /\ b + (eb - b) = eb /\ \A k \in 0 .. (eb - b) - 1 : b + k \in b .. eb - 1
    BY <1>0, <2>1
  <2> QED BY <2>1, <2>2
<1>3. /\ Len(s) = (IF n < la THEN n ELSE la) /\ Len(t) = (IF n < lb THEN n ELSE lb)
      /\ \A i \in Nat \ {0} : At(s, i) = IF i <= n /\ i <= la THEN mem[a + i - 1] ELSE 0
      /\ \A i \in Nat \ {0} : At(t, i) = IF i <= n /\ i <= lb THEN mem[b + i - 1] ELSE 0
  BY <1>1, CutFacts
<1>4. PICK j \in 0 .. n : EndsAt(j, 0, n, T) /\ strncmp(a, b, n) = r[j]
  <2>1. Result(strncmp(a, b, n), 0, n, T, r)
    BY StrncmpWalk
  <2> HIDE DEF T, r
  <2> QED BY <2>1 DEF Result
<1>5. strncmp(a, b, n) = IF j = n THEN 0 ELSE mem[a + j] - mem[b + j]
  BY <1>4
<1>6. /\ j = n \/ mem[a + j] # mem[b + j] \/ mem[a + j] = 0
      /\ \A k \in 0 .. j - 1 : mem[a + k] = mem[b + k] /\ mem[a + k] # 0
  <2>1. (j = n \/ j \in T) /\ \A k \in 0 .. j - 1 : k \notin T
    BY <1>4 DEF EndsAt
  <2>2. \A k \in 0 .. j - 1 : k \in 0 .. n - 1
    BY <1>4
  <2> QED BY <2>1, <2>2
<1> HIDE DEF ea, eb, la, lb, s, t, T, r
<1>7. j \in Nat /\ j <= n /\ j <= la /\ j <= lb
  <2>1. la \notin 0 .. j - 1 /\ lb \notin 0 .. j - 1
    BY <1>2, <1>6
  <2> QED BY <1>2, <1>4, <2>1
<1>8. Len(s) \in Nat /\ Len(t) \in Nat /\ Len(s) >= j /\ Len(t) >= j
  BY <1>2, <1>3, <1>7
\* Up to the place where the loop ends the strings are the same.
<1>9. ASSUME NEW i \in 1 .. j PROVE At(s, i) = At(t, i)
  <2>1. i \in Nat \ {0} /\ i <= n /\ i <= la /\ i <= lb /\ i - 1 \in 0 .. j - 1
        /\ a + i - 1 = a + (i - 1) /\ b + i - 1 = b + (i - 1)
    BY <1>0, <1>2, <1>7
  <2>2. At(s, i) = mem[a + (i - 1)] /\ At(t, i) = mem[b + (i - 1)]
    BY <1>3, <2>1
  <2> QED BY <1>6, <2>1, <2>2
<1>10. CASE j = n \/ (mem[a + j] = 0 /\ mem[b + j] = 0)
  <2>1. Len(s) = j /\ Len(t) = j
    <3>1. CASE j = n
      BY <1>2, <1>3, <1>7, <3>1
    <3>2. CASE mem[a + j] = 0 /\ mem[b + j] = 0
      <4>1. j \notin 0 .. la - 1 /\ j \notin 0 .. lb - 1
        BY <1>2, <3>2
      <4>2. j = la /\ j = lb
        BY <1>2, <1>7, <4>1
      <4> QED BY <1>2, <1>3, <1>7, <4>2
    <3> QED BY <1>10, <3>1, <3>2
  <2>2. ASSUME NEW i \in 1 .. Len(s) + Len(t) + 1 PROVE At(s, i) = At(t, i)
    <3>1. CASE i \in 1 .. j
      BY <1>9, <3>1
    <3>2. CASE i \notin 1 .. j
      <4>1. ~(i <= j)
        BY <1>7, <1>8, <3>2
      <4> QED BY <2>1, <4>1 DEF At
    <3> QED BY <3>1, <3>2
  <2>3. Order(s, t) = 0
    BY <1>8, <2>2, OrderFacts
  <2>4. strncmp(a, b, n) = 0
    BY <1>5, <1>10
  <2>5. Sign(strncmp(a, b, n)) = 0
    BY <2>4 DEF Sign
  <2> QED BY <2>3, <2>5 DEF s, t
<1>11. CASE j # n /\ mem[a + j] # mem[b + j]
  <2>1. j + 1 \in Nat \ {0} /\ j + 1 <= n /\ a + (j + 1) - 1 = a + j /\ b + (j + 1) - 1 = b + j
        /\ j + 1 \in 1 .. Len(s) + Len(t) + 1 /\ (j + 1) - 1 = j
    BY <1>0, <1>7, <1>8, <1>11
  <2>2. At(s, j + 1) = mem[a + j]
    <3>1. ~(j + 1 <= la) => j = la
      BY <1>2, <1>7
    <3> QED BY <1>2, <1>3, <2>1, <3>1
  <2>3. At(t, j + 1) = mem[b + j]
    <3>1. ~(j + 1 <= lb) => j = lb
      BY <1>2, <1>7
    <3> QED BY <1>2, <1>3, <2>1, <3>1
  <2>4. Order(s, t) = Sign(At(s, j + 1) - At(t, j + 1))
    <3> DEFINE k == j + 1
    <3>1. k \in 1 .. Len(s) + Len(t) + 1 /\ At(s, k) # At(t, k)
      BY <1>11, <2>1, <2>2, <2>3
    <3>2. \A i \in 1 .. k - 1 : At(s, i) = At(t, i)
      BY <1>9, <2>1
    <3> HIDE DEF k
    <3>3. Order(s, t) = Sign(At(s, k) - At(t, k))
      BY <1>8, <3>1, <3>2, OrderFacts
    <3> QED BY <3>3 DEF k
  <2> QED BY <1>5, <1>11, <2>2, <2>3, <2>4 DEF s, t
<1> QED BY <1>6, <1>10, <1>11

\* strstr returns the least place of the substring.
LEMMA StrstrReads ==
  ASSUME mem \in [Addrs -> Bytes], NEW a \in Addrs, NEW b \in Addrs, IsString(a), IsString(b)
  PROVE  strstr(a, b) = Least({p \in a .. a + strlen(a) - strlen(b) :
                                 \A i \in 0 .. strlen(b) - 1 : mem[p + i] = mem[b + i]})
<1> DEFINE la == strlen(a)
           lb == strlen(b)
           Here(p) == \A i \in 0 .. lb - 1 : mem[p + i] = mem[b + i]
           U == {p \in a .. a + la - lb : Here(p)}
<1>0. a \in Nat /\ b \in Nat /\ MemSize \in Nat
  BY CStringAssumption DEF Addrs
<1>1. la \in Nat /\ lb \in Nat /\ a + la < MemSize /\ b + lb < MemSize
  <2>1. StrEnd(mem, a) \in a .. MemSize - 1 /\ StrEnd(mem, b) \in b .. MemSize - 1
    BY StrEndFacts DEF IsString, IsEnd
  <2> QED BY <1>0, <2>1 DEF strlen
<1>2. strstr(a, b) = Least(U)
  <2>1. CASE lb = 0
    <3>1. strstr(a, b) = a
      BY <2>1 DEF strstr
    <3> HIDE DEF la
    <3>2. a \in a .. a + la - lb /\ 0 .. lb - 1 = {} /\ a .. a + la - lb \subseteq Nat
      BY <1>0, <1>1, <2>1
    <3> HIDE DEF lb
    <3>3. a \in U /\ U \in SUBSET Nat
      BY <3>2
    <3>4. \A p \in U : a <= p
      BY <1>0, <1>1
    <3> HIDE DEF U
    <3>5. Least(U) = a
      BY <3>3, <3>4, LeastFacts
    <3> QED BY <3>1, <3>5
  <2>2. CASE lb # 0
    <3> DEFINE T == {i \in 0 .. la : la - i < lb \/ memcmp(a + i, b, lb) = 0}
               r == [i \in 0 .. la + 1 |-> IF la - i < lb THEN NullPtr ELSE a + i]
    <3>1. Result(strstr(a, b), 0, la + 1, T, r)
      BY <1>1, <2>2, StrstrWalk
    <3> HIDE DEF la, lb
    <3>2. PICK j \in 0 .. la + 1 : EndsAt(j, 0, la + 1, T) /\ strstr(a, b) = r[j]
      <4> HIDE DEF T, r
      <4> QED BY <3>1 DEF Result
    <3>3. strstr(a, b) = IF la - j < lb THEN NullPtr ELSE a + j
      BY <3>2
    <3>4. (j = la + 1 \/ j \in T) /\ \A k \in 0 .. j - 1 : k \notin T
      BY <3>2 DEF EndsAt
    \* Where the rest is long enough, memcmp says whether the string is here.
    <3>5. ASSUME NEW k \in 0 .. la - lb PROVE memcmp(a + k, b, lb) = 0 <=> Here(a + k)
      <4>1. a + k \in Nat /\ (a + k) + lb <= MemSize /\ b + lb <= MemSize
        BY <1>0, <1>1
      <4>2. Fits8(a + k, lb) /\ Fits8(b, lb)
        BY <4>1 DEF Fits8
      <4> DEFINE p == a + k
      <4>3. p \in Nat /\ Fits8(p, lb)
        BY <4>1, <4>2
      <4> HIDE DEF p
      <4>4. memcmp(p, b, lb) = 0 <=> Here(p)
        BY <1>0, <1>1, <4>2, <4>3, MemcmpReads, ZenonT(60), SMTT(60)
      <4> QED BY <4>4 DEF p
    <3> HIDE DEF Here
    <3>6. ASSUME NEW p \in U PROVE a + j <= p /\ p \in a .. a + la - lb
      <4>1. p \in a .. a + la - lb /\ Here(p)
        OBVIOUS
      <4>2. p - a \in 0 .. la - lb /\ a + (p - a) = p /\ p - a \in 0 .. la
        BY <1>0, <1>1, <4>1
      <4>3. memcmp(a + (p - a), b, lb) = 0
        BY <3>5, <4>1, <4>2
      <4>4. p - a \in T
        BY <4>2, <4>3
      <4> HIDE DEF T, U
      <4>5. p - a \notin 0 .. j - 1
        BY <3>4, <4>4
      <4> QED BY <1>0, <1>1, <3>2, <4>1, <4>2, <4>5
    <3>7. U \in SUBSET Nat
      BY <1>0, <1>1
    <3>8. CASE la - j < lb
      <4>1. U = {}
        <5>1. ASSUME NEW p \in U PROVE FALSE
          <6>1. a + j <= p /\ p \in a .. a + la - lb
            BY <3>6
          <6> HIDE DEF T, U
          <6> QED BY <1>0, <1>1, <3>2, <3>8, <6>1
        <5> QED BY <5>1
      <4> HIDE DEF T, U
      <4>2. Least(U) = NullPtr
        BY <3>7, <4>1, LeastFacts
      <4> QED BY <3>3, <3>8, <4>2
    <3>9. CASE ~(la - j < lb)
      <4>1. j \in 0 .. la - lb /\ j # la + 1 /\ a + j \in a .. a + la - lb
        BY <1>0, <1>1, <2>2, <3>2, <3>9
      <4>2. j \in T
        BY <3>4, <4>1
      <4>3. memcmp(a + j, b, lb) = 0
        BY <3>9, <4>2
      <4>4. Here(a + j)
        BY <3>5, <4>1, <4>3
      <4>5. a + j \in U
        BY <4>1, <4>4
      <4> HIDE DEF T, U
      <4>6. Least(U) = a + j
        BY <3>6, <3>7, <4>5, LeastFacts
      <4> QED BY <3>3, <3>9, <4>6
    <3> QED BY <3>8, <3>9
  <2> QED BY <2>1, <2>2
<1> QED BY <1>2

\* In every memory and after every call: the functions that search and compare
\* agree with the strings and bytes they look at.
LEMMA AlwaysReads == StringSpec => []StringReads
<1>1. StringInv => StringReads
  <2> SUFFICES ASSUME mem \in [Addrs -> Bytes] PROVE StringReads
    BY DEF StringInv
  <2>0. MemSize \in Nat
    BY CStringAssumption
  <2>1. ASSUME NEW a \in Addrs, NEW n \in 0 .. MemSize - a, NEW c \in Bytes
        PROVE  memchr(a, c, n) = Least({b \in a .. a + n - 1 : mem[b] = c})
    BY MemchrReads
  <2>2. ASSUME NEW a \in Addrs, IsString(a)
        PROVE  /\ strlen(a) = Len(Str(mem, a)) /\ strlen(a) \in 0 .. MemSize
               /\ \A c \in Bytes : strchr(a, c) = Least({b \in a .. a + strlen(a) : mem[b] = c})
    <3>1. IsEnd(mem, a, StrEnd(mem, a))
      BY <2>2, StrEndFacts DEF IsString
    <3>2. Len(Str(mem, a)) = StrEnd(mem, a) - a /\ StrEnd(mem, a) - a \in 0 .. MemSize
      BY <3>1, StrFacts
    <3> QED BY <2>2, <3>2, StrchrReads DEF strlen
  <2>3. ASSUME NEW a \in Addrs, IsString(a), NEW b \in Addrs, IsString(b)
        PROVE  /\ Sign(strcmp(a, b)) = Order(Str(mem, a), Str(mem, b))
               /\ \A n \in 0 .. MemSize :
                    LET cut(s) == SubSeq(s, 1, IF n < Len(s) THEN n ELSE Len(s))
                    IN Sign(strncmp(a, b, n)) = Order(cut(Str(mem, a)), cut(Str(mem, b)))
               /\ strstr(a, b) =
                    Least({p \in a .. a + strlen(a) - strlen(b) :
                             \A i \in 0 .. strlen(b) - 1 : mem[p + i] = mem[b + i]})
    <3>1. ASSUME NEW n \in Nat
          PROVE  Sign(strncmp(a, b, n)) = Order(Cut(Str(mem, a), n), Cut(Str(mem, b), n))
      BY <2>3, StrncmpReads
    <3>2. IsEnd(mem, a, StrEnd(mem, a)) /\ IsEnd(mem, b, StrEnd(mem, b))
      BY <2>3, StrEndFacts DEF IsString
    <3>3. /\ StrEnd(mem, a) - a \in 0 .. MemSize /\ StrEnd(mem, b) - b \in 0 .. MemSize
      BY <3>2, StrFacts
    <3>4. /\ MemSize + 1 \in Nat /\ MemSize + 1 >= StrEnd(mem, a) - a
          /\ MemSize + 1 >= StrEnd(mem, b) - b
      BY <2>0, <3>3
    <3>5. Cut(Str(mem, a), MemSize + 1) = Str(mem, a) /\ Cut(Str(mem, b), MemSize + 1) = Str(mem, b)
      BY <3>2, <3>4, CutFacts
    <3>6. Sign(strcmp(a, b)) = Order(Str(mem, a), Str(mem, b))
      BY <3>1, <3>4, <3>5 DEF strcmp
    <3>7. \A n \in 0 .. MemSize : n \in Nat
      BY <2>0
    <3>8. \A n \in 0 .. MemSize :
            LET cut(s) == SubSeq(s, 1, IF n < Len(s) THEN n ELSE Len(s))
            IN Sign(strncmp(a, b, n)) = Order(cut(Str(mem, a)), cut(Str(mem, b)))
      BY <3>1, <3>7, Zenon DEF Cut
    <3>9. strstr(a, b) =
            Least({p \in a .. a + strlen(a) - strlen(b) :
                     \A i \in 0 .. strlen(b) - 1 : mem[p + i] = mem[b + i]})
      BY <2>3, StrstrReads
    <3> QED BY <3>6, <3>8, <3>9
  <2> QED BY <2>1, <2>2, <2>3, Zenon DEF StringReads
<1> QED BY <1>1, StringInvariant, PTL

\* For memories of any size and after every sequence of calls: string.c writes what
\* its functions promise and nothing else, and its searches and comparisons agree
\* with the strings and bytes they look at.
THEOREM StringsAlwaysAgree == StringSpec => []StringsAgree
<1>1. StringWrites /\ StringReads => StringsAgree
  BY DEF StringsAgree
<1> QED BY <1>1, AlwaysWritten, AlwaysReads, PTL

-----------------------------------------------------------------------------
(* printf: recursion from a number to smaller ones *)

\* f solves the recursion for the numbers up to k: at 0 it is z, at m the value of H
\* for what f is at the smaller number G[m].
Solves(f, k, z, G, H) ==
  f = [m \in 0 .. k |-> IF m = 0 THEN z ELSE H[<<f[G[m]], m>>]]

\* Such a recursion has a solution.
LEMMA Solvable ==
  ASSUME NEW n \in Nat, NEW z, NEW G \in [1 .. n -> Nat], \A m \in 1 .. n : G[m] < m, NEW H
  PROVE  \E f : Solves(f, n, z, G, H)
<1> DEFINE bad == {k \in 0 .. n : ~\E f : Solves(f, k, z, G, H)}
<1>1. \E f : Solves(f, 0, z, G, H)
  <2> DEFINE f == [m \in 0 .. 0 |-> z]
  <2>1. f = [m \in 0 .. 0 |-> IF m = 0 THEN z ELSE H[<<f[G[m]], m>>]]
    OBVIOUS
  <2> HIDE DEF f
  <2> QED BY <2>1 DEF Solves
<1>2. ASSUME NEW k \in 1 .. n, NEW f, Solves(f, k - 1, z, G, H)
      PROVE  \E g : Solves(g, k, z, G, H)
  <2> DEFINE g == [m \in 0 .. k |-> IF m = k THEN H[<<f[G[k]], k>>] ELSE f[m]]
             B(m) == IF m = 0 THEN z ELSE H[<<g[G[m]], m>>]
  <2>0. k \in Nat /\ k # 0
    OBVIOUS
  <2>1. \A m \in 0 .. k - 1 : f[m] = IF m = 0 THEN z ELSE H[<<f[G[m]], m>>]
    BY <1>2 DEF Solves
  <2>2. \A m \in 1 .. k : G[m] \in 0 .. k /\ G[m] # k
    <3> SUFFICES ASSUME NEW m \in 1 .. k PROVE G[m] \in 0 .. k /\ G[m] # k
      OBVIOUS
    <3>1. m \in 1 .. n /\ m <= k
      OBVIOUS
    <3>2. G[m] \in Nat /\ G[m] < m
      BY <3>1
    <3> QED BY <3>1, <3>2
  <2>3. \A m \in 1 .. k : g[G[m]] = f[G[m]]
    BY <2>2
  <2>4. \A m \in 0 .. k : m # 0 => m \in 1 .. k
    OBVIOUS
  <2>5. \A m \in 0 .. k : m # k => m \in 0 .. k - 1
    OBVIOUS
  <2>6. ASSUME NEW m \in 0 .. k
        PROVE  (IF m = k THEN H[<<f[G[k]], k>>] ELSE f[m]) = B(m)
    <3>1. m # 0 => g[G[m]] = f[G[m]]
      BY <2>3, <2>4
    <3> HIDE DEF g
    <3>2. CASE m = k
      BY <2>0, <3>1, <3>2
    <3>3. CASE m # k
      BY <2>1, <2>5, <3>1, <3>3
    <3> QED BY <3>2, <3>3
  <2>7. g = [m \in 0 .. k |-> B(m)]
    <3> HIDE DEF B
    <3> QED BY <2>6
  <2> HIDE DEF g
  <2> QED BY <2>7 DEF Solves
<1>3. ASSUME NEW k \in bad PROVE \E l \in bad : ~(k <= l)
  <2>1. k \in 0 .. n /\ ~\E f : Solves(f, k, z, G, H)
    OBVIOUS
  <2>2. k # 0
    BY <1>1, <2>1
  <2>3. k \in 1 .. n /\ k - 1 \in 0 .. n /\ ~(k <= k - 1)
    BY <2>1, <2>2
  <2>4. ~\E f : Solves(f, k - 1, z, G, H)
    BY <1>2, <2>1, <2>3, Zenon
  <2>5. k - 1 \in bad
    BY <2>3, <2>4
  <2> HIDE DEF bad
  <2> QED BY <2>3, <2>5
<1>4. bad \in SUBSET Nat
  OBVIOUS
<1>5. bad = {}
  <2> HIDE DEF bad
  <2> QED BY <1>3, <1>4, LeastElement
<1>6. n \in 0 .. n
  OBVIOUS
<1> QED BY <1>5, <1>6

\* If z and the values of H are in S, so are the values of a solution.
LEMMA SolutionType ==
  ASSUME NEW n \in Nat, NEW S, NEW z \in S, NEW G \in [1 .. n -> Nat], \A m \in 1 .. n : G[m] < m,
         NEW H, \A x \in S, m \in 1 .. n : H[<<x, m>>] \in S,
         NEW f, Solves(f, n, z, G, H)
  PROVE  \A m \in 0 .. n : f[m] \in S
<1> DEFINE bad == {m \in 0 .. n : f[m] \notin S}
<1>1. \A m \in 0 .. n : f[m] = IF m = 0 THEN z ELSE H[<<f[G[m]], m>>]
  BY DEF Solves
<1>2. ASSUME NEW m \in bad PROVE \E l \in bad : ~(m <= l)
  <2>1. m \in 0 .. n /\ f[m] \notin S
    OBVIOUS
  <2>2. m # 0
    BY <1>1, <2>1
  <2>3. m \in 1 .. n
    BY <2>1, <2>2
  <2>4. G[m] \in Nat /\ G[m] < m
    BY <2>3
  <2>5. G[m] \in 0 .. n /\ ~(m <= G[m])
    BY <2>3, <2>4
  <2>6. f[G[m]] \notin S
    BY <1>1, <2>1, <2>2, <2>3
  <2>7. G[m] \in bad
    BY <2>5, <2>6
  <2> HIDE DEF bad
  <2> QED BY <2>5, <2>7
<1>3. bad \in SUBSET Nat
  OBVIOUS
<1>4. bad = {}
  <2> HIDE DEF bad
  <2> QED BY <1>2, <1>3, LeastElement
<1> QED BY <1>4

-----------------------------------------------------------------------------
(* printf: the output *)

\* The buffer holds the beginning of the output, all of it while there is room.
Stored ==
  /\ buffer \in Seq(Chars) /\ all \in Seq(Chars)
  /\ remain \in Nat /\ bufSize \in Nat \ {0}
  /\ Len(buffer) + remain = bufSize - 1
  /\ added = Len(all)
  /\ IsPrefixOf(buffer, all)
  /\ remain > 0 => buffer = all

\* addchar keeps the buffer inside its bound and a beginning of the output.
LEMMA AddAllKeeps ==
  ASSUME Stored, NEW s \in Seq(Chars), AddAll(s), bufSize' = bufSize
  PROVE  Stored'
<1> DEFINE fit == IF Len(s) <= remain THEN Len(s) ELSE remain
           cut == SubSeq(s, 1, fit)
<1>0. /\ buffer' = buffer \o cut /\ remain' = remain - fit
      /\ added' = added + Len(s) /\ all' = all \o s
  BY DEF AddAll
<1>1. Len(s) \in Nat /\ remain \in Nat /\ Len(buffer) \in Nat /\ Len(all) \in Nat
  BY DEF Stored
<1>2. fit \in 0 .. Len(s) /\ fit <= remain
  BY <1>1
<1>3. cut \in Seq(Chars) /\ Len(cut) = fit /\ \A i \in 1 .. fit : cut[i] = s[i]
  <2> HIDE DEF fit
  <2> QED BY <1>2
<1>4. fit = Len(s) => cut = s
  <2> HIDE DEF fit
  <2> QED BY <1>3
<1>5. fit = 0 => buffer \o cut = buffer
  <2> HIDE DEF fit, cut
  <2> QED BY <1>3 DEF Stored
<1>6. /\ buffer' \in Seq(Chars) /\ all' \in Seq(Chars)
      /\ Len(buffer') = Len(buffer) + fit /\ Len(all') = Len(all) + Len(s)
  <2> HIDE DEF fit, cut
  <2> QED BY <1>0, <1>3, SMTT(60), ZenonT(60) DEF Stored
<1>7. remain' \in Nat /\ Len(buffer') + remain' = bufSize - 1 /\ added' = Len(all')
  <2> HIDE DEF fit, cut
  <2>1. fit \in Nat /\ Len(buffer) + remain = bufSize - 1 /\ bufSize \in Nat /\ added = Len(all)
    BY <1>1, <1>2 DEF Stored
  <2>2. remain' \in Nat
    BY <1>0, <1>1, <1>2, <2>1
  <2>3. Len(buffer') + remain' = bufSize - 1
    <3>1. remain' = remain - fit /\ Len(buffer') = Len(buffer) + fit
      BY <1>0, <1>6
    <3> QED BY <1>1, <2>1, <3>1
  <2>4. added' = Len(all')
    BY <1>0, <1>6, <2>1
  <2> QED BY <2>2, <2>3, <2>4
<1>8. CASE remain = 0
  <2>1. fit = 0
    BY <1>1, <1>8
  <2> HIDE DEF fit, cut
  <2>2. buffer' = buffer /\ remain' = 0
    BY <1>0, <1>5, <1>8, <2>1
  <2>3. Len(buffer) <= Len(all) /\ SubSeq(all, 1, Len(buffer)) = buffer
    BY DEF Stored, IsPrefixOf
  <2>4. SubSeq(all \o s, 1, Len(buffer)) = SubSeq(all, 1, Len(buffer))
    <3>1. \A i \in 1 .. Len(buffer) : (all \o s)[i] = all[i]
      BY <1>1, <2>3 DEF Stored
    <3> QED BY <1>0, <1>1, <1>6, <2>3, <3>1 DEF Stored
  <2>5. IsPrefixOf(buffer, all)'
    BY <1>0, <1>1, <1>6, <2>2, <2>3, <2>4 DEF IsPrefixOf
  <2> QED BY <1>6, <1>7, <2>2, <2>5 DEF Stored
<1>9. CASE remain > 0
  <2> HIDE DEF fit, cut
  <2>1. buffer = all
    BY <1>9 DEF Stored
  <2>2. SubSeq(all \o s, 1, Len(all) + fit) = all \o cut
    <3>1. /\ all \o s \in Seq(Chars) /\ Len(all \o s) = Len(all) + Len(s)
          /\ all \o cut \in Seq(Chars) /\ Len(all \o cut) = Len(all) + fit
      BY <1>0, <1>6, <2>1
    <3>2. /\ SubSeq(all \o s, 1, Len(all) + fit) \in Seq(Chars)
          /\ Len(SubSeq(all \o s, 1, Len(all) + fit)) = Len(all) + fit
          /\ \A i \in 1 .. Len(all) + fit : SubSeq(all \o s, 1, Len(all) + fit)[i] = (all \o s)[i]
      BY <1>1, <1>2, <3>1
    <3>3. ASSUME NEW i \in 1 .. Len(all) + fit PROVE (all \o s)[i] = (all \o cut)[i]
      <4>1. CASE i <= Len(all)
        BY <1>1, <1>3, <4>1 DEF Stored
      <4>2. CASE i > Len(all)
        <5>1. i - Len(all) \in 1 .. fit /\ i - Len(all) \in 1 .. Len(s)
          BY <1>1, <1>2, <4>2
        <5>2. (all \o s)[i] = s[i - Len(all)] /\ (all \o cut)[i] = cut[i - Len(all)]
          BY <1>1, <1>2, <1>3, <4>2, <5>1 DEF Stored
        <5> QED BY <1>3, <5>1, <5>2
      <4>3. i \in Int /\ Len(all) \in Int
        BY <1>1, <1>2
      <4>4. i <= Len(all) \/ i > Len(all)
        BY <4>3
      <4> QED BY <4>1, <4>2, <4>4
    <3>4. ASSUME NEW u \in Seq(Chars), NEW v \in Seq(Chars), Len(u) = Len(v), \A i \in 1 .. Len(u) : u[i] = v[i]
          PROVE  u = v
      BY <3>4
    <3> QED BY <3>1, <3>2, <3>3, <3>4
  <2>3. IsPrefixOf(buffer, all)'
    BY <1>0, <1>1, <1>2, <1>6, <2>1, <2>2, SMTT(60), ZenonT(60) DEF IsPrefixOf
  <2>4. remain' > 0 => fit = Len(s)
    BY <1>0, <1>1 DEF fit
  <2>5. remain' > 0 => buffer' = all'
    BY <1>0, <1>4, <2>1, <2>4
  <2> QED BY <1>6, <1>7, <2>3, <2>5 DEF Stored
<1> QED BY <1>1, <1>8, <1>9

-----------------------------------------------------------------------------
(* printf: what the conversions print *)

\* Digits are characters.
LEMMA DigitTypes == \A i \in 1 .. 16 : digits[i] \in Chars
BY PrintfAssumption

\* So is what printf puts into the output by itself.
LEMMA CharTypes ==
  Junk \in Chars /\ Blank \in Chars /\ "-" \in Chars /\ "x" \in Chars /\ "A" \in Chars /\ "0" \in Chars
<1>1. digits[1] = "0"
  BY DEF digits, DigitChars
<1>2. digits[1] \in Chars
  BY DigitTypes
<1> QED BY <1>1, <1>2, PrintfAssumption

\* The type of a padding.
LEMMA RepeatType ==
  ASSUME NEW c \in Chars, NEW n \in Int
  PROVE  Repeat(c, n) \in Seq(Chars)
<1>1. CASE n >= 0
  BY <1>1 DEF Repeat
<1>2. CASE n < 0
  <2>1. 1 .. n = 1 .. 0
    BY <1>2
  <2>2. [i \in 1 .. 0 |-> c] \in Seq(Chars)
    OBVIOUS
  <2> QED BY <2>1, <2>2 DEF Repeat
<1> QED BY <1>1, <1>2

\* The type of what print_str prints.
LEMMA PrintStrType ==
  ASSUME NEW s \in Seq(Chars), NEW c \in Chars, NEW w \in Int
  PROVE  print_str(s, c, w) \in Seq(Chars)
<1>1. Len(s) \in Nat /\ w - Len(s) \in Int /\ -(w + Len(s)) \in Int
  OBVIOUS
<1>2. Repeat(c, w - Len(s)) \in Seq(Chars) /\ Repeat(Blank, -(w + Len(s))) \in Seq(Chars)
  BY <1>1, RepeatType, CharTypes
<1> QED BY <1>2 DEF print_str

\* f has the digits of every number up to n.
DigitTable(f, n, base) ==
  /\ Digits(n, base) = f[n]
  /\ \A m \in 0 .. n : f[m] = IF m = 0 THEN <<>> ELSE Append(f[m \div base], digits[(m % base) + 1])
  /\ \A m \in 0 .. n : f[m] \in Seq(Chars)

\* The loop that divides comes to its end, and makes digits on its way.
LEMMA DigitsMade ==
  ASSUME NEW n \in Nat, NEW base \in {10, 16}
  PROVE  \E f : DigitTable(f, n, base)
<1> DEFINE from[m \in 0 .. n] ==
             IF m = 0 THEN <<>> ELSE Append(from[m \div base], digits[(m % base) + 1])
           G == [m \in 1 .. n |-> m \div base]
           H == [p \in Seq(Chars) \X (1 .. n) |-> Append(p[1], digits[(p[2] % base) + 1])]
<1>1. Digits(n, base) = from[n]
  BY DEF Digits
<1>2. ASSUME NEW m \in 1 .. n
      PROVE  /\ m \div base \in Nat /\ m \div base < m /\ m \div base \in 0 .. n
             /\ (m % base) + 1 \in 1 .. 16
  <2>1. CASE base = 10
    BY <2>1
  <2>2. CASE base = 16
    BY <2>2
  <2> QED BY <2>1, <2>2
<1>3. G \in [1 .. n -> Nat] /\ \A m \in 1 .. n : G[m] < m /\ G[m] = m \div base
  BY <1>2
<1>4. ASSUME NEW x \in Seq(Chars), NEW m \in 1 .. n
      PROVE  /\ H[<<x, m>>] = Append(x, digits[(m % base) + 1])
             /\ H[<<x, m>>] \in Seq(Chars)
  <2>1. digits[(m % base) + 1] \in Chars
    BY <1>2, DigitTypes
  <2>2. <<x, m>> \in Seq(Chars) \X (1 .. n)
    OBVIOUS
  <2>3. H[<<x, m>>] = Append(x, digits[(m % base) + 1])
    BY <2>2
  <2> QED BY <2>1, <2>3
<1> DEFINE Rec(f) == f = [m \in 0 .. n |->
                            IF m = 0 THEN <<>> ELSE Append(f[m \div base], digits[(m % base) + 1])]
<1>5. from = CHOOSE f : Rec(f)
  OBVIOUS
<1> HIDE DEF from, G, H
<1>6. \E f : Rec(f)
  <2>1. PICK f : Solves(f, n, <<>>, G, H)
    BY <1>3, Solvable
  <2>2. <<>> \in Seq(Chars)
    OBVIOUS
  <2>3. \A m \in 0 .. n : f[m] \in Seq(Chars)
    BY <1>3, <1>4, <2>1, <2>2, SolutionType
  <2>4. ASSUME NEW m \in 0 .. n
        PROVE  (IF m = 0 THEN <<>> ELSE H[<<f[G[m]], m>>])
                 = (IF m = 0 THEN <<>> ELSE Append(f[m \div base], digits[(m % base) + 1]))
    <3>1. m # 0 => m \in 1 .. n
      OBVIOUS
    <3>2. m # 0 => G[m] = m \div base /\ f[m \div base] \in Seq(Chars)
      BY <1>2, <1>3, <2>3, <3>1
    <3> QED BY <1>4, <3>1, <3>2
  <2>5. f = [m \in 0 .. n |-> IF m = 0 THEN <<>> ELSE H[<<f[G[m]], m>>]]
    BY <2>1 DEF Solves
  <2>6. [m \in 0 .. n |-> IF m = 0 THEN <<>> ELSE H[<<f[G[m]], m>>]]
         = [m \in 0 .. n |-> IF m = 0 THEN <<>> ELSE Append(f[m \div base], digits[(m % base) + 1])]
    BY <2>4
  <2> QED BY <2>5, <2>6
<1>7. Rec(from)
  <2> HIDE DEF Rec
  <2> QED BY <1>5, <1>6, Zenon
<1> DEFINE bad == {m \in 0 .. n : from[m] \notin Seq(Chars)}
<1>8. \A m \in 0 .. n : from[m] = IF m = 0 THEN <<>> ELSE Append(from[m \div base], digits[(m % base) + 1])
  BY <1>7
<1> HIDE DEF Rec
<1>9. ASSUME NEW m \in bad PROVE \E l \in bad : ~(m <= l)
  <2>1. m \in 0 .. n /\ from[m] \notin Seq(Chars)
    OBVIOUS
  <2>2. m # 0
    <3>1. 0 \in 0 .. n
      OBVIOUS
    <3>2. from[0] = <<>>
      BY <1>8, <3>1
    <3>3. from[0] \in Seq(Chars)
      BY <3>2
    <3> HIDE DEF bad
    <3> QED BY <2>1, <3>3
  <2>3. m \in 1 .. n
    BY <2>1, <2>2
  <2>4. m \div base \in 0 .. n /\ m \div base < m /\ digits[(m % base) + 1] \in Chars /\ m \in Nat
    <3> HIDE DEF bad
    <3>1. m \div base \in 0 .. n /\ m \div base < m /\ (m % base) + 1 \in 1 .. 16
      BY <1>2, <2>3
    <3> QED BY <2>3, <3>1, DigitTypes
  <2>5. from[m] = Append(from[m \div base], digits[(m % base) + 1])
    BY <1>8, <2>1, <2>2
  <2>6. from[m \div base] \notin Seq(Chars)
    BY <2>1, <2>4, <2>5
  <2>7. m \div base \in bad /\ ~(m <= m \div base)
    BY <2>4, <2>6
  <2> HIDE DEF bad
  <2> QED BY <2>7
<1>10. bad \in SUBSET Nat
  OBVIOUS
<1>11. bad = {}
  <2> HIDE DEF bad
  <2> QED BY <1>9, <1>10, LeastElement
<1>12. \A m \in 0 .. n : from[m] \in Seq(Chars)
  BY <1>11
<1> QED BY <1>1, <1>8, <1>12 DEF DigitTable

\* The type of the digits of a number.
LEMMA DigitsType ==
  ASSUME NEW n \in Nat, NEW base \in {10, 16}
  PROVE  Digits(n, base) \in Seq(Chars)
<1>1. n \in 0 .. n
  OBVIOUS
<1>2. PICK f : DigitTable(f, n, base)
  BY DigitsMade
<1>3. Digits(n, base) = f[n] /\ f[n] \in Seq(Chars)
  BY <1>1, <1>2 DEF DigitTable
<1> QED BY <1>3

\* The type of the digits, with "0" for none.
LEMMA OrZeroType ==
  ASSUME NEW s \in Seq(Chars)
  PROVE  OrZero(s) \in Seq(Chars)
<1>1. <<"0">> \in Seq(Chars)
  BY CharTypes
<1> QED BY <1>1 DEF OrZero

\* The type of what print_int prints.
LEMMA PrintIntType ==
  ASSUME NEW n \in Int
  PROVE  print_int(n, 10) \in Seq(Chars)
<1> DEFINE ds == Digits(Magnitude(n), 10)
           shown == IF n = MinLong THEN Repeat(Junk, Len(ds)) ELSE ds
<1>1. Magnitude(n) \in Nat
  BY DEF Magnitude
<1>2. ds \in Seq(Chars)
  BY <1>1, DigitsType
<1>3. shown \in Seq(Chars)
  <2> HIDE DEF ds
  <2>1. Len(ds) \in Int
    BY <1>2
  <2>2. Repeat(Junk, Len(ds)) \in Seq(Chars)
    BY <2>1, RepeatType, CharTypes
  <2> QED BY <1>2, <2>2
<1>4. print_int(n, 10) = OrZero(IF n < 0 THEN <<"-">> \o shown ELSE shown)
  BY DEF print_int
<1> HIDE DEF shown
<1>5. <<"-">> \in Seq(Chars)
  BY CharTypes
<1>6. <<"-">> \o shown \in Seq(Chars)
  BY <1>3, <1>5
<1> QED BY <1>3, <1>4, <1>6, OrZeroType

\* The type of what print_unsigned prints.
LEMMA PrintUnsignedType ==
  ASSUME NEW n \in Nat, NEW base \in {10, 16}, NEW alt, pad \in Chars, npad \in Int
  PROVE  print_unsigned(n, base, alt) \in Seq(Chars)
<1> DEFINE low == n % 2^UintBits
           ds == Digits(low, base)
           prefixed == alt /\ base = 16 /\ ds # <<>>
           rest == IF npad > 2 THEN npad - 2 ELSE 0
           w == IF npad > 0 THEN rest ELSE npad
           body == OrZero(IF prefixed THEN <<"0", "x">> \o ds ELSE ds)
<1>1. low \in Nat
  <2>1. UintBits \in Nat /\ 2^UintBits > 0
    BY PrintfAssumption
  <2>2. 2^UintBits \in Int
    BY <2>1
  <2> QED BY <2>1, <2>2
<1> HIDE DEF low
<1>2. ds \in Seq(Chars)
  BY <1>1, DigitsType
<1>3. print_unsigned(n, base, alt) =
        IF prefixed /\ pad = "0" THEN <<"0", "x">> \o print_str(ds, pad, w) ELSE print_str(body, pad, npad)
  BY DEF print_unsigned, low
<1> HIDE DEF ds, prefixed
<1>4. <<"0", "x">> \in Seq(Chars)
  BY CharTypes
<1>8. <<"0", "x">> \o ds \in Seq(Chars)
  BY <1>2, <1>4
<1>5. body \in Seq(Chars)
  BY <1>2, <1>8, OrZeroType
<1>6. w \in Int
  OBVIOUS
<1> HIDE DEF body, w
<1>7. print_str(ds, pad, w) \in Seq(Chars) /\ print_str(body, pad, npad) \in Seq(Chars)
  BY <1>2, <1>5, <1>6, PrintStrType
<1> QED BY <1>3, <1>4, <1>7

-----------------------------------------------------------------------------
(* printf: numerals *)

\* Division by b, by its product.
LEMMA DivFacts ==
  ASSUME NEW a \in Nat, NEW b \in Nat, b > 0
  PROVE  a \div b \in Nat /\ b * (a \div b) <= a /\ a < b * (a \div b) + b
OBVIOUS

\* There is one quotient.
LEMMA DivUnique ==
  ASSUME NEW a \in Nat, NEW b \in Nat, NEW q \in Nat, b > 0, b * q <= a, a < b * q + b
  PROVE  a \div b = q
OBVIOUS

\* To divide by the base and then by c is to divide by their product.
LEMMA DivTwice ==
  ASSUME NEW a \in Nat, NEW base \in {10, 16}, NEW c \in Nat, c > 0
  PROVE  /\ base * c \in Nat /\ base * c > 0 /\ a \div base \in Nat
         /\ (a \div base) \div c = a \div (base * c)
<1> DEFINE k == a \div base
           q == k \div c
<1>1. base \in Nat /\ base > 0 /\ base * c \in Nat /\ base * c > 0
  <2>1. CASE base = 10 BY <2>1
  <2>2. CASE base = 16 BY <2>2
  <2> QED BY <2>1, <2>2
<1>2. k \in Nat /\ base * k <= a /\ a < base * k + base
  BY <1>1, DivFacts
<1> HIDE DEF k
<1>3. q \in Nat /\ c * q <= k /\ k < c * q + c
  BY <1>2, DivFacts
<1> HIDE DEF q
<1> DEFINE x == c * q
<1>4. x \in Nat /\ x <= k /\ k < x + c
  BY <1>3
<1>5. (base * c) * q = base * x
  <2>1. CASE base = 10 BY <1>3, <2>1
  <2>2. CASE base = 16 BY <1>3, <2>2
  <2> QED BY <2>1, <2>2
<1> HIDE DEF x
<1>6. base * x <= a /\ a < base * x + base * c
  <2>1. CASE base = 10 BY <1>2, <1>4, <2>1
  <2>2. CASE base = 16 BY <1>2, <1>4, <2>2
  <2> QED BY <2>1, <2>2
<1>7. a \div (base * c) = q
  <2> DEFINE bc == base * c
  <2>1. bc \in Nat /\ bc > 0 /\ bc * q <= a /\ a < bc * q + bc
    BY <1>1, <1>5, <1>6
  <2> HIDE DEF bc
  <2>2. a \div bc = q
    BY <1>3, <2>1, DivUnique
  <2> QED BY <2>2 DEF bc
<1> QED BY <1>1, <1>2, <1>7 DEF k, q

\* W has the weights of the digits of a number up to n.
Weights(W, n, base) ==
  /\ W[0] = 1 /\ \A i \in 1 .. n + 1 : W[i] = base * W[i - 1]
  /\ \A i \in 0 .. n + 1 : W[i] \in Nat /\ W[i] > 0

\* The numeral of n, by these weights.
HasLength(l, n, W) == n < W[l] /\ (l = 1 \/ n >= W[l - 1])
ByWeights(l, n, base, W) == [i \in 1 .. l |-> digits[((n \div W[l - i]) % base) + 1]]

\* The weights that Numeral uses are defined, and are the powers of the base.
LEMMA NumeralMade ==
  ASSUME NEW n \in Nat, NEW base \in {10, 16}
  PROVE  \E W : /\ Weights(W, n, base)
                /\ Numeral(n, base) = ByWeights(CHOOSE l \in 1 .. n + 1 : HasLength(l, n, W), n, base, W)
<1> DEFINE weight[i \in 0 .. n + 1] == IF i = 0 THEN 1 ELSE base * weight[i - 1]
           len == CHOOSE l \in 1 .. n + 1 : n < weight[l] /\ (l = 1 \/ n >= weight[l - 1])
           G == [i \in 1 .. n + 1 |-> i - 1]
           S == Nat \ {0}
           H == [p \in S \X (1 .. n + 1) |-> base * p[1]]
<1>1. Numeral(n, base) = [i \in 1 .. len |-> digits[((n \div weight[len - i]) % base) + 1]]
  BY DEF Numeral
<1>2. G \in [1 .. n + 1 -> Nat] /\ (\A i \in 1 .. n + 1 : G[i] < i /\ G[i] = i - 1) /\ n + 1 \in Nat
  OBVIOUS
<1>3. ASSUME NEW x \in S, NEW i \in 1 .. n + 1
      PROVE  H[<<x, i>>] = base * x /\ H[<<x, i>>] \in S
  <2>1. <<x, i>> \in S \X (1 .. n + 1)
    OBVIOUS
  <2>2. H[<<x, i>>] = base * x
    BY <2>1
  <2>3. CASE base = 10 BY <2>2, <2>3
  <2>4. CASE base = 16 BY <2>2, <2>4
  <2> QED BY <2>2, <2>3, <2>4
<1> DEFINE Rec(f) == f = [i \in 0 .. n + 1 |-> IF i = 0 THEN 1 ELSE base * f[i - 1]]
<1>4. weight = CHOOSE f : Rec(f)
  OBVIOUS
<1> HIDE DEF weight, G, H
<1>5. \E f : Rec(f) /\ \A i \in 0 .. n + 1 : f[i] \in S
  <2>1. PICK f : Solves(f, n + 1, 1, G, H)
    BY <1>2, Solvable
  <2>2. 1 \in S
    OBVIOUS
  <2>3. \A i \in 0 .. n + 1 : f[i] \in S
    <3> HIDE DEF S
    <3> QED BY <1>2, <1>3, <2>1, <2>2, SolutionType
  <2>4. ASSUME NEW i \in 0 .. n + 1
        PROVE  (IF i = 0 THEN 1 ELSE H[<<f[G[i]], i>>]) = (IF i = 0 THEN 1 ELSE base * f[i - 1])
    <3>1. i # 0 => i \in 1 .. n + 1 /\ i - 1 \in 0 .. n + 1
      OBVIOUS
    <3>2. i # 0 => G[i] = i - 1 /\ f[i - 1] \in S
      BY <1>2, <2>3, <3>1
    <3> QED BY <1>3, <3>1, <3>2
  <2>5. f = [i \in 0 .. n + 1 |-> IF i = 0 THEN 1 ELSE H[<<f[G[i]], i>>]]
    BY <2>1 DEF Solves
  <2>6. [i \in 0 .. n + 1 |-> IF i = 0 THEN 1 ELSE H[<<f[G[i]], i>>]]
         = [i \in 0 .. n + 1 |-> IF i = 0 THEN 1 ELSE base * f[i - 1]]
    BY <2>4
  <2> QED BY <2>3, <2>5, <2>6
<1>6. Rec(weight)
  <2> HIDE DEF Rec
  <2> QED BY <1>4, <1>5, Zenon
<1>7. ASSUME NEW f, Rec(f)
      PROVE  f[0] = 1 /\ \A i \in 1 .. n + 1 : f[i] = base * f[i - 1]
  <2>1. \A i \in 0 .. n + 1 : f[i] = IF i = 0 THEN 1 ELSE base * f[i - 1]
    BY <1>7
  <2>2. 0 \in 0 .. n + 1 /\ \A i \in 1 .. n + 1 : i \in 0 .. n + 1 /\ i # 0
    OBVIOUS
  <2> HIDE DEF Rec
  <2> QED BY <2>1, <2>2
<1> DEFINE bad == {i \in 0 .. n + 1 : weight[i] \notin S}
<1>8. weight[0] = 1 /\ \A i \in 1 .. n + 1 : weight[i] = base * weight[i - 1]
  BY <1>6, <1>7
<1> HIDE DEF Rec
<1>9. ASSUME NEW i \in bad PROVE \E l \in bad : ~(i <= l)
  <2>1. i \in 0 .. n + 1 /\ weight[i] \notin S
    OBVIOUS
  <2>2. i # 0
    BY <1>8, <2>1
  <2>3. i \in 1 .. n + 1 /\ i - 1 \in 0 .. n + 1 /\ ~(i <= i - 1)
    BY <2>1, <2>2
  <2>4. weight[i - 1] \notin S
    <3>1. weight[i] = base * weight[i - 1]
      BY <1>8, <2>3
    <3>2. \A x \in S : base * x \in S
      <4>1. CASE base = 10 BY <4>1
      <4>2. CASE base = 16 BY <4>2
      <4> QED BY <4>1, <4>2
    <3> HIDE DEF bad, S
    <3> QED BY <2>1, <3>1, <3>2
  <2>5. i - 1 \in bad
    BY <2>3, <2>4
  <2> HIDE DEF bad
  <2> QED BY <2>3, <2>5
<1>10. bad \in SUBSET Nat
  OBVIOUS
<1>11. bad = {}
  <2> HIDE DEF bad
  <2> QED BY <1>9, <1>10, LeastElement
<1>12. \A i \in 0 .. n + 1 : weight[i] \in S
  BY <1>11
<1>13. Weights(weight, n, base)
  BY <1>8, <1>12 DEF Weights
<1>14. Numeral(n, base)
         = ByWeights(CHOOSE l \in 1 .. n + 1 : HasLength(l, n, weight), n, base, weight)
  BY <1>1 DEF HasLength, ByWeights
<1> QED BY <1>13, <1>14, Zenon

\* The weights grow.
LEMMA WeightsGrow ==
  ASSUME NEW n \in Nat, NEW base \in {10, 16}, NEW W, Weights(W, n, base)
  PROVE  \A i, j \in 0 .. n + 1 : i <= j => W[i] <= W[j]
<1> DEFINE bad(i) == {j \in 0 .. n + 1 : i <= j /\ ~(W[i] <= W[j])}
<1>1. \A j \in 1 .. n + 1 : W[j - 1] \in Nat /\ W[j] \in Nat /\ W[j - 1] <= W[j]
  <2> SUFFICES ASSUME NEW j \in 1 .. n + 1
               PROVE  W[j - 1] \in Nat /\ W[j] \in Nat /\ W[j - 1] <= W[j]
    OBVIOUS
  <2>1. j - 1 \in 0 .. n + 1 /\ j \in 0 .. n + 1
    OBVIOUS
  <2>2. W[j - 1] \in Nat /\ W[j] = base * W[j - 1] /\ W[j] \in Nat
    BY <2>1 DEF Weights
  <2>3. CASE base = 10 BY <2>2, <2>3
  <2>4. CASE base = 16 BY <2>2, <2>4
  <2> QED BY <2>3, <2>4
<1> SUFFICES ASSUME NEW i \in 0 .. n + 1, bad(i) # {} PROVE FALSE
  OBVIOUS
<1>2. ASSUME NEW j \in bad(i) PROVE \E l \in bad(i) : ~(j <= l)
  <2>1. j \in 0 .. n + 1 /\ i <= j /\ ~(W[i] <= W[j])
    OBVIOUS
  <2>2. W[i] \in Nat /\ i \in Nat
    BY DEF Weights
  <2>3. i # j
    BY <2>1, <2>2
  <2>4. j \in 1 .. n + 1 /\ j - 1 \in 0 .. n + 1 /\ i <= j - 1 /\ ~(j <= j - 1)
    BY <2>1, <2>2, <2>3
  <2>5. ~(W[i] <= W[j - 1])
    <3>1. W[j - 1] \in Nat /\ W[j] \in Nat /\ W[j - 1] <= W[j]
      BY <1>1, <2>4
    <3> QED BY <2>1, <2>2, <3>1
  <2>6. j - 1 \in bad(i)
    BY <2>4, <2>5
  <2> HIDE DEF bad
  <2> QED BY <2>4, <2>6
<1>3. bad(i) \in SUBSET Nat
  OBVIOUS
<1> HIDE DEF bad
<1> QED BY <1>2, <1>3, LeastElement

\* There is one length only.
LEMMA LengthUnique ==
  ASSUME NEW n \in Nat, NEW base \in {10, 16}, NEW W, Weights(W, n, base),
         NEW l \in 1 .. n + 1, HasLength(l, n, W)
  PROVE  (CHOOSE k \in 1 .. n + 1 : HasLength(k, n, W)) = l
<1>1. ASSUME NEW j \in 1 .. n + 1, NEW k \in 1 .. n + 1, HasLength(j, n, W), HasLength(k, n, W)
      PROVE  ~(j < k)
  <2> SUFFICES ASSUME j < k PROVE FALSE
    OBVIOUS
  <2>1. j \in 0 .. n + 1 /\ k - 1 \in 0 .. n + 1 /\ j <= k - 1 /\ k # 1
    OBVIOUS
  <2>2. W[j] \in Nat /\ W[k - 1] \in Nat /\ W[j] <= W[k - 1]
    BY <2>1, WeightsGrow DEF Weights
  <2>3. n < W[j] /\ n >= W[k - 1]
    BY <1>1, <2>1 DEF HasLength
  <2> QED BY <2>2, <2>3
<1>2. \A k \in 1 .. n + 1 : HasLength(k, n, W) => k = l
  <2> SUFFICES ASSUME NEW k \in 1 .. n + 1, HasLength(k, n, W) PROVE k = l
    OBVIOUS
  <2>1. ~(k < l) /\ ~(l < k)
    BY <1>1
  <2> QED BY <2>1
<1> QED BY <1>2

\* s has the digits of m, by the weights.
Written(s, m, base, W) ==
  /\ Len(s) \in 1 .. m /\ W[Len(s) - 1] <= m /\ m < W[Len(s)]
  /\ \A i \in 1 .. Len(s) : s[i] = digits[((m \div W[Len(s) - i]) % base) + 1]

\* A digit is appended for the remainder of the division by the base.
LEMMA WrittenNext ==
  ASSUME NEW n \in Nat, NEW base \in {10, 16}, NEW W, Weights(W, n, base),
         NEW m \in 1 .. n, NEW s \in Seq(Chars),
         IF m < base THEN s = <<>> ELSE Written(s, m \div base, base, W)
  PROVE  Written(Append(s, digits[(m % base) + 1]), m, base, W)
<1> DEFINE d == digits[(m % base) + 1]
           t == Append(s, d)
           k == m \div base
           L == Len(s)
<1>0. (m % base) + 1 \in 1 .. 16 /\ m \in Nat /\ 1 <= m /\ m <= n /\ base \in Nat /\ base > 1
  <2>1. CASE base = 10 BY <2>1
  <2>2. CASE base = 16 BY <2>2
  <2> QED BY <2>1, <2>2
<1>1. d \in Chars
  BY <1>0, DigitTypes
<1>2. L \in Nat /\ Len(t) = L + 1 /\ t[L + 1] = d /\ \A i \in 1 .. L : t[i] = s[i]
  <2> HIDE DEF d
  <2> QED BY <1>1
<1>3. m \div W[0] = m
  BY <1>0 DEF Weights
<1>4. CASE m < base
  <2>1. s = <<>> /\ L = 0
    BY <1>4
  <2>2. W[0] = 1 /\ W[1] = base
    <3>1. 1 \in 1 .. n + 1 /\ 1 - 1 = 0
      OBVIOUS
    <3>2. W[0] = 1 /\ W[1] = base * W[0]
      BY <3>1 DEF Weights
    <3> QED BY <1>0, <3>2
  <2>3. Len(t) \in 1 .. m /\ W[Len(t) - 1] <= m /\ m < W[Len(t)]
    <3> HIDE DEF t
    <3> QED BY <1>0, <1>2, <1>4, <2>1, <2>2
  <2>4. ASSUME NEW i \in 1 .. Len(t) PROVE t[i] = digits[((m \div W[Len(t) - i]) % base) + 1]
    <3> HIDE DEF t
    <3>1. i = 1 /\ Len(t) - i = 0
      BY <1>2, <2>1
    <3> QED BY <1>2, <1>3, <2>1, <3>1 DEF d
  <2> QED BY <2>3, <2>4 DEF Written
<1>5. CASE ~(m < base)
  <2>1. k \in Nat /\ k >= 1 /\ k < m /\ base * k <= m /\ m < base * k + base
    <3>1. CASE base = 10 BY <1>0, <1>5, <3>1
    <3>2. CASE base = 16 BY <1>0, <1>5, <3>2
    <3> QED BY <3>1, <3>2
  <2>2. Written(s, k, base, W)
    BY <1>5
  <2> HIDE DEF k, t
  <2>3. L \in 1 .. k /\ W[L - 1] <= k /\ k < W[L]
    BY <2>2 DEF Written
  <2>4. L + 1 \in 1 .. m /\ L \in 1 .. n + 1 /\ L + 1 \in 1 .. n + 1
        /\ L - 1 \in 0 .. n + 1 /\ L \in 0 .. n + 1
    BY <1>0, <2>1, <2>3
  <2>5. /\ W[L - 1] \in Nat /\ W[L] \in Nat /\ W[L] = base * W[L - 1]
        /\ W[L + 1] = base * W[L]
    <3>1. L + 1 - 1 = L
      BY <2>4
    <3>2. W[L + 1] = base * W[L + 1 - 1]
      BY <2>4 DEF Weights
    <3> QED BY <2>4, <3>1, <3>2 DEF Weights
  <2>6. W[L] <= m /\ m < W[L + 1]
    <3> HIDE DEF L
    <3>1. CASE base = 10 BY <1>0, <2>1, <2>3, <2>5, <3>1, SMTT(60), ZenonT(60)
    <3>2. CASE base = 16 BY <1>0, <2>1, <2>3, <2>5, <3>2, SMTT(60), ZenonT(60)
    <3> QED BY <3>1, <3>2
  <2>7. Len(t) \in 1 .. m /\ W[Len(t) - 1] <= m /\ m < W[Len(t)]
    <3>1. Len(t) = L + 1 /\ Len(t) - 1 = L
      BY <1>2
    <3> QED BY <2>4, <2>6, <3>1
  <2>8. ASSUME NEW i \in 1 .. Len(t) PROVE t[i] = digits[((m \div W[Len(t) - i]) % base) + 1]
    <3>1. CASE i = L + 1
      <4>1. Len(t) - i = 0
        BY <1>2, <3>1
      <4> QED BY <1>2, <1>3, <3>1, <4>1 DEF d
    <3>2. CASE i # L + 1
      <4>1. i \in 1 .. L /\ L - i \in 0 .. n + 1 /\ Len(t) - i \in 1 .. n + 1 /\ (Len(t) - i) - 1 = L - i
        BY <1>2, <2>4, <3>2, SMTT(60), ZenonT(60)
      <4>2. W[L - i] \in Nat /\ W[L - i] > 0 /\ W[Len(t) - i] = base * W[L - i]
        BY <4>1 DEF Weights
      <4>3. k \div W[L - i] = m \div W[Len(t) - i]
        BY <1>0, <4>2, DivTwice, SMTT(60), ZenonT(60) DEF k
      <4>4. s[i] = digits[((k \div W[L - i]) % base) + 1]
        BY <2>2, <4>1 DEF Written
      <4> QED BY <1>2, <4>1, <4>3, <4>4
    <3> QED BY <3>1, <3>2
  <2> QED BY <2>7, <2>8 DEF Written, t
<1> QED BY <1>4, <1>5

\* The loop that divides writes every number by the weights.
LEMMA DigitsWritten ==
  ASSUME NEW n \in Nat, NEW base \in {10, 16}, NEW W, Weights(W, n, base), NEW f, DigitTable(f, n, base)
  PROVE  \A m \in 1 .. n : Written(f[m], m, base, W)
<1> DEFINE bad == {m \in 1 .. n : ~Written(f[m], m, base, W)}
<1>1. ASSUME NEW m \in bad PROVE \E l \in bad : ~(m <= l)
  <2>1. m \in 1 .. n /\ ~Written(f[m], m, base, W)
    OBVIOUS
  <2> HIDE DEF bad
  <2>2. /\ m \in 0 .. n /\ m # 0 /\ m \div base \in 0 .. n /\ m \div base < m
        /\ m < base => m \div base = 0
        /\ ~(m < base) => m \div base \in 1 .. n
    <3>1. CASE base = 10 BY <2>1, <3>1
    <3>2. CASE base = 16 BY <2>1, <3>2
    <3> QED BY <3>1, <3>2
  <2>3. f[m \div base] \in Seq(Chars) /\ f[m] = Append(f[m \div base], digits[(m % base) + 1])
    BY <2>2 DEF DigitTable
  <2>4. 0 \in 0 .. n
    OBVIOUS
  <2>5. f[0] = <<>>
    BY <2>4 DEF DigitTable
  <2>6. ~(m < base) /\ ~Written(f[m \div base], m \div base, base, W)
    BY <2>1, <2>2, <2>3, <2>5, WrittenNext
  <2>7. m \div base \in bad
    BY <2>2, <2>6 DEF bad
  <2>8. ~(m <= m \div base)
    BY <2>2
  <2> QED BY <2>7, <2>8
<1>2. bad \in SUBSET Nat
  OBVIOUS
<1>3. bad = {}
  <2> HIDE DEF bad
  <2> QED BY <1>1, <1>2, LeastElement
<1> QED BY <1>3

\* The loop that divides makes the numeral, but for 0, for which it makes nothing.
LEMMA DigitsNumeral ==
  ASSUME NEW n \in Nat, NEW base \in {10, 16}
  PROVE  /\ n = 0 => Digits(n, base) = <<>>
         /\ n # 0 => Digits(n, base) = Numeral(n, base) /\ Digits(n, base) # <<>>
         /\ OrZero(Digits(n, base)) = Numeral(n, base)
<1>1. PICK f : DigitTable(f, n, base)
  BY DigitsMade
<1>2. PICK W : /\ Weights(W, n, base)
               /\ Numeral(n, base) = ByWeights(CHOOSE l \in 1 .. n + 1 : HasLength(l, n, W), n, base, W)
  BY NumeralMade
<1>3. n \in 0 .. n /\ Digits(n, base) = f[n] /\ f[n] \in Seq(Chars)
  BY <1>1 DEF DigitTable
<1>4. ASSUME NEW l \in 1 .. n + 1, HasLength(l, n, W) PROVE Numeral(n, base) = ByWeights(l, n, base, W)
  <2>1. (CHOOSE k \in 1 .. n + 1 : HasLength(k, n, W)) = l
    BY <1>2, <1>4, LengthUnique
  <2> QED BY <1>2, <2>1
<1>5. CASE n = 0
  <2>1. Digits(n, base) = <<>>
    BY <1>1, <1>3, <1>5 DEF DigitTable
  <2>2. W[0] = 1 /\ W[1] = base * W[0]
    <3>1. 1 \in 1 .. n + 1 /\ 1 - 1 = 0
      OBVIOUS
    <3> QED BY <1>2, <3>1 DEF Weights
  <2>3. HasLength(1, n, W)
    <3>1. CASE base = 10 BY <1>5, <2>2, <3>1 DEF HasLength
    <3>2. CASE base = 16 BY <1>5, <2>2, <3>2 DEF HasLength
    <3> QED BY <3>1, <3>2
  <2>4. 1 \in 1 .. n + 1
    OBVIOUS
  <2>5. Numeral(n, base) = [i \in 1 .. 1 |-> digits[((n \div W[1 - i]) % base) + 1]]
    BY <1>4, <2>3, <2>4 DEF ByWeights
  <2>6. \A i \in 1 .. 1 : digits[((n \div W[1 - i]) % base) + 1] = "0"
    <3> SUFFICES ASSUME NEW i \in 1 .. 1 PROVE digits[((n \div W[1 - i]) % base) + 1] = "0"
      OBVIOUS
    <3>1. i = 1 /\ W[1 - i] = 1
      BY <2>2
    <3>2. n \div W[1 - i] = 0
      BY <1>5, <3>1
    <3>3. 0 % base = 0
      <4>1. CASE base = 10 BY <4>1
      <4>2. CASE base = 16 BY <4>2
      <4> QED BY <4>1, <4>2
    <3>4. digits[1] = "0"
      BY DEF digits, DigitChars
    <3> QED BY <3>2, <3>3, <3>4
  <2>7. Numeral(n, base) = [i \in 1 .. 1 |-> "0"]
    BY <2>5, <2>6
  <2>8. [i \in 1 .. 1 |-> "0"] = <<"0">>
    OBVIOUS
  <2> QED BY <1>5, <2>1, <2>7, <2>8 DEF OrZero
<1>6. CASE n # 0
  <2>1. n \in 1 .. n
    BY <1>6
  <2>2. Written(f[n], n, base, W)
    BY <1>1, <1>2, <2>1, DigitsWritten
  <2> DEFINE l == Len(f[n])
  <2>3. l \in 1 .. n /\ l \in 1 .. n + 1 /\ W[l - 1] <= n /\ n < W[l]
    BY <2>2 DEF Written
  <2>4. W[l - 1] \in Nat
    <3>1. l - 1 \in 0 .. n + 1
      BY <2>3
    <3> QED BY <1>2, <3>1 DEF Weights
  <2>5. HasLength(l, n, W)
    BY <2>3, <2>4 DEF HasLength
  <2>6. Numeral(n, base) = ByWeights(l, n, base, W)
    BY <1>4, <2>3, <2>5
  <2>7. \A i \in 1 .. l : f[n][i] = digits[((n \div W[l - i]) % base) + 1]
    BY <2>2 DEF Written
  <2>8. f[n] = [i \in 1 .. l |-> f[n][i]]
    BY <1>3
  <2> HIDE DEF l
  <2>9. f[n] = ByWeights(l, n, base, W)
    BY <2>7, <2>8 DEF ByWeights
  <2>10. f[n] # <<>>
    BY <2>3 DEF l
  <2> QED BY <1>3, <1>6, <2>6, <2>9, <2>10 DEF OrZero
<1> QED BY <1>5, <1>6

-----------------------------------------------------------------------------
(* printf: the cursor *)

FormatOK == fmt \in Seq(Chars) /\ at \in 1 .. Len(fmt) + 1

\* A number ends at the terminator.
LEMMA EndIsNoDigit == ~IsDigit(End) /\ End # "-"
BY DEF IsDigit, DigitChars, End

\* Inside the format a character is one of the format, and no other place is one.
LEMMA CharAtFacts ==
  ASSUME fmt \in Seq(Chars), NEW i \in 1 .. Len(fmt) + 1
  PROVE  /\ i = Len(fmt) + 1 => CharAt(i) = End
         /\ CharAt(i) # End => i \in 1 .. Len(fmt) /\ i + 1 \in 1 .. Len(fmt) + 1 /\ CharAt(i) \in Chars
         /\ i \in 1 .. Len(fmt) => CharAt(i) = fmt[i]
<1>1. Len(fmt) \in Nat
  OBVIOUS
<1>2. i # Len(fmt) + 1 => i \in 1 .. Len(fmt) /\ i + 1 \in 1 .. Len(fmt) + 1
  BY <1>1
<1>3. i \in 1 .. Len(fmt) => i # Len(fmt) + 1 /\ fmt[i] \in Chars
  BY <1>1
<1> QED BY <1>2, <1>3 DEF CharAt

\* fmtnum stops at the terminator of the format at the latest.
LEMMA DigitsEndFacts ==
  ASSUME fmt \in Seq(Chars), NEW i \in 1 .. Len(fmt) + 1
  PROVE  /\ DigitsEnd(i) \in i .. Len(fmt) + 1
         /\ \A k \in i .. DigitsEnd(i) - 1 : IsDigit(fmt[k])
         /\ ~IsDigit(CharAt(DigitsEnd(i)))
<1> DEFINE hi == Len(fmt) + 1
           from[j \in i .. hi] == IF IsDigit(CharAt(j)) THEN from[j + 1] ELSE j
           T == {j \in i .. hi - 1 : ~IsDigit(fmt[j])}
           r == [j \in i .. hi |-> j]
<1>0. i \in Int /\ hi \in Int /\ i <= hi /\ i \in i .. hi /\ Len(fmt) \in Nat /\ 1 <= i
  OBVIOUS
<1>1. DigitsEnd(i) = from[i]
  BY DEF DigitsEnd
<1>2. ASSUME NEW f
      PROVE  Walked(f, i, hi, T, r) <=> f = [j \in i .. hi |-> IF IsDigit(CharAt(j)) THEN f[j + 1] ELSE j]
  <2>1. ASSUME NEW j \in i .. hi
        PROVE  (IF j = hi \/ j \in T THEN r[j] ELSE f[j + 1]) = (IF IsDigit(CharAt(j)) THEN f[j + 1] ELSE j)
    <3>1. CASE j = hi
      <4>1. CharAt(j) = End
        BY <3>1 DEF CharAt
      <4> QED BY <3>1, <4>1, EndIsNoDigit
    <3>2. CASE j # hi
      <4>1. j \in i .. hi - 1
        BY <1>0, <3>2
      <4>2. CharAt(j) = fmt[j]
        BY <3>2 DEF CharAt
      <4>3. j \in T <=> ~IsDigit(CharAt(j))
        BY <4>1, <4>2
      <4>4. r[j] = j
        OBVIOUS
      <4> HIDE DEF T, r, hi
      <4> QED BY <3>2, <4>3, <4>4
    <3> QED BY <3>1, <3>2
  <2> HIDE DEF T, r, hi
  <2>2. [j \in i .. hi |-> IF j = hi \/ j \in T THEN r[j] ELSE f[j + 1]]
          = [j \in i .. hi |-> IF IsDigit(CharAt(j)) THEN f[j + 1] ELSE j]
    BY <2>1
  <2> QED BY <2>2, Zenon DEF Walked
<1>3. Walked(from, i, hi, T, r)
  <2>1. from = CHOOSE f : f = [j \in i .. hi |-> IF IsDigit(CharAt(j)) THEN f[j + 1] ELSE j]
    OBVIOUS
  <2> HIDE DEF from, T, r, hi
  <2>2. \E f : Walked(f, i, hi, T, r)
    BY <1>0, WalkFacts
  <2> QED BY <1>2, <2>1, <2>2, Zenon
<1>4. PICK e \in i .. hi : EndsAt(e, i, hi, T)
  <2> HIDE DEF T, hi
  <2> QED BY <1>0, EndExists
<1>5. from[i] = e
  <2>1. r[e] = e
    OBVIOUS
  <2> HIDE DEF from, T, r, hi
  <2> QED BY <1>0, <1>3, <1>4, <2>1, WalkFacts
<1>6. ASSUME NEW k \in i .. e - 1 PROVE IsDigit(fmt[k])
  <2>1. k \notin T
    BY <1>4 DEF EndsAt
  <2>2. k \in i .. hi - 1
    <3> HIDE DEF hi
    <3> QED BY <1>0, <1>4
  <2> QED BY <2>1, <2>2
<1>7. ~IsDigit(CharAt(e))
  <2>1. CASE e = hi
    BY <2>1, EndIsNoDigit DEF CharAt
  <2>2. CASE e # hi
    <3>1. e \in T
      BY <1>4, <2>2 DEF EndsAt
    <3> QED BY <2>2, <3>1 DEF CharAt
  <2> QED BY <2>1, <2>2
<1> QED BY <1>1, <1>4, <1>5, <1>6, <1>7

\* The value of a digit is a number.
LEMMA DigitValueType ==
  ASSUME NEW c, IsDigit(c)
  PROVE  DigitValue(c) \in Int
<1>1. \E i \in 1 .. 10 : DigitChars[i] = c
  BY DEF IsDigit
<1> DEFINE d == CHOOSE i \in 1 .. 10 : DigitChars[i] = c
<1>2. d \in 1 .. 10
  BY <1>1
<1>3. DigitValue(c) = d - 1
  BY DEF DigitValue
<1> HIDE DEF d
<1> QED BY <1>2, <1>3

\* What DigitsFrom gives are digits, as many as the cursor moves.
LEMMA DigitsFromFacts ==
  ASSUME fmt \in Seq(Chars), NEW i \in 1 .. Len(fmt) + 1
  PROVE  /\ DigitsFrom(i) \in Seq(Chars) /\ i + Len(DigitsFrom(i)) \in i .. Len(fmt) + 1
         /\ \A k \in 1 .. Len(DigitsFrom(i)) : IsDigit(DigitsFrom(i)[k])
<1> DEFINE e == DigitsEnd(i)
<1>1. e \in i .. Len(fmt) + 1 /\ \A k \in i .. e - 1 : IsDigit(fmt[k])
  BY DigitsEndFacts
<1>2. DigitsFrom(i) = SubSeq(fmt, i, e - 1)
  BY DEF DigitsFrom
<1> HIDE DEF e
<1>3. Len(fmt) \in Nat /\ i \in Int /\ e \in Int /\ 1 <= i /\ e - 1 <= Len(fmt) /\ i <= e
  BY <1>1
<1>4. DigitsFrom(i) \in Seq(Chars) /\ Len(DigitsFrom(i)) = e - i
  BY <1>2, <1>3
<1>5. ASSUME NEW k \in 1 .. e - i PROVE IsDigit(DigitsFrom(i)[k])
  <2>1. i + k - 1 \in i .. e - 1
    BY <1>3
  <2>2. DigitsFrom(i)[k] = fmt[i + k - 1]
    BY <1>2, <1>3
  <2> QED BY <1>1, <2>1, <2>2
<1>6. i + (e - i) \in i .. Len(fmt) + 1
  BY <1>1, <1>3
<1> QED BY <1>4, <1>5, <1>6

\* v has the numbers that atol makes on its way, one more digit each time.
Number(i) == DigitsFrom(IF Signed(i) THEN i + 1 ELSE i)
AtolTable(v, i) ==
  /\ atol(i) = IF Signed(i) THEN -v[Len(Number(i))] ELSE v[Len(Number(i))]
  /\ \A k \in 0 .. Len(Number(i)) : v[k] = IF k = 0 THEN 0 ELSE 10 * v[k - 1] + DigitValue(Number(i)[k])
  /\ \A k \in 0 .. Len(Number(i)) : v[k] \in Int

\* The loop of atol is defined.
LEMMA AtolMade ==
  ASSUME fmt \in Seq(Chars), NEW i \in 1 .. Len(fmt) + 1
  PROVE  \E v : AtolTable(v, i)
<1> DEFINE ds == DigitsFrom(IF Signed(i) THEN i + 1 ELSE i)
           n == Len(ds)
           value[k \in 0 .. n] == IF k = 0 THEN 0 ELSE 10 * value[k - 1] + DigitValue(ds[k])
           G == [k \in 1 .. n |-> k - 1]
           H == [p \in Int \X (1 .. n) |-> 10 * p[1] + DigitValue(ds[p[2]])]
<1>1. atol(i) = IF Signed(i) THEN -value[n] ELSE value[n]
  BY DEF atol
<1>2. n \in Nat /\ \A k \in 1 .. n : DigitValue(ds[k]) \in Int
  <2>1. (IF Signed(i) THEN i + 1 ELSE i) \in 1 .. Len(fmt) + 1
    BY CharAtFacts, EndIsNoDigit DEF Signed
  <2>2. ds \in Seq(Chars) /\ \A k \in 1 .. n : IsDigit(ds[k])
    BY <2>1, DigitsFromFacts
  <2> HIDE DEF ds
  <2> QED BY <2>2, DigitValueType
<1> HIDE DEF n
<1>3. G \in [1 .. n -> Nat] /\ \A k \in 1 .. n : G[k] < k /\ G[k] = k - 1
  BY <1>2
<1>4. ASSUME NEW x \in Int, NEW k \in 1 .. n
      PROVE  H[<<x, k>>] = 10 * x + DigitValue(ds[k]) /\ H[<<x, k>>] \in Int
  <2> HIDE DEF ds
  <2>1. <<x, k>> \in Int \X (1 .. n)
    OBVIOUS
  <2>2. H[<<x, k>>] = 10 * x + DigitValue(ds[k])
    BY <2>1
  <2> QED BY <1>2, <2>2
<1> DEFINE Rec(f) == f = [k \in 0 .. n |-> IF k = 0 THEN 0 ELSE 10 * f[k - 1] + DigitValue(ds[k])]
<1>5. value = CHOOSE f : Rec(f)
  OBVIOUS
<1> HIDE DEF value, G, H, ds
<1>6. \E f : Rec(f)
  <2>1. PICK f : Solves(f, n, 0, G, H)
    BY <1>2, <1>3, Solvable
  <2>2. 0 \in Int
    OBVIOUS
  <2>3. \A k \in 0 .. n : f[k] \in Int
    BY <1>2, <1>3, <1>4, <2>1, <2>2, SolutionType
  <2>4. ASSUME NEW k \in 0 .. n
        PROVE  (IF k = 0 THEN 0 ELSE H[<<f[G[k]], k>>])
                 = (IF k = 0 THEN 0 ELSE 10 * f[k - 1] + DigitValue(ds[k]))
    <3>1. k # 0 => k \in 1 .. n /\ k - 1 \in 0 .. n
      BY <1>2
    <3>2. k # 0 => G[k] = k - 1 /\ f[k - 1] \in Int
      BY <1>3, <2>3, <3>1
    <3> QED BY <1>4, <3>1, <3>2
  <2>5. f = [k \in 0 .. n |-> IF k = 0 THEN 0 ELSE H[<<f[G[k]], k>>]]
    BY <2>1 DEF Solves
  <2>6. [k \in 0 .. n |-> IF k = 0 THEN 0 ELSE H[<<f[G[k]], k>>]]
         = [k \in 0 .. n |-> IF k = 0 THEN 0 ELSE 10 * f[k - 1] + DigitValue(ds[k])]
    BY <2>4
  <2> QED BY <2>5, <2>6
<1>7. Rec(value)
  <2> HIDE DEF Rec
  <2> QED BY <1>5, <1>6, Zenon
<1>8. \A k \in 0 .. n : value[k] = IF k = 0 THEN 0 ELSE 10 * value[k - 1] + DigitValue(ds[k])
  BY <1>7
<1> HIDE DEF Rec
<1> DEFINE bad == {k \in 0 .. n : value[k] \notin Int}
<1>9. ASSUME NEW k \in bad PROVE \E l \in bad : ~(k <= l)
  <2>1. k \in 0 .. n /\ value[k] \notin Int
    OBVIOUS
  <2>2. k # 0
    <3> HIDE DEF bad
    <3> QED BY <1>8, <2>1
  <2>3. k \in 1 .. n /\ k - 1 \in 0 .. n /\ ~(k <= k - 1)
    BY <1>2, <2>1, <2>2
  <2>4. value[k - 1] \notin Int
    <3> HIDE DEF bad
    <3> QED BY <1>2, <1>8, <2>1, <2>2, <2>3
  <2>5. k - 1 \in bad
    BY <2>3, <2>4
  <2> HIDE DEF bad
  <2> QED BY <2>3, <2>5
<1>10. bad \in SUBSET Nat
  BY <1>2
<1>11. bad = {}
  <2> HIDE DEF bad
  <2> QED BY <1>9, <1>10, LeastElement
<1>12. \A k \in 0 .. n : value[k] \in Int
  BY <1>11
<1>13. AtolTable(value, i)
  BY <1>1, <1>8, <1>12 DEF AtolTable, Number, n, ds
<1> QED BY <1>13

\* atol returns a number.
LEMMA AtolType ==
  ASSUME fmt \in Seq(Chars), NEW i \in 1 .. Len(fmt) + 1
  PROVE  atol(i) \in Int /\ Len(Number(i)) \in Nat
<1>1. (IF Signed(i) THEN i + 1 ELSE i) \in 1 .. Len(fmt) + 1
  BY CharAtFacts, EndIsNoDigit DEF Signed
<1>2. Len(Number(i)) \in Nat
  BY <1>1, DigitsFromFacts DEF Number
<1>3. PICK v : AtolTable(v, i)
  BY AtolMade
<1>4. v[Len(Number(i))] \in Int
  BY <1>2, <1>3 DEF AtolTable
<1> QED BY <1>2, <1>3, <1>4 DEF AtolTable

-----------------------------------------------------------------------------
(* printf: the invariant *)

PrintfInv ==
  /\ FormatOK /\ pad \in Chars /\ npad \in Int
  /\ Stored

\* A pass that gives s to addchar and moves on by one character.
LEMMA OutputKeeps ==
  ASSUME PrintfInv, NEW s \in Seq(Chars), AddAll(s), CharAt(at) # End, at' = at + 1,
         UNCHANGED <<fmt, bufSize, pad, npad>>
  PROVE  PrintfInv'
<1>1. Stored'
  BY AddAllKeeps DEF PrintfInv
<1>2. FormatOK'
  BY CharAtFacts DEF PrintfInv, FormatOK
<1> QED BY <1>1, <1>2 DEF PrintfInv

\* A conversion that prints s.
LEMMA ConvertKeeps ==
  ASSUME PrintfInv, NEW s \in Seq(Chars), NEW a, Convert(s, a), CharAt(at) # End
  PROVE  PrintfInv'
<1>1. AddAll(s) /\ at' = at + 1 /\ UNCHANGED <<fmt, bufSize, pad, npad>>
  BY DEF Convert, props
<1> QED BY <1>1, OutputKeeps

\* A pass that prints nothing.
LEMMA SilentKeeps ==
  ASSUME PrintfInv, UNCHANGED <<fmt, bufSize, buffer, remain, added, all>>,
         at' \in 1 .. Len(fmt) + 1, pad' \in Chars, npad' \in Int
  PROVE  PrintfInv'
<1>1. Stored'
  BY DEF PrintfInv, Stored, IsPrefixOf
<1>2. FormatOK'
  BY DEF PrintfInv, FormatOK
<1> QED BY <1>1, <1>2 DEF PrintfInv

\* At the start.
LEMMA PrintfInitInv == PrintfInit => PrintfInv
<1> SUFFICES ASSUME PrintfInit PROVE PrintfInv
  OBVIOUS
<1>1. fmt \in Seq(Chars) /\ bufSize \in Nat \ {0}
  BY PrintfAssumption DEF PrintfInit
<1>2. FormatOK
  BY <1>1 DEF PrintfInit, FormatOK
<1>3. pad \in Chars /\ npad \in Int
  BY CharTypes DEF PrintfInit
<1>4. Stored
  <2>1. buffer = <<>> /\ all = <<>> /\ remain = bufSize - 1 /\ added = 0
    BY DEF PrintfInit
  <2>2. IsPrefixOf(buffer, all)
    BY <2>1 DEF IsPrefixOf
  <2> QED BY <1>1, <2>1, <2>2 DEF Stored
<1> QED BY <1>2, <1>3, <1>4 DEF PrintfInv

\* A width: the number ends inside the format, also behind "0".
LEMMA WidthKeeps == PrintfInv /\ Width => PrintfInv'
<1> SUFFICES ASSUME PrintfInv, Width PROVE PrintfInv'
  OBVIOUS
<1> DEFINE zero == CharAt(at) = "0"
           start == IF zero THEN at + 1 ELSE at
<1>0. fmt \in Seq(Chars) /\ at \in 1 .. Len(fmt) + 1 /\ Len(fmt) \in Nat /\ pad \in Chars
  BY DEF PrintfInv, FormatOK
<1>1. /\ pad' = (IF zero THEN "0" ELSE pad) /\ npad' = atol(start)
      /\ at' = start + NumberLength(start)
      /\ UNCHANGED <<fmt, bufSize, buffer, remain, added, all>>
  BY DEF Width
<1>2. start \in 1 .. Len(fmt) + 1
  <2>1. "0" # End
    BY DEF End
  <2> QED BY <1>0, <2>1, CharAtFacts
<1> HIDE DEF start
<1>3. npad' \in Int
  BY <1>0, <1>1, <1>2, AtolType
<1>4. start + NumberLength(start) \in 1 .. Len(fmt) + 1
  <2>1. CASE Signed(start)
    <3>1. start + 1 \in 1 .. Len(fmt) + 1
      BY <1>0, <1>2, <2>1, CharAtFacts, EndIsNoDigit DEF Signed
    <3>2. (start + 1) + Len(DigitsFrom(start + 1)) \in start + 1 .. Len(fmt) + 1
      BY <1>0, <3>1, DigitsFromFacts
    <3>3. NumberLength(start) = 1 + Len(DigitsFrom(start + 1)) /\ Len(DigitsFrom(start + 1)) \in Nat
      BY <1>0, <2>1, <3>1, DigitsFromFacts DEF NumberLength
    <3> QED BY <1>0, <1>2, <3>2, <3>3
  <2>2. CASE ~Signed(start)
    <3>1. NumberLength(start) = Len(DigitsFrom(start))
      BY <2>2 DEF NumberLength
    <3>2. start + Len(DigitsFrom(start)) \in start .. Len(fmt) + 1
      BY <1>0, <1>2, DigitsFromFacts
    <3> QED BY <1>0, <1>2, <3>1, <3>2
  <2> QED BY <2>1, <2>2
<1> QED BY <1>0, <1>1, <1>3, <1>4, SilentKeeps, CharTypes

\* Every conversion prints characters.
LEMMA ConversionKeeps ==
  ASSUME PrintfInv,
         \/ \E n \in Ints : ConvertInt(n)
         \/ \E n \in Unsigneds : ConvertUnsigned(n) \/ ConvertPointer(n)
         \/ \E s \in Strings : ConvertString(s)
  PROVE  PrintfInv'
<1>0. pad \in Chars /\ npad \in Int
  BY DEF PrintfInv
<1>1. "d" # End /\ "u" # End /\ "x" # End /\ "p" # End /\ "s" # End
  BY DEF End
<1>2. ASSUME NEW n \in Ints, ConvertInt(n) PROVE PrintfInv'
  <2>1. n \in Int
    BY PrintfAssumption
  <2>2. print_str(print_int(n, 10), pad, npad) \in Seq(Chars)
    BY <1>0, <2>1, PrintIntType, PrintStrType
  <2>3. CharAt(at) # End /\ Convert(print_str(print_int(n, 10), pad, npad), n)
    BY <1>1, <1>2 DEF ConvertInt, More
  <2> QED BY <2>2, <2>3, ConvertKeeps
<1>3. ASSUME NEW n \in Unsigneds, ConvertUnsigned(n) \/ ConvertPointer(n) PROVE PrintfInv'
  <2>1. n \in Nat
    BY PrintfAssumption
  <2>2. \A alt : print_unsigned(n, 10, alt) \in Seq(Chars) /\ print_unsigned(n, 16, alt) \in Seq(Chars)
    BY <1>0, <2>1, PrintUnsignedType
  <2>3. /\ CharAt(at) # End
        /\ \/ Convert(print_unsigned(n, 10, alternate), n)
           \/ Convert(print_unsigned(n, 16, alternate), n)
           \/ Convert(print_unsigned(n, 16, TRUE), n)
    BY <1>1, <1>3 DEF ConvertUnsigned, ConvertPointer, More
  <2> QED BY <2>2, <2>3, ConvertKeeps
<1>4. ASSUME NEW s \in Strings, ConvertString(s) PROVE PrintfInv'
  <2>1. s \in Seq(Chars)
    BY PrintfAssumption
  <2>2. print_str(s, pad, npad) \in Seq(Chars)
    BY <1>0, <2>1, PrintStrType
  <2>3. CharAt(at) # End /\ Convert(print_str(s, pad, npad), s)
    BY <1>1, <1>4 DEF ConvertString, More
  <2> QED BY <2>2, <2>3, ConvertKeeps
<1> QED BY <1>2, <1>3, <1>4

\* The cursor and the buffer stay inside their bounds.
LEMMA PrintfInvariant == PrintfSpec => []PrintfInv
<1>1. PrintfInv /\ [PrintfNext]_printfVars => PrintfInv'
  <2> SUFFICES ASSUME PrintfInv, [PrintfNext]_printfVars PROVE PrintfInv'
    OBVIOUS
  <2>0. /\ fmt \in Seq(Chars) /\ at \in 1 .. Len(fmt) + 1 /\ pad \in Chars /\ npad \in Int
    BY DEF PrintfInv, FormatOK
  <2>c. /\ CharAt(at) # End => at + 1 \in 1 .. Len(fmt) + 1 /\ CharAt(at) \in Chars
        /\ CharAt(at) \in Chars => <<CharAt(at)>> \in Seq(Chars)
    BY <2>0, CharAtFacts
  <2>1. CASE Text
    <3>1. /\ CharAt(at) # End /\ AddAll(<<CharAt(at)>>) /\ at' = at + 1
          /\ UNCHANGED <<fmt, bufSize, pad, npad>>
      BY <2>1 DEF Text, props
    <3> QED BY <2>c, <3>1, OutputKeeps
  <2>2. CASE StartSpec
    <3>1. CharAt(at) # End
      BY <2>2 DEF StartSpec, End
    <3>2. at' = at + 1 /\ pad' = Blank /\ npad' = 0 /\ UNCHANGED <<fmt, bufSize, buffer, remain, added, all>>
      BY <2>2 DEF StartSpec
    <3> QED BY <2>c, <3>1, <3>2, SilentKeeps, CharTypes
  <2>3. CASE Finish \/ Truncated
    <3>1. UNCHANGED <<fmt, at, pad, npad, bufSize, buffer, remain, added, all>>
      BY <2>3 DEF Finish, Truncated, props
    <3> QED BY <2>0, <3>1, SilentKeeps
  <2>4. CASE Modifier
    <3>1. CharAt(at) # End
      BY <2>4 DEF Modifier, More, End
    <3>2. at' = at + 1 /\ UNCHANGED <<fmt, pad, npad, bufSize, buffer, remain, added, all>>
      BY <2>4 DEF Modifier
    <3> QED BY <2>0, <2>c, <3>1, <3>2, SilentKeeps
  <2>5. CASE Literal
    <3>1. CharAt(at) # End
      BY <2>5 DEF Literal
    <3>2. CASE Convert(<<"A">>, "A")
      <4>1. <<"A">> \in Seq(Chars)
        BY CharTypes
      <4> QED BY <3>1, <3>2, <4>1, ConvertKeeps
    <3>3. CASE AddAll(<<CharAt(at)>>) /\ at' = at + 1 /\ UNCHANGED <<fmt, bufSize, props>>
      <4>1. UNCHANGED <<fmt, bufSize, pad, npad>>
        BY <3>3 DEF props
      <4> QED BY <2>c, <3>1, <3>3, <4>1, OutputKeeps
    <3> QED BY <2>5, <3>2, <3>3 DEF Literal
  <2>6. CASE Width
    BY <2>6, WidthKeeps
  <2>7. CASE UNCHANGED printfVars
    <3>1. UNCHANGED <<fmt, at, pad, npad, bufSize, buffer, remain, added, all>>
      BY <2>7 DEF printfVars
    <3> QED BY <2>0, <3>1, SilentKeeps
  <2> QED BY <2>1, <2>2, <2>3, <2>4, <2>5, <2>6, <2>7, ConversionKeeps DEF PrintfNext
<1> QED BY <1>1, PrintfInitInv, PTL DEF PrintfSpec

\* For every format, argument and buffer size: vsnprintf reads the format up to its
\* terminator and no further, stores inside the buffer a beginning of the output,
\* all of it if there is room, and returns the length of all of it.
THEOREM AlwaysInBounds == PrintfSpec => []PrintfInBounds
<1>1. PrintfInv => PrintfInBounds
  <2> SUFFICES ASSUME PrintfInv PROVE PrintfInBounds
    OBVIOUS
  <2>1. at <= Len(fmt) + 1
    BY DEF PrintfInv, FormatOK
  <2>2. /\ remain \in Nat /\ Len(buffer) \in Nat /\ bufSize \in Nat /\ Len(buffer) + remain = bufSize - 1
        /\ added = Len(all) /\ IsPrefixOf(buffer, all) /\ (remain > 0 => buffer = all)
    BY DEF PrintfInv, Stored
  <2>3. Len(buffer) < bufSize /\ (Len(buffer) < bufSize - 1 => remain > 0)
    BY <2>2
  <2> QED BY <2>1, <2>2, <2>3 DEF PrintfInBounds
<1> QED BY <1>1, PrintfInvariant, PTL

-----------------------------------------------------------------------------
(* printf: one conversion prints what the C library prints *)

\* No padding where the width is used up.
LEMMA RepeatNone ==
  ASSUME NEW c, NEW n \in Int, n <= 0
  PROVE  Repeat(c, n) = <<>>
<1>1. 1 .. n = {}
  OBVIOUS
<1>2. Repeat(c, n) = [i \in {} |-> c]
  BY <1>1 DEF Repeat
<1>3. [i \in {} |-> c] = <<>>
  OBVIOUS
<1> QED BY <1>2, <1>3

PadOf(zero) == IF zero THEN "0" ELSE Blank
WidthOf(left, w) == IF left THEN -w ELSE w

\* print_str pads like the C library where no sign stands in front of zeros.
LEMMA PaddedText ==
  ASSUME NEW sign \in Seq(Chars), NEW body \in Seq(Chars), NEW zero \in BOOLEAN, NEW left \in BOOLEAN,
         NEW w \in 1 .. 9, zero /\ ~left => sign = <<>>
  PROVE  print_str(sign \o body, PadOf(zero), WidthOf(left, w)) = CText(sign, body, zero, left, w)
<1> DEFINE t == sign \o body
           fill == w - Len(t)
<1>1. t \in Seq(Chars) /\ Len(t) \in Nat /\ fill \in Int /\ w \in Int /\ w > 0
  OBVIOUS
<1>2. Repeat("0", fill) \in Seq(Chars) /\ Repeat(Blank, fill) \in Seq(Chars)
  <2> HIDE DEF fill
  <2> QED BY <1>1, RepeatType, CharTypes
<1>3. CASE left
  <2>1. WidthOf(left, w) = -w /\ ~(-w > 0) /\ -(-w + Len(t)) = fill
    BY <1>1, <1>3 DEF WidthOf
  <2>2. print_str(t, PadOf(zero), WidthOf(left, w)) = t \o Repeat(Blank, fill)
    <3> HIDE DEF t, fill
    <3> QED BY <2>1 DEF print_str
  <2>3. CText(sign, body, zero, left, w) = t \o Repeat(Blank, fill)
    BY <1>3 DEF CText
  <2> QED BY <2>2, <2>3
<1>4. CASE ~left
  <2>1. WidthOf(left, w) = w
    BY <1>4 DEF WidthOf
  <2>2. print_str(t, PadOf(zero), WidthOf(left, w)) = Repeat(PadOf(zero), fill) \o t
    <3> HIDE DEF t
    <3> QED BY <1>1, <2>1 DEF print_str
  <2>3. CASE zero
    <3>1. sign = <<>> /\ PadOf(zero) = "0"
      BY <1>4, <2>3 DEF PadOf
    <3>2. CText(sign, body, zero, left, w) = sign \o Repeat("0", fill) \o body
      BY <1>4, <2>3 DEF CText
    <3> HIDE DEF fill
    <3>3. t = body /\ sign \o Repeat("0", fill) = Repeat("0", fill)
      BY <1>2, <3>1
    <3> QED BY <2>2, <3>1, <3>2, <3>3
  <2>4. CASE ~zero
    <3>1. PadOf(zero) = Blank
      BY <2>4 DEF PadOf
    <3>2. CText(sign, body, zero, left, w) = Repeat(Blank, fill) \o sign \o body
      BY <1>4, <2>4 DEF CText
    <3> HIDE DEF fill
    <3>3. (Repeat(Blank, fill) \o sign) \o body = Repeat(Blank, fill) \o (sign \o body)
      BY <1>2, SMTT(60), ZenonT(60)
    <3> QED BY <2>2, <3>1, <3>2, <3>3
  <2> QED BY <2>3, <2>4
<1> QED BY <1>3, <1>4

\* The type of a numeral.
LEMMA NumeralType ==
  ASSUME NEW n \in Nat, NEW base \in {10, 16}
  PROVE  Numeral(n, base) \in Seq(Chars)
BY DigitsNumeral, DigitsType, OrZeroType

\* "%d" of an int: the sign and the numeral.
LEMMA IntText ==
  ASSUME NEW n \in Int, IsInt(n), NEW alt
  PROVE  /\ print_int(n, 10) = CSign("d", alt, n) \o CBody("d", n)
         /\ CSign("d", alt, n) \in Seq(Chars) /\ CBody("d", n) \in Seq(Chars)
         /\ n >= 0 => CSign("d", alt, n) = <<>>
<1> DEFINE m == Magnitude(n)
           ds == Digits(m, 10)
<1>1. m \in Nat /\ (n < 0 => m # 0) /\ (n >= 0 => m = n)
  BY DEF Magnitude
<1>2. n # MinLong
  <2> DEFINE X == 2^(UintBits - 1)
             Y == 2^(LongBits - 1)
  <2>1. X \in Int /\ Y \in Int
    BY PrintfAssumption
  <2>2. X < Y
    BY PrintfAssumption
  <2>3. n \in -X .. X - 1
    BY DEF IsInt
  <2>4. MinLong = -Y
    BY DEF MinLong
  <2> HIDE DEF X, Y
  <2> QED BY <2>1, <2>2, <2>3, <2>4
<1>3. print_int(n, 10) = OrZero(IF n < 0 THEN <<"-">> \o ds ELSE ds)
  BY <1>2 DEF print_int
<1>4. CBody("d", n) = Numeral(m, 10)
  BY DEF CBody
<1> HIDE DEF m
<1>5. /\ m # 0 => ds = Numeral(m, 10)
      /\ OrZero(ds) = Numeral(m, 10) /\ Numeral(m, 10) \in Seq(Chars)
  BY <1>1, DigitsNumeral, NumeralType
<1>6. CSign("d", alt, n) = IF n < 0 THEN <<"-">> ELSE <<>>
  BY DEF CSign
<1>7. <<"-">> \in Seq(Chars)
  BY CharTypes
<1>8. CASE n < 0
  <2>1. <<"-">> \o ds = <<"-">> \o Numeral(m, 10)
    BY <1>1, <1>5, <1>8
  <2>2. <<"-">> \o Numeral(m, 10) # <<>>
    <3>1. Len(<<"-">> \o Numeral(m, 10)) = 1 + Len(Numeral(m, 10)) /\ Len(Numeral(m, 10)) \in Nat
      BY <1>5, <1>7
    <3> QED BY <3>1
  <2>3. print_int(n, 10) = <<"-">> \o Numeral(m, 10)
    BY <1>3, <1>8, <2>1, <2>2 DEF OrZero
  <2>4. CSign("d", alt, n) = <<"-">> /\ ~(n >= 0)
    BY <1>6, <1>8
  <2>5. CSign("d", alt, n) \in Seq(Chars) /\ CBody("d", n) \in Seq(Chars)
    BY <1>4, <1>5, <1>7, <2>4
  <2>6. print_int(n, 10) = CSign("d", alt, n) \o CBody("d", n)
    BY <1>4, <2>3, <2>4, Zenon
  <2> QED BY <2>4, <2>5, <2>6
<1>9. CASE ~(n < 0)
  <2>1. print_int(n, 10) = Numeral(m, 10)
    BY <1>3, <1>5, <1>9
  <2>2. <<>> \o Numeral(m, 10) = Numeral(m, 10)
    BY <1>5
  <2>0. <<>> \in Seq(Chars)
    OBVIOUS
  <2>3. CSign("d", alt, n) = <<>> /\ CSign("d", alt, n) \in Seq(Chars)
    BY <1>6, <1>9, <2>0, Zenon
  <2>4. print_int(n, 10) = CSign("d", alt, n) \o CBody("d", n)
    BY <1>4, <2>1, <2>2, <2>3, Zenon
  <2> QED BY <1>4, <1>5, <2>3, <2>4
<1> QED BY <1>8, <1>9

\* "%x" of an unsigned int: the prefix counts for the width, and zeros follow it.
LEMMA UnsignedText ==
  ASSUME NEW n \in Nat, IsUnsigned(n), NEW zero \in BOOLEAN, NEW left \in BOOLEAN, NEW w \in 1 .. 9,
         NEW alt \in BOOLEAN, ~(alt /\ zero /\ left), pad = PadOf(zero), npad = WidthOf(left, w)
  PROVE  print_unsigned(n, 16, alt) = CText(CSign("x", alt, n), CBody("x", n), zero, left, w)
<1> DEFINE ds == Digits(n, 16)
           num == Numeral(n, 16)
           prefixed == alt /\ ds # <<>>
           rest == IF npad > 2 THEN npad - 2 ELSE 0
           ox == <<"0", "x">>
           sign == CSign("x", alt, n)
<1>1. n % 2^UintBits = n
  <2>1. 2^UintBits \in Int /\ n < 2^UintBits
    BY PrintfAssumption DEF IsUnsigned
  <2> DEFINE X == 2^UintBits
  <2> HIDE DEF X
  <2>2. X \in Int /\ n < X
    BY <2>1 DEF X
  <2>3. n % X = n
    BY <2>2
  <2> QED BY <2>3 DEF X
<1>2. print_unsigned(n, 16, alt) =
        IF prefixed /\ pad = "0" THEN ox \o print_str(ds, pad, IF npad > 0 THEN rest ELSE npad)
        ELSE print_str(OrZero(IF prefixed THEN ox \o ds ELSE ds), pad, npad)
  <2>1. print_unsigned(n, 16, alt) =
          IF alt /\ 16 = 16 /\ ds # <<>> /\ pad = "0" THEN ox \o print_str(ds, pad, IF npad > 0 THEN rest ELSE npad)
          ELSE print_str(OrZero(IF alt /\ 16 = 16 /\ ds # <<>> THEN ox \o ds ELSE ds), pad, npad)
    BY <1>1, Zenon DEF print_unsigned
  <2> QED BY <2>1
<1>3. CBody("x", n) = num
  BY DEF CBody
<1>4. sign = IF alt /\ n # 0 THEN ox ELSE <<>>
  BY DEF CSign
<1>5. /\ n = 0 => ds = <<>>
      /\ n # 0 => ds = num /\ ds # <<>>
      /\ OrZero(ds) = num /\ num \in Seq(Chars) /\ ds \in Seq(Chars)
  BY DigitsNumeral, NumeralType, DigitsType
<1> HIDE DEF ds, num, sign
<1>6. prefixed <=> (alt /\ n # 0)
  BY <1>5
<1>7. ox \in Seq(Chars) /\ Len(ox) = 2
  BY CharTypes
<1> HIDE DEF prefixed, ox
<1>8. CASE prefixed /\ zero
  <2>1. pad = "0" /\ npad = w /\ ds = num /\ sign = ox /\ ~left /\ w \in Nat /\ w > 0
    BY <1>4, <1>5, <1>6, <1>8 DEF PadOf, WidthOf
  <2>2. print_unsigned(n, 16, alt) = ox \o print_str(num, "0", rest)
    BY <1>2, <1>8, <2>1
  <2> DEFINE fill == w - Len(ox \o num)
  <2>3. CText(sign, num, zero, left, w) = ox \o Repeat("0", fill) \o num
    BY <1>8, <2>1 DEF CText
  <2>4. Len(num) \in Nat /\ fill = (w - 2) - Len(num) /\ fill \in Int
    <3>0. num \in Seq(Chars) /\ ox \in Seq(Chars)
      BY <1>5, <1>7
    <3>1. Len(num) \in Nat /\ Len(ox \o num) = Len(ox) + Len(num)
      BY <3>0, ConcatProperties
    <3> QED BY <1>7, <2>1, <3>1
  <2>5. print_str(num, "0", rest) = Repeat("0", fill) \o num
    <3>1. CASE w > 2
      BY <2>1, <2>4, <3>1, SMTT(60), ZenonT(60) DEF print_str
    <3>2. CASE ~(w > 2)
      <4>1. rest = 0
        BY <2>1, <3>2
      <4>2. print_str(num, "0", 0) = num \o Repeat(Blank, -(0 + Len(num)))
        BY DEF print_str
      <4>3. -(0 + Len(num)) \in Int /\ -(0 + Len(num)) <= 0 /\ fill <= 0
        BY <2>1, <2>4, <3>2
      <4>4. Repeat(Blank, -(0 + Len(num))) = <<>> /\ Repeat("0", fill) = <<>>
        <5> HIDE DEF fill
        <5> QED BY <2>4, <4>3, RepeatNone
      <4>5. num \o <<>> = num /\ <<>> \o num = num
        BY <1>5
      <4> QED BY <4>1, <4>2, <4>4, <4>5
    <3> QED BY <3>1, <3>2
  <2>6. Repeat("0", fill) \in Seq(Chars)
    <3> HIDE DEF fill
    <3> QED BY <2>4, RepeatType, CharTypes
  <2>7. ox \o (Repeat("0", fill) \o num) = (ox \o Repeat("0", fill)) \o num
    <3> HIDE DEF fill
    <3> QED BY <1>5, <1>7, <2>6, SMTT(60), ZenonT(60)
  <2> QED BY <1>3, <2>2, <2>3, <2>5, <2>7 DEF sign
<1>9. CASE ~(prefixed /\ zero)
  <2>1. OrZero(IF prefixed THEN ox \o ds ELSE ds) = sign \o num
    <3>1. CASE prefixed
      <4>1. ds = num /\ sign = ox
        BY <1>4, <1>5, <1>6, <3>1
      <4>2. ox \o num # <<>>
        BY <1>5, <1>7, SMTT(60), ZenonT(60)
      <4> QED BY <3>1, <4>1, <4>2 DEF OrZero
    <3>2. CASE ~prefixed
      <4>1. sign = <<>> /\ <<>> \o num = num
        BY <1>4, <1>5, <1>6, <3>2
      <4> QED BY <1>5, <3>2, <4>1
    <3> QED BY <3>1, <3>2
  <2>2. ~(prefixed /\ pad = "0")
    BY <1>9 DEF PadOf, Blank
  <2>3. print_unsigned(n, 16, alt) = print_str(sign \o num, PadOf(zero), WidthOf(left, w))
    BY <1>2, <2>1, <2>2
  <2>4. sign \in Seq(Chars) /\ (zero /\ ~left => sign = <<>>)
    BY <1>4, <1>6, <1>7, <1>9
  <2>5. print_str(sign \o num, PadOf(zero), WidthOf(left, w)) = CText(sign, num, zero, left, w)
    BY <1>5, <2>4, PaddedText, SMTT(60), ZenonT(60)
  <2> QED BY <1>3, <2>3, <2>5 DEF sign
<1> QED BY <1>8, <1>9

-----------------------------------------------------------------------------
(* printf: the format of one conversion *)

\* The places of the width and of the letter in such a format.
Extra(b) == IF b THEN 1 ELSE 0
FlagAt(alt) == 2 + Extra(alt)
LetterAt(alt, zero, left) == FlagAt(alt) + Extra(zero) + Extra(left) + 1

\* What such a format has where.
Parts(s, alt, zero, left, d, conv) ==
  LET f == FlagAt(alt)
      c == LetterAt(alt, zero, left)
  IN /\ s[1] = "%" /\ (alt => s[2] = "#")
     /\ s[f] = IF zero THEN "0" ELSE IF left THEN "-" ELSE d
     /\ left => s[c - 2] = "-"
     /\ s[c - 1] = d /\ s[c] = conv
     /\ Len(s) = c

\* A sequence with or without one more element.
Longer(t, s, b, c) ==
  /\ Len(t) = Len(s) + Extra(b)
  /\ \A i \in 1 .. Len(s) : t[i] = s[i]
  /\ b => t[Len(s) + 1] = c

\* A flag that is there adds one character.
LEMMA LongerFacts ==
  ASSUME NEW S, NEW s \in Seq(S), NEW c \in S, NEW b \in BOOLEAN
  PROVE  /\ s \o (IF b THEN <<c>> ELSE <<>>) \in Seq(S)
         /\ Longer(s \o (IF b THEN <<c>> ELSE <<>>), s, b, c)
<1>1. CASE b
  <2>1. s \o <<c>> \in Seq(S) /\ Len(s \o <<c>>) = Len(s) + 1 /\ (s \o <<c>>)[Len(s) + 1] = c
        /\ \A i \in 1 .. Len(s) : (s \o <<c>>)[i] = s[i]
    OBVIOUS
  <2> QED BY <1>1, <2>1 DEF Longer, Extra
<1>2. CASE ~b
  <2>1. s \o <<>> = s /\ Len(s) + 0 = Len(s)
    OBVIOUS
  <2> QED BY <1>2, <2>1 DEF Longer, Extra
<1> QED BY <1>1, <1>2

\* The format of one conversion, part by part.
LEMMA FormParts ==
  ASSUME NEW alt \in BOOLEAN, NEW zero \in BOOLEAN, NEW left \in BOOLEAN, NEW w, NEW conv
  PROVE  Parts(OneConversion(alt, zero, left, w, conv), alt, zero, left, DigitChars[w + 1], conv)
<1> DEFINE d == DigitChars[w + 1]
           S == {"%", "#", "0", "-", d, conv}
           t1 == <<"%">>
           t2 == t1 \o (IF alt THEN <<"#">> ELSE <<>>)
           t3 == t2 \o (IF zero THEN <<"0">> ELSE <<>>)
           t4 == t3 \o (IF left THEN <<"-">> ELSE <<>>)
           F == t4 \o <<d, conv>>
<1>0. OneConversion(alt, zero, left, w, conv) = F
  BY DEF OneConversion
<1> HIDE DEF d
<1>s. "%" \in S /\ "#" \in S /\ "0" \in S /\ "-" \in S /\ d \in S /\ conv \in S
  OBVIOUS
<1> HIDE DEF S
<1>1. t1 \in Seq(S) /\ Len(t1) = 1 /\ t1[1] = "%"
  BY <1>s
<1> HIDE DEF t1
<1>2. t2 \in Seq(S) /\ Longer(t2, t1, alt, "#")
  BY <1>s, <1>1, LongerFacts
<1> HIDE DEF t2
<1>3. t3 \in Seq(S) /\ Longer(t3, t2, zero, "0")
  BY <1>s, <1>2, LongerFacts
<1> HIDE DEF t3
<1>4. t4 \in Seq(S) /\ Longer(t4, t3, left, "-")
  BY <1>s, <1>3, LongerFacts
<1> HIDE DEF t4
<1>5. /\ Len(F) = Len(t4) + 2 /\ F[Len(t4) + 1] = d /\ F[Len(t4) + 2] = conv
      /\ \A i \in 1 .. Len(t4) : F[i] = t4[i]
  <2>1. <<d, conv>> \in Seq(S) /\ Len(<<d, conv>>) = 2 /\ <<d, conv>>[1] = d /\ <<d, conv>>[2] = conv
    BY <1>s
  <2> QED BY <1>4, <2>1
<1> HIDE DEF F
<1>6. Extra(alt) \in 0 .. 1 /\ Extra(zero) \in 0 .. 1 /\ Extra(left) \in 0 .. 1
  BY DEF Extra
<1> DEFINE f == FlagAt(alt)
           c == LetterAt(alt, zero, left)
<1>7. /\ Len(t2) = 1 + Extra(alt) /\ Len(t3) = 1 + Extra(alt) + Extra(zero)
      /\ Len(t4) = 1 + Extra(alt) + Extra(zero) + Extra(left)
  BY <1>1, <1>2, <1>3, <1>4, <1>6 DEF Longer
<1>8. /\ f = Len(t2) + 1 /\ c = Len(t4) + 2 /\ c - 1 = Len(t4) + 1
      /\ left => c - 2 = Len(t3) + 1 /\ Len(t4) = Len(t3) + 1
      /\ ~zero => Len(t3) = Len(t2)
      /\ ~left => Len(t4) = Len(t3)
      /\ zero => Len(t3) = Len(t2) + 1
      /\ alt => Len(t2) = 2
      /\ Len(t2) \in Nat /\ Len(t3) \in Nat /\ Len(t4) \in Nat
      /\ 1 <= Len(t2) /\ Len(t2) <= Len(t3) /\ Len(t3) <= Len(t4)
  BY <1>6, <1>7 DEF FlagAt, LetterAt, Extra
<1> HIDE DEF f, c
<1>9. F[1] = "%" /\ (alt => F[2] = "#")
  <2>1. 1 \in 1 .. Len(t1) /\ 1 \in 1 .. Len(t2) /\ 1 \in 1 .. Len(t3) /\ 1 \in 1 .. Len(t4)
    BY <1>1, <1>8
  <2>2. F[1] = t4[1] /\ t4[1] = t3[1] /\ t3[1] = t2[1] /\ t2[1] = t1[1]
    BY <1>2, <1>3, <1>4, <1>5, <2>1 DEF Longer
  <2>3. alt => 2 \in 1 .. Len(t2) /\ 2 \in 1 .. Len(t3) /\ 2 \in 1 .. Len(t4)
    BY <1>8, SMTT(60), ZenonT(60)
  <2>4. alt => F[2] = t4[2] /\ t4[2] = t3[2] /\ t3[2] = t2[2] /\ t2[2] = "#"
    <3>1. alt => t2[1 + 1] = "#"
      BY <1>1, <1>2 DEF Longer
    <3> QED BY <1>3, <1>4, <1>5, <2>3, <3>1 DEF Longer
  <2> QED BY <1>1, <2>2, <2>4
<1>10. F[f] = IF zero THEN "0" ELSE IF left THEN "-" ELSE d
  <2>1. CASE zero
    <3>1. f \in 1 .. Len(t3) /\ f \in 1 .. Len(t4)
      BY <1>8, <2>1
    <3>2. F[f] = t4[f] /\ t4[f] = t3[f] /\ t3[f] = "0"
      BY <1>3, <1>4, <1>5, <1>8, <2>1, <3>1 DEF Longer
    <3> QED BY <2>1, <3>2
  <2>2. CASE ~zero /\ left
    <3>1. f \in 1 .. Len(t4) /\ f = Len(t3) + 1
      BY <1>8, <2>2
    <3>2. F[f] = t4[f] /\ t4[f] = "-"
      BY <1>4, <1>5, <2>2, <3>1 DEF Longer
    <3> QED BY <2>2, <3>2
  <2>3. CASE ~zero /\ ~left
    <3>1. f = Len(t4) + 1
      BY <1>8, <2>3
    <3> QED BY <1>5, <2>3, <3>1
  <2> QED BY <2>1, <2>2, <2>3
<1>11. left => F[c - 2] = "-"
  <2> SUFFICES ASSUME left PROVE F[c - 2] = "-"
    OBVIOUS
  <2>1. c - 2 = Len(t3) + 1 /\ c - 2 \in 1 .. Len(t4)
    BY <1>8
  <2> QED BY <1>4, <1>5, <2>1 DEF Longer
<1>12. F[c - 1] = d /\ F[c] = conv /\ Len(F) = c
  BY <1>5, <1>8
<1>13. Parts(F, alt, zero, left, d, conv)
  BY <1>9, <1>10, <1>11, <1>12 DEF Parts, f, c
<1> QED BY <1>0, <1>13 DEF d

\* The digit of a width, and the letters that are no digits.
LEMMA WidthDigit ==
  ASSUME NEW w \in 1 .. 9
  PROVE  /\ IsDigit(DigitChars[w + 1]) /\ DigitValue(DigitChars[w + 1]) = w
         /\ DigitChars[w + 1] \notin {"0", "-", "#", "%", End}
<1>1. w + 1 \in 1 .. 10
  OBVIOUS
<1>2. \A i \in 1 .. 10 : DigitChars[i] = DigitChars[w + 1] => i = w + 1
  <2> SUFFICES ASSUME NEW i \in 1 .. 10, DigitChars[i] = DigitChars[w + 1] PROVE i = w + 1
    OBVIOUS
  <2> QED BY <1>1 DEF DigitChars
<1> DEFINE j == CHOOSE i \in 1 .. 10 : DigitChars[i] = DigitChars[w + 1]
<1>3. j = w + 1
  BY <1>1, <1>2
<1>4. DigitValue(DigitChars[w + 1]) = w
  <2>1. DigitValue(DigitChars[w + 1]) = j - 1
    BY DEF DigitValue
  <2> HIDE DEF j
  <2> QED BY <1>3, <2>1
<1>5. DigitChars[w + 1] \notin {"0", "-", "#", "%", End}
  BY DEF DigitChars, End
<1> QED BY <1>1, <1>4, <1>5 DEF IsDigit

\* The letters and the flags "#" and "-" are no digits; the flag "0" is one.
LEMMA LettersAreNoDigits == ~IsDigit("d") /\ ~IsDigit("x") /\ ~IsDigit("s") /\ ~IsDigit("#") /\ ~IsDigit("-") /\ IsDigit("0")
BY DEF IsDigit, DigitChars

\* fmtnum reads a width of one digit, with "-" in front of it too.
LEMMA WidthRead ==
  ASSUME fmt \in Seq(Chars), NEW i \in Nat, i >= 1, i + 1 = Len(fmt), NEW w \in 1 .. 9,
         fmt[i] = DigitChars[w + 1], fmt[i + 1] \in {"d", "x", "s"}
  PROVE  /\ atol(i) = w /\ NumberLength(i) = 1
         /\ i > 1 /\ fmt[i - 1] = "-" => atol(i - 1) = -w /\ NumberLength(i - 1) = 2
<1> DEFINE d == DigitChars[w + 1]
           e == DigitsEnd(i)
<1>0. i \in 1 .. Len(fmt) + 1 /\ i \in 1 .. Len(fmt) /\ i + 1 \in 1 .. Len(fmt)
  OBVIOUS
<1>1. CharAt(i) = d /\ CharAt(i + 1) = fmt[i + 1] /\ IsDigit(d) /\ d # "-" /\ DigitValue(d) = w
  BY <1>0, CharAtFacts, WidthDigit
<1> HIDE DEF d
<1>2. e = i + 1
  <2>1. e \in i .. Len(fmt) + 1 /\ (\A k \in i .. e - 1 : IsDigit(fmt[k])) /\ ~IsDigit(CharAt(e))
    BY <1>0, DigitsEndFacts
  <2> HIDE DEF e
  <2>2. e # i
    BY <1>1, <2>1
  <2>3. ~IsDigit(fmt[i + 1])
    BY LettersAreNoDigits
  <2>4. i + 1 \notin i .. e - 1
    BY <2>1, <2>3
  <2> QED BY <2>1, <2>2, <2>4
<1>3. DigitsFrom(i) = <<d>>
  <2>1. DigitsFrom(i) = SubSeq(fmt, i, i)
    BY <1>2 DEF DigitsFrom
  <2>2. SubSeq(fmt, i, i) = <<fmt[i]>>
    <3> DEFINE s == SubSeq(fmt, i, i)
    <3>1. s \in Seq(Chars) /\ Len(s) = 1 /\ s[1] = fmt[i]
      BY <1>0
    <3> HIDE DEF s
    <3>2. \A x : s \in Seq(Chars) /\ Len(s) = 1 /\ s[1] = x => s = <<x>>
      OBVIOUS
    <3> QED BY <3>1, <3>2 DEF s
  <2> QED BY <2>1, <2>2 DEF d
<1>4. ASSUME NEW j \in 1 .. Len(fmt) + 1, Number(j) = <<d>>
      PROVE  atol(j) = IF Signed(j) THEN -w ELSE w
  <2>1. PICK v : AtolTable(v, j)
    BY AtolMade
  <2>2. Len(Number(j)) = 1 /\ Number(j)[1] = d
    BY <1>4
  <2>3. 0 \in 0 .. Len(Number(j)) /\ 1 \in 0 .. Len(Number(j))
    BY <2>2
  <2>4. v[0] = 0 /\ v[1] = 10 * v[1 - 1] + DigitValue(d)
    BY <2>1, <2>2, <2>3 DEF AtolTable
  <2>5. v[1] = w
    BY <1>1, <2>4
  <2>6. atol(j) = IF Signed(j) THEN -v[1] ELSE v[1]
    BY <2>1, <2>2 DEF AtolTable
  <2> QED BY <2>5, <2>6
<1>5. ~Signed(i) /\ Number(i) = <<d>>
  BY <1>1, <1>3 DEF Signed, Number
<1>6. atol(i) = w
  BY <1>0, <1>4, <1>5
<1>7. NumberLength(i) = 1
  BY <1>3, <1>5 DEF NumberLength
<1>8. ASSUME i > 1, fmt[i - 1] = "-" PROVE atol(i - 1) = -w /\ NumberLength(i - 1) = 2
  <2>1. i - 1 \in 1 .. Len(fmt) + 1 /\ i - 1 \in 1 .. Len(fmt) /\ (i - 1) + 1 = i
    BY <1>0, <1>8
  <2>2. Signed(i - 1)
    BY <1>8, <2>1, CharAtFacts DEF Signed
  <2>3. Number(i - 1) = <<d>>
    BY <1>3, <2>1, <2>2 DEF Number
  <2>4. atol(i - 1) = -w
    BY <1>4, <2>1, <2>2, <2>3
  <2>5. NumberLength(i - 1) = 1 + Len(<<d>>)
    BY <1>3, <2>1, <2>2 DEF NumberLength
  <2> QED BY <2>4, <2>5
<1> QED BY <1>6, <1>7, <1>8

-----------------------------------------------------------------------------
(* printf: one conversion, step by step *)

\* A character has one action.
LEMMA OnlyStart == PrintfNext /\ place = "text" /\ CharAt(at) = "%" => StartSpec
BY DEF PrintfNext, Text, Finish, Modifier, Width, Literal, Truncated, ConvertInt, ConvertUnsigned,
       ConvertPointer, ConvertString, More, End

\* At the terminator the loop ends.
LEMMA OnlyFinish == PrintfNext /\ place = "text" /\ CharAt(at) = End => Finish
BY DEF PrintfNext, Text, StartSpec, Modifier, Width, Literal, Truncated, ConvertInt, ConvertUnsigned,
       ConvertPointer, ConvertString, More, End

\* Behind its end nothing happens.
LEMMA NoneDone == PrintfNext => place # "done"
BY DEF PrintfNext, Text, StartSpec, Finish, Modifier, Width, Literal, Truncated, ConvertInt, ConvertUnsigned,
       ConvertPointer, ConvertString, More

\* "#" is a modifier.
LEMMA OnlyModifier == PrintfNext /\ place = "morefmt" /\ CharAt(at) = "#" => Modifier
BY LettersAreNoDigits
   DEF PrintfNext, Text, StartSpec, Finish, Width, Literal, Truncated, ConvertInt, ConvertUnsigned,
       ConvertPointer, ConvertString, More, End

\* A digit or "-" starts a width.
LEMMA OnlyWidth ==
  PrintfNext /\ place = "morefmt" /\ (IsDigit(CharAt(at)) \/ CharAt(at) = "-") => Width
<1>1. ASSUME NEW c, IsDigit(c) \/ c = "-"
      PROVE  c \notin {End, "#", "l", "t", "z", "d", "u", "x", "p", "s"}
  BY <1>1 DEF IsDigit, DigitChars, End
<1> QED BY <1>1
    DEF PrintfNext, Text, StartSpec, Finish, Modifier, Literal, Truncated, ConvertInt, ConvertUnsigned,
       ConvertPointer, ConvertString, More

\* A letter takes an argument of its kind.
LEMMA OnlyConversion ==
  ASSUME PrintfNext, place = "morefmt"
  PROVE  /\ CharAt(at) = "d" => \E n \in Ints : ConvertInt(n)
         /\ CharAt(at) = "x" => \E n \in Unsigneds : ConvertUnsigned(n)
         /\ CharAt(at) = "s" => \E s \in Strings : ConvertString(s)
BY LettersAreNoDigits
   DEF PrintfNext, Text, StartSpec, Finish, Modifier, Width, Literal, Truncated, ConvertInt, ConvertUnsigned,
       ConvertPointer, ConvertString, More, End

\* Where the loop is in such a format, and what it has printed there.
Nothing == all = <<>> /\ args = <<>>
AtFlags(alt) ==
  /\ place = "morefmt" /\ pad = Blank /\ npad = 0 /\ nlong = 0 /\ Nothing
  /\ (at = 2 /\ alternate = FALSE) \/ (alt /\ at = 3 /\ alternate = TRUE)
AtLetter(alt, zero, left, w) ==
  /\ place = "morefmt" /\ at = LetterAt(alt, zero, left) /\ Nothing
  /\ pad = PadOf(zero) /\ npad = WidthOf(left, w) /\ alternate = alt /\ nlong = 0
Exempt(conv, alt, zero, left, a) ==
  \/ conv = "s" /\ zero
  \/ conv = "d" /\ a < 0 /\ zero /\ ~left
  \/ conv = "x" /\ alt /\ zero /\ left
Converted(alt, zero, left, w, conv) ==
  /\ place = "text" \/ place = "done"
  /\ at = LetterAt(alt, zero, left) + 1
  /\ ~Exempt(conv, alt, zero, left, args[1])
       => all = CText(CSign(conv, alt, args[1]), CBody(conv, args[1]), zero, left, w)

Stage(alt, zero, left, w, conv) ==
  \/ place = "text" /\ at = 1 /\ Nothing
  \/ AtFlags(alt)
  \/ AtLetter(alt, zero, left, w)
  \/ Converted(alt, zero, left, w, conv)

StageInv ==
  \A alt, zero, left \in BOOLEAN, w \in 1 .. 9, conv \in {"d", "x", "s"} :
    fmt = OneConversion(alt, zero, left, w, conv) => Stage(alt, zero, left, w, conv)

\* The format, character by character.
CharsAre(alt, zero, left, w, conv) ==
  LET f == FlagAt(alt)
      c == LetterAt(alt, zero, left)
  IN /\ f \in Nat /\ c \in Nat /\ f > 1 /\ c > f /\ Len(fmt) = c
     /\ f = (IF alt THEN 3 ELSE 2)
     /\ c = f + (IF zero THEN 1 ELSE 0) + (IF left THEN 1 ELSE 0) + 1
     /\ CharAt(1) = "%" /\ (alt => CharAt(2) = "#")
     /\ CharAt(f) = (IF zero THEN "0" ELSE IF left THEN "-" ELSE DigitChars[w + 1])
     /\ left => fmt[c - 2] = "-"
     /\ fmt[c - 1] = DigitChars[w + 1] /\ fmt[c] = conv /\ CharAt(c) = conv
     /\ CharAt(c + 1) = End

\* The format of one conversion has these characters.
LEMMA FormChars ==
  ASSUME NEW alt \in BOOLEAN, NEW zero \in BOOLEAN, NEW left \in BOOLEAN, NEW w \in 1 .. 9,
         NEW conv \in {"d", "x", "s"}, fmt \in Seq(Chars), fmt = OneConversion(alt, zero, left, w, conv)
  PROVE  CharsAre(alt, zero, left, w, conv)
<1> DEFINE f == FlagAt(alt)
           c == LetterAt(alt, zero, left)
<1>1. Parts(fmt, alt, zero, left, DigitChars[w + 1], conv)
  BY FormParts
<1>2. /\ f = (IF alt THEN 3 ELSE 2)
      /\ c = f + (IF zero THEN 1 ELSE 0) + (IF left THEN 1 ELSE 0) + 1
  BY DEF FlagAt, LetterAt, Extra
<1>3. /\ fmt[1] = "%" /\ (alt => fmt[2] = "#")
      /\ fmt[f] = (IF zero THEN "0" ELSE IF left THEN "-" ELSE DigitChars[w + 1])
      /\ left => fmt[c - 2] = "-"
      /\ fmt[c - 1] = DigitChars[w + 1] /\ fmt[c] = conv /\ Len(fmt) = c
  BY <1>1 DEF Parts
<1> HIDE DEF f, c
<1>4. f \in Nat /\ c \in Nat /\ f > 1 /\ c > f
  BY <1>2
<1>5. /\ 1 # Len(fmt) + 1 /\ 2 # Len(fmt) + 1 /\ f # Len(fmt) + 1
      /\ c # Len(fmt) + 1 /\ c + 1 = Len(fmt) + 1
  BY <1>3, <1>4
<1>6. /\ CharAt(1) = fmt[1] /\ CharAt(2) = fmt[2] /\ CharAt(f) = fmt[f] /\ CharAt(c) = fmt[c]
      /\ CharAt(c + 1) = End
  BY <1>5 DEF CharAt
<1> QED BY <1>2, <1>3, <1>4, <1>6 DEF CharsAre, f, c

\* "%" starts the conversion with its defaults.
LEMMA StartStage ==
  ASSUME NEW alt \in BOOLEAN, NEW zero \in BOOLEAN, NEW left \in BOOLEAN, NEW w \in 1 .. 9,
         NEW conv \in {"d", "x", "s"}, PrintfInv, fmt = OneConversion(alt, zero, left, w, conv),
         place = "text", at = 1, Nothing, PrintfNext
  PROVE  AtFlags(alt)'
<1>1. CharAt(at) = "%"
  BY FormChars DEF CharsAre, PrintfInv, FormatOK
<1>2. StartSpec
  BY <1>1, OnlyStart
<1>3. /\ at' = 2 /\ place' = "morefmt" /\ pad' = Blank /\ npad' = 0 /\ alternate' = FALSE /\ nlong' = 0
      /\ UNCHANGED <<all, args>>
  BY <1>2 DEF StartSpec
<1>4. all' = <<>> /\ args' = <<>>
  BY <1>3 DEF Nothing
<1> QED BY <1>3, <1>4, Zenon DEF AtFlags, Nothing

\* "#" leaves its mark; the other flags and the width are one step.
LEMMA FlagStage ==
  ASSUME NEW alt \in BOOLEAN, NEW zero \in BOOLEAN, NEW left \in BOOLEAN, NEW w \in 1 .. 9,
         NEW conv \in {"d", "x", "s"}, PrintfInv, fmt = OneConversion(alt, zero, left, w, conv),
         AtFlags(alt), PrintfNext
  PROVE  AtFlags(alt)' \/ AtLetter(alt, zero, left, w)'
<1> DEFINE f == FlagAt(alt)
           c == LetterAt(alt, zero, left)
           d == DigitChars[w + 1]
<1>0. fmt \in Seq(Chars)
  BY DEF PrintfInv, FormatOK
<1>1. /\ f \in Nat /\ c \in Nat /\ f > 1 /\ c > f /\ Len(fmt) = c
      /\ f = (IF alt THEN 3 ELSE 2)
      /\ c = f + (IF zero THEN 1 ELSE 0) + (IF left THEN 1 ELSE 0) + 1
      /\ alt => CharAt(2) = "#"
      /\ CharAt(f) = (IF zero THEN "0" ELSE IF left THEN "-" ELSE d)
      /\ left => fmt[c - 2] = "-"
      /\ fmt[c - 1] = d /\ fmt[c] = conv
  <2>1. CharsAre(alt, zero, left, w, conv)
    BY <1>0, FormChars
  <2> QED BY <2>1 DEF CharsAre
<1>2. /\ place = "morefmt" /\ pad = Blank /\ npad = 0 /\ nlong = 0 /\ all = <<>> /\ args = <<>>
      /\ (at = 2 /\ alternate = FALSE) \/ (alt /\ at = 3 /\ alternate = TRUE)
  BY DEF AtFlags, Nothing
<1> HIDE DEF f, c
<1>3. CASE alt /\ at = 2
  <2>1. Modifier /\ More("#") /\ ~More("l") /\ ~More("t") /\ ~More("z")
    BY <1>1, <1>2, <1>3, OnlyModifier DEF More
  <2>2. /\ alternate' = TRUE /\ at' = 3 /\ UNCHANGED <<place, pad, npad, nlong, all, args>>
    BY <1>3, <2>1 DEF Modifier
  <2> QED BY <1>2, <1>3, <2>2 DEF AtFlags, Nothing
<1>4. CASE ~(alt /\ at = 2)
  <2>1. at = f /\ alternate = alt
    BY <1>1, <1>2, <1>4
  <2>2. IsDigit(CharAt(at)) \/ CharAt(at) = "-"
    <3>1. IsDigit("0") /\ IsDigit(d)
      BY LettersAreNoDigits, WidthDigit
    <3> HIDE DEF d
    <3> QED BY <1>1, <2>1, <3>1
  <2>3. Width
    BY <1>2, <2>2, OnlyWidth
  <2> DEFINE start == IF zero THEN at + 1 ELSE at
  <2>4. CharAt(at) = "0" <=> zero
    <3>1. d # "0"
      BY WidthDigit
    <3> HIDE DEF d
    <3> QED BY <1>1, <2>1, <3>1
  <2>5. /\ pad' = PadOf(zero) /\ npad' = atol(start) /\ at' = start + NumberLength(start)
        /\ UNCHANGED <<place, alternate, nlong, all, args>>
    BY <1>2, <2>3, <2>4 DEF Width, PadOf
  <2>6. /\ ~left => atol(c - 1) = w /\ NumberLength(c - 1) = 1
        /\ left => atol(c - 2) = -w /\ NumberLength(c - 2) = 2
    <3> DEFINE i == c - 1
    <3>1. i \in Nat /\ i >= 1 /\ i + 1 = Len(fmt) /\ i + 1 = c /\ (left => i > 1 /\ i - 1 = c - 2)
      BY <1>1
    <3> HIDE DEF i
    <3>2. fmt[i] = d /\ fmt[i + 1] = conv /\ (left => fmt[i - 1] = "-")
      BY <1>1, <3>1 DEF i
    <3>3. /\ atol(i) = w /\ NumberLength(i) = 1
          /\ i > 1 /\ fmt[i - 1] = "-" => atol(i - 1) = -w /\ NumberLength(i - 1) = 2
      BY <1>0, <3>1, <3>2, WidthRead
    <3> QED BY <3>1, <3>2, <3>3 DEF i
  <2>7. (~left => start = c - 1) /\ (left => start = c - 2)
    BY <1>1, <2>1
  <2> HIDE DEF start
  <2>8. npad' = WidthOf(left, w) /\ at' = c
    BY <1>1, <2>5, <2>6, <2>7 DEF WidthOf
  <2> QED BY <1>2, <2>1, <2>5, <2>8 DEF AtLetter, Nothing, c
<1> QED BY <1>3, <1>4

\* The conversion itself.
LEMMA LetterStage ==
  ASSUME NEW alt \in BOOLEAN, NEW zero \in BOOLEAN, NEW left \in BOOLEAN, NEW w \in 1 .. 9,
         NEW conv \in {"d", "x", "s"}, PrintfInv, fmt = OneConversion(alt, zero, left, w, conv),
         AtLetter(alt, zero, left, w), PrintfNext
  PROVE  Converted(alt, zero, left, w, conv)'
<1> DEFINE c == LetterAt(alt, zero, left)
           Said(a, t) == Exempt(conv, alt, zero, left, a)
                           \/ t = CText(CSign(conv, alt, a), CBody(conv, a), zero, left, w)
<1>0. /\ place = "morefmt" /\ at = c /\ all = <<>> /\ args = <<>>
      /\ pad = PadOf(zero) /\ npad = WidthOf(left, w) /\ alternate = alt /\ nlong = 0
  BY DEF AtLetter, Nothing
<1>1. CharAt(at) = conv
  BY <1>0, FormChars, SMTT(60), ZenonT(60) DEF CharsAre, PrintfInv, FormatOK
<1>2. ASSUME NEW t \in Seq(Chars), NEW a, Convert(t, a), Said(a, t)
      PROVE  Converted(alt, zero, left, w, conv)'
  <2>1. all' = all \o t /\ args' = Append(args, a) /\ at' = at + 1 /\ place' = "text"
    BY <1>2 DEF Convert, AddAll
  <2>2. all' = t /\ args'[1] = a
    <3>1. <<>> \o t = t /\ Append(<<>>, a)[1] = a
      OBVIOUS
    <3> QED BY <1>0, <2>1, <3>1
  <2>3. Said(args'[1], all')
    BY <1>2, <2>2, Zenon
  <2>4. at' = c + 1
    BY <1>0, <2>1
  <2> QED BY <2>1, <2>3, <2>4 DEF Converted
<1>w. w \in Int /\ pad \in Chars /\ npad \in Int
  BY DEF PrintfInv
<1>3. CASE conv = "d"
  <2>1. PICK n \in Ints : ConvertInt(n)
    BY <1>0, <1>1, <1>3, OnlyConversion
  <2>2. n \in Int /\ IsInt(n)
    BY <1>0, <2>1, PrintfAssumption DEF ConvertInt
  <2> DEFINE t == print_str(print_int(n, 10), pad, npad)
  <2>3. Convert(t, n)
    BY <2>1 DEF ConvertInt
  <2>4. t \in Seq(Chars)
    BY <1>w, <2>2, PrintIntType, PrintStrType
  <2>5. Said(n, t)
    <3> DEFINE sign == CSign("d", alt, n)
               body == CBody("d", n)
    <3>1. CASE Exempt(conv, alt, zero, left, n)
      BY <3>1
    <3>2. CASE ~Exempt(conv, alt, zero, left, n)
      <4>1. /\ print_int(n, 10) = sign \o body /\ sign \in Seq(Chars) /\ body \in Seq(Chars)
            /\ n >= 0 => sign = <<>>
        BY <2>2, IntText
      <4>2. zero /\ ~left => n >= 0
        BY <1>3, <2>2, <3>2 DEF Exempt
      <4> HIDE DEF sign, body
      <4>3. print_str(sign \o body, PadOf(zero), WidthOf(left, w)) = CText(sign, body, zero, left, w)
        BY <4>1, <4>2, PaddedText, SMTT(60), ZenonT(60)
      <4>4. t = CText(sign, body, zero, left, w)
        BY <1>0, <4>1, <4>3
      <4> QED BY <1>3, <4>4 DEF sign, body
    <3> QED BY <3>1, <3>2
  <2> HIDE DEF t, Said
  <2> QED BY <1>2, <2>3, <2>4, <2>5
<1>4. CASE conv = "x"
  <2>1. PICK n \in Unsigneds : ConvertUnsigned(n)
    BY <1>0, <1>1, <1>4, OnlyConversion
  <2>2. n \in Nat /\ IsUnsigned(n)
    BY <1>0, <2>1, PrintfAssumption DEF ConvertUnsigned
  <2> DEFINE t == print_unsigned(n, 16, alt)
  <2>3. Convert(t, n)
    BY <1>0, <1>1, <1>4, <2>1 DEF ConvertUnsigned, More
  <2>4. t \in Seq(Chars)
    BY <1>w, <2>2, PrintUnsignedType
  <2>5. Said(n, t)
    <3>1. CASE alt /\ zero /\ left
      BY <1>4, <3>1 DEF Exempt
    <3>2. CASE ~(alt /\ zero /\ left)
      <4>1. t = CText(CSign("x", alt, n), CBody("x", n), zero, left, w)
        BY <1>0, <2>2, <3>2, UnsignedText
      <4> QED BY <1>4, <4>1
    <3> QED BY <3>1, <3>2
  <2> HIDE DEF t, Said
  <2> QED BY <1>2, <2>3, <2>4, <2>5
<1>5. CASE conv = "s"
  <2>1. PICK s \in Strings : ConvertString(s)
    BY <1>0, <1>1, <1>5, OnlyConversion
  <2>2. s \in Seq(Chars)
    BY PrintfAssumption
  <2> DEFINE t == print_str(s, pad, npad)
  <2>3. Convert(t, s)
    BY <2>1 DEF ConvertString
  <2>4. t \in Seq(Chars)
    BY <1>w, <2>2, PrintStrType
  <2>5. Said(s, t)
    <3>1. CSign("s", alt, s) = <<>> /\ CBody("s", s) = s
      BY DEF CSign, CBody
    <3>2. <<>> \in Seq(Chars) /\ <<>> \o s = s
      BY <2>2
    <3>3. print_str(<<>> \o s, PadOf(zero), WidthOf(left, w)) = CText(<<>>, s, zero, left, w)
      BY <2>2, <3>2, PaddedText, ZenonT(60), SMTT(60)
    <3>4. t = CText(<<>>, s, zero, left, w)
      BY <1>0, <3>2, <3>3
    <3> QED BY <1>5, <3>1, <3>4
  <2> HIDE DEF t, Said
  <2> QED BY <1>2, <2>3, <2>4, <2>5
<1> QED BY <1>3, <1>4, <1>5

\* Behind the letter there is only the terminator.
LEMMA LastStage ==
  ASSUME NEW alt \in BOOLEAN, NEW zero \in BOOLEAN, NEW left \in BOOLEAN, NEW w \in 1 .. 9,
         NEW conv \in {"d", "x", "s"}, PrintfInv, fmt = OneConversion(alt, zero, left, w, conv),
         Converted(alt, zero, left, w, conv), PrintfNext
  PROVE  Converted(alt, zero, left, w, conv)'
<1>1. place = "text" /\ at = LetterAt(alt, zero, left) + 1
  BY NoneDone DEF Converted
<1>2. CharAt(at) = End
  BY <1>1, FormChars DEF CharsAre, PrintfInv, FormatOK
<1>3. Finish
  BY <1>1, <1>2, OnlyFinish
<1> QED BY <1>3 DEF Finish, Converted

\* In the format of one conversion the loop is at one of the stages.
LEMMA StagesKept == PrintfSpec => []StageInv
<1>1. PrintfInit => StageInv
  BY DEF PrintfInit, StageInv, Stage, Nothing
<1>2. ASSUME PrintfInv, StageInv, [PrintfNext]_printfVars PROVE StageInv'
  <2> SUFFICES ASSUME NEW alt \in BOOLEAN, NEW zero \in BOOLEAN, NEW left \in BOOLEAN, NEW w \in 1 .. 9,
                      NEW conv \in {"d", "x", "s"}, fmt' = OneConversion(alt, zero, left, w, conv)
               PROVE  Stage(alt, zero, left, w, conv)'
    BY DEF StageInv, OneConversion
  <2>1. fmt' = fmt
    BY <1>2 DEF printfVars, PrintfNext, Text, StartSpec, Finish, Modifier, Width, Literal, Truncated,
       ConvertInt, ConvertUnsigned, ConvertPointer, ConvertString, Convert
  <2>2. fmt = OneConversion(alt, zero, left, w, conv) /\ Stage(alt, zero, left, w, conv)
    BY <1>2, <2>1 DEF StageInv
  <2>3. CASE PrintfNext
    BY <1>2, <2>2, <2>3, StartStage, FlagStage, LetterStage, LastStage DEF Stage
  <2>4. CASE UNCHANGED printfVars
    BY <2>2, <2>4 DEF printfVars, Stage, AtFlags, AtLetter, Converted, Nothing
  <2> QED BY <1>2, <2>3, <2>4
<1> QED BY <1>1, <1>2, PrintfInvariant, PTL DEF PrintfSpec

\* For every argument and buffer size: one conversion prints what the C library
\* prints, the numeral of the argument and its padding included, but for the two
\* cases that PrintfLikeC names.
THEOREM ConversionsAlwaysLikeC == PrintfSpec => []PrintfLikeC
<1>1. StageInv => PrintfLikeC
  <2> SUFFICES ASSUME StageInv, NEW alt \in BOOLEAN, NEW zero \in BOOLEAN, NEW left \in BOOLEAN,
                      NEW w \in 1 .. 9, NEW conv \in {"d", "x", "s"},
                      place = "done", fmt = OneConversion(alt, zero, left, w, conv),
                      conv = "s" => ~zero, conv = "d" => ~(args[1] < 0 /\ zero /\ ~left),
                      conv = "x" => ~(alt /\ zero /\ left)
               PROVE  all = CText(CSign(conv, alt, args[1]), CBody(conv, args[1]), zero, left, w)
    BY DEF PrintfLikeC
  <2>1. Stage(alt, zero, left, w, conv)
    BY DEF StageInv
  <2>2. Converted(alt, zero, left, w, conv)
    BY <2>1 DEF Stage, AtFlags, AtLetter
  <2>3. ~Exempt(conv, alt, zero, left, args[1])
    BY DEF Exempt
  <2> QED BY <2>2, <2>3 DEF Converted
<1> QED BY <1>1, StagesKept, PTL
=============================================================================
