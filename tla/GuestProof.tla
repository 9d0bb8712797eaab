----------------------------- MODULE GuestProof -----------------------------
(***************************************************************************)
(* The properties of GuestMemory for tables, windows and words of any      *)
(* size.  First the three loops that build the stage-2 tables and the      *)
(* loops that take pages away again; then the traps, which see only the    *)
(* finished tables.                                                        *)
(***************************************************************************)
EXTENDS GuestMemory, WellFoundedInduction, TLAPS

-----------------------------------------------------------------------------
(* Sets of numbers *)

\* A set of numbers has a least element: the natural numbers are well founded.
LEMMA LeastElement ==
  ASSUME NEW T \in SUBSET Nat, T # {}
  PROVE  \E x \in T : \A y \in T : x <= y
<1>1. ASSUME NEW R, \E x \in T : \A y \in T : ~(<<y, x>> \in R),
             \A x, y \in Nat : x < y => <<x, y>> \in R
      PROVE  \E x \in T : \A y \in T : x <= y
  <2>1. PICK x \in T : \A y \in T : ~(<<y, x>> \in R)
    BY <1>1
  <2>2. ASSUME NEW y \in T PROVE x <= y
    <3>1. ~(y < x)
      BY <1>1, <2>1
    <3> QED BY <3>1
  <2> QED BY <2>2
<1> DEFINE Less == OpToRel(<, Nat)
<1>2. \E x \in T : \A y \in T : ~(<<y, x>> \in Less)
  BY NatLessThanWellFounded, WFMin
<1>3. \A x, y \in Nat : x < y => <<x, y>> \in Less
  BY Zenon DEF OpToRel
<1> HIDE DEF Less
<1> QED BY <1>1, <1>2, <1>3, Zenon

\* Below a bound it also has a greatest one.
LEMMA GreatestElement ==
  ASSUME NEW n \in Nat, NEW T \in SUBSET (0 .. n), T # {}
  PROVE  \E x \in T : \A y \in T : y <= x
<1> DEFINE U == {z \in 0 .. n : n - z \in T}
<1>1. U \in SUBSET Nat /\ U # {}
  <2>1. PICK y \in T : TRUE
    OBVIOUS
  <2>2. n - y \in 0 .. n /\ n - (n - y) = y
    OBVIOUS
  <2>3. n - y \in U /\ U \subseteq Nat
    BY <2>2
  <2> HIDE DEF U
  <2> QED BY <2>3
<1>2. PICK z \in U : \A u \in U : z <= u
  <2> HIDE DEF U
  <2> QED BY <1>1, LeastElement
<1>3. ASSUME NEW y \in T PROVE y <= n - z
  <2>1. n - y \in U
    <3>1. n - y \in 0 .. n /\ n - (n - y) = y
      OBVIOUS
    <3> QED BY <3>1
  <2> QED BY <1>2, <2>1
<1> QED BY <1>2, <1>3

-----------------------------------------------------------------------------
(* Arithmetic of table indices *)

\* An index of a table and an offset in it stay inside n tables.
LEMMA TableBound ==
  ASSUME NEW e \in Nat \ {0}, NEW n \in Nat, NEW a \in 0 .. n - 1, NEW b \in 0 .. e - 1
  PROVE  e * a + b \in 0 .. n * e - 1 /\ e * a + e <= n * e
<1>1. e * a + e <= n * e
  <2>1. PICK k \in Nat : n = a + 1 + k
    <3> n - 1 - a \in Nat /\ n = a + 1 + (n - 1 - a) OBVIOUS
    <3> QED OBVIOUS
  <2>2. n * e = e * a + e + k * e
    BY <2>1
  <2>3. k * e \in Nat
    OBVIOUS
  <2> QED BY <2>2, <2>3
<1>2. e * a \in Nat
  OBVIOUS
<1> QED BY <1>1, <1>2

\* Quotient and remainder by the number of entries.
LEMMA Split ==
  ASSUME NEW e \in Nat \ {0}, NEW p \in Nat
  PROVE  p = e * (p \div e) + (p % e) /\ p % e \in 0 .. e - 1 /\ p \div e \in Nat
OBVIOUS

\* The index in the first level is that of the second, divided once more.
LEMMA SplitTwice ==
  ASSUME NEW e \in Nat \ {0}, NEW p \in Nat
  PROVE  p \div (e * e) = (p \div e) \div e
<1> DEFINE b == p \div e
           a == b \div e
<1>1. p = e * b + (p % e) /\ p % e \in 0 .. e - 1 /\ b \in Nat
  BY Split
<1>2. b = e * a + (b % e) /\ b % e \in 0 .. e - 1 /\ a \in Nat
  BY <1>1, Split
<1> DEFINE u == b % e
           v == p % e
<1> HIDE DEF a, b, u, v
<1>3. p = e * e * a + e * u + v
  <2>1. p = e * (e * a + u) + v /\ u \in Nat /\ v \in Nat
    BY <1>1, <1>2 DEF u, v
  <2>2. e * (e * a + u) + v = e * e * a + e * u + v
    BY <1>2, <2>1
  <2> QED BY <2>1, <2>2
<1>4. (e * e * a + e * u + v) \div (e * e) = a
  BY <1>1, <1>2 DEF u, v
<1> QED BY <1>3, <1>4 DEF a, b

\* A quotient is small when the number is.
LEMMA QuotientBelow ==
  ASSUME NEW e \in Nat \ {0}, NEW n \in Nat, NEW p \in Nat, p < e * n
  PROVE  p \div e < n
OBVIOUS

-----------------------------------------------------------------------------
(* The tables *)

Building == stage \in {"l1", "l2", "l3"}

\* How many entries of the first and of the second level are filled in.
L1Done == IF stage = "l1" THEN index_l1 ELSE IF Building THEN index_l1 + 1 ELSE LPAE_L1_SIZE
L2Done == IF stage = "l1" THEN LPAE_ENTRIES * index_l1
          ELSE IF stage = "l2" THEN LPAE_ENTRIES * index_l1 + index_l2
          ELSE IF stage = "l3" THEN LPAE_ENTRIES * index_l1 + index_l2 + 1
          ELSE LPAE_L2_SIZE

\* The loop variables, and the running page number that they determine.
LoopInv ==
  /\ stage \in {"l2", "l3"} => index_l1 < LPAE_L1_SIZE
  /\ stage = "l3" => index_l2 < LPAE_ENTRIES
  /\ stage \in {"l1", "l2"} => gpa = LPAE_ENTRIES * L2Done
  /\ stage = "l3" => gpa = LPAE_ENTRIES * (L2Done - 1) + index_l3
  /\ ~Building => gpa = LPAE_L3_SIZE

\* What the entries hold: each table is the one that its place says.
LevelsFilled ==
  /\ \A a \in 0 .. L1Done - 1 : ept_L1[a] = LPAE_ENTRIES * a
  /\ \A b \in 0 .. L2Done - 1 : ept_L2[b] = LPAE_ENTRIES * b
  /\ \A p \in 0 .. gpa - 1 :
       /\ ept_L3[p].base = p
       /\ ept_L3[p].attr = IF p \in RAM_START .. RAM_END - 1 THEN "memory" ELSE "device"

\* The pages that have been taken away so far.
TakenAway ==
  LET from(w, n) == w .. w + n - 1
      gicd == from(MMIO_AREA_GICD, IF stage = "gicd" THEN i ELSE WindowPages)
      gicc == from(MMIO_AREA_GICC, IF stage = "gicc" THEN i ELSE WindowPages)
  IN CASE Building -> {}
       [] stage = "gicd" -> gicd
       [] stage = "gicc" -> gicd \cup gicc
       [] stage = "mmio" -> gicd \cup gicc
       [] stage = "done" -> gicd \cup gicc \cup {MMIO_ARREA_PAGE}

AccessInv ==
  /\ Building => i = 0
  /\ \A p \in 0 .. gpa - 1 : ept_L3[p].access = (p \notin TakenAway)

EptInv == EptTypeOK /\ LoopInv /\ LevelsFilled /\ AccessInv

LEMMA SizeTypes ==
  /\ LPAE_L2_SIZE \in Nat /\ LPAE_L3_SIZE \in Nat
  /\ LPAE_L3_SIZE = LPAE_ENTRIES * LPAE_L2_SIZE
BY Stage2Assumption DEF LPAE_L2_SIZE, LPAE_L3_SIZE

LEMMA EptInitInv == EptInit => EptInv
<1> SUFFICES ASSUME EptInit PROVE EptInv
  OBVIOUS
<1> USE Stage2Assumption, SizeTypes DEF EptInit
<1>1. EptTypeOK
  BY DEF EptTypeOK, Pages
<1>2. LoopInv /\ LevelsFilled
  BY DEF LoopInv, LevelsFilled, L1Done, L2Done, Building
<1>3. AccessInv
  BY DEF AccessInv, TakenAway, Building
<1> QED BY <1>1, <1>2, <1>3 DEF EptInv

\* An entry of the first level, or the end of the loops.
LEMMA SetL1Keeps == EptInv /\ SetL1 => EptInv'
<1> SUFFICES ASSUME EptInv, SetL1 PROVE EptInv'
  OBVIOUS
<1> DEFINE e == LPAE_ENTRIES
<1> USE Stage2Assumption, SizeTypes
<1>0. /\ stage = "l1" /\ index_l1 \in 0 .. LPAE_L1_SIZE /\ gpa = e * (e * index_l1) /\ i = 0
      /\ L1Done = index_l1 /\ L2Done = e * index_l1 /\ e * index_l1 \in Nat
  BY DEF SetL1, EptInv, LoopInv, AccessInv, L1Done, L2Done, Building, EptTypeOK
<1>1. CASE index_l1 < LPAE_L1_SIZE
  <2>1. /\ stage' = "l2" /\ index_l2' = 0 /\ ept_L1' = [ept_L1 EXCEPT ![index_l1] = e * index_l1]
        /\ UNCHANGED <<index_l1, index_l3, gpa, i, ept_L2, ept_L3>>
    BY <1>0, <1>1 DEF SetL1, EptL2
  <2>2. e * index_l1 + 0 \in 0 .. LPAE_L2_SIZE - 1
    BY <1>0, <1>1, TableBound DEF LPAE_L2_SIZE
  <2>3. EptTypeOK'
    BY <1>0, <1>1, <2>1, <2>2 DEF EptInv, EptTypeOK, Pages
  <2>4. L1Done' = index_l1 + 1 /\ L2Done' = e * index_l1
    BY <1>0, <2>1 DEF L1Done, L2Done, Building
  <2>5. LoopInv'
    BY <1>0, <1>1, <2>1, <2>4 DEF LoopInv, Building
  <2>6. LevelsFilled'
    <3>1. ASSUME NEW a \in 0 .. index_l1 PROVE ept_L1'[a] = e * a
      <4>1. CASE a = index_l1
        BY <1>0, <1>1, <2>1, <4>1 DEF EptInv, EptTypeOK
      <4>2. CASE a # index_l1
        BY <1>0, <2>1, <4>2 DEF EptInv, LevelsFilled, EptTypeOK
      <4> QED BY <4>1, <4>2
    <3> QED BY <1>0, <2>1, <2>4, <3>1 DEF EptInv, LevelsFilled
  <2>7. AccessInv'
    BY <1>0, <2>1 DEF EptInv, AccessInv, TakenAway, Building
  <2> QED BY <2>3, <2>5, <2>6, <2>7 DEF EptInv
<1>2. CASE ~(index_l1 < LPAE_L1_SIZE)
  <2>1. /\ stage' = "gicd" /\ index_l1 = LPAE_L1_SIZE
        /\ UNCHANGED <<index_l1, index_l2, index_l3, gpa, i, ept_L1, ept_L2, ept_L3>>
    BY <1>0, <1>2 DEF SetL1
  <2>2. gpa = LPAE_L3_SIZE /\ e * index_l1 = LPAE_L2_SIZE
    BY <1>0, <2>1 DEF LPAE_L2_SIZE
  <2>3. EptTypeOK'
    BY <2>1 DEF EptInv, EptTypeOK
  <2>4. L1Done' = L1Done /\ L2Done' = L2Done
    BY <1>0, <2>1, <2>2 DEF L1Done, L2Done, Building
  <2>5. LoopInv'
    BY <1>0, <2>1, <2>2 DEF LoopInv, Building
  <2>6. LevelsFilled'
    BY <2>1, <2>4 DEF EptInv, LevelsFilled
  <2>7. TakenAway = {} /\ TakenAway' = {}
    BY <1>0, <2>1 DEF TakenAway, Building
  <2>8. AccessInv'
    BY <1>0, <2>1, <2>7 DEF EptInv, AccessInv, Building
  <2> QED BY <2>3, <2>5, <2>6, <2>8 DEF EptInv
<1> QED BY <1>1, <1>2

\* An entry of the second level, or the end of its table.
LEMMA SetL2Keeps == EptInv /\ SetL2 => EptInv'
<1> SUFFICES ASSUME EptInv, SetL2 PROVE EptInv'
  OBVIOUS
<1> DEFINE e == LPAE_ENTRIES
<1> USE Stage2Assumption, SizeTypes
<1>0. /\ stage = "l2" /\ index_l1 \in 0 .. LPAE_L1_SIZE - 1 /\ index_l2 \in 0 .. e
      /\ gpa = e * (e * index_l1 + index_l2) /\ i = 0
      /\ L1Done = index_l1 + 1 /\ L2Done = e * index_l1 + index_l2 /\ e * index_l1 \in Nat
  BY DEF SetL2, EptInv, LoopInv, AccessInv, L1Done, L2Done, Building, EptTypeOK
<1>1. CASE index_l2 < e
  <2>1. /\ stage' = "l3" /\ index_l3' = 0 /\ ept_L2' = [ept_L2 EXCEPT ![L2Done] = EptL3]
        /\ UNCHANGED <<index_l1, index_l2, gpa, i, ept_L1, ept_L3>>
    BY <1>0, <1>1 DEF SetL2, EptL2
  <2>2. EptL3 = e * L2Done
    BY <1>0 DEF EptL3
  <2>3. L2Done \in 0 .. LPAE_L2_SIZE - 1
    BY <1>0, <1>1, TableBound DEF LPAE_L2_SIZE
  <2>4. e * L2Done + 0 \in Pages
    BY <2>3, TableBound DEF LPAE_L3_SIZE, Pages
  <2>5. EptTypeOK'
    BY <1>0, <1>1, <2>1, <2>2, <2>3, <2>4 DEF EptInv, EptTypeOK, Pages
  <2>6. L1Done' = L1Done /\ L2Done' = L2Done + 1
    BY <1>0, <2>1 DEF L1Done, L2Done, Building
  <2>7. LoopInv'
    BY <1>0, <1>1, <2>1, <2>6 DEF LoopInv, Building
  <2>8. LevelsFilled'
    <3>1. ASSUME NEW b \in 0 .. L2Done PROVE ept_L2'[b] = e * b
      <4>1. CASE b = L2Done
        BY <2>1, <2>2, <2>3, <4>1 DEF EptInv, EptTypeOK
      <4>2. CASE b # L2Done
        BY <1>0, <2>1, <4>2 DEF EptInv, LevelsFilled, EptTypeOK
      <4> QED BY <4>1, <4>2
    <3> QED BY <1>0, <2>1, <2>6, <3>1 DEF EptInv, LevelsFilled
  <2>9. AccessInv'
    BY <1>0, <2>1 DEF EptInv, AccessInv, TakenAway, Building
  <2> QED BY <2>5, <2>7, <2>8, <2>9 DEF EptInv
<1>2. CASE ~(index_l2 < e)
  <2>1. /\ stage' = "l1" /\ index_l1' = index_l1 + 1 /\ index_l2 = e
        /\ UNCHANGED <<index_l2, index_l3, gpa, i, ept_L1, ept_L2, ept_L3>>
    BY <1>0, <1>2 DEF SetL2
  <2>2. L2Done = e * (index_l1 + 1)
    BY <1>0, <2>1
  <2>3. EptTypeOK'
    BY <1>0, <2>1 DEF EptInv, EptTypeOK
  <2>4. L1Done' = L1Done /\ L2Done' = L2Done
    BY <1>0, <2>1, <2>2 DEF L1Done, L2Done, Building
  <2>5. LoopInv'
    BY <1>0, <2>1, <2>4 DEF LoopInv, Building
  <2>6. LevelsFilled'
    BY <2>1, <2>4 DEF EptInv, LevelsFilled
  <2>7. AccessInv'
    BY <1>0, <2>1 DEF EptInv, AccessInv, TakenAway, Building
  <2> QED BY <2>3, <2>5, <2>6, <2>7 DEF EptInv
<1> QED BY <1>1, <1>2

\* A page, or the end of its table.
LEMMA SetL3Keeps == EptInv /\ SetL3 => EptInv'
<1> SUFFICES ASSUME EptInv, SetL3 PROVE EptInv'
  OBVIOUS
<1> DEFINE e == LPAE_ENTRIES
           b == e * index_l1 + index_l2
<1> USE Stage2Assumption, SizeTypes
<1>0. /\ stage = "l3" /\ index_l1 \in 0 .. LPAE_L1_SIZE - 1 /\ index_l2 \in 0 .. e - 1
      /\ index_l3 \in 0 .. e /\ gpa = e * b + index_l3 /\ i = 0
      /\ L1Done = index_l1 + 1 /\ L2Done = b + 1 /\ b \in Nat
  <2>1. /\ stage = "l3" /\ index_l1 \in 0 .. LPAE_L1_SIZE - 1 /\ index_l2 \in 0 .. e - 1
        /\ index_l3 \in 0 .. e /\ gpa = e * (L2Done - 1) + index_l3 /\ i = 0
    BY DEF SetL3, EptInv, LoopInv, AccessInv, Building, EptTypeOK
  <2>2. L1Done = index_l1 + 1 /\ L2Done = b + 1 /\ b \in Nat
    BY <2>1 DEF L1Done, L2Done, Building
  <2>3. L2Done - 1 = b
    BY <2>2
  <2> QED BY <2>1, <2>2, <2>3
<1>1. b \in 0 .. LPAE_L2_SIZE - 1
  BY <1>0, TableBound DEF LPAE_L2_SIZE
<1>2. EptL3 = e * b
  BY <1>0 DEF EptL3
<1>3. CASE index_l3 < e
  <2> DEFINE new == [base |-> gpa, access |-> TRUE,
                     attr |-> IF IsInMemory(gpa) THEN "memory" ELSE "device"]
  <2>1. /\ stage' = stage /\ index_l3' = index_l3 + 1 /\ gpa' = gpa + 1
        /\ ept_L3' = [ept_L3 EXCEPT ![gpa] = new]
        /\ UNCHANGED <<index_l1, index_l2, i, ept_L1, ept_L2>>
    BY <1>0, <1>2, <1>3 DEF SetL3
  <2>2. gpa \in Pages
    BY <1>0, <1>1, <1>3, TableBound DEF LPAE_L3_SIZE, Pages
  <2>3. L1Done' = L1Done /\ L2Done' = L2Done
    BY <1>0, <2>1 DEF L1Done, L2Done, Building
  <2>4. EptTypeOK'
    BY <1>0, <1>3, <2>1, <2>2 DEF EptInv, EptTypeOK, Pages
  <2>5. LoopInv'
    BY <1>0, <2>1, <2>3 DEF LoopInv, Building
  <2>6. ept_L3'[gpa] = new /\ \A p \in 0 .. gpa - 1 : ept_L3'[p] = ept_L3[p]
    BY <2>1, <2>2 DEF EptInv, EptTypeOK, Pages
  <2>7. LevelsFilled'
    <3>1. ASSUME NEW p \in 0 .. gpa
          PROVE  /\ ept_L3'[p].base = p
                 /\ ept_L3'[p].attr = IF p \in RAM_START .. RAM_END - 1 THEN "memory" ELSE "device"
      <4>1. CASE p = gpa
        BY <2>2, <2>6, <4>1 DEF IsInMemory, Pages
      <4>2. CASE p # gpa
        <5>1. p \in 0 .. gpa - 1
          BY <2>2, <4>2 DEF Pages
        <5> QED BY <2>6, <5>1 DEF EptInv, LevelsFilled
      <4> QED BY <4>1, <4>2
    <3>2. gpa' - 1 = gpa
      BY <2>1, <2>2 DEF Pages
    <3> QED BY <2>1, <2>3, <3>1, <3>2 DEF EptInv, LevelsFilled
  <2>8. AccessInv'
    <3>1. Building /\ Building' /\ TakenAway = {} /\ TakenAway' = {} /\ i' = 0
      BY <1>0, <2>1 DEF Building, TakenAway
    <3>2. ASSUME NEW p \in 0 .. gpa PROVE ept_L3'[p].access = TRUE
      <4>1. CASE p = gpa
        BY <2>6, <4>1
      <4>2. CASE p # gpa
        <5>1. p \in 0 .. gpa - 1
          BY <2>2, <4>2 DEF Pages
        <5> QED BY <2>6, <3>1, <5>1 DEF EptInv, AccessInv
      <4> QED BY <4>1, <4>2
    <3>3. gpa' - 1 = gpa
      BY <2>1, <2>2 DEF Pages
    <3> QED BY <3>1, <3>2, <3>3 DEF AccessInv
  <2> QED BY <2>4, <2>5, <2>7, <2>8 DEF EptInv
<1>4. CASE ~(index_l3 < e)
  <2>1. /\ stage' = "l2" /\ index_l2' = index_l2 + 1 /\ index_l3 = e
        /\ UNCHANGED <<index_l1, index_l3, gpa, i, ept_L1, ept_L2, ept_L3>>
    BY <1>0, <1>4 DEF SetL3
  <2>2. gpa = e * (b + 1)
    BY <1>0, <2>1
  <2>3. EptTypeOK'
    BY <1>0, <2>1 DEF EptInv, EptTypeOK
  <2>4. L1Done' = L1Done /\ L2Done' = L2Done
    BY <1>0, <2>1 DEF L1Done, L2Done, Building
  <2>5. LoopInv'
    BY <1>0, <2>1, <2>2, <2>4 DEF LoopInv, Building
  <2>6. LevelsFilled'
    BY <2>1, <2>4 DEF EptInv, LevelsFilled
  <2>7. AccessInv'
    BY <1>0, <2>1 DEF EptInv, AccessInv, TakenAway, Building
  <2> QED BY <2>3, <2>5, <2>6, <2>7 DEF EptInv
<1> QED BY <1>3, <1>4


\* Taking a page away changes the access of that page and nothing else.
LEMMA TakeAwayEffect ==
  ASSUME EptInv, ~Building, NEW q \in Pages, TakeAway(q)
  PROVE  /\ ept_L3' \in [Pages -> {NoEntry} \cup
              [base : Pages, access : BOOLEAN, attr : {"memory", "device"}]]
         /\ \A p \in Pages : /\ ept_L3'[p].base = ept_L3[p].base
                             /\ ept_L3'[p].attr = ept_L3[p].attr
                             /\ ept_L3'[p].access = IF p = q THEN FALSE ELSE ept_L3[p].access
<1> DEFINE Entries == [base : Pages, access : BOOLEAN, attr : {"memory", "device"}]
<1>1. ept_L3' = [ept_L3 EXCEPT ![q].access = FALSE] /\ ept_L3 \in [Pages -> {NoEntry} \cup Entries]
  BY DEF TakeAway, GetEptEntry, EptInv, EptTypeOK
<1>2. gpa = LPAE_L3_SIZE
  BY DEF EptInv, LoopInv
<1>3. ept_L3[q] \in Entries
  <2>1. ept_L3[q].base = q
    BY <1>2 DEF EptInv, LevelsFilled, Pages
  <2>2. q # Invalid
    BY DEF Pages, Invalid
  <2> QED BY <1>1, <2>1, <2>2 DEF NoEntry
<1>4. [ept_L3[q] EXCEPT !.access = FALSE] \in Entries
  BY <1>3
<1>5. ept_L3' \in [Pages -> {NoEntry} \cup Entries]
  BY <1>1, <1>4
<1>6. ASSUME NEW p \in Pages
      PROVE  /\ ept_L3'[p].base = ept_L3[p].base
             /\ ept_L3'[p].attr = ept_L3[p].attr
             /\ ept_L3'[p].access = IF p = q THEN FALSE ELSE ept_L3[p].access
  <2>1. CASE p = q
    BY <1>1, <1>3, <2>1
  <2>2. CASE p # q
    BY <1>1, <2>2
  <2> QED BY <2>1, <2>2
<1> QED BY <1>5, <1>6

\* The same for a step that takes q away behind the loops of guest_ept_init.
LEMMA TakeAwayKeeps ==
  ASSUME EptInv, ~Building, NEW q \in Pages, TakeAway(q), ~Building',
         stage' \in {"gicd", "gicc", "mmio", "done"}, i' \in 0 .. WindowPages,
         UNCHANGED <<index_l1, index_l2, index_l3, gpa, ept_L1, ept_L2>>,
         TakenAway' = TakenAway \cup {q}
  PROVE  EptInv'
<1>1. /\ \A p \in Pages : /\ ept_L3'[p].base = ept_L3[p].base
                          /\ ept_L3'[p].attr = ept_L3[p].attr
                          /\ ept_L3'[p].access = IF p = q THEN FALSE ELSE ept_L3[p].access
      /\ ept_L3' \in [Pages -> {NoEntry} \cup
           [base : Pages, access : BOOLEAN, attr : {"memory", "device"}]]
  BY TakeAwayEffect
<1>2. gpa = LPAE_L3_SIZE /\ gpa' = LPAE_L3_SIZE /\ 0 .. gpa - 1 = Pages
  BY DEF EptInv, LoopInv, Pages
<1>3. EptTypeOK'
  BY <1>1 DEF EptInv, EptTypeOK
<1>4. L1Done' = L1Done /\ L2Done' = L2Done
  BY DEF L1Done, L2Done, Building
<1>5. LoopInv'
  BY <1>2 DEF LoopInv, Building
<1>6. LevelsFilled'
  <2>0. LevelsFilled /\ UNCHANGED <<ept_L1, ept_L2, gpa>>
    BY DEF EptInv
  <2>1. ASSUME NEW p \in Pages
        PROVE  /\ ept_L3'[p].base = p
               /\ ept_L3'[p].attr = IF p \in RAM_START .. RAM_END - 1 THEN "memory" ELSE "device"
    <3>1. /\ ept_L3[p].base = p
          /\ ept_L3[p].attr = IF p \in RAM_START .. RAM_END - 1 THEN "memory" ELSE "device"
      BY <1>2, <2>0 DEF LevelsFilled
    <3> QED BY <1>1, <3>1
  <2>2. 0 .. gpa' - 1 = Pages
    BY <1>2
  <2> QED BY <1>4, <2>0, <2>1, <2>2 DEF LevelsFilled
<1>7. AccessInv'
  <2>1. ASSUME NEW p \in Pages PROVE ept_L3'[p].access = (p \notin TakenAway')
    <3>1. ept_L3[p].access = (p \notin TakenAway)
      BY <1>2 DEF EptInv, AccessInv
    <3>2. CASE p = q
      BY <1>1, <3>2
    <3>3. CASE p # q
      BY <1>1, <3>1, <3>3
    <3> QED BY <3>2, <3>3
  <2> QED BY <1>2, <2>1 DEF AccessInv
<1> QED BY <1>3, <1>5, <1>6, <1>7 DEF EptInv

\* A step from one of those loops to the next.
LEMMA LoopEndKeeps ==
  ASSUME EptInv, ~Building, ~Building',
         stage' \in {"gicd", "gicc", "mmio", "done"}, i' \in 0 .. WindowPages,
         UNCHANGED <<index_l1, index_l2, index_l3, gpa, ept_L1, ept_L2, ept_L3>>,
         TakenAway' = TakenAway
  PROVE  EptInv'
<1>1. EptTypeOK'
  BY DEF EptInv, EptTypeOK
<1>2. L1Done' = L1Done /\ L2Done' = L2Done
  BY DEF L1Done, L2Done, Building
<1>3. LoopInv'
  BY DEF EptInv, LoopInv, Building
<1>4. LevelsFilled'
  BY <1>2 DEF EptInv, LevelsFilled
<1>5. AccessInv'
  BY DEF EptInv, AccessInv
<1> QED BY <1>1, <1>3, <1>4, <1>5 DEF EptInv

LEMMA MmioMapGicdKeeps == EptInv /\ MmioMapGicd => EptInv'
<1> SUFFICES ASSUME EptInv, MmioMapGicd PROVE EptInv'
  OBVIOUS
<1> USE Stage2Assumption, SizeTypes
<1>0. /\ stage = "gicd" /\ ~Building /\ i \in 0 .. WindowPages
      /\ UNCHANGED <<index_l1, index_l2, index_l3, gpa, ept_L1, ept_L2>>
  BY DEF MmioMapGicd, Building, EptInv, EptTypeOK, loops
<1>1. CASE i < WindowPages
  <2>1. stage' = "gicd" /\ ~Building' /\ i' = i + 1 /\ TakeAway(MMIO_AREA_GICD + i)
    BY <1>0, <1>1 DEF MmioMapGicd, Building
  <2>2. MMIO_AREA_GICD + i \in Pages
    BY <1>0, <1>1 DEF Pages
  <2>3. TakenAway' = TakenAway \cup {MMIO_AREA_GICD + i}
    BY <1>0, <2>1 DEF TakenAway, Building
  <2> QED BY <1>0, <1>1, <2>1, <2>2, <2>3, TakeAwayKeeps
<1>2. CASE ~(i < WindowPages)
  <2>1. stage' = "gicc" /\ ~Building' /\ i' = 0 /\ ept_L3' = ept_L3 /\ i = WindowPages
    BY <1>0, <1>2 DEF MmioMapGicd, Building
  <2>2. TakenAway' = TakenAway
    BY <1>0, <2>1 DEF TakenAway, Building
  <2> QED BY <1>0, <2>1, <2>2, LoopEndKeeps
<1> QED BY <1>1, <1>2

LEMMA MmioMapGiccKeeps == EptInv /\ MmioMapGicc => EptInv'
<1> SUFFICES ASSUME EptInv, MmioMapGicc PROVE EptInv'
  OBVIOUS
<1> USE Stage2Assumption, SizeTypes
<1>0. /\ stage = "gicc" /\ ~Building /\ i \in 0 .. WindowPages
      /\ UNCHANGED <<index_l1, index_l2, index_l3, gpa, ept_L1, ept_L2>>
  BY DEF MmioMapGicc, Building, EptInv, EptTypeOK, loops
<1>w. MMIO_AREA_GICC \in Nat /\ MMIO_AREA_GICC + WindowPages <= LPAE_L3_SIZE
  OBVIOUS
<1>1. CASE i < WindowPages
  <2>1. stage' = "gicc" /\ ~Building' /\ i' = i + 1 /\ TakeAway(MMIO_AREA_GICC + i)
    BY <1>0, <1>1 DEF MmioMapGicc, Building
  <2>2. MMIO_AREA_GICC + i \in Pages
    BY <1>0, <1>1, <1>w DEF Pages
  <2>3. TakenAway' = TakenAway \cup {MMIO_AREA_GICC + i}
    <3>1. MMIO_AREA_GICC .. MMIO_AREA_GICC + (i + 1) - 1
            = (MMIO_AREA_GICC .. MMIO_AREA_GICC + i - 1) \cup {MMIO_AREA_GICC + i}
      BY <1>0, <1>w
    <3> QED BY <1>0, <2>1, <3>1 DEF TakenAway, Building
  <2> QED BY <1>0, <1>1, <2>1, <2>2, <2>3, TakeAwayKeeps
<1>2. CASE ~(i < WindowPages)
  <2>1. stage' = "mmio" /\ ~Building' /\ i' = 0 /\ ept_L3' = ept_L3 /\ i = WindowPages
    BY <1>0, <1>2 DEF MmioMapGicc, Building
  <2>2. TakenAway' = TakenAway
    BY <1>0, <2>1 DEF TakenAway, Building
  <2> QED BY <1>0, <2>1, <2>2, LoopEndKeeps
<1> QED BY <1>1, <1>2

LEMMA MapTestPageKeeps == EptInv /\ MapTestPage => EptInv'
<1> SUFFICES ASSUME EptInv, MapTestPage PROVE EptInv'
  OBVIOUS
<1> USE Stage2Assumption, SizeTypes
<1>1. /\ stage = "mmio" /\ ~Building /\ i \in 0 .. WindowPages /\ TakeAway(MMIO_ARREA_PAGE)
      /\ stage' = "done" /\ ~Building'
      /\ UNCHANGED <<index_l1, index_l2, index_l3, gpa, i, ept_L1, ept_L2>>
  BY DEF MapTestPage, Building, EptInv, EptTypeOK, loops
<1>2. TakenAway' = TakenAway \cup {MMIO_ARREA_PAGE}
  BY <1>1 DEF TakenAway, Building
<1> QED BY <1>1, <1>2, TakeAwayKeeps

LEMMA EptUnchangedKeeps == EptInv /\ UNCHANGED eptVars => EptInv'
BY DEF EptInv, eptVars, EptTypeOK, LoopInv, LevelsFilled, AccessInv, L1Done, L2Done, TakenAway, Building

LEMMA EptNextKeeps == EptInv /\ EptNext => EptInv'
BY SetL1Keeps, SetL2Keeps, SetL3Keeps, MmioMapGicdKeeps, MmioMapGiccKeeps, MapTestPageKeeps DEF EptNext

\* For every page that was reached, the walk through three tables ends at the
\* entry with the number of the page.
LEMMA WalkIsIdentity ==
  ASSUME EptInv, NEW p \in 0 .. gpa - 1
  PROVE  Walk(p) = p
<1> DEFINE e == LPAE_ENTRIES
<1> USE Stage2Assumption, SizeTypes
<1>0. /\ e \in Nat \ {0} /\ gpa \in Nat /\ p \in Nat /\ p < gpa
      /\ index_l1 \in 0 .. LPAE_L1_SIZE /\ index_l2 \in 0 .. e /\ index_l3 \in 0 .. e
  BY DEF EptInv, EptTypeOK
<1>1. L1Done \in Nat /\ L2Done \in Nat /\ gpa <= e * L2Done /\ L2Done <= e * L1Done
  <2>1. CASE stage = "l1"
    BY <1>0, <2>1 DEF EptInv, LoopInv, L1Done, L2Done, Building
  <2>2. CASE stage = "l2"
    <3>1. /\ gpa = e * L2Done /\ L2Done = e * index_l1 + index_l2 /\ L1Done = index_l1 + 1
      BY <2>2 DEF EptInv, LoopInv, L1Done, L2Done, Building
    <3>2. e * L1Done = e * index_l1 + e
      BY <1>0, <3>1
    <3> QED BY <1>0, <3>1, <3>2
  <2>3. CASE stage = "l3"
    <3>1. /\ gpa = e * (L2Done - 1) + index_l3 /\ L2Done = e * index_l1 + index_l2 + 1
          /\ L1Done = index_l1 + 1 /\ index_l2 < e
      BY <2>3 DEF EptInv, LoopInv, L1Done, L2Done, Building
    <3>2. e * L1Done = e * index_l1 + e /\ e * index_l1 \in Nat
      BY <1>0, <3>1
    <3>3. L2Done \in Nat /\ L2Done <= e * L1Done
      BY <1>0, <3>1, <3>2
    <3>4. e * (L2Done - 1) + e = e * L2Done
      BY <1>0, <3>3
    <3> QED BY <1>0, <3>1, <3>3, <3>4
  <2>4. CASE ~Building
    <3>1. gpa = LPAE_L3_SIZE /\ L1Done = LPAE_L1_SIZE /\ L2Done = LPAE_L2_SIZE
      BY <2>4 DEF EptInv, LoopInv, L1Done, L2Done, Building
    <3> QED BY <3>1 DEF LPAE_L2_SIZE
  <2> QED BY <2>1, <2>2, <2>3, <2>4 DEF Building
<1> DEFINE b == p \div e
           a == b \div e
<1>2. p = e * b + (p % e) /\ b \in Nat
  BY <1>0, Split
<1>3. b = e * a + (b % e) /\ a \in Nat
  BY <1>0, <1>2, Split
<1>4. b < L2Done /\ a < L1Done
  <2>1. p < e * L2Done
    BY <1>0, <1>1
  <2>2. b < L2Done
    BY <1>0, <1>1, <2>1, QuotientBelow
  <2>3. b < e * L1Done
    BY <1>0, <1>1, <1>2, <2>2
  <2> QED BY <1>0, <1>1, <1>2, <2>2, <2>3, QuotientBelow
<1>5. p \div (e * e) = a
  BY <1>0, SplitTwice
<1>6. ept_L1[p \div (e * e)] = e * a
  BY <1>1, <1>3, <1>4, <1>5 DEF EptInv, LevelsFilled
<1>7. ept_L2[e * a + (b % e)] = e * b
  BY <1>1, <1>2, <1>3, <1>4 DEF EptInv, LevelsFilled
<1> QED BY <1>2, <1>6, <1>7 DEF Walk

\* What the runs check of the tables follows from the invariant.
LEMMA EptInvImplies == EptInv => IdentityMapped /\ FaultsWhereEmulated
<1> SUFFICES ASSUME EptInv PROVE IdentityMapped /\ FaultsWhereEmulated
  OBVIOUS
<1>2. IdentityMapped
  BY WalkIsIdentity DEF IdentityMapped, EptInv, LevelsFilled, GetEptEntry
<1>3. ASSUME stage = "done"
      PROVE  {p \in Pages : ~ ept_L3[Walk(p)].access} = TakenAway
  <2>1. gpa = LPAE_L3_SIZE /\ 0 .. gpa - 1 = Pages
    BY <1>3 DEF EptInv, LoopInv, Building, Pages
  <2>2. \A p \in Pages : ept_L3[Walk(p)].access = (p \notin TakenAway)
    BY <2>1, WalkIsIdentity DEF EptInv, AccessInv
  <2>3. TakenAway \subseteq Pages
    BY <1>3, Stage2Assumption, SizeTypes DEF TakenAway, Building, Pages
  <2> QED BY <2>2, <2>3
<1>4. FaultsWhereEmulated
  BY <1>3 DEF FaultsWhereEmulated, TakenAway, Building
<1> QED BY <1>2, <1>4

-----------------------------------------------------------------------------
(* The traps *)

\* Before the handler: nothing has changed since the instruction, and the return
\* address is the one that the hardware stored.
TrapTaken ==
  /\ pc = "guest" => before = r /\ elr = 0
  /\ pc = "sync" => before = r /\ elr = IF info.ec = "hvc" THEN 1 ELSE 0
  /\ pc \in {"guest", "sync"} => enabled = {}

TrapInv ==
  /\ TypeOK /\ TrapTaken
  /\ ResumesAfter /\ RegistersKept /\ CpuInterfaceAccess /\ EnablesNamed

LEMMA WindowTypes ==
  /\ Window \in Nat /\ Window > 3
  /\ LR \in FrameSlots /\ ZR \in FrameSlots /\ Used \subseteq FrameSlots
  /\ Zero \in Values
BY TrapAssumption DEF FrameSlots, Zero

LEMMA TrapInitInv == Init => TrapInv
<1> SUFFICES ASSUME Init PROVE TrapInv
  OBVIOUS
<1>1. PICK sp \in Values : r = [n \in FrameSlots |-> IF n = ZR THEN <<sp, Zero>> ELSE <<Zero, Zero>>]
  BY DEF Init
<1>2. r \in [FrameSlots -> Pairs]
  BY <1>1, WindowTypes DEF Pairs
<1>3. TypeOK
  BY <1>2 DEF Init, TypeOK, Simple
<1> QED BY <1>3 DEF TrapInv, Init, TrapTaken, ResumesAfter, RegistersKept, CpuInterfaceAccess,
        EnablesNamed

LEMMA GuestSetsKeeps ==
  ASSUME TrapInv, NEW n \in Used, NEW w \in Values, GuestSets(n, w)
  PROVE  TrapInv'
<1>1. r' \in [FrameSlots -> Pairs] /\ before' = r'
  BY WindowTypes DEF GuestSets, TrapInv, TypeOK, Pairs
<1>2. TypeOK'
  BY <1>1 DEF GuestSets, TrapInv, TypeOK
<1> QED BY <1>1, <1>2 DEF GuestSets, TrapInv, TrapTaken, ResumesAfter, RegistersKept,
        CpuInterfaceAccess, EnablesNamed

LEMMA GuestTrapsKeeps ==
  ASSUME TrapInv, NEW x \in Simple \cup Faulting, GuestTraps(x)
  PROVE  TrapInv'
<1>1. x \in Simple \cup Aborts
  BY DEF Faulting
<1>2. TypeOK' /\ TrapTaken'
  BY <1>1 DEF GuestTraps, TrapInv, TypeOK, TrapTaken
<1> QED BY <1>2 DEF GuestTraps, TrapInv, ResumesAfter, RegistersKept,
        CpuInterfaceAccess, EnablesNamed

\* wfi, smc, hvc and what nobody knows.
LEMMA SimpleKeeps == TrapInv /\ (HandleSkipped \/ HandleHvc \/ HandleUnknown) => TrapInv'
<1> SUFFICES ASSUME TrapInv, HandleSkipped \/ HandleHvc \/ HandleUnknown PROVE TrapInv'
  OBVIOUS
<1>1. /\ UNCHANGED <<info, r, before, bus, seen, enabled>> /\ pc = "sync" /\ info.ec # "dabt"
      /\ pc' \in {"return", "halt"} /\ (pc' = "return" => elr' = 1) /\ elr' \in 0 .. 1
  BY DEF HandleSkipped, HandleHvc, HandleUnknown, AdvancePc, TrapInv, TrapTaken, TypeOK
<1>2. TypeOK' /\ TrapTaken'
  BY <1>1 DEF TrapInv, TypeOK, TrapTaken
<1> QED BY <1>1, <1>2 DEF TrapInv, TrapTaken, ResumesAfter, RegistersKept, CpuInterfaceAccess,
        EnablesNamed

\* The highest bit of a word with one bit, not the sign, is that bit.
LEMMA HighestOfOne ==
  ASSUME NEW b \in 0 .. WordBits - 2
  PROVE  HighestBit({b}) = b
<1>1. WordBits - 1 \notin {b} /\ {b} # Zero
  BY TrapAssumption DEF Zero
<1>2. (CHOOSE c \in {b} : \A a \in {b} : a <= c) = b
  <2>1. \E c \in {b} : \A a \in {b} : a <= c
    OBVIOUS
  <2> QED BY <2>1
<1> QED BY <1>1, <1>2 DEF HighestBit

LEMMA HighestBitType ==
  ASSUME NEW w \in Values
  PROVE  HighestBit(w) \in Nat
<1>0. WordBits \in Nat \ {0} /\ w \subseteq 0 .. WordBits - 1
  BY TrapAssumption
<1>1. CASE WordBits - 1 \in w
  BY <1>0, <1>1 DEF HighestBit
<1>2. CASE w = Zero
  BY <1>0, <1>2 DEF HighestBit, Zero
<1>3. CASE WordBits - 1 \notin w /\ w # Zero
  <2>1. \E x \in w : \A y \in w : y <= x
    <3>1. WordBits - 1 \in Nat /\ w # {}
      BY <1>0, <1>3 DEF Zero
    <3> QED BY <1>0, <3>1, GreatestElement
  <2> DEFINE h == CHOOSE b \in w : \A a \in w : a <= b
  <2>2. h \in w
    BY <2>1
  <2>3. HighestBit(w) = h
    BY <1>3 DEF HighestBit
  <2> HIDE DEF h
  <2> QED BY <1>0, <2>2, <2>3
<1> QED BY <1>1, <1>2, <1>3

\* An emulated access to the distributor.
LEMMA IntcHandlerKeeps == TrapInv /\ IntcHandler => TrapInv'
<1> SUFFICES ASSUME TrapInv, IntcHandler PROVE TrapInv'
  OBVIOUS
<1>0. /\ UNCHANGED <<info, r, before, bus, seen>> /\ pc = "sync" /\ pc' = "return" /\ info.ec = "dabt"
      /\ elr' = 1 /\ InGicd /\ info \in Aborts /\ before = r /\ enabled = {}
  BY DEF IntcHandler, AdvancePc, TrapInv, TrapTaken, TypeOK, Simple
<1>1. r[info.reg][1] \in Values /\ info.gpa \in Int
  BY <1>0, WindowTypes DEF TrapInv, TypeOK, Aborts, Pairs, Accessed, GICD_BASE_ADDR, MMIO_ARREA
<1>2. enabled' = IF info.write THEN EnabledBy(info.gpa, r[info.reg][1]) ELSE {}
  BY <1>0 DEF IntcHandler
<1>3. TypeOK'
  <2>1. HighestBit(r[info.reg][1]) \in Nat
    BY <1>1, HighestBitType
  <2>2. EnabledBy(info.gpa, r[info.reg][1]) \subseteq Nat
    <3>1. CASE GICD_ISENABLER(1) <= info.gpa /\ info.gpa < GICD_ICENABLER(0)
      <4>1. info.gpa = 2
        BY <1>1, <3>1 DEF GICD_ISENABLER, GICD_ICENABLER, GICD_BASE_ADDR
      <4> QED BY <2>1, <4>1, TrapAssumption DEF EnabledBy, GICD_ISENABLER, GICD_BASE_ADDR
    <3>2. CASE ~(GICD_ISENABLER(1) <= info.gpa /\ info.gpa < GICD_ICENABLER(0))
      BY <2>1, <3>2 DEF EnabledBy
    <3> QED BY <3>1, <3>2
  <2> QED BY <1>0, <1>2, <2>2 DEF TrapInv, TypeOK
<1>4. CpuInterfaceAccess'
  BY <1>0, <1>1, WindowTypes DEF CpuInterfaceAccess, InGicd, GICD_BASE_ADDR, GICC_BASE_ADDR
<1>5. EnablesNamed'
  <2> DEFINE enables(n) == info.write /\ info.gpa = GICD_ISENABLER(n)
             w == r[info.reg][1]
  <2>1. ASSUME enabled' # {} PROVE enables(0) \/ enables(1)
    BY <1>1, <1>2, <2>1 DEF EnabledBy, GICD_ISENABLER, GICD_ICENABLER, GICD_BASE_ADDR
  <2>2. ASSUME NEW b \in 0 .. WordBits - 2, enables(0), w = {b} PROVE enabled' = {b}
    BY <1>2, <2>2, HighestOfOne DEF EnabledBy
  <2>3. ASSUME NEW b \in 0 .. WordBits - 2, enables(1), w = {b} PROVE enabled' = {WordBits + b}
    <3>1. enabled' = {HighestBit(w) + (2 - 1) * WordBits}
      BY <1>2, <2>3 DEF EnabledBy, GICD_ISENABLER, GICD_ICENABLER, GICD_BASE_ADDR
    <3>2. HighestBit(w) = b
      BY <2>3, HighestOfOne
    <3> QED BY <3>1, <3>2, TrapAssumption
  <2>4. \A n \in 0 .. 1, b \in 0 .. WordBits - 2 :
          enables(n) /\ w = {b} => enabled' = {n * WordBits + b}
    <3> SUFFICES ASSUME NEW n \in 0 .. 1, NEW b \in 0 .. WordBits - 2, enables(n), w = {b}
                 PROVE  enabled' = {n * WordBits + b}
      OBVIOUS
    <3> HIDE DEF w, enables
    <3>1. CASE n = 0
      BY <2>2, <3>1, TrapAssumption
    <3>2. CASE n = 1
      BY <2>3, <3>2, TrapAssumption
    <3> QED BY <3>1, <3>2
  <2> QED BY <1>0, <2>1, <2>4 DEF EnablesNamed
<1> QED BY <1>0, <1>3, <1>4, <1>5 DEF TrapInv, TrapTaken, ResumesAfter, RegistersKept

\* A store to the CPU interface.
LEMMA MmioStoreKeeps == TrapInv /\ MmioStore => TrapInv'
<1> SUFFICES ASSUME TrapInv, MmioStore PROVE TrapInv'
  OBVIOUS
<1>0. /\ UNCHANGED <<info, r, before, seen, enabled>> /\ pc = "sync" /\ pc' = "return" /\ info.ec = "dabt"
      /\ elr' = 1 /\ info.write /\ info \in Aborts /\ before = r /\ enabled = {}
      /\ ~InGicd /\ InGicc
      /\ bus' = IF info.reg # 30
                THEN {<<Redirected, r[info.reg][1]>>, <<Redirected + 1, r[info.reg][2]>>} ELSE {}
  BY DEF MmioStore, AdvancePc, TrapInv, TrapTaken, TypeOK, Simple
<1>1. /\ r[info.reg] \in Pairs /\ info.gpa \in Int
  BY <1>0, WindowTypes DEF TrapInv, TypeOK, Aborts, Accessed, GICD_BASE_ADDR, MMIO_ARREA
<1>2. Redirected \in Int /\ Redirected = GICV_BASE_ADDR + (info.gpa - GICC_BASE_ADDR)
  BY <1>1, WindowTypes DEF Redirected, GICV_BASE_ADDR, GICC_BASE_ADDR
<1>3. TypeOK'
  BY <1>0, <1>1, <1>2 DEF TrapInv, TypeOK, Pairs
<1>4. CpuInterfaceAccess'
  BY <1>0, <1>2 DEF CpuInterfaceAccess, LR
<1>5. EnablesNamed'
  <2>1. \A n \in 0 .. 1 : info.gpa # GICD_ISENABLER(n)
    BY <1>0, <1>1, WindowTypes DEF InGicd, GICD_ISENABLER, GICD_BASE_ADDR
  <2> QED BY <1>0, <2>1 DEF EnablesNamed
<1> QED BY <1>0, <1>3, <1>4, <1>5 DEF TrapInv, TrapTaken, ResumesAfter, RegistersKept

\* A load from it.
LEMMA MmioLoadKeeps == TrapInv /\ MmioLoad => TrapInv'
<1> SUFFICES ASSUME TrapInv, MmioLoad PROVE TrapInv'
  OBVIOUS
<1>0. /\ UNCHANGED <<info, before, bus, enabled>> /\ pc = "sync" /\ pc' = "return" /\ info.ec = "dabt"
      /\ elr' = 1 /\ ~info.write /\ info \in Aborts /\ before = r /\ enabled = {}
      /\ ~InGicd /\ InGicc
  BY DEF MmioLoad, AdvancePc, TrapInv, TrapTaken, TypeOK, Simple
<1>1. PICK p \in Pairs :
        /\ seen' = {<<Redirected, p[1]>>, <<Redirected + 1, p[2]>>}
        /\ r' = IF info.reg # 30 THEN [r EXCEPT ![info.reg] = p] ELSE r
  BY DEF MmioLoad
<1>2. r \in [FrameSlots -> Pairs] /\ info.reg \in FrameSlots /\ info.gpa \in Int
  BY <1>0, WindowTypes DEF TrapInv, TypeOK, Aborts, Accessed, GICD_BASE_ADDR, MMIO_ARREA
<1>3. Redirected \in Int /\ Redirected = GICV_BASE_ADDR + (info.gpa - GICC_BASE_ADDR)
  BY <1>2, WindowTypes DEF Redirected, GICV_BASE_ADDR, GICC_BASE_ADDR
<1>4. /\ r' \in [FrameSlots -> Pairs] /\ \A n \in FrameSlots : n # info.reg => r'[n] = r[n]
      /\ info.reg # 30 => r'[info.reg] = p
  BY <1>1, <1>2
<1>5. TypeOK'
  BY <1>0, <1>1, <1>3, <1>4 DEF TrapInv, TypeOK, Pairs
<1>6. RegistersKept'
  BY <1>0, <1>4 DEF RegistersKept
<1>7. CpuInterfaceAccess'
  BY <1>0, <1>1, <1>3, <1>4 DEF CpuInterfaceAccess, LR
<1> QED BY <1>0, <1>5, <1>6, <1>7 DEF TrapInv, TrapTaken, ResumesAfter, EnablesNamed

\* An access that neither handler claims, and the return to the guest.
LEMMA IgnoreAbortKeeps == TrapInv /\ IgnoreAbort => TrapInv'
<1> SUFFICES ASSUME TrapInv, IgnoreAbort PROVE TrapInv'
  OBVIOUS
<1>0. /\ UNCHANGED <<info, r, before, bus, seen, enabled>> /\ pc = "sync" /\ pc' = "return"
      /\ elr' = 1 /\ info.ec = "dabt" /\ info \in Aborts /\ before = r /\ enabled = {}
      /\ ~InGicd /\ ~InGicc
  BY DEF IgnoreAbort, AdvancePc, TrapInv, TrapTaken, TypeOK, Simple
<1>1. info.gpa \in Int
  BY <1>0, WindowTypes DEF Aborts, Accessed, GICD_BASE_ADDR, MMIO_ARREA
<1>2. TypeOK'
  BY <1>0 DEF TrapInv, TypeOK
<1>3. CpuInterfaceAccess'
  BY <1>0, <1>1, WindowTypes DEF CpuInterfaceAccess, InGicc, GICC_BASE_ADDR
<1>4. EnablesNamed'
  <2>1. \A n \in 0 .. 1 : info.gpa # GICD_ISENABLER(n)
    BY <1>0, <1>1, WindowTypes DEF InGicd, GICD_ISENABLER, GICD_BASE_ADDR
  <2> QED BY <1>0, <2>1 DEF EnablesNamed
<1> QED BY <1>0, <1>2, <1>3, <1>4 DEF TrapInv, TrapTaken, ResumesAfter, RegistersKept

LEMMA ReturnToGuestKeeps == TrapInv /\ ReturnToGuest => TrapInv'
<1> SUFFICES ASSUME TrapInv, ReturnToGuest PROVE TrapInv'
  OBVIOUS
<1>1. r' \in [FrameSlots -> Pairs] /\ before' = r'
  BY WindowTypes DEF ReturnToGuest, TrapInv, TypeOK
<1>2. TypeOK'
  BY <1>1 DEF ReturnToGuest, TrapInv, TypeOK
<1> QED BY <1>1, <1>2 DEF ReturnToGuest, TrapInv, TrapTaken, ResumesAfter, RegistersKept,
        CpuInterfaceAccess, EnablesNamed

-----------------------------------------------------------------------------
(* hyper_main and its guest together *)

Inv == EptInv /\ TrapInv

LEMMA InvInit == GuestMemoryInit => Inv
BY EptInitInv, TrapInitInv DEF GuestMemoryInit, Inv

LEMMA TrapUnchangedKeeps == TrapInv /\ UNCHANGED vars => TrapInv'
BY DEF vars, TrapInv, TypeOK, TrapTaken, ResumesAfter, RegistersKept, CpuInterfaceAccess, EnablesNamed

LEMMA InvNext == Inv /\ [GuestMemoryNext]_<<vars, eptVars>> => Inv'
<1> SUFFICES ASSUME Inv, [GuestMemoryNext]_<<vars, eptVars>> PROVE Inv'
  OBVIOUS
<1> USE DEF Inv
<1>1. CASE EptNext /\ UNCHANGED vars
  BY <1>1, EptNextKeeps, TrapUnchangedKeeps
<1>2. CASE stage = "done" /\ TrapNext(Simple \cup Faulting) /\ UNCHANGED eptVars
  <2>1. EptInv'
    BY <1>2, EptUnchangedKeeps
  <2>2. TrapInv'
    BY <1>2, GuestSetsKeeps, GuestTrapsKeeps, SimpleKeeps, IntcHandlerKeeps, MmioStoreKeeps,
       MmioLoadKeeps, IgnoreAbortKeeps, ReturnToGuestKeeps DEF TrapNext
  <2> QED BY <2>1, <2>2
<1>3. CASE UNCHANGED <<vars, eptVars>>
  BY <1>3, EptUnchangedKeeps, TrapUnchangedKeeps
<1> QED BY <1>1, <1>2, <1>3 DEF GuestMemoryNext

LEMMA AlwaysInv == GuestMemorySpec => []Inv
BY InvInit, InvNext, PTL DEF GuestMemorySpec

\* Tables, frame and syndrome keep their types.
THEOREM TypeCorrect == GuestMemorySpec => [](TypeOK /\ EptTypeOK)
<1>1. Inv => TypeOK /\ EptTypeOK
  BY DEF Inv, TrapInv, EptInv
<1> QED BY <1>1, AlwaysInv, PTL

\* For tables of any size: the three levels that guest_ept_init builds lead the
\* hardware to the entry that get_ept_entry changes, and every page is mapped to
\* itself, with the attribute of its kind.
THEOREM AlwaysIdentityMapped == GuestMemorySpec => []IdentityMapped
<1>1. Inv => IdentityMapped
  BY EptInvImplies DEF Inv
<1> QED BY <1>1, AlwaysInv, PTL

\* When the guests start, exactly the emulated pages fault.
THEOREM EmulatedPagesFault == GuestMemorySpec => []FaultsWhereEmulated
<1>1. Inv => FaultsWhereEmulated
  BY EptInvImplies DEF Inv
<1> QED BY <1>1, AlwaysInv, PTL

\* A trapped instruction is stepped over once.
THEOREM AlwaysResumesAfter == GuestMemorySpec => []ResumesAfter
<1>1. Inv => ResumesAfter
  BY DEF Inv, TrapInv
<1> QED BY <1>1, AlwaysInv, PTL

\* A trap changes no register but the target of a load.
THEOREM RegistersAlwaysKept == GuestMemorySpec => []RegistersKept
<1>1. Inv => RegistersKept
  BY DEF Inv, TrapInv
<1> QED BY <1>1, AlwaysInv, PTL

\* Accesses to the CPU interface reach the virtual one, whatever the window.
THEOREM CpuInterfaceReached == GuestMemorySpec => []CpuInterfaceAccess
<1>1. Inv => CpuInterfaceAccess
  BY DEF Inv, TrapInv
<1> QED BY <1>1, AlwaysInv, PTL

\* An enable write enables the interrupt it names, for words of any width.
THEOREM EnablesAlwaysNamed == GuestMemorySpec => []EnablesNamed
<1>1. Inv => EnablesNamed
  BY DEF Inv, TrapInv
<1> QED BY <1>1, AlwaysInv, PTL
=============================================================================
