------------------------------- MODULE Stage2 -------------------------------
(***************************************************************************)
(* The stage-2 translation tables of the guests: guest_ept_init, which     *)
(* fills three levels of tables (mem/ept.c), and the calls in hyper_main   *)
(* that take pages away again through get_ept_entry (main_hyper.c).        *)
(*                                                                         *)
(* The builder follows the tree, get_ept_entry takes the third level for   *)
(* one flat array, and the hardware walks from the root.  Addresses are    *)
(* page numbers; the address of a table is the index of its first entry    *)
(* in ept_L2_root or ept_L3_root.  Cache and TLB maintenance is left out.  *)
(***************************************************************************)
EXTENDS Integers

CONSTANTS
  LPAE_L1_SIZE,     \* entries of the first level
  LPAE_ENTRIES,     \* entries of a table of the second or third level
  RAM_START, RAM_END,              \* GUEST_RAM_START, GUEST_RAM_END
  MMIO_AREA_GICD, MMIO_AREA_GICC,  \* first pages of the two windows
  WindowPages,                     \* 16
  MMIO_ARREA_PAGE                  \* the test page

LPAE_L2_SIZE == LPAE_L1_SIZE * LPAE_ENTRIES
LPAE_L3_SIZE == LPAE_L2_SIZE * LPAE_ENTRIES
Pages == 0 .. LPAE_L3_SIZE - 1

ASSUME Stage2Assumption ==
  /\ LPAE_L1_SIZE \in Nat \ {0} /\ LPAE_ENTRIES \in Nat \ {0} /\ WindowPages \in Nat \ {0}
  /\ RAM_START \in Nat /\ RAM_END \in Nat /\ RAM_START <= RAM_END /\ RAM_END <= LPAE_L3_SIZE
  /\ \A w \in {MMIO_AREA_GICD, MMIO_AREA_GICC} : w \in Nat /\ w + WindowPages <= LPAE_L3_SIZE
  /\ MMIO_ARREA_PAGE \in Pages

Invalid == -1
NoEntry == [base |-> Invalid, access |-> FALSE, attr |-> "none"]

VARIABLES
  stage,                        \* the loop that hyper_main is in
  index_l1, index_l2, index_l3, \* loop variables of guest_ept_init
  gpa,                          \* its running page number
  i,                            \* loop variable of mmio_map_gicd and mmio_map_gicc
  ept_L1, ept_L2, ept_L3        \* the tables

eptVars == <<stage, index_l1, index_l2, index_l3, gpa, i, ept_L1, ept_L2, ept_L3>>
loops == <<index_l1, index_l2, index_l3, gpa>>

EptTypeOK ==
  /\ stage \in {"l1", "l2", "l3", "gicd", "gicc", "mmio", "done"}
  /\ index_l1 \in 0 .. LPAE_L1_SIZE
  /\ index_l2 \in 0 .. LPAE_ENTRIES
  /\ index_l3 \in 0 .. LPAE_ENTRIES
  /\ gpa \in 0 .. LPAE_L3_SIZE
  /\ i \in 0 .. WindowPages
  /\ ept_L1 \in [0 .. LPAE_L1_SIZE - 1 -> {Invalid} \cup 0 .. LPAE_L2_SIZE - 1]
  /\ ept_L2 \in [0 .. LPAE_L2_SIZE - 1 -> {Invalid} \cup Pages]
  /\ ept_L3 \in [Pages -> {NoEntry} \cup
       [base : Pages, access : BOOLEAN, attr : {"memory", "device"}]]

\* hyper_main calls guest_ept_init; the memory behind the image is not cleared,
\* but nothing looks at an entry before it is written.
EptInit ==
  /\ stage = "l1"
  /\ index_l1 = 0 /\ index_l2 = 0 /\ index_l3 = 0 /\ gpa = 0 /\ i = 0
  /\ ept_L1 = [n \in 0 .. LPAE_L1_SIZE - 1 |-> Invalid]
  /\ ept_L2 = [n \in 0 .. LPAE_L2_SIZE - 1 |-> Invalid]
  /\ ept_L3 = [n \in Pages |-> NoEntry]

-----------------------------------------------------------------------------
(* guest_ept_init *)

IsInMemory(p) == RAM_START <= p /\ p < RAM_END

\* Where the code puts the tables below entry index_l1 and entry index_l2.
EptL2 == LPAE_ENTRIES * index_l1
EptL3 == LPAE_ENTRIES * LPAE_ENTRIES * index_l1 + LPAE_ENTRIES * index_l2

\* The outer loop: an entry of the first level, or the end of the function.
SetL1 ==
  /\ stage = "l1"
  /\ IF index_l1 < LPAE_L1_SIZE
     THEN /\ ept_L1' = [ept_L1 EXCEPT ![index_l1] = EptL2]
          /\ index_l2' = 0
          /\ stage' = "l2"
     ELSE /\ stage' = "gicd"
          /\ UNCHANGED <<ept_L1, index_l2>>
  /\ UNCHANGED <<index_l1, index_l3, gpa, i, ept_L2, ept_L3>>

\* The middle loop.
SetL2 ==
  /\ stage = "l2"
  /\ IF index_l2 < LPAE_ENTRIES
     THEN /\ ept_L2' = [ept_L2 EXCEPT ![EptL2 + index_l2] = EptL3]
          /\ index_l3' = 0
          /\ stage' = "l3"
          /\ UNCHANGED index_l1
     ELSE /\ index_l1' = index_l1 + 1
          /\ stage' = "l1"
          /\ UNCHANGED <<ept_L2, index_l3>>
  /\ UNCHANGED <<index_l2, gpa, i, ept_L1, ept_L3>>

\* Variant: the page number starts again in every table.
SetL3Restarts ==
  /\ stage = "l3"
  /\ IF index_l3 < LPAE_ENTRIES
     THEN /\ ept_L3' = [ept_L3 EXCEPT ![EptL3 + index_l3] =
               [base |-> index_l3, access |-> TRUE,
                attr |-> IF IsInMemory(gpa) THEN "memory" ELSE "device"]]
          /\ gpa' = gpa + 1
          /\ index_l3' = index_l3 + 1
          /\ UNCHANGED <<stage, index_l2>>
     ELSE /\ index_l2' = index_l2 + 1
          /\ stage' = "l2"
          /\ UNCHANGED <<ept_L3, gpa, index_l3>>
  /\ UNCHANGED <<index_l1, i, ept_L1, ept_L2>>

\* The inner loop: the page that gpa has reached, memory or device.
SetL3 ==
  /\ stage = "l3"
  /\ IF index_l3 < LPAE_ENTRIES
     THEN /\ ept_L3' = [ept_L3 EXCEPT ![EptL3 + index_l3] =
               [base |-> gpa, access |-> TRUE,
                attr |-> IF IsInMemory(gpa) THEN "memory" ELSE "device"]]
          /\ gpa' = gpa + 1
          /\ index_l3' = index_l3 + 1
          /\ UNCHANGED <<stage, index_l2>>
     ELSE /\ index_l2' = index_l2 + 1
          /\ stage' = "l2"
          /\ UNCHANGED <<ept_L3, gpa, index_l3>>
  /\ UNCHANGED <<index_l1, i, ept_L1, ept_L2>>

-----------------------------------------------------------------------------
(* hyper_main *)

\* get_ept_entry: the third level as one array, indexed by the page number.
GetEptEntry(p) == p

TakeAway(p) == ept_L3' = [ept_L3 EXCEPT ![GetEptEntry(p)].access = FALSE]

MmioMapGicd ==
  /\ stage = "gicd"
  /\ IF i < WindowPages
     THEN TakeAway(MMIO_AREA_GICD + i) /\ i' = i + 1 /\ UNCHANGED stage
     ELSE i' = 0 /\ stage' = "gicc" /\ UNCHANGED ept_L3
  /\ UNCHANGED <<loops, ept_L1, ept_L2>>

\* Variant: the loop starts at the distributor again.
MmioMapGiccAgain ==
  /\ stage = "gicc"
  /\ IF i < WindowPages
     THEN TakeAway(MMIO_AREA_GICD + i) /\ i' = i + 1 /\ UNCHANGED stage
     ELSE i' = 0 /\ stage' = "mmio" /\ UNCHANGED ept_L3
  /\ UNCHANGED <<loops, ept_L1, ept_L2>>

MmioMapGicc ==
  /\ stage = "gicc"
  /\ IF i < WindowPages
     THEN TakeAway(MMIO_AREA_GICC + i) /\ i' = i + 1 /\ UNCHANGED stage
     ELSE i' = 0 /\ stage' = "mmio" /\ UNCHANGED ept_L3
  /\ UNCHANGED <<loops, ept_L1, ept_L2>>

\* The test page, then the guests are created and started.
MapTestPage ==
  /\ stage = "mmio"
  /\ TakeAway(MMIO_ARREA_PAGE)
  /\ stage' = "done"
  /\ UNCHANGED <<loops, i, ept_L1, ept_L2>>

EptNext == SetL1 \/ SetL2 \/ SetL3 \/ MmioMapGicd \/ MmioMapGicc \/ MapTestPage

EptSpec == EptInit /\ [][EptNext]_eptVars

-----------------------------------------------------------------------------
(* Properties *)

\* The table walk of the hardware: the entry of the third level that it reaches.
Walk(p) ==
  LET l2 == ept_L1[p \div (LPAE_ENTRIES * LPAE_ENTRIES)]
      l3 == ept_L2[l2 + ((p \div LPAE_ENTRIES) % LPAE_ENTRIES)]
  IN l3 + (p % LPAE_ENTRIES)

\* For every page that guest_ept_init has reached: the walk finds the entry that
\* get_ept_entry would change (the check that is commented out there), and no page
\* is mapped to another one: what the guest calls page p is page p of the machine,
\* memory where there is memory and a device elsewhere.
IdentityMapped ==
  \A p \in 0 .. gpa - 1 :
    /\ Walk(p) = GetEptEntry(p)
    /\ ept_L3[Walk(p)].base = p
    /\ ept_L3[Walk(p)].attr = IF p \in RAM_START .. RAM_END - 1 THEN "memory" ELSE "device"

\* When the guests start, the walk faults on the two windows and the test page,
\* each of which needs the emulation, and nowhere else in the 4 GB.
FaultsWhereEmulated ==
  LET window(w) == w .. w + WindowPages - 1
  IN stage = "done" =>
       {p \in Pages : ~ ept_L3[Walk(p)].access} =
         window(MMIO_AREA_GICD) \cup window(MMIO_AREA_GICC) \cup {MMIO_ARREA_PAGE}
=============================================================================
