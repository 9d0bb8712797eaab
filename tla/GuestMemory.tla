----------------------------- MODULE GuestMemory -----------------------------
(***************************************************************************)
(* hyper_main and its guest (main_hyper.c): the hypervisor builds the      *)
(* stage-2 tables and takes the pages of the emulated devices away, then   *)
(* the guest executes.  An access of the guest traps where the tables that *)
(* Stage2 built make the hardware walk fault, and GuestTrap handles it;    *)
(* every other access goes to the machine.                                 *)
(*                                                                         *)
(* A page of Stage2 is scaled to one word of GuestTrap.                    *)
(***************************************************************************)
EXTENDS GuestTrap, Stage2

\* The windows lie behind each other, as in the code.
ASSUME LayoutAssumption ==
  /\ WindowPages = Window
  /\ MMIO_AREA_GICC = MMIO_AREA_GICD + WindowPages
  /\ MMIO_ARREA_PAGE = MMIO_AREA_GICD + MMIO_ARREA

PageOf(a) == MMIO_AREA_GICD + a

\* The data aborts that the hardware takes to EL2.
Faulting == {x \in Aborts : ~ept_L3[Walk(PageOf(x.gpa))].access}

GuestMemoryInit == EptInit /\ Init

GuestMemoryNext ==
  \/ EptNext /\ UNCHANGED vars
  \/ stage = "done" /\ TrapNext(Simple \cup Faulting) /\ UNCHANGED eptVars

GuestMemorySpec == GuestMemoryInit /\ [][GuestMemoryNext]_<<vars, eptVars>>
=============================================================================
