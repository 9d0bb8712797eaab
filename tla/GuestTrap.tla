------------------------------ MODULE GuestTrap ------------------------------
(***************************************************************************)
(* Synchronous exceptions that a guest takes to EL2, and what the          *)
(* hypervisor does for it: handle_sync_exception_el2                       *)
(* (exception/exception_el2.c), data_abort_handler and handle_mmio         *)
(* (mem/ept.c), intc_handler (hyper/vgic.c), gic_enable_int                *)
(* (exception/gic/gic.c).                                                  *)
(*                                                                         *)
(* Addresses are counted in 32-bit words from GICD_BASE_ADDR, in windows   *)
(* of Window words.  A word is the set of its bits that are set, a 64-bit  *)
(* register a pair <<low word, high word>>.  One instruction at a time:    *)
(* trap, handler, return.                                                  *)
(***************************************************************************)
EXTENDS Integers, FiniteSets

CONSTANTS
  Window,     \* words in 0x10000 bytes
  WordBits,   \* 32 in the code
  Values,     \* words the guest works with
  Used        \* the general registers the guest uses, of 0 .. 30

ASSUME TrapAssumption ==
  /\ Window \in Nat /\ Window > 3
  /\ WordBits \in Nat \ {0}
  /\ Values \subseteq SUBSET (0 .. WordBits - 1) /\ {} \in Values
  /\ Used \subseteq 0 .. 30

\* Address map, and registers of the distributor (offsets scaled).
GICD_BASE_ADDR == 0
GICC_BASE_ADDR == Window
GICV_BASE_ADDR == 4 * Window
MMIO_ARREA     == 8 * Window
GICD_CTLR         == GICD_BASE_ADDR
GICD_ISENABLER(n) == GICD_BASE_ADDR + 1 + n      \* n is 0 or 1
GICD_ICENABLER(n) == GICD_BASE_ADDR + 3 + n

\* The words that the guest accesses; which of them fault, the tables decide.
Accessed == GICD_BASE_ADDR .. MMIO_ARREA

\* trap_frame_t: r[0] .. r[30], and behind them usp.
LR == 30
ZR == 31          \* the zero register in an instruction, usp in the frame
FrameSlots == Used \cup {LR, ZR}
Pairs == Values \X Values
Zero == {}        \* the word 0

VARIABLES
  pc,       \* "guest", "sync", "return", "halt"
  info,     \* the instruction that trapped
  r,        \* the trap frame, which is also the guest's registers
  before,   \* auxiliary: r when the trap was taken
  elr,      \* 0: the trapped instruction, 1: the one after it, ...
  bus,      \* words that handling the trap has written: {<<address, word>>}
  seen,     \* words that handling the trap has read
  enabled   \* interrupts that handling the trap has enabled in the distributor

vars == <<pc, info, r, before, elr, bus, seen, enabled>>

\* What the syndrome registers tell of a trapped instruction.
Simple  == [ec : {"wfi", "hvc", "smc", "sys", "undef"}]
Aborts  == [ec : {"dabt"}, gpa : Accessed, write : BOOLEAN, reg : FrameSlots]

TypeOK ==
  /\ pc \in {"guest", "sync", "return", "halt"}
  /\ info \in Simple \cup Aborts
  /\ r \in [FrameSlots -> Pairs] /\ before \in [FrameSlots -> Pairs]
  /\ elr \in 0 .. 1
  /\ bus \subseteq Int \X Values
  /\ seen \subseteq Int \X Values
  /\ enabled \subseteq Nat

\* usp holds the hypervisor's stack pointer, which is not 0.
Init ==
  /\ pc = "guest"
  /\ info = [ec |-> "wfi"]
  /\ \E sp \in Values \ {Zero} :
       r = [n \in FrameSlots |-> IF n = ZR THEN <<sp, Zero>> ELSE <<Zero, Zero>>]
  /\ before = r
  /\ elr = 0
  /\ bus = {} /\ seen = {}
  /\ enabled = {}

-----------------------------------------------------------------------------
(* The guest *)

\* It puts a word into a register.
GuestSets(n, w) ==
  /\ pc = "guest"
  /\ r' = [r EXCEPT ![n] = <<w, Zero>>]
  /\ before' = r'
  /\ UNCHANGED <<pc, info, elr, bus, seen, enabled>>

\* It executes an instruction that traps.  The return address is the
\* instruction itself, except for hvc, where it is the next one.
GuestTraps(x) ==
  /\ pc = "guest"
  /\ info' = x
  /\ before' = r
  /\ elr' = IF x.ec = "hvc" THEN 1 ELSE 0
  /\ pc' = "sync"
  /\ UNCHANGED <<r, bus, seen, enabled>>

-----------------------------------------------------------------------------
(* handle_sync_exception_el2 *)

AdvancePc == elr' = elr + 1

\* wfi and smc are stepped over.
HandleSkipped ==
  /\ pc = "sync" /\ info.ec \in {"wfi", "smc"}
  /\ AdvancePc
  /\ pc' = "return"
  /\ UNCHANGED <<info, r, before, bus, seen, enabled>>

\* Variant: hvc is stepped over like smc.
HandleHvcAdvances ==
  /\ pc = "sync" /\ info.ec = "hvc"
  /\ AdvancePc
  /\ pc' = "return"
  /\ UNCHANGED <<info, r, before, bus, seen, enabled>>

HandleHvc ==
  /\ pc = "sync" /\ info.ec = "hvc"
  /\ pc' = "return"
  /\ UNCHANGED <<info, r, before, elr, bus, seen, enabled>>

\* System instructions and everything unknown end in "while (1)".
HandleUnknown ==
  /\ pc = "sync" /\ info.ec \in {"sys", "undef"}
  /\ pc' = "halt"
  /\ UNCHANGED <<info, r, before, elr, bus, seen, enabled>>

\* The two tests of data_abort_handler; both ends belong to the range.
InGicd == GICD_BASE_ADDR <= info.gpa /\ info.gpa <= GICD_BASE_ADDR + Window
InGicc == GICC_BASE_ADDR <= info.gpa /\ info.gpa <= GICC_BASE_ADDR + Window

\* HIGHEST_BIT_POSITION of an int: a set sign bit is extended to 64 bits.
HighestBit(w) ==
  IF WordBits - 1 \in w THEN 2 * WordBits - 1
  ELSE IF w = Zero THEN 0
  ELSE CHOOSE b \in w : \A a \in w : a <= b

\* Variant: the group of the register is forgotten.
EnabledByNoGroup(gpa, w) == {HighestBit(w)}

\* The interrupt that a write to an enable register enables.
EnabledBy(gpa, w) ==
  IF gpa = GICD_ISENABLER(0) THEN {HighestBit(w)}
  ELSE IF GICD_ISENABLER(1) <= gpa /\ gpa < GICD_ICENABLER(0)
       THEN {HighestBit(w) + (gpa - GICD_ISENABLER(0)) * WordBits}
       ELSE {}

\* intc_handler: of all accesses only writes to the enable registers do
\* something; the register of a read keeps its value.
IntcHandler ==
  /\ pc = "sync" /\ info.ec = "dabt" /\ InGicd
  /\ enabled' = IF info.write THEN enabled \cup EnabledBy(info.gpa, r[info.reg][1]) ELSE enabled
  /\ AdvancePc
  /\ pc' = "return"
  /\ UNCHANGED <<info, r, before, bus, seen>>

\* Variant: the access is not moved to the virtual interface.
RedirectedNot == info.gpa

\* The same access to the virtual CPU interface, 0x30000 bytes further on.
Redirected == info.gpa + 3 * Window

\* handle_mmio, store: 64 bits, whatever the size of the access.
MmioStore ==
  /\ pc = "sync" /\ info.ec = "dabt" /\ ~InGicd /\ InGicc /\ info.write
  /\ bus' = IF info.reg # 30
            THEN {<<Redirected, r[info.reg][1]>>, <<Redirected + 1, r[info.reg][2]>>}
            ELSE {}
  /\ AdvancePc
  /\ pc' = "return"
  /\ UNCHANGED <<info, r, before, seen, enabled>>

\* Variant: the value goes to the register after the one that was named.
MmioLoadNext ==
  /\ pc = "sync" /\ info.ec = "dabt" /\ ~InGicd /\ InGicc /\ ~info.write
  /\ \E p \in Pairs :
       /\ seen' = {<<Redirected, p[1]>>, <<Redirected + 1, p[2]>>}
       /\ r' = [r EXCEPT ![CHOOSE n \in FrameSlots : n # info.reg] = p]
  /\ AdvancePc
  /\ pc' = "return"
  /\ UNCHANGED <<info, before, bus, enabled>>

\* handle_mmio, load: what the device answers is not modelled.
MmioLoad ==
  /\ pc = "sync" /\ info.ec = "dabt" /\ ~InGicd /\ InGicc /\ ~info.write
  /\ \E p \in Pairs :
       /\ seen' = {<<Redirected, p[1]>>, <<Redirected + 1, p[2]>>}
       /\ r' = IF info.reg # 30 THEN [r EXCEPT ![info.reg] = p] ELSE r
  /\ AdvancePc
  /\ pc' = "return"
  /\ UNCHANGED <<info, before, bus, enabled>>

\* Any other address that faults: nothing is done, the instruction is skipped.
IgnoreAbort ==
  /\ pc = "sync" /\ info.ec = "dabt" /\ ~InGicd /\ ~InGicc
  /\ AdvancePc
  /\ pc' = "return"
  /\ UNCHANGED <<info, r, before, bus, seen, enabled>>

\* eret; usp is not loaded, so the next trap finds the stack pointer there.
ReturnToGuest ==
  /\ pc = "return"
  /\ pc' = "guest"
  /\ r' = [r EXCEPT ![ZR] = before[ZR]]
  /\ before' = r'
  /\ elr' = 0
  /\ bus' = {} /\ seen' = {} /\ enabled' = {}
  /\ UNCHANGED info

\* The guest and its hypervisor, for the instructions in traps.
TrapNext(traps) ==
  \/ \E n \in Used, w \in Values : GuestSets(n, w)
  \/ \E x \in traps : GuestTraps(x)
  \/ HandleSkipped \/ HandleHvc \/ HandleUnknown
  \/ IntcHandler \/ MmioStore \/ MmioLoad \/ IgnoreAbort
  \/ ReturnToGuest

-----------------------------------------------------------------------------
(* Properties *)

\* Each trapped instruction is stepped over once: never executed again (it would
\* trap for ever), never together with its successor.
ResumesAfter == pc = "return" => elr = 1

\* A trap changes no general register but the target of a trapped load.
RegistersKept ==
  pc = "return" => \A n \in FrameSlots \ {ZR} :
    r[n] # before[n] => info.ec = "dabt" /\ ~info.write /\ info.reg = n

\* A store to or a load from the CPU interface with an ordinary register moves
\* its low word to or from the same offset of the virtual interface; GICC_CTLR,
\* x30 and the zero register are the exceptions shown separately.
CpuInterfaceAccess ==
  (pc = "return" /\ info.ec = "dabt") =>
    LET offset == info.gpa - GICC_BASE_ADDR IN
    offset \in 1 .. Window - 1 /\ info.reg \notin {LR, ZR} =>
      <<GICV_BASE_ADDR + offset, r[info.reg][1]>> \in (IF info.write THEN bus ELSE seen)

\* An enable write with one bit set, not the sign bit, enables exactly that
\* interrupt, in either group; no other instruction enables any.
EnablesNamed ==
  LET enables(n) == info.ec = "dabt" /\ info.write /\ info.gpa = GICD_ISENABLER(n)
  IN pc = "return" =>
       /\ enabled # {} => \E n \in 0 .. 1 : enables(n)
       /\ \A n \in 0 .. 1, b \in 0 .. WordBits - 2 :
            enables(n) /\ r[info.reg][1] = {b} => enabled = {n * WordBits + b}

\* What the comments say of the two handlers: intc_handler emulates the
\* distributor, and GICC_CTLR is a register of the CPU interface.  So a trapped
\* access to the CPU interface is an access to the virtual one.
CpuInterfaceIsRedirected ==
  (pc = "return" /\ info.ec = "dabt" /\ info.gpa \in GICC_BASE_ADDR .. GICC_BASE_ADDR + Window - 1) =>
    IF info.write THEN info.reg = LR \/ bus # {} ELSE seen # {}
=============================================================================
