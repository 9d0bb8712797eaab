# TLA+ verification of Tiny-ARMOS (dmos_new)

The repository is a small aarch64 kernel. Built with `HV=n` it runs at EL1: it
brings up `SMP_NUM` cores, creates a fixed list of tasks, and rotates them on
timer ticks. Built with `HV=y` it runs at EL2 and rotates guests (a test guest and
Linux) in the same scheduler. This directory holds TLA+ models of that code, TLC
configurations that check them on small instances, and TLAPS proofs of the main
safety properties for every number of cores, tasks, pages, list registers, ring slots,
nodes and bytes. The console driver and the library (tree, list, queue, bitmap, strings,
`printf`) are modelled as well.

Paths below are relative to the repository root.

## 1. Inventory

| Component | State | Operations | Interacts with | What makes it correct |
|---|---|---|---|---|
| Spinlock (`spinlock/spinlock.S`) | lock word; the exclusive monitor of each core | `spin_lock`, `spin_trylock`, `spin_unlock` | scheduler, boot, early UART | one holder; truthful word; spinning makes progress |
| Scheduler (`schedule/task.c`) | `task_list[]` (state, counter, saved context), `task_count`, two locks, `current_thread` of each core | `schedule_init_local`, `timer_tick_schedule`, `_schedule`, `save_cpu_ctx`, `switch_context_el` | exceptions, timer, boot | a task on one core; latest context loaded; nobody starves |
| EL1 exceptions (`exception/exception.S`, `.c`) | trap frame on the core's stack, handler table | save/restore registers, `handle_sync_exception`, `handle_irq_exception` | scheduler, syscalls, GIC | what is saved belongs to the task it is saved for |
| Timer (`timer/timer.c`) | compare value of each core | `timer_init`, `timer_init_second`, `handle_timer_interrupt` | scheduler, GIC | fires again; wakes a waiting core |
| System calls (`syscall/syscall.c`) | none | `putc`, `getc`, `debug` | UART | return; `getc` blocks its core |
| Multi-core boot (`main.c`, `smp.c`, `boot/boot.S`) | `inited_cpu_num`, lock, `thread_info` of each core | `kernel_main`, `start_secondary_cpus`, `second_kernel_main`, `main_entry` | scheduler, PSCI, timer | barrier; `thread_info` and tasks ready before use; all cores come online |
| PL011 driver (`io/uart_pl011*.c`, `io/io.c`) | receive and transmit rings, interrupt mask, the driver in use | `getc`, `putc`, `io_init`, interrupt handler | syscalls, GIC | each accepted character once and in order; the interrupts stay enabled; what arrives is fetched |
| GIC driver (`exception/gic/gic.c`) | enable, priority and list registers | enable, priority, ack, list register access | all interrupts | right bit, right register |
| Virtual GIC (`hyper/vgic.c`, `hyper/vm.c`) | list registers, emulated distributor | `vgic_inject`, `intc_handler` | EL2 exceptions, GIC | each injected interrupt is delivered once, to its guest |
| EL2 exceptions, guest switch (`exception/exception_el2.*`, `hyper/hyper_ctx.S`) | trap frame, system registers of each guest | sync and irq handlers, `vm_in`, `vm_out` | scheduler, stage 2 | registers of the guest that runs |
| Stage 2 and MMIO (`mem/ept.c`) | translation tables | `guest_ept_init`, `get_ept_entry`, `data_abort_handler`, `handle_mmio` | virtual GIC | right handler, right register and width |
| Bitmap (`mem/bitmap.c`) | a bit per page | create, set, clear, test, find | - | finds the first run that is free and inside |
| Page table (`mem/page.c`, `mem/mmu.S`) | tables | one initialisation | - | identity map |
| Tree (`lib/rbtree.c`) | nodes of a pool, free queue | insert, search, delete | queue | ordered, balanced, nothing lost; the repair ends |
| List, queue (`lib/list.c`, `lib/queue.c`) | links, count | insert and remove at any place | tree | both ways through give what was put there |
| Strings, `printf` (`mem/string.c`, `io/printf.c`) | the caller's memory, a bounded buffer | copy, compare, search; format | UART | agree with the C library; stay inside buffer and format |

What is hard in this code: several cores share `task_list` under two different
locks; contexts are saved before the lock and loaded after it; cores are started
before their `thread_info` is written; a core that waits in `getc` or stops in a
fault never takes another tick; a failing `CPU_ON` is ignored. In the hypervisor, the two
halves of a guest's registers are saved and loaded in different places on either side
of the switch; interrupts are handed on through four list registers and masked by
their priority until the next tick; trapped accesses are decoded with range tests,
register numbers and widths that all have edges. The console handler interrupts `putc` and
`getc` in the middle of a ring operation and shares a mask register with them; the tree
repairs itself with some ten mirrored re-linkings. The list, with the line where each
one bites and the properties that would notice, is in `PROJECT.json` under `hazards`.

## 2. Modules

```
HV=n   AbstractLock  <---- implements ---- Spinlock          spinlock.S
            ^  used by
            +------------ Scheduler ---- implements ----> CoreAssignment
            +------------ SmpBoot   (establishes Scheduler's Init)

HV=y   Stage2      tables that make the guest trap     (mem/ept.c, main_hyper.c)
       GuestTrap   what a trapped instruction does     (exception_el2.c, ept.c, vgic.c)
       GuestMemory = Stage2, then GuestTrap where the tables fault
       Hyper       interrupts, guest switch, injection (exception_el2.*, task.c, vgic.c)

both   Uart        the two console drivers             (io/uart_pl011*.c, io.c)
       RbTree ---- implements ----> OrderedMap         (lib/rbtree.c)
       KList, KQueue, Bitmap, CString, Printf          (lib/, mem/, io/printf.c)

SpinlockProof, SchedulerProof, SmpBootProof, HyperProof, GuestProof,
UartProof, LibraryProof, TreeProof                                         theorems
MCSpinlock, MCScheduler, MCSmpBoot, MCHyper, MCGuest, MCLibrary + *.cfg   runs
```

A definition whose comment begins with "Variant:" is a deliberately wrong form of a
definition that follows it. It is not part of any specification; it shows that a
property notices that mistake.

**AbstractLock** is what callers of `spin_lock`/`spin_unlock` rely on: an owner that
is nobody or one core.

**Spinlock** has one action per instruction that touches the word. `mon` is the set
of cores whose exclusive monitor is armed; any store to the word empties it, and
`stlxr` can always fail. The memory barriers (`dmb`, acquire/release) are not
modelled: the model is sequentially consistent.

**CoreAssignment** is what the scheduler promises: each core starts on the task with
its own number and then moves only to tasks that no core is on.

**Scheduler** is the core of the project. `pc[c]` says where core `c` is; `state`,
`counter`, `ctx` are the fields of `task_list[t]`; `current[c]` is
`current_thread`; `i` and `next` are the locals of `_schedule`. Register contents are
abstracted to *whose* registers they are (`regs[c]`, `ctx[t]`): an application
`App(t)` or the boot code of a core, `BootLoop(c)`, which ends in the `while (1)` of
`main_entry`. The auxiliary set `stale` holds the tasks whose saved context is older
than the registers of the program. Correspondence:

| Action | Code |
|---|---|
| `AcquirePrintLock`, `SetCurrent`, `SetRunning`, `EnterLoop` | `schedule_init_local` statement by statement, then `enable_interrupts` |
| `Irq` | vector entry, `SAVE_REGS`, `handle_irq_exception` up to the timer handler |
| `Svc`, `SvcReturn`, `GetcPoll`, `GetcReturn`, `Fault` | `handle_sync_exception`: `svc`/`smc`, `putc`/`debug`, the polling of `getc`, the final `while (1)` |
| `TickReturn`, `SliceEnd` | `timer_tick_schedule` and the early return of `_schedule` |
| `AcquireLock`, `ScanSkip`, `ScanFind`, `Claim`, `ReleaseLock` | the loop of `_schedule`, one iteration at a time, the claim apart from the test |
| `Switch` | the test for -1, `switch_context_el`, `RESTORE_REGS`, `eret` |
| `CharArrives` | the outside world |

Interrupts are masked from exception entry to `eret` and during boot, so `Irq` is
possible only at `"run"`.

`SlicesOutlastBoot` is a named *timing* assumption: when it is TRUE, no slice ends
while another core is still in `schedule_init_local`. With the 20 ticks of a slice this
is very likely on hardware, but nothing in the code enforces it; section 4 shows what
happens without it. The builds that the repository makes (one core, or two cores with
two tasks) do not need it: the theorems cover them without it.

**SmpBoot** models core 0 (`kernel_main`, `start_secondary_cpus`, the task creation) and
the other cores (`second_kernel_main`), the increment of `inited_cpu_num` as a load and
a store under the lock, the unlocked test, `wfi`, and the timer that wakes it. `CPU_ON`
may be refused. When a core leaves the barrier, the tasks and `thread_info`s are what
`Init` of Scheduler says.

**Hyper** is the hypervisor on its one core. As in Scheduler, registers are abstracted to
their owner: `gp` and `sys` are whose general and EL1 system registers the core has,
`frame` whose the trap frame holds, `ctx[t]` and `sysreg[t]` whose the two save areas of
task `t` hold; `gp_stale` and `sys_stale` are the tasks whose saved copy is old. `line`,
`enabled`, `prio` and `lr` are the device lines, `GICD_ISENABLER`, `GICD_IPRIORITYR` and the
list registers. EL2 runs with interrupts masked, so one action is one handler:

| Action | Code |
|---|---|
| `TakeIrq`, `TakeEnable`, `TakeOther`, `TakeFault` | vector entry, `SAVE_REGS_EL2` with `vm_out`, `save_cpu_ctx` (all of it in `Trap`), and the dispatch |
| `VgicInject` | `v_timer_handler`, `fake_console`: `vgic_inject` with its loop over the list registers |
| `TimerInterrupt` | `handle_timer_interrupt`: the timer, `timer_tick_schedule`, `_schedule`, the priorities |
| `EmulateEnable` | `intc_handler` for an enable register, `gic_enable_int` |
| `Return` | `RESTORE_REGS_EL2` with `vm_in`, `eret` |
| `LineUp`, `Guest...` | the devices and the Linux guest (external) |

`TickOutlastsHandler` is a timing assumption, used only for liveness: the timer does not
expire again while the handler that has just set it returns. Otherwise the host could
spend all its time on ticks.

**GuestTrap** is one synchronous trap at a time: which handler, which return address,
which register of the frame, which words on the bus. Addresses count 32-bit words in
windows of `Window` words; a 64-bit register is a pair of words, so that the widths
show. A word is the set of its bits, of `WordBits` (for 32) bits. `before` remembers the
frame at the trap.

**Stage2** builds the three levels of tables entry by entry, then takes the pages of the
two GIC windows and of the test page away. `Walk` is the walk of the hardware, and not
part of the code.

**GuestMemory** composes the two: `hyper_main` first builds the tables, then the guest
executes. An access traps only where the walk through the tables that were built faults;
so a table that is wrong shows as a trap that is missing, or as one that no handler expects.
A page of Stage2 stands for one word of GuestTrap.

**Uart** has a step for every access of `putc` to a register or to a shared variable, on any core, and
the handler suspends core 0 anywhere unless that has interrupts masked (`Contexts`). Two places are
coarser: `GetTake` is the test of the ring and the load of its slot together, and a pass of the
handler's loops (`RxPass`, `TxPass`) is one step, which is exact on one core, where nothing interrupts the
handler. The
read-modify-writes of `UART0_IMSC` are two steps. `task[c]` is the call of `putc` or `getc` in
progress with its locals, `irq` the place in the handler. Characters are numbered in the order
of the calls, and `put`, `wire`, `kept` and `got` record what was accepted, sent, stored and
returned. The PL011 (`Arrive`, `Transmit`, `WriteDR`, `ReadDR`) is external: `LCRH` leaves the FIFOs
off, so there is room for one character in each direction, and the transmit interrupt is
raised when a character leaves.

| Action | Code |
|---|---|
| `Putc`, `Getc`, `IoInit` | `io.c`: the calls through `uart_op`, `io_init` with `uart_advance_init` |
| `EarlyWait`, `EarlyWrite`, `EarlyPoll`, `EarlyRead` | the polling driver; its lock is around one store |
| `PutRoom`, `PutStore`, `PutIndex`, `PutReadImsc`, `PutEnable`; `GetTake`, `GetAdvance` | `uart_advance_putc`, `uart_advance_getc` |
| `TakeInterrupt`, `Rx...`, `Tx...`, `Mask...` | `uart_interrupt_handler`, statement by statement |

**RbTree** works on the heap of nodes with the assignments of the code (`Set`, `Link`, `Swap`,
`Paint`). `TreeInsert` and `TreeDelete` run up to their repair loops, each pass of which is a step, so
the links are checked in every pass. Mirror images share a definition, with the side as a
parameter, except in `rotate`, where the two outer cases differ in the code. **OrderedMap** is the
multiset of entries that callers see. It contains one liberty of the code: `rbtree_delete`
moves the key of the predecessor into the place of the deleted entry, but not its value
(`rbtree.c:236`).

**KList**, **KQueue** and **Bitmap** have one action per operation; `inList` and `inQueue` remember what
the callers did. **CString** starts with any memory and makes every call whose arguments lie
inside it; a loop of `string.c` is a recursive function over the addresses it visits, which yields
`PastEnd` where the code would leave the memory. **Printf** walks through the format one character at a time, as
`vsnprintf` does; numbers have 8-bit longs and 7-bit `uint32_t`s, which keeps the difference
between them.

## 3. Runs

| Run | Instance | Shows |
|---|---|---|
| `spinlock` | 3 cores | exclusion; implements AbstractLock; spinning cores make progress; trylock returns |
| `sched` | 2 cores, 5 tasks, 2 ticks, timing assumption | the safety properties, `HandsOver`, implements CoreAssignment; every waiting task gets a core; applications execute again and again |
| `smp_boot` | 3 cores, list of 4, 5 `create_task` calls | barrier, also when a `CPU_ON` fails, `thread_info`, task list, all come online |
| `hyper` | 2 guests, 1 tick, 2 list registers, timing assumption | registers follow their guest; one device interrupt per tick; injection disturbs nothing; the virtual timer is always served, the console when the timer leaves it a tick |
| `guest` | 72 pages, windows of 4; words of 3 bits, 2 registers, x30 and xzr | walk and `get_ept_entry` agree; identity map with the right attributes; exactly the emulated pages fault; a trap resumes once, changes at most the target of a load, reaches the virtual interface, enables the named interrupt |
| `library` | see below | the console in one core, and each part of the library against its reference |
| `sched_boot_race`, `sched_app_lost`, `hyper_twice`, `guest_gicc`, `uart_stall`, `uart_overrun` | | violations, see section 4 |

`library` is a suite: its seven modules share no state, and the variable `subject` of MCLibrary
picks the one that takes the steps of a behaviour. The tree has a pool of seven nodes, six
keys, one of them inserted any number of times and the others once (`InsertBound`, a bound of this
instance: RbTree has none), and one key with a value of its own, so that a value that
strays is seen; with seven nodes a missing black travels up past a subtree, and every case of
both loops occurs on both sides. The run has a VIEW: two trees of the same shape, colours and
entries are one state, whichever nodes of the pool they use, because no operation looks at
the number of a node; `LinksSound` is part of the view, so that no state with a wrong link
hides behind a sound one. Rings of three slots, four characters out and three in fill up and
wrap; callers have interrupts masked or open. Bitmaps of 5 and 9 bits end inside a byte.
Formats are all of up to three characters over eleven, and all combinations of flags with a
width; buffers hold nothing, a part, or everything.

Bounds. Two cores and five tasks make a scan skip a running task, wrap around the list, and
still have a choice of waiting tasks, while the other core is anywhere in the kernel. More
cores are covered by the proofs: every safety property of `sched` is a theorem. Two
ticks are enough for both outcomes of a tick. `CounterModulus` stands
for 2^32 and is larger than a slice, as there. In `smp_boot` five calls on a list of
four make `create_task` refuse one. `smp_boot` does not check deadlock: a boot whose
last core is online, or one with a refused `CPU_ON`, has no next step; nor do the
hypervisor runs, where an unknown exception stops the machine, nor `library`, whose calls end
and whose console may wait for ever. In `hyper` two list
registers for two devices that are injected again and again do fill up; the safety
properties are theorems for any number. `guest` keeps the
shape of the real map: RAM is one entry of the first level, both windows are in another,
the test page is inside RAM. The words of the guest contain 0, each single bit and the
sign bit.

Fairness. A core that can execute a kernel step does (WF). The timer interrupt has
strong fairness: it stays pending while interrupts are masked, so it is taken if the
core is outside the kernel infinitely often. `spin_lock` gives no order among
competitors, so taking a lock has only WF: `EveryTaskGetsACore` needs no more, because
whichever core wins the lock moves the rotation on; `AppsExecute` has to except a core
that spins for ever with its task. In Spinlock the successful `stlxr` has SF: the architecture
promises progress of such loops. Nobody is assumed to type, call or fault. During boot an armed
timer eventually fires. In Hyper a signalled interrupt is taken if it is signalled infinitely often
(SF), and the guest is assumed to be one that works: it does not keep interrupts off for
ever and serves what it takes, as often as it runs; none of this is in the code, and
without it nothing could be said of delivery. Devices are not assumed to raise their lines.
In Uart a core and the handler execute (WF), and the line carries a character away; nobody has
to call and nothing has to arrive. A repair loop of the tree goes on (WF).

## 4. Where the code does something else than it says

- `sched_app_lost`: `save_cpu_ctx` is commented as saving the state of the task that
  trapped. `schedule_init_local` makes `task_list[cpu]` current while the core is
  executing `main_entry`, so the first interrupt stores the *boot loop* into that task
  and the context prepared by `create_task` is gone. The applications of the first
  `SMP_NUM` tasks never execute; with `SMP=2`, where `_schedule` always returns early,
  no application does.
- `sched_boot_race`: `schedule_init_local` holds `print_lock`, `_schedule` holds `lock`.
  With more tasks than cores and two cores or more, a core can claim the task on which
  another core is about to boot.
- `hyper_twice`: `vgic_inject` lowers the priority so that the host will not get the
  interrupt again, but every tick raises it. If the guest has not served it by then, the
  same interrupt goes into a second list register.
- `guest_gicc`: the range test of the distributor includes its end, which is
  `GICC_CTLR`. Accesses to that register end in the emulation of the distributor.

- `uart_stall`: `uart_advance_putc` waits for room and enables the transmit interrupt, but that
  interrupt comes only after a character has been sent, and only the handler sends. Once the
  handler has found the ring empty, it has masked and cleared the interrupt: enabling it
  again changes nothing, the ring fills up and `putc` waits for ever. (`io_init` is commented
  out in `main.c`, so this driver is built but not in use.)
- `uart_overrun`: `uart_early_putc` tests the flag before it takes the lock. Two cores see room
  and both write.

Further behaviour of the console that the properties except or the runs avoid: a character that
arrives between the last look at the register and `UART0_ICR = 0x10` waits for the next one;
`putc` on a full ring or `getc` on an empty one with interrupts masked never returns; with two
cores `uart_advance_putc`, which takes no lock, loses characters and its read-modify-write of
`UART0_IMSC` can undo that of the handler, and two cores in `uart_early_getc` can read one character
twice. `CharactersInOrder`, `StaysEnabled` and `ReceiverServed` are therefore about one core.

Of the library: `rbtree_delete` of a key that is not there dereferences NULL, and it does not
move the value (above); `bitmap_find_contiguous_free` answers a request larger than the bitmap
with the free end instead of -1; `printf` puts padding zeros in front of a minus sign, pads
`%#0-5x` too far, cuts `%lx` and `%lu` to 32 bits, prints what the pointer points at for `%p`, and reads
digits in front of its table for the smallest long. `gic_get_enable` tests `val & mask != 0`,
which is bit 0 of the register whatever the interrupt.

Further behaviour that the properties have to except, because the code does it: a trapped
access with x30 does nothing, one with the zero register uses `usp` (`handle_mmio` tests for
30 instead of 31); accesses are 64 bits wide whatever the guest asked for; an enable write
with bit 31 set enables interrupt 63, one with several bits only the highest, one with
none interrupt 0; `GICD_ICENABLER` is ignored. The syndrome is taken to be valid (the handlers do
not look at `dabt.valid`) and instructions to be 32 bits long. Where a hazard in `PROJECT.json` is one that
the properties except in this way, its note says so.

## 5. Proofs

All theorems hold for every value of the constants that satisfies the named
assumptions (`NoCoreAssumption`, `ConstantsAssumption`, `BootAssumption`, `HyperAssumption`,
`Stage2Assumption`, `TrapAssumption`, `LayoutAssumption`, `UartAssumption`, `ListAssumption`,
`QueueAssumption`, `BitmapAssumption`, `CStringAssumption`, `PrintfAssumption`, `RbTreeAssumption`).

**SpinlockProof.** Mutual exclusion is not inductive alone: a core at `stlxr` does not
look at the other cores. The invariant adds `ArmedMeansFree` (an intact monitor means
that the word is still 0) and `LockWord` (0 means no holder). With it every instruction
maps to `Acquire`, `Release` or a stutter of AbstractLock.

**SchedulerProof.** The premise `NoBootRace` is the timing assumption, or one core, or as
many tasks as cores. The invariant `IInv` says: which `pc` holds which lock; while a
core boots nobody schedules (`BootIsQuiet`, the only part that needs `NoBootRace`);
`state` and `current` agree; everything the scan went past is running (`ScanKnows`); what is
switched to was claimed; contexts are in their own slots; a saved context is old only
while its task executes outside the kernel. The step that needs an idea is `ScanSkip`:
the code could not detect an exhausted scan. If the scan had seen every other task
running, every task would have a core, and with fewer cores than tasks two tasks would
share one (`SomeTaskHasNoCore`, from the pigeonhole theorem). The other safety
properties, `HandsOver` and the refinement of CoreAssignment follow.

**SmpBootProof.** `CountIsExact` ties `inited_cpu_num` to the number of cores past their
store; when it equals `SMP_NUM`, all cores are, by cardinality. So while core 0 has not
counted itself nobody is past the barrier, which is why its late `thread_info_init`
meets no stored `current_thread`, and why the task list may be read without a lock.

**HyperProof.** That a guest has its own registers is not inductive: during a handler the
core's registers are nobody's business and the frame may already be the next guest's. The
invariant adds `FrameIsCurrents` (from the trap to the `eret` the frame is the current
guest's, also after `current_thread` has changed, and every saved copy is fresh),
`OnlyCurrentRuns` (so that `_schedule` finds a waiting task, the next in the list), and for the
flood property `LoweredAfterInjection` (after an injection both device priorities stay at the mask
until a tick or an enable resets the count). It needs neither timing nor fairness. For
`InjectionAddsOne` the registers hold interrupts of priority 0 only (`LrInv`), so the branch of the loop
that pushes one interrupt out for another is never taken; what the loop leaves behind then has a
closed form, the new interrupt in the first empty register.

**GuestProof.** Two invariants, of the tables and of the traps. `LoopInv` is the arithmetic of the
three nested loops: the running page number is determined by the three indices. With it
`LevelsFilled` says that every table entry written so far points at the table its place names, so the
walk of the hardware lands on entry `p` for page `p` (`WalkIsIdentity`, by division with remainder twice),
which is the entry of `get_ept_entry`. `AccessInv` says which pages have been taken away at each
stage, also half way through a window. The traps need `TrapTaken` (before the handler the frame is
the guest's and nothing is enabled yet). That the guest's accesses to memory and to other devices never get
to the handler follows from `FaultsWhereEmulated`: it holds because of what `hyper_main` built, not because of
a test in the handler. The theorems are about tables,
windows and words of any size that fit together as in the address map (`LayoutAssumption`).

**UartProof.** For one core, as section 4 explains, and rings of any size. What was accepted is
what was sent, followed by the FIFO and the ring read from one index to the other; so the proof
describes the contents of a ring as a function of the two indices and shows what a store and a move
of an index do to it, with and without wrapping. The handler may come in between any two
accesses of `putc` and `getc`; `TxInv` and `RxInv` say what these still know afterwards: the room that
`putc` saw is still there, the character that `getc` took is still the first. `ImscInv` follows the values of
`UART0_IMSC` that were read and will be written back.

**LibraryProof: the containers.** `ListAgrees` becomes inductive with one addition: no node is in the list twice. The
insertions and removals are instances of two lemmas about a chain of nodes in which one is put at, or
taken from, place `k`; for the queue the two sentinels close the chain. The walks `queue_list_check` and
`queue_list_find` are shown to give the answer that the sequence gives. For the bitmap the invariant is
that no bit beyond the size is set in the last byte. `bitmap_find_contiguous_free` is proved to return
the first run that is free, for every state of the bitmap and every request.

**LibraryProof: strings and printf.** A loop of `string.c` goes through addresses until a test holds. `WalkFacts` says of
every such loop that it ends at the first address where the test holds; each function is an
instance, and its reference definition is shown to choose the same address. The copies are passes, one
byte each: after `n` passes in the right direction the bytes passed are those that were there before
the call, although source and destination overlap (`CopyUpFacts`, `CopyDownFacts`). For `vsnprintf` the
invariant says that the buffer and the room left add up to its size without the terminator, and that the
buffer is the whole output while there is room (`Stored`); the cursor stays inside the format because
every pass that advances it has seen a character other than the terminator, and because the number that
`fmtnum` skips ends at the terminator at the latest (`DigitsEndFacts`), also where the cursor has already
moved behind a "0". For `PrintfLikeC` the loop that divides is compared with `Numeral`, which takes each digit
by its weight: to divide by the base and then by a weight is to divide by the next weight (`DivTwice`,
`DigitsNumeral`). `StageInv` then follows the loop through a format of one conversion (the flags, the width
that `fmtnum` reads, the letter), and `PaddedText`, `IntText` and `UnsignedText` say that what is printed there is what
the C library prints. `PrintfAssumption` says for this that an int is shorter than a long, so that the
argument of "%d" is never the smallest long.

**TreeProof.** The invariant `TreeInv` describes the heap of nodes without recursion. Every node `n` of the
tree has a place `pos[n]` in the order from left to right, and the nodes below it fill the places
`lo[n]` to `hi[n]`; a link is sound when the child fills the places next to its parent's (`Shape`).
The black heights are a function `bh` with one equation per node (`Balanced`). Both are only
claimed to exist, so a step is proved by naming the new `pos`, `lo`, `hi` and `bh`, which differ from the old
ones at two or three nodes. In the middle of an operation one equation is open: while an entry is
inserted, only `tar` may be a red node under a red one (`Growing`); while one is deleted, the leaf `del_tar` counts as
gone and the ways through `tar` are one black node short until `flag` is reset (`Shrinking`). That
`del_tar` stays below `tar`, and a leaf, is part of the invariant: without it the cases of the loop
could move the leaf into the tree. The argument then has these parts:

- Each assignment of the code is followed field by field (`View`), from the side on which `tar` hangs, so that the
  mirror images in the code need one proof.
- `rotate` and the cases of the deletion leave a shape (`InnerShape`, `LeftLeftShape`, ...), keep the sequence
  of entries, because the nodes that change places are those that exchange entries (`Turned`), and
  restore the heights or move the open equation one level up.
- The descents of `rbtree_search`, `rbtree_insert` and `rbtree_delete` end where they should (`SearchFinds`,
  `LeafPlace`, `RightmostPlace`): the places of the subtree shrink on the way.
- `InOrder` and the heights of `RedBlack` are recursive; they are shown to equal closed forms made of `pos`, `lo`,
  `hi` and `bh` (`InOrderIs`, `HeightsCount`).
- For the refinement, a permutation of entries leaves the multiset alone (`TurnedEntries`, by a bijection), and
  the three ways in which `rbtree_delete` fills the place of the deleted entry are the two disjuncts of
  `Delete` (`VacatedEntries`).

`ImplementsOrderedMap` says what a deletion does to the entries, but not which one it takes;
`DeleteAlwaysRight` adds that it has the key of the call, and `SearchAlwaysRight` that a search
returns a node with the key if there is one. The order of the keys is that of the integers. `TreeSpec` does not bound how
often a key is stored, as `rbtree_insert` does not.

Induction over data is not available (the theorems of the library that state it take an operator
as parameter). Two devices replace it: a claim about all places of a walk is proved by taking the
least place where it fails (`LeastElement`, from the well-foundedness of `<`), and that a recursive
definition has a value is proved by showing a function in closed form that satisfies it, or, where
there is none (the digits of a number), by extending a solution from each number to the next (`Solvable`, `DescentExists`).

Only model-checked: the liveness properties (`SpinMakesProgress`, `TrylockReturns`,
`EveryTaskGetsACore`, `AppsExecute`, `AllComeOnline`, `TimerServed`, `ConsoleServed`, `OperationsEnd`,
`ReceiverServed`), since the prover has no rules for fairness. Every safety invariant and action property of the passing runs is a
theorem. The inductive invariants (`IInv`), `SwitchIsClaimed`,
`CountIsExact` and `FailureStopsAll` are not part of a run: they are theorems.

## 6. Not modelled, and the plan

Next, in this order:

1. **IrqDispatch** - acknowledge, end of interrupt and the handler table, with spurious
   and uninstalled ids, at EL1 and EL2.
2. **PageTable** - the mapping that `page.c` and `mmu.S` set up, with the walk of Stage2.
3. Hyper, refined: system registers one by one, so that what a fresh guest starts with shows.

Left out for good: the memory model (barriers, caches, TLB), the EL3 entry code, and code that no
build links (`process/`, `uart_dw_apb.c`). The Makefile does not link `lib/list.c`, `lib/queue.c` and
`lib/rbtree.c` either: they are modelled as the library that they are, with the callers' calls in any order, but
no caller in the kernel depends on them yet. `schedule()` with `switch_context`, `gva_to_ipa`,
`vgicd_read` and `vgicd_write` have no caller. More cores than tasks is outside the
assumptions: such a core would boot on an empty slot. The list registers and the virtual
timer are not saved on a guest switch, and `HPFAR_EL2` is read after faults for which the
architecture does not promise its value: the first matters only with a second guest that takes
interrupts, the second is outside the code.
