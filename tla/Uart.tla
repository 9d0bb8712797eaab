-------------------------------- MODULE Uart --------------------------------
(***************************************************************************)
(* The console: the polling driver that both builds start with             *)
(* (io/uart_pl011_early.c), the interrupt-driven one with its two rings    *)
(* (io/uart_pl011.c), and the switch between them (io/io.c).  main.c has   *)
(* the call of io_init commented out, so that the second driver is built   *)
(* but not in use.                                                         *)
(*                                                                         *)
(* Every access to a shared variable or a device register is a step, on    *)
(* any of the cores; the interrupt handler suspends what core 0 executes.  *)
(* Characters are numbers: putc sends 1, 2, ... in the order of the calls, *)
(* and so does the other end of the line.  The PL011 is external: LCRH     *)
(* leaves its FIFOs off, so each direction holds one character; the        *)
(* transmit interrupt is raised when that character leaves and not while   *)
(* the register is merely empty.                                           *)
(***************************************************************************)
EXTENDS Integers, Sequences

CONSTANTS
  SMP_NUM,
  BUFFER_SIZE,
  OutputLimit, InputLimit,  \* bounds: calls of putc, characters that arrive
  Contexts                  \* may callers have interrupts masked (TRUE), open (FALSE)

ASSUME UartAssumption ==
  /\ SMP_NUM \in Nat \ {0}
  /\ BUFFER_SIZE \in Nat /\ BUFFER_SIZE > 1
  /\ OutputLimit \in Nat /\ InputLimit \in Nat
  /\ Contexts \subseteq BOOLEAN

Cores == 0 .. SMP_NUM - 1
Indices == 0 .. BUFFER_SIZE - 1
Outputs == 0 .. OutputLimit
Inputs == 0 .. InputLimit

VARIABLES
  uart_op,                              \* "early" or "advance"
  imsc, ris,                            \* subsets of {"rx", "tx"}
  rx_fifo, tx_fifo,                     \* what the device holds: <<>> or <<c>>
  rx_buffer, rx_read_idx, rx_write_idx,
  tx_buffer, tx_read_idx, tx_write_idx,
  task,       \* per core: the call of putc or getc in progress
  irq,        \* the handler on core 0: its place, the IMSC it has read
  calls, arrived,                       \* characters so far
  put, wire, kept, got,                 \* auxiliary: accepted, sent, stored, returned
  overrun                               \* auxiliary: DR written while full

rings == <<rx_buffer, rx_read_idx, rx_write_idx, tx_buffer, tx_read_idx, tx_write_idx>>
device == <<imsc, ris, rx_fifo, tx_fifo>>
history == <<put, wire, kept, got, overrun>>
uartVars == <<uart_op, device, rings, task, irq, calls, arrived, history>>

Lines == {"rx", "tx"}
TaskPlaces == {"idle", "early putc", "early write", "early getc", "early read",
               "full", "store", "index", "imsc", "enable", "empty", "advance"}
IrqPlaces == {"idle", "rx", "rx loop", "rx clear", "tx", "tx loop", "tx test",
              "mask", "disable", "tx clear"}

UartTypeOK ==
  /\ uart_op \in {"early", "advance"}
  /\ imsc \subseteq Lines /\ ris \subseteq Lines
  /\ rx_read_idx \in Indices /\ rx_write_idx \in Indices
  /\ tx_read_idx \in Indices /\ tx_write_idx \in Indices
  /\ rx_buffer \in [Indices -> Nat] /\ tx_buffer \in [Indices -> Nat]
  /\ task \in [Cores -> [pc : TaskPlaces, c : Nat, next : Indices, imsc : SUBSET Lines, masked : BOOLEAN]]
  /\ irq \in [pc : IrqPlaces, imsc : SUBSET Lines]
  /\ calls \in Outputs /\ arrived \in Inputs
  /\ rx_fifo \in Seq(Nat) /\ tx_fifo \in Seq(Nat)
  /\ put \in Seq(Nat) /\ wire \in Seq(Nat) /\ kept \in Seq(Nat) /\ got \in Seq(Nat)
  /\ overrun \in BOOLEAN

Idle == [pc |-> "idle", c |-> 0, next |-> 0, imsc |-> {}, masked |-> FALSE]

\* After io_early_init.
UartInit ==
  /\ uart_op = "early"
  /\ imsc = {} /\ ris = {}
  /\ rx_fifo = <<>> /\ tx_fifo = <<>>
  /\ rx_buffer = [i \in Indices |-> 0] /\ rx_read_idx = 0 /\ rx_write_idx = 0
  /\ tx_buffer = [i \in Indices |-> 0] /\ tx_read_idx = 0 /\ tx_write_idx = 0
  /\ task = [c \in Cores |-> Idle]
  /\ irq = [pc |-> "idle", imsc |-> {}]
  /\ calls = 0 /\ arrived = 0
  /\ put = <<>> /\ wire = <<>> /\ kept = <<>> /\ got = <<>>
  /\ overrun = FALSE

-----------------------------------------------------------------------------
(* The device *)

Full(fifo) == fifo # <<>>

\* A character comes in, and is lost if the one before is still there.
Arrive ==
  /\ arrived < InputLimit
  /\ arrived' = arrived + 1
  /\ rx_fifo' = IF Full(rx_fifo) THEN rx_fifo ELSE <<arrived + 1>>
  /\ ris' = ris \cup {"rx"}
  /\ UNCHANGED <<uart_op, imsc, tx_fifo, rings, task, irq, calls, history>>

\* The character in the transmit register leaves.
Transmit ==
  /\ Full(tx_fifo)
  /\ wire' = wire \o tx_fifo
  /\ tx_fifo' = <<>>
  /\ ris' = ris \cup {"tx"}
  /\ UNCHANGED <<uart_op, imsc, rx_fifo, rings, task, irq, calls, arrived, put, kept, got, overrun>>

\* Writing and reading UART0_DR.
WriteDR(c) ==
  /\ tx_fifo' = IF Full(tx_fifo) THEN tx_fifo ELSE <<c>>
  /\ overrun' = (overrun \/ Full(tx_fifo))
  /\ ris' = ris \ {"tx"}
ReadDR ==
  /\ rx_fifo' = <<>>
  /\ ris' = ris \ {"rx"}

-----------------------------------------------------------------------------
(* putc and getc, through uart_op *)

\* Core 0 executes nothing else while it is in the handler.
Runs(c) == c = 0 => irq.pc = "idle"
At(c, place) == Runs(c) /\ task[c].pc = place
Goto(c, place) == task' = [task EXCEPT ![c].pc = place]
Next1(i) == (i + 1) % BUFFER_SIZE

\* putc: either driver; the second one starts by computing the next index.
Putc(c, masked) ==
  /\ At(c, "idle") /\ calls < OutputLimit
  /\ calls' = calls + 1
  /\ task' = [task EXCEPT ![c] =
       [Idle EXCEPT !.pc = IF uart_op = "early" THEN "early putc" ELSE "full",
                    !.c = calls + 1, !.masked = masked,
                    !.next = IF uart_op = "early" THEN 0 ELSE Next1(tx_write_idx)]]
  /\ UNCHANGED <<uart_op, device, rings, irq, arrived, history>>

Getc(c, masked) ==
  /\ At(c, "idle")
  /\ task' = [task EXCEPT ![c] =
       [Idle EXCEPT !.pc = IF uart_op = "early" THEN "early getc" ELSE "empty", !.masked = masked]]
  /\ UNCHANGED <<uart_op, device, rings, irq, calls, arrived, history>>

\* Both interrupts are enabled; the device keeps what it holds.
UartAdvanceInit == imsc' = Lines /\ UNCHANGED <<ris, rx_fifo, tx_fifo>>

\* At the place where main.c has it, between two outputs of the core that boots.
\* Installing the handler comes with it.
IoInit ==
  /\ uart_op = "early" /\ \A c \in Cores : task[c].pc = "idle"
  /\ UartAdvanceInit
  /\ uart_op' = "advance"
  /\ UNCHANGED <<rings, task, irq, calls, arrived, history>>

-----------------------------------------------------------------------------
(* uart_early_putc, uart_early_getc *)

\* The wait for room, in front of the lock.
EarlyWait(c) ==
  /\ At(c, "early putc") /\ ~Full(tx_fifo)
  /\ Goto(c, "early write")
  /\ UNCHANGED <<uart_op, device, rings, irq, calls, arrived, history>>

\* The lock is around the one store.
EarlyWrite(c) ==
  /\ At(c, "early write")
  /\ WriteDR(task[c].c)
  /\ put' = Append(put, task[c].c)
  /\ task' = [task EXCEPT ![c] = Idle]
  /\ UNCHANGED <<uart_op, imsc, rx_fifo, rings, irq, calls, arrived, wire, kept, got>>

EarlyPoll(c) ==
  /\ At(c, "early getc") /\ Full(rx_fifo)
  /\ Goto(c, "early read")
  /\ UNCHANGED <<uart_op, device, rings, irq, calls, arrived, history>>

\* An empty register gives some character; 0 stands for it.
EarlyRead(c) ==
  /\ At(c, "early read")
  /\ ReadDR
  /\ LET c1 == IF Full(rx_fifo) THEN Head(rx_fifo) ELSE 0
     IN kept' = Append(kept, c1) /\ got' = Append(got, c1)
  /\ task' = [task EXCEPT ![c] = Idle]
  /\ UNCHANGED <<uart_op, imsc, tx_fifo, rings, irq, calls, arrived, put, wire, overrun>>

-----------------------------------------------------------------------------
(* uart_advance_putc *)

\* Variant: the ring is taken for full one place too late.
PutRoomLate(c) ==
  /\ At(c, "full")
  /\ Goto(c, "store")
  /\ UNCHANGED <<uart_op, device, rings, irq, calls, arrived, history>>

\* The loop ends; in a full ring there is no step.
PutRoom(c) ==
  /\ At(c, "full") /\ task[c].next # tx_read_idx
  /\ Goto(c, "store")
  /\ UNCHANGED <<uart_op, device, rings, irq, calls, arrived, history>>

PutStore(c) ==
  /\ At(c, "store")
  /\ tx_buffer' = [tx_buffer EXCEPT ![tx_write_idx] = task[c].c]
  /\ Goto(c, "index")
  /\ UNCHANGED <<uart_op, device, rx_buffer, rx_read_idx, rx_write_idx, tx_read_idx, tx_write_idx,
                 irq, calls, arrived, history>>

PutIndex(c) ==
  /\ At(c, "index")
  /\ tx_write_idx' = task[c].next
  /\ put' = Append(put, task[c].c)
  /\ Goto(c, "imsc")
  /\ UNCHANGED <<uart_op, device, rx_buffer, rx_read_idx, rx_write_idx, tx_buffer, tx_read_idx,
                 irq, calls, arrived, wire, kept, got, overrun>>

\* UART0_IMSC |= 0x20 is a read and a write.
PutReadImsc(c) ==
  /\ At(c, "imsc")
  /\ task' = [task EXCEPT ![c].pc = "enable", ![c].imsc = imsc]
  /\ UNCHANGED <<uart_op, device, rings, irq, calls, arrived, history>>

PutEnable(c) ==
  /\ At(c, "enable")
  /\ imsc' = task[c].imsc \cup {"tx"}
  /\ task' = [task EXCEPT ![c] = Idle]
  /\ UNCHANGED <<uart_op, ris, rx_fifo, tx_fifo, rings, irq, calls, arrived, history>>

-----------------------------------------------------------------------------
(* uart_advance_getc *)

GetTake(c) ==
  /\ At(c, "empty") /\ rx_read_idx # rx_write_idx
  /\ task' = [task EXCEPT ![c].pc = "advance", ![c].c = rx_buffer[rx_read_idx]]
  /\ UNCHANGED <<uart_op, device, rings, irq, calls, arrived, history>>

GetAdvance(c) ==
  /\ At(c, "advance")
  /\ rx_read_idx' = Next1(rx_read_idx)
  /\ got' = Append(got, task[c].c)
  /\ task' = [task EXCEPT ![c] = Idle]
  /\ UNCHANGED <<uart_op, device, rx_buffer, rx_write_idx, tx_buffer, tx_read_idx, tx_write_idx,
                 irq, calls, arrived, put, wire, kept, overrun>>

-----------------------------------------------------------------------------
(* uart_interrupt_handler *)

Mis == imsc \cap ris
In(place) == irq.pc = place
Then(place) == irq' = [irq EXCEPT !.pc = place]
Open == task[0].pc = "idle" \/ ~task[0].masked

\* The interrupt is taken on core 0 unless that has interrupts masked.
TakeInterrupt ==
  /\ uart_op = "advance" /\ In("idle") /\ Mis # {} /\ Open
  /\ Then("rx")
  /\ UNCHANGED <<uart_op, device, rings, task, calls, arrived, history>>

RxTest ==
  /\ In("rx")
  /\ Then(IF "rx" \in Mis THEN "rx loop" ELSE "tx")
  /\ UNCHANGED <<uart_op, device, rings, task, calls, arrived, history>>

\* Variant: the full ring is not noticed.
RxPassBlind ==
  /\ In("rx loop") /\ Full(rx_fifo)
  /\ ReadDR
  /\ rx_buffer' = [rx_buffer EXCEPT ![rx_write_idx] = Head(rx_fifo)]
  /\ rx_write_idx' = Next1(rx_write_idx)
  /\ kept' = Append(kept, Head(rx_fifo))
  /\ UNCHANGED <<uart_op, imsc, tx_fifo, rx_read_idx, tx_buffer, tx_read_idx, tx_write_idx,
                 task, irq, calls, arrived, put, wire, got, overrun>>

\* One pass: a character moves to the ring, or is dropped when that is full.
RxPass ==
  /\ In("rx loop") /\ Full(rx_fifo)
  /\ ReadDR
  /\ IF Next1(rx_write_idx) # rx_read_idx
     THEN /\ rx_buffer' = [rx_buffer EXCEPT ![rx_write_idx] = Head(rx_fifo)]
          /\ rx_write_idx' = Next1(rx_write_idx)
          /\ kept' = Append(kept, Head(rx_fifo))
     ELSE UNCHANGED <<rx_buffer, rx_write_idx, kept>>
  /\ UNCHANGED <<uart_op, imsc, tx_fifo, rx_read_idx, tx_buffer, tx_read_idx, tx_write_idx,
                 task, irq, calls, arrived, put, wire, got, overrun>>

RxEmpty ==
  /\ In("rx loop") /\ ~Full(rx_fifo)
  /\ Then("rx clear")
  /\ UNCHANGED <<uart_op, device, rings, task, calls, arrived, history>>

\* UART0_ICR = 0x10.
RxClear ==
  /\ In("rx clear")
  /\ ris' = ris \ {"rx"}
  /\ Then("tx")
  /\ UNCHANGED <<uart_op, imsc, rx_fifo, tx_fifo, rings, task, calls, arrived, history>>

TxTest ==
  /\ In("tx")
  /\ Then(IF "tx" \in Mis THEN "tx loop" ELSE "idle")
  /\ UNCHANGED <<uart_op, device, rings, task, calls, arrived, history>>

TxPass ==
  /\ In("tx loop") /\ ~Full(tx_fifo) /\ tx_read_idx # tx_write_idx
  /\ WriteDR(tx_buffer[tx_read_idx])
  /\ tx_read_idx' = Next1(tx_read_idx)
  /\ UNCHANGED <<uart_op, imsc, rx_fifo, rx_buffer, rx_read_idx, rx_write_idx, tx_buffer, tx_write_idx,
                 task, irq, calls, arrived, put, wire, kept, got>>

TxLoopEnds ==
  /\ In("tx loop") /\ (Full(tx_fifo) \/ tx_read_idx = tx_write_idx)
  /\ Then("tx test")
  /\ UNCHANGED <<uart_op, device, rings, task, calls, arrived, history>>

\* Variant: the transmit interrupt is masked whatever the ring holds.
TxRingTestNot ==
  /\ In("tx test")
  /\ Then("mask")
  /\ UNCHANGED <<uart_op, device, rings, task, calls, arrived, history>>

TxRingTest ==
  /\ In("tx test")
  /\ Then(IF tx_read_idx = tx_write_idx THEN "mask" ELSE "tx clear")
  /\ UNCHANGED <<uart_op, device, rings, task, calls, arrived, history>>

\* UART0_IMSC &= ~0x20, a read and a write.
MaskRead ==
  /\ In("mask")
  /\ irq' = [pc |-> "disable", imsc |-> imsc]
  /\ UNCHANGED <<uart_op, device, rings, task, calls, arrived, history>>

MaskWrite ==
  /\ In("disable")
  /\ imsc' = irq.imsc \ {"tx"}
  /\ irq' = [pc |-> "tx clear", imsc |-> {}]
  /\ UNCHANGED <<uart_op, ris, rx_fifo, tx_fifo, rings, task, calls, arrived, history>>

\* Variant: both interrupts are cleared.
TxClearBoth ==
  /\ In("tx clear")
  /\ ris' = {}
  /\ Then("idle")
  /\ UNCHANGED <<uart_op, imsc, rx_fifo, tx_fifo, rings, task, calls, arrived, history>>

\* UART0_ICR = 0x20, and the return from the interrupt.
TxClear ==
  /\ In("tx clear")
  /\ ris' = ris \ {"tx"}
  /\ Then("idle")
  /\ UNCHANGED <<uart_op, imsc, rx_fifo, tx_fifo, rings, task, calls, arrived, history>>

-----------------------------------------------------------------------------
TaskStep(c) ==
  \/ EarlyWait(c) \/ EarlyWrite(c) \/ EarlyPoll(c) \/ EarlyRead(c)
  \/ PutRoom(c) \/ PutStore(c) \/ PutIndex(c) \/ PutReadImsc(c) \/ PutEnable(c)
  \/ GetTake(c) \/ GetAdvance(c)

Handler ==
  \/ TakeInterrupt \/ RxTest \/ RxPass \/ RxEmpty \/ RxClear
  \/ TxTest \/ TxPass \/ TxLoopEnds \/ TxRingTest \/ MaskRead \/ MaskWrite \/ TxClear

UartNext ==
  \/ Arrive \/ Transmit \/ IoInit
  \/ \E c \in Cores, m \in Contexts : Putc(c, m) \/ Getc(c, m)
  \/ \E c \in Cores : TaskStep(c)
  \/ Handler

\* Cores execute, the line carries the characters away, a pending interrupt is
\* taken; nobody has to call putc or getc, and nothing has to arrive.
UartFairness ==
  /\ \A c \in Cores : WF_uartVars(TaskStep(c))
  /\ WF_uartVars(Handler)
  /\ WF_uartVars(Transmit)

UartSpec == UartInit /\ [][UartNext]_uartVars
UartFairSpec == UartSpec /\ UartFairness

-----------------------------------------------------------------------------
(* Properties *)

\* The characters between two indices of a ring.
Between(buffer, from, to) ==
  [i \in 1 .. (to - from) % BUFFER_SIZE |-> buffer[(from + i - 1) % BUFFER_SIZE]]

\* Across the switch of the drivers and every interrupt: what putc accepted is
\* on the wire, in the device or in the ring, once and in order.
SentInOrder == wire \o tx_fifo \o Between(tx_buffer, tx_read_idx, tx_write_idx) = put

\* What getc returned and the ring are what was stored, once and in order, and
\* that arrived in this order: characters are lost only when the device or the
\* ring is full as they come.
ReceivedInOrder ==
  LET s == kept \o rx_fifo
  IN /\ got \o Between(rx_buffer, rx_read_idx, rx_write_idx) = kept
     /\ \A i \in DOMAIN s : s[i] \in 1 .. arrived
     /\ \A i, j \in DOMAIN s : i < j => s[i] < s[j]

\* Neither direction loses a character that was accepted, repeats one or changes
\* the order, whatever the interrupt handler interrupts.
CharactersInOrder == SentInOrder /\ ReceivedInOrder

\* UART0_DR is written only when there is room: no driver overruns the device.
WritesWhenRoom == ~overrun

\* While characters wait in the ring the transmit interrupt stays enabled, or a
\* putc is about to enable it: neither read-modify-write of IMSC undoes the other.
StaysEnabled ==
  /\ uart_op = "advance" => "rx" \in imsc
  /\ tx_read_idx # tx_write_idx =>
       "tx" \in imsc \/ \E c \in Cores : task[c].pc \in {"imsc", "enable"}

\* A character that the device holds is fetched in the end, with two exceptions.
\* One that arrives between the last look at the register and the write to ICR
\* loses its interrupt and waits for the next one.  And core 0 may spin in a
\* driver with interrupts masked: that wait is for the handler itself.
Stuck == task[0].masked /\ task[0].pc \in {"full", "empty"}
Announced == Full(rx_fifo) /\ "rx" \in ris /\ irq.pc # "rx clear"
ReceiverServed == (uart_op = "advance" /\ Announced) ~> (~Full(rx_fifo) \/ Stuck)

\* What the comment in the loop of uart_advance_putc says it does: it waits
\* until there is room in the buffer.
PutcFindsRoom == \A c \in Cores : (task[c].pc = "full") ~> (task[c].pc # "full")
=============================================================================
