------------------------------ MODULE UartProof ------------------------------
(***************************************************************************)
(* The console on one core, for rings of any size and any number of        *)
(* characters: the handler may interrupt putc and getc anywhere.  With     *)
(* more cores the driver has no such properties, since it takes no lock.   *)
(***************************************************************************)
EXTENDS Uart, SequenceTheorems, TLAPS

-----------------------------------------------------------------------------
(* Indices of a ring *)

LEMMA NextType ==
  ASSUME NEW k \in Indices
  PROVE  Next1(k) \in Indices /\ Next1(k) # k
BY UartAssumption DEF Indices, Next1

LEMMA NextInjective ==
  ASSUME NEW k \in Indices, NEW l \in Indices, k # l
  PROVE  Next1(k) # Next1(l)
BY UartAssumption DEF Indices, Next1

\* Remainders of numbers that lie less than one turn away.
LEMMA Turn ==
  ASSUME NEW n \in Nat \ {0}, NEW x \in 0 .. n - 1
  PROVE  x % n = x /\ (x + n) % n = x /\ (x - n) % n = x
<1>1. x % n = x /\ (x + n) % n = x
  OBVIOUS
<1>2. (x - n) % n = x
  OBVIOUS
<1> QED BY <1>1, <1>2

\* The number of characters between two indices, case by case.
LEMMA Distance ==
  ASSUME NEW k \in Indices, NEW l \in Indices
  PROVE  /\ (l - k) % BUFFER_SIZE = IF k <= l THEN l - k ELSE l - k + BUFFER_SIZE
         /\ (l - k) % BUFFER_SIZE \in Indices
<1>0. BUFFER_SIZE \in Nat \ {0} /\ k \in 0 .. BUFFER_SIZE - 1 /\ l \in 0 .. BUFFER_SIZE - 1
  BY UartAssumption DEF Indices
<1>1. CASE k <= l
  <2>1. l - k \in 0 .. BUFFER_SIZE - 1
    BY <1>0, <1>1
  <2>2. (l - k) % BUFFER_SIZE = l - k
    BY <1>0, <2>1, Turn
  <2> QED BY <1>1, <2>1, <2>2 DEF Indices
<1>2. CASE ~(k <= l)
  <2> DEFINE x == l - k + BUFFER_SIZE
  <2>1. x \in 0 .. BUFFER_SIZE - 1 /\ x - BUFFER_SIZE = l - k
    BY <1>0, <1>2
  <2> HIDE DEF x
  <2>2. (l - k) % BUFFER_SIZE = x
    BY <1>0, <2>1, Turn
  <2> QED BY <1>2, <2>1, <2>2 DEF Indices, x
<1> QED BY <1>1, <1>2

\* One more place, or one less.
LEMMA DistanceNext ==
  ASSUME NEW k \in Indices, NEW l \in Indices
  PROVE  /\ (k - k) % BUFFER_SIZE = 0
         /\ Next1(l) # k => (Next1(l) - k) % BUFFER_SIZE = ((l - k) % BUFFER_SIZE) + 1
         /\ k # l => (l - Next1(k)) % BUFFER_SIZE = ((l - k) % BUFFER_SIZE) - 1
         /\ k # l => (l - k) % BUFFER_SIZE > 0
<1>0. /\ BUFFER_SIZE \in Nat \ {0, 1} /\ k \in 0 .. BUFFER_SIZE - 1 /\ l \in 0 .. BUFFER_SIZE - 1
  BY UartAssumption DEF Indices
<1>1. Next1(k) \in Indices /\ Next1(l) \in Indices
  BY NextType
<1>2. ASSUME NEW j \in Indices PROVE Next1(j) = IF j = BUFFER_SIZE - 1 THEN 0 ELSE j + 1
  BY <1>0 DEF Next1, Indices
<1>3. (l - k) % BUFFER_SIZE = IF k <= l THEN l - k ELSE l - k + BUFFER_SIZE
  BY Distance
<1>4. (k - k) % BUFFER_SIZE = 0
  BY <1>0, Distance
<1>5. ASSUME Next1(l) # k PROVE (Next1(l) - k) % BUFFER_SIZE = ((l - k) % BUFFER_SIZE) + 1
  <2>1. (Next1(l) - k) % BUFFER_SIZE = IF k <= Next1(l) THEN Next1(l) - k ELSE Next1(l) - k + BUFFER_SIZE
    BY <1>1, Distance
  <2> QED BY <1>0, <1>2, <1>3, <1>5, <2>1
<1>6. ASSUME k # l PROVE (l - Next1(k)) % BUFFER_SIZE = ((l - k) % BUFFER_SIZE) - 1
  <2>1. (l - Next1(k)) % BUFFER_SIZE = IF Next1(k) <= l THEN l - Next1(k) ELSE l - Next1(k) + BUFFER_SIZE
    BY <1>1, Distance
  <2> QED BY <1>0, <1>2, <1>3, <1>6, <2>1
<1> QED BY <1>0, <1>3, <1>4, <1>5, <1>6

\* The place of the character that is n behind k.
LEMMA PlaceNext ==
  ASSUME NEW k \in Indices, NEW n \in Indices
  PROVE  /\ (k + n) % BUFFER_SIZE \in Indices
         /\ (k + n) % BUFFER_SIZE = IF k + n < BUFFER_SIZE THEN k + n ELSE k + n - BUFFER_SIZE
<1>0. BUFFER_SIZE \in Nat \ {0} /\ k \in 0 .. BUFFER_SIZE - 1 /\ n \in 0 .. BUFFER_SIZE - 1
  BY UartAssumption DEF Indices
<1>1. CASE k + n < BUFFER_SIZE
  <2>1. k + n \in 0 .. BUFFER_SIZE - 1
    BY <1>0, <1>1
  <2> QED BY <1>0, <1>1, <2>1, Turn DEF Indices
<1>2. CASE ~(k + n < BUFFER_SIZE)
  <2> DEFINE x == k + n - BUFFER_SIZE
  <2>1. x \in 0 .. BUFFER_SIZE - 1 /\ x + BUFFER_SIZE = k + n
    BY <1>0, <1>2
  <2> HIDE DEF x
  <2>2. (k + n) % BUFFER_SIZE = x
    BY <1>0, <2>1, Turn
  <2> QED BY <1>2, <2>1, <2>2 DEF Indices, x
<1> QED BY <1>1, <1>2

-----------------------------------------------------------------------------
(* What a ring holds *)

Rings == [Indices -> Nat]

LEMMA BetweenType ==
  ASSUME NEW b \in Rings, NEW k \in Indices, NEW l \in Indices
  PROVE  /\ Between(b, k, l) \in Seq(Nat)
         /\ Len(Between(b, k, l)) = (l - k) % BUFFER_SIZE
         /\ \A n \in 1 .. (l - k) % BUFFER_SIZE : Between(b, k, l)[n] = b[(k + n - 1) % BUFFER_SIZE]
<1> DEFINE d == (l - k) % BUFFER_SIZE
<1>1. d \in Nat /\ d < BUFFER_SIZE
  BY Distance, UartAssumption DEF Indices
<1> HIDE DEF d
<1>2. ASSUME NEW n \in 1 .. d PROVE b[(k + n - 1) % BUFFER_SIZE] \in Nat
  <2>1. n - 1 \in Indices /\ k + (n - 1) = k + n - 1
    BY <1>1, UartAssumption DEF Indices
  <2>2. (k + n - 1) % BUFFER_SIZE \in Indices
    BY <2>1, PlaceNext
  <2> QED BY <2>2 DEF Rings
<1>3. Between(b, k, l) = [n \in 1 .. d |-> b[(k + n - 1) % BUFFER_SIZE]]
  BY DEF Between, d
<1>4. Between(b, k, l) \in [1 .. d -> Nat]
  BY <1>2, <1>3
<1>5. Between(b, k, l) \in Seq(Nat)
  BY <1>1, <1>4, SeqDef
<1>6. Len(Between(b, k, l)) = d
  BY <1>1, <1>4, <1>5, LenProperties
<1> QED BY <1>3, <1>5, <1>6 DEF d

LEMMA BetweenEmpty ==
  ASSUME NEW b \in Rings, NEW k \in Indices
  PROVE  Between(b, k, k) = <<>>
<1>1. Between(b, k, k) \in Seq(Nat) /\ Len(Between(b, k, k)) = 0
  BY BetweenType, DistanceNext
<1> QED BY <1>1, EmptySeq

\* Storing at the end of the ring does not disturb what it holds.
LEMMA BetweenStore ==
  ASSUME NEW b \in Rings, NEW k \in Indices, NEW l \in Indices, NEW c \in Nat
  PROVE  /\ [b EXCEPT ![l] = c] \in Rings
         /\ Between([b EXCEPT ![l] = c], k, l) = Between(b, k, l)
<1> DEFINE b1 == [b EXCEPT ![l] = c]
           d == (l - k) % BUFFER_SIZE
<1>1. b1 \in Rings
  BY DEF Rings
<1>2. d \in Nat /\ d < BUFFER_SIZE /\ d = IF k <= l THEN l - k ELSE l - k + BUFFER_SIZE
  BY Distance, UartAssumption DEF Indices
<1>3. ASSUME NEW n \in 1 .. d PROVE b1[(k + n - 1) % BUFFER_SIZE] = b[(k + n - 1) % BUFFER_SIZE]
  <2>1. n - 1 \in Indices /\ k + (n - 1) = k + n - 1
    BY <1>2, UartAssumption DEF Indices
  <2> DEFINE x == (k + n - 1) % BUFFER_SIZE
  <2>2. x \in Indices /\ x = IF k + n - 1 < BUFFER_SIZE THEN k + n - 1 ELSE k + n - 1 - BUFFER_SIZE
    BY <2>1, PlaceNext
  <2> HIDE DEF x, d
  <2>3. x # l
    BY <1>2, <2>2, UartAssumption DEF Indices
  <2>4. b1[x] = b[x]
    BY <2>2, <2>3 DEF Rings
  <2> QED BY <2>4 DEF x
<1> HIDE DEF b1
<1>4. Between(b1, k, l) \in Seq(Nat) /\ Between(b, k, l) \in Seq(Nat)
      /\ Len(Between(b1, k, l)) = d /\ Len(Between(b, k, l)) = d
  BY <1>1, BetweenType
<1>5. \A n \in 1 .. d : Between(b1, k, l)[n] = Between(b, k, l)[n]
  BY <1>1, <1>3, BetweenType, ZenonT(60), SMTT(60)
<1>6. Between(b1, k, l) = Between(b, k, l)
  BY <1>4, <1>5, SeqEqual
<1> QED BY <1>1, <1>6 DEF b1

\* Moving the write index over a stored character appends it.
LEMMA BetweenAppend ==
  ASSUME NEW b \in Rings, NEW k \in Indices, NEW l \in Indices, Next1(l) # k
  PROVE  Between(b, k, Next1(l)) = Append(Between(b, k, l), b[l])
<1> DEFINE d == (l - k) % BUFFER_SIZE
           s == Between(b, k, l)
           t == Between(b, k, Next1(l))
<1>1. d \in Nat /\ d < BUFFER_SIZE /\ d = IF k <= l THEN l - k ELSE l - k + BUFFER_SIZE
  BY Distance, UartAssumption DEF Indices
<1>2. Next1(l) \in Indices /\ (Next1(l) - k) % BUFFER_SIZE = d + 1
  BY NextType, DistanceNext
<1>3. s \in Seq(Nat) /\ Len(s) = d /\ \A n \in 1 .. d : s[n] = b[(k + n - 1) % BUFFER_SIZE]
  BY BetweenType
<1>4. t \in Seq(Nat) /\ Len(t) = d + 1 /\ \A n \in 1 .. d + 1 : t[n] = b[(k + n - 1) % BUFFER_SIZE]
  BY <1>2, BetweenType
<1>5. (k + (d + 1) - 1) % BUFFER_SIZE = l
  <2>1. d \in Indices /\ k + (d + 1) - 1 = k + d
    BY <1>1, UartAssumption DEF Indices
  <2>2. (k + d) % BUFFER_SIZE = IF k + d < BUFFER_SIZE THEN k + d ELSE k + d - BUFFER_SIZE
    BY <2>1, PlaceNext
  <2> HIDE DEF d
  <2> QED BY <1>1, <2>1, <2>2, UartAssumption DEF Indices
<1>6. b[l] \in Nat
  BY DEF Rings
<1> HIDE DEF d, s, t
<1>7. Append(s, b[l]) \in Seq(Nat) /\ Len(Append(s, b[l])) = d + 1
      /\ \A n \in 1 .. d : Append(s, b[l])[n] = s[n]
      /\ Append(s, b[l])[d + 1] = b[l]
  BY <1>3, <1>6, AppendProperties
<1>8. ASSUME NEW n \in 1 .. d + 1 PROVE t[n] = Append(s, b[l])[n]
  <2>1. CASE n = d + 1
    BY <1>1, <1>4, <1>5, <1>7, <2>1, SMTT(60), ZenonT(60)
  <2>2. CASE n # d + 1
    BY <1>1, <1>3, <1>4, <1>7, <2>2, SMTT(60), ZenonT(60)
  <2> QED BY <2>1, <2>2
<1>9. t = Append(s, b[l])
  BY <1>4, <1>7, <1>8, SeqEqual
<1> QED BY <1>9 DEF s, t

\* Moving the read index takes the first character away.
LEMMA BetweenTake ==
  ASSUME NEW b \in Rings, NEW k \in Indices, NEW l \in Indices, k # l
  PROVE  Between(b, k, l) = <<b[k]>> \o Between(b, Next1(k), l)
<1> DEFINE d == (l - k) % BUFFER_SIZE
           s == Between(b, k, l)
           t == Between(b, Next1(k), l)
<1>1. d \in Nat /\ d < BUFFER_SIZE /\ d > 0
  BY Distance, DistanceNext, UartAssumption DEF Indices
<1>2. Next1(k) \in Indices /\ (l - Next1(k)) % BUFFER_SIZE = d - 1
  BY NextType, DistanceNext
<1>3. s \in Seq(Nat) /\ Len(s) = d /\ \A n \in 1 .. d : s[n] = b[(k + n - 1) % BUFFER_SIZE]
  BY BetweenType
<1>4. t \in Seq(Nat) /\ Len(t) = d - 1
      /\ \A n \in 1 .. d - 1 : t[n] = b[(Next1(k) + n - 1) % BUFFER_SIZE]
  BY <1>2, BetweenType
<1>5. b[k] \in Nat /\ <<b[k]>> \in Seq(Nat) /\ Len(<<b[k]>>) = 1 /\ <<b[k]>>[1] = b[k]
  BY DEF Rings
<1> HIDE DEF d, s, t
<1>6. <<b[k]>> \o t \in Seq(Nat) /\ Len(<<b[k]>> \o t) = d
      /\ \A n \in 1 .. d : (<<b[k]>> \o t)[n] = IF n <= 1 THEN <<b[k]>>[n] ELSE t[n - 1]
  BY <1>1, <1>4, <1>5, ConcatProperties
<1>7. ASSUME NEW n \in 1 .. d PROVE s[n] = (<<b[k]>> \o t)[n]
  <2>0. k \in Int /\ BUFFER_SIZE \in Int
    BY UartAssumption DEF Indices
  <2>1. CASE n = 1
    <3>1. k + 1 - 1 = k /\ BUFFER_SIZE \in Nat \ {0} /\ k \in 0 .. BUFFER_SIZE - 1
      BY UartAssumption DEF Indices
    <3>2. k % BUFFER_SIZE = k
      BY <3>1, Turn
    <3>3. s[1] = b[(k + 1 - 1) % BUFFER_SIZE]
      <4>1. 1 \in 1 .. d
        BY <1>1
      <4> QED BY <1>3, <4>1
    <3>4. s[1] = b[k]
      BY <3>1, <3>2, <3>3
    <3> QED BY <1>1, <1>5, <1>6, <2>1, <3>4
  <2>2. CASE n # 1
    <3>1. n - 1 \in 1 .. d - 1 /\ n - 2 \in Indices /\ n - 1 \in Indices
      BY <1>1, <2>2, UartAssumption DEF Indices
    <3>2. (Next1(k) + (n - 1) - 1) % BUFFER_SIZE = (k + n - 1) % BUFFER_SIZE
      <4>1. Next1(k) + (n - 1) - 1 = Next1(k) + (n - 2) /\ k + n - 1 = k + (n - 1)
        BY <1>1, <1>2, <2>0 DEF Indices
      <4>2. (Next1(k) + (n - 2)) % BUFFER_SIZE =
              IF Next1(k) + (n - 2) < BUFFER_SIZE THEN Next1(k) + (n - 2) ELSE Next1(k) + (n - 2) - BUFFER_SIZE
        BY <1>2, <3>1, PlaceNext
      <4>3. (k + (n - 1)) % BUFFER_SIZE = IF k + (n - 1) < BUFFER_SIZE THEN k + (n - 1) ELSE k + (n - 1) - BUFFER_SIZE
        BY <3>1, PlaceNext
      <4>4. Next1(k) = IF k = BUFFER_SIZE - 1 THEN 0 ELSE k + 1
        BY UartAssumption DEF Next1, Indices
      <4> QED BY <4>1, <4>2, <4>3, <4>4, <3>1, <2>2, UartAssumption DEF Indices
    <3>3. t[n - 1] = b[(k + n - 1) % BUFFER_SIZE]
      BY <1>4, <3>1, <3>2
    <3>4. (<<b[k]>> \o t)[n] = t[n - 1]
      <4>1. ~(n <= 1) /\ n \in 1 .. d
        BY <1>1, <2>2
      <4> QED BY <1>6, <4>1
    <3> QED BY <1>3, <3>3, <3>4
  <2> QED BY <2>1, <2>2
<1>8. s = <<b[k]>> \o t
  BY <1>3, <1>6, <1>7, SeqEqual
<1> QED BY <1>8 DEF s, t

-----------------------------------------------------------------------------
(* The inductive invariant *)

EarlyPlaces == {"idle", "early putc", "early write", "early getc", "early read"}

\* The first driver leaves the rings and the handler alone, and no call of it is
\* in progress once uart_op is switched.
Phase ==
  /\ uart_op = "early" => /\ task[0].pc \in EarlyPlaces /\ irq.pc = "idle"
                          /\ tx_read_idx = tx_write_idx /\ rx_read_idx = rx_write_idx
  /\ uart_op = "advance" => task[0].pc \notin EarlyPlaces \ {"idle"}

\* The room that putc has seen is still there when it stores: only the handler
\* comes in between, and that makes more.
TxInv ==
  /\ SentInOrder
  /\ Len(tx_fifo) <= 1
  /\ task[0].pc = "early write" => tx_fifo = <<>>
  /\ task[0].pc \in {"full", "store", "index"} => task[0].next = Next1(tx_write_idx)
  /\ task[0].pc \in {"store", "index"} => task[0].next # tx_read_idx
  /\ task[0].pc = "index" => tx_buffer[tx_write_idx] = task[0].c

\* What getc has taken is still the first character of the ring when it moves
\* the read index: the handler stores behind it.
RxInv ==
  /\ ReceivedInOrder
  /\ Len(rx_fifo) <= 1
  /\ task[0].pc = "early read" => rx_fifo # <<>>
  /\ task[0].pc = "advance" => rx_read_idx # rx_write_idx /\ task[0].c = rx_buffer[rx_read_idx]

\* The values of IMSC that putc and the handler have read and will write back.
ImscInv ==
  /\ StaysEnabled
  /\ task[0].pc = "enable" => "rx" \in task[0].imsc
  /\ irq.pc \in {"mask", "disable"} => tx_read_idx = tx_write_idx
  /\ irq.pc = "disable" => "rx" \in irq.imsc

UartInv == UartTypeOK /\ Phase /\ TxInv /\ RxInv /\ ImscInv

LEMMA OneCore ==
  ASSUME SMP_NUM = 1
  PROVE  Cores = {0}
BY DEF Cores

\* The actions of putc and getc.
CallStep == \E m \in Contexts : Putc(0, m) \/ Getc(0, m)

LEMMA NextOneCore ==
  ASSUME SMP_NUM = 1, UartNext
  PROVE  Arrive \/ Transmit \/ IoInit \/ CallStep \/ TaskStep(0) \/ Handler
BY OneCore DEF UartNext, CallStep

TaskType == [pc : TaskPlaces, c : Nat, next : Indices, imsc : SUBSET Lines, masked : BOOLEAN]

LEMMA IdleType ==
  Idle \in TaskType /\ Idle.pc = "idle"
BY UartAssumption DEF Idle, TaskType, TaskPlaces, Indices, Lines

\* The records with which a call begins.
LEMMA CallType ==
  ASSUME NEW t \in TaskType, NEW p \in TaskPlaces, NEW c \in Nat, NEW m \in BOOLEAN, NEW n \in Indices
  PROVE  /\ [t EXCEPT !.pc = p, !.c = c, !.masked = m, !.next = n] \in TaskType
         /\ [t EXCEPT !.pc = p, !.masked = m] \in TaskType
BY DEF TaskType

\* The type invariant: indices stay in the rings, what the rings, the device and
\* the calls hold are characters.
LEMMA TypeStep ==
  ASSUME SMP_NUM = 1, UartTypeOK, UartNext
  PROVE  UartTypeOK'
<1> USE OneCore, UartAssumption
<1>0. /\ task \in [{0} -> TaskType] /\ task[0] \in TaskType /\ task = [c \in {0} |-> task[0]]
  BY DEF UartTypeOK, TaskType
<1>1. ASSUME NEW s \in Seq(Nat), NEW t \in Seq(Nat), NEW c \in Nat
      PROVE  /\ <<>> \in Seq(Nat) /\ <<c>> \in Seq(Nat) /\ s \o t \in Seq(Nat) /\ Append(s, c) \in Seq(Nat)
             /\ s # <<>> => Head(s) \in Nat
  BY <1>1, HeadTailProperties
<1>2. CASE Arrive
  BY <1>2, SMTT(60), ZenonT(60) DEF Arrive, UartTypeOK, rings, history, Inputs, Lines
<1>3. CASE Transmit
  BY <1>3, <1>1 DEF Transmit, UartTypeOK, rings, history, Lines
<1>4. CASE IoInit
  BY <1>4 DEF IoInit, UartAdvanceInit, UartTypeOK, rings, history, Lines
<1>5. CASE CallStep
  <2>1. PICK m \in BOOLEAN : Putc(0, m) \/ Getc(0, m)
    BY <1>5 DEF CallStep
  <2>2. CASE Putc(0, m)
    <3>1. Next1(tx_write_idx) \in Indices
      BY NextType DEF UartTypeOK
    <3> DEFINE p == IF uart_op = "early" THEN "early putc" ELSE "full"
               n == IF uart_op = "early" THEN 0 ELSE Next1(tx_write_idx)
               t == [Idle EXCEPT !.pc = p, !.c = calls + 1, !.masked = m, !.next = n]
    <3>2. t \in TaskType
      <4>1. calls + 1 \in Nat /\ n \in Indices
        BY <3>1, SMTT(60), ZenonT(60) DEF UartTypeOK, Outputs, Indices
      <4>2. p \in TaskPlaces
        BY DEF TaskPlaces
      <4> HIDE DEF p, n
      <4> QED BY <4>1, <4>2, IdleType, CallType, Zenon
    <3>3. task' = [task EXCEPT ![0] = t]
      BY <2>2 DEF Putc
    <3> HIDE DEF t
    <3>4. task' \in [Cores -> TaskType]
      BY <1>0, <3>2, <3>3
    <3>5. calls' \in Outputs
      <4>1. calls < OutputLimit /\ calls' = calls + 1
        BY <2>2 DEF Putc
      <4>2. calls \in 0 .. OutputLimit /\ OutputLimit \in Nat
        BY UartAssumption DEF UartTypeOK, Outputs
      <4> QED BY <4>1, <4>2 DEF Outputs
    <3> QED BY <2>2, <3>4, <3>5 DEF Putc, UartTypeOK, TaskType, rings, device, history
  <2>3. CASE Getc(0, m)
    <3> DEFINE p == IF uart_op = "early" THEN "early getc" ELSE "empty"
               t == [Idle EXCEPT !.pc = p, !.masked = m]
    <3>2. t \in TaskType
      <4>1. p \in TaskPlaces
        BY DEF TaskPlaces
      <4>2. 0 \in Nat /\ 0 \in Indices
        BY DEF Indices
      <4> HIDE DEF p
      <4> QED BY <4>1, <4>2, IdleType, CallType, Zenon
    <3>3. task' = [task EXCEPT ![0] = t]
      BY <2>3 DEF Getc
    <3> HIDE DEF t
    <3>4. task' \in [Cores -> TaskType]
      BY <1>0, <3>2, <3>3
    <3> QED BY <2>3, <3>4 DEF Getc, UartTypeOK, TaskType, rings, device, history
  <2> QED BY <2>1, <2>2, <2>3
<1>6. CASE TaskStep(0)
  <2>1. ASSUME NEW p \in TaskPlaces, Goto(0, p)
        PROVE  task' \in [Cores -> TaskType]
    BY <1>0, <2>1 DEF Goto, TaskType
  <2>2. ASSUME task' = [task EXCEPT ![0] = Idle]
        PROVE  task' \in [Cores -> TaskType]
    BY <1>0, <2>2, IdleType
  <2>3. CASE EarlyWait(0)
    BY <2>1, <2>3 DEF EarlyWait, UartTypeOK, TaskType, TaskPlaces, rings, device, history
  <2>4. CASE EarlyWrite(0)
    <3>1. task[0].c \in Nat
      BY <1>0 DEF TaskType
    <3>2. put' \in Seq(Nat) /\ tx_fifo' \in Seq(Nat)
      BY <1>1, <2>4, <3>1 DEF EarlyWrite, WriteDR, UartTypeOK
    <3> QED BY <2>2, <2>4, <3>2 DEF EarlyWrite, WriteDR, UartTypeOK, TaskType, rings, Lines
  <2>5. CASE EarlyPoll(0)
    BY <2>1, <2>5 DEF EarlyPoll, UartTypeOK, TaskType, TaskPlaces, rings, device, history
  <2>6. CASE EarlyRead(0)
    <3>1. (IF Full(rx_fifo) THEN Head(rx_fifo) ELSE 0) \in Nat
      BY <1>1 DEF Full, UartTypeOK
    <3>2. kept' \in Seq(Nat) /\ got' \in Seq(Nat) /\ rx_fifo' \in Seq(Nat)
      BY <1>1, <2>6, <3>1 DEF EarlyRead, ReadDR, UartTypeOK
    <3> QED BY <2>2, <2>6, <3>2 DEF EarlyRead, ReadDR, UartTypeOK, TaskType, rings, Lines
  <2>7. CASE PutRoom(0)
    BY <2>1, <2>7 DEF PutRoom, UartTypeOK, TaskType, TaskPlaces, rings, device, history
  <2>8. CASE PutStore(0)
    BY <1>0, <2>1, <2>8 DEF PutStore, UartTypeOK, TaskType, TaskPlaces, device, history
  <2>9. CASE PutIndex(0)
    <3>1. task[0].c \in Nat /\ task[0].next \in Indices
      BY <1>0 DEF TaskType
    <3>2. put' \in Seq(Nat)
      BY <1>1, <2>9, <3>1 DEF PutIndex, UartTypeOK
    <3> QED BY <2>1, <2>9, <3>1, <3>2 DEF PutIndex, UartTypeOK, TaskType, TaskPlaces, device
  <2>10. CASE PutReadImsc(0)
    <3>1. task' \in [Cores -> TaskType]
      BY <1>0, <2>10 DEF PutReadImsc, TaskType, TaskPlaces, UartTypeOK
    <3> QED BY <2>10, <3>1 DEF PutReadImsc, UartTypeOK, TaskType, rings, device, history
  <2>11. CASE PutEnable(0)
    <3>1. task[0].imsc \subseteq Lines
      BY <1>0 DEF TaskType
    <3> QED BY <2>2, <2>11, <3>1 DEF PutEnable, UartTypeOK, TaskType, rings, history, Lines
  <2>12. CASE GetTake(0)
    <3>1. task' \in [Cores -> TaskType]
      BY <1>0, <2>12 DEF GetTake, TaskType, TaskPlaces, UartTypeOK
    <3> QED BY <2>12, <3>1 DEF GetTake, UartTypeOK, TaskType, rings, device, history
  <2>13. CASE GetAdvance(0)
    <3>1. task[0].c \in Nat /\ Next1(rx_read_idx) \in Indices
      BY <1>0, NextType DEF TaskType, UartTypeOK
    <3>2. got' \in Seq(Nat)
      BY <1>1, <2>13, <3>1 DEF GetAdvance, UartTypeOK
    <3> QED BY <2>2, <2>13, <3>1, <3>2 DEF GetAdvance, UartTypeOK, TaskType, device
  <2> QED BY <1>6, <2>3, <2>4, <2>5, <2>6, <2>7, <2>8, <2>9, <2>10, <2>11, <2>12, <2>13 DEF TaskStep
<1>7. CASE Handler
  <2>1. CASE TakeInterrupt \/ RxTest \/ RxEmpty \/ TxTest \/ TxLoopEnds \/ TxRingTest \/ MaskRead
    <3>1. PICK p \in IrqPlaces, w \in SUBSET Lines : irq' = [pc |-> p, imsc |-> w]
      <4>1. ASSUME NEW p \in IrqPlaces, Then(p) PROVE irq' = [pc |-> p, imsc |-> irq.imsc]
        BY <4>1 DEF Then, UartTypeOK
      <4> QED BY <2>1, <4>1 DEF TakeInterrupt, RxTest, RxEmpty, TxTest, TxLoopEnds, TxRingTest, MaskRead,
                IrqPlaces, UartTypeOK
    <3>2. UNCHANGED <<uart_op, device, rings, task, calls, arrived, history>>
      BY <2>1 DEF TakeInterrupt, RxTest, RxEmpty, TxTest, TxLoopEnds, TxRingTest, MaskRead
    <3> QED BY <3>1, <3>2 DEF UartTypeOK, rings, device, history
  <2>2. CASE RxClear \/ MaskWrite \/ TxClear
    <3>1. irq' \in [pc : IrqPlaces, imsc : SUBSET Lines]
      <4>1. CASE RxClear
        BY <4>1 DEF RxClear, Then, IrqPlaces, UartTypeOK
      <4>2. CASE MaskWrite
        BY <4>2 DEF MaskWrite, IrqPlaces
      <4>3. CASE TxClear
        BY <4>3 DEF TxClear, Then, IrqPlaces, UartTypeOK
      <4> QED BY <2>2, <4>1, <4>2, <4>3
    <3>2. imsc' \subseteq Lines /\ ris' \subseteq Lines
      BY <2>2 DEF RxClear, MaskWrite, TxClear, UartTypeOK
    <3>3. UNCHANGED <<uart_op, rx_fifo, tx_fifo, rings, task, calls, arrived, history>>
      BY <2>2 DEF RxClear, MaskWrite, TxClear
    <3> QED BY <3>1, <3>2, <3>3 DEF UartTypeOK, rings, history
  <2>3. CASE RxPass
    <3>1. Head(rx_fifo) \in Nat /\ Next1(rx_write_idx) \in Indices
      BY <1>1, <2>3, NextType DEF RxPass, Full, UartTypeOK
    <3>2. kept \in Seq(Nat) /\ Append(kept, Head(rx_fifo)) \in Seq(Nat) /\ <<>> \in Seq(Nat)
      BY <3>1, AppendProperties DEF UartTypeOK
    <3>3. kept' \in Seq(Nat) /\ rx_fifo' \in Seq(Nat)
      BY <2>3, <3>2 DEF RxPass, ReadDR
    <3>4. rx_buffer' \in [Indices -> Nat] /\ rx_write_idx' \in Indices
      <4>1. rx_buffer \in [Indices -> Nat] /\ rx_write_idx \in Indices
        BY DEF UartTypeOK
      <4>2. \/ UNCHANGED <<rx_buffer, rx_write_idx>>
            \/ /\ rx_buffer' = [rx_buffer EXCEPT ![rx_write_idx] = Head(rx_fifo)]
               /\ rx_write_idx' = Next1(rx_write_idx)
        BY <2>3 DEF RxPass
      <4>3. [rx_buffer EXCEPT ![rx_write_idx] = Head(rx_fifo)] \in [Indices -> Nat]
        BY <3>1, <4>1
      <4> QED BY <3>1, <4>1, <4>2, <4>3
    <3>5. ris' \subseteq Lines
      BY <2>3 DEF RxPass, ReadDR, UartTypeOK
    <3>6. UNCHANGED <<uart_op, imsc, tx_fifo, rx_read_idx, tx_buffer, tx_read_idx, tx_write_idx,
                      task, irq, calls, arrived, put, wire, got, overrun>>
      BY <2>3 DEF RxPass
    <3> QED BY <3>3, <3>4, <3>5, <3>6 DEF UartTypeOK
  <2>4. CASE TxPass
    <3>1. tx_buffer[tx_read_idx] \in Nat /\ Next1(tx_read_idx) \in Indices
      BY NextType DEF UartTypeOK
    <3>2. tx_fifo' \in Seq(Nat)
      BY <1>1, <2>4, <3>1 DEF TxPass, WriteDR, UartTypeOK
    <3> QED BY <2>4, <3>1, <3>2 DEF TxPass, WriteDR, UartTypeOK, Lines
  <2> QED BY <1>7, <2>1, <2>2, <2>3, <2>4 DEF Handler
<1> QED BY <1>2, <1>3, <1>4, <1>5, <1>6, <1>7, NextOneCore

-----------------------------------------------------------------------------
(* What the steps do to the call in progress *)

LEMMA CallEffect ==
  ASSUME SMP_NUM = 1, UartTypeOK, CallStep
  PROVE  /\ UNCHANGED <<uart_op, device, rings, irq, arrived, history>>
         /\ irq.pc = "idle" /\ task[0].pc = "idle"
         /\ task'[0].pc \in IF uart_op = "early" THEN {"early putc", "early getc"} ELSE {"full", "empty"}
         /\ task'[0].pc = "full" => task'[0].next = Next1(tx_write_idx)
<1>1. PICK m \in BOOLEAN : Putc(0, m) \/ Getc(0, m)
  BY UartAssumption DEF CallStep
<1>2. 0 \in DOMAIN task
  BY OneCore DEF UartTypeOK
<1>3. CASE Putc(0, m)
  <2> DEFINE p == IF uart_op = "early" THEN "early putc" ELSE "full"
             n == IF uart_op = "early" THEN 0 ELSE Next1(tx_write_idx)
             t == [Idle EXCEPT !.pc = p, !.c = calls + 1, !.masked = m, !.next = n]
  <2>1. calls + 1 \in Nat /\ n \in Indices
    <3>1. Next1(tx_write_idx) \in Indices
      BY NextType DEF UartTypeOK
    <3>2. 0 \in Indices
      BY UartAssumption DEF Indices
    <3> QED BY <3>1, <3>2, UartAssumption DEF UartTypeOK, Outputs
  <2>2. p \in TaskPlaces
    BY DEF TaskPlaces
  <2>3. task'[0] = t
    BY <1>2, <1>3 DEF Putc
  <2>4. t.pc = p /\ t.next = n
    <3> HIDE DEF p, n
    <3> QED BY IdleType DEF TaskType
  <2>5. task'[0].pc = p /\ task'[0].next = n
    <3> HIDE DEF p, n, t
    <3> QED BY <2>3, <2>4
  <2>6. /\ UNCHANGED <<uart_op, device, rings, irq, arrived, history>>
        /\ irq.pc = "idle" /\ task[0].pc = "idle"
    BY <1>3 DEF Putc, At, Runs
  <2> HIDE DEF t
  <2> QED BY <2>5, <2>6
<1>4. CASE Getc(0, m)
  <2> DEFINE p == IF uart_op = "early" THEN "early getc" ELSE "empty"
             t == [Idle EXCEPT !.pc = p, !.masked = m]
  <2>1. 0 \in Nat /\ 0 \in Indices
    BY UartAssumption DEF Indices
  <2>2. p \in TaskPlaces
    BY DEF TaskPlaces
  <2>3. task'[0] = t
    BY <1>2, <1>4 DEF Getc
  <2>4. t.pc = p
    <3> HIDE DEF p
    <3> QED BY IdleType DEF TaskType
  <2>5. task'[0].pc = p
    <3> HIDE DEF p, t
    <3> QED BY <2>3, <2>4
  <2>6. /\ UNCHANGED <<uart_op, device, rings, irq, arrived, history>>
        /\ irq.pc = "idle" /\ task[0].pc = "idle"
    BY <1>4 DEF Getc, At, Runs
  <2> HIDE DEF t
  <2> QED BY <2>5, <2>6
<1> QED BY <1>1, <1>3, <1>4

LEMMA GotoEffect ==
  ASSUME SMP_NUM = 1, UartTypeOK, NEW p, Goto(0, p)
  PROVE  /\ task'[0].pc = p /\ task'[0].c = task[0].c
         /\ task'[0].next = task[0].next /\ task'[0].imsc = task[0].imsc
BY OneCore DEF UartTypeOK, Goto

LEMMA IdleEffect ==
  ASSUME SMP_NUM = 1, UartTypeOK, task' = [task EXCEPT ![0] = Idle]
  PROVE  task'[0].pc = "idle"
BY OneCore, IdleType DEF UartTypeOK

LEMMA ThenEffect ==
  ASSUME UartTypeOK, NEW p, Then(p)
  PROVE  irq'.pc = p
BY DEF UartTypeOK, Then

\* From which place to which each step of a call goes, on a core that is not in
\* the handler.
LEMMA TaskEffect ==
  ASSUME SMP_NUM = 1, UartTypeOK, TaskStep(0)
  PROVE  /\ irq.pc = "idle" /\ irq' = irq /\ uart_op' = uart_op
         /\ EarlyWait(0) => task[0].pc = "early putc" /\ task'[0].pc = "early write"
         /\ EarlyWrite(0) => task[0].pc = "early write" /\ task'[0].pc = "idle"
         /\ EarlyPoll(0) => task[0].pc = "early getc" /\ task'[0].pc = "early read"
         /\ EarlyRead(0) => task[0].pc = "early read" /\ task'[0].pc = "idle"
         /\ PutRoom(0) => task[0].pc = "full" /\ task'[0].pc = "store"
         /\ PutStore(0) => task[0].pc = "store" /\ task'[0].pc = "index"
         /\ PutIndex(0) => task[0].pc = "index" /\ task'[0].pc = "imsc"
         /\ PutReadImsc(0) => task[0].pc = "imsc" /\ task'[0].pc = "enable" /\ task'[0].imsc = imsc
         /\ PutEnable(0) => task[0].pc = "enable" /\ task'[0].pc = "idle"
         /\ GetTake(0) => task[0].pc = "empty" /\ task'[0].pc = "advance"
                          /\ task'[0].c = rx_buffer[rx_read_idx]
         /\ GetAdvance(0) => task[0].pc = "advance" /\ task'[0].pc = "idle"
<1>1. irq.pc = "idle" /\ irq' = irq /\ uart_op' = uart_op
  BY DEF TaskStep, EarlyWait, EarlyWrite, EarlyPoll, EarlyRead, PutRoom, PutStore, PutIndex,
         PutReadImsc, PutEnable, GetTake, GetAdvance, At, Runs
<1>2. /\ EarlyWait(0) => task[0].pc = "early putc" /\ task'[0].pc = "early write"
      /\ EarlyPoll(0) => task[0].pc = "early getc" /\ task'[0].pc = "early read"
      /\ PutRoom(0) => task[0].pc = "full" /\ task'[0].pc = "store"
      /\ PutStore(0) => task[0].pc = "store" /\ task'[0].pc = "index"
      /\ PutIndex(0) => task[0].pc = "index" /\ task'[0].pc = "imsc"
  BY GotoEffect DEF EarlyWait, EarlyPoll, PutRoom, PutStore, PutIndex, At
<1>3. /\ EarlyWrite(0) => task[0].pc = "early write" /\ task'[0].pc = "idle"
      /\ EarlyRead(0) => task[0].pc = "early read" /\ task'[0].pc = "idle"
      /\ PutEnable(0) => task[0].pc = "enable" /\ task'[0].pc = "idle"
      /\ GetAdvance(0) => task[0].pc = "advance" /\ task'[0].pc = "idle"
  BY IdleEffect DEF EarlyWrite, EarlyRead, PutEnable, GetAdvance, At
<1>4. PutReadImsc(0) => task[0].pc = "imsc" /\ task'[0].pc = "enable" /\ task'[0].imsc = imsc
  BY OneCore DEF UartTypeOK, PutReadImsc, At
<1>5. GetTake(0) => task[0].pc = "empty" /\ task'[0].pc = "advance" /\ task'[0].c = rx_buffer[rx_read_idx]
  BY OneCore DEF UartTypeOK, GetTake, At
<1> QED BY <1>1, <1>2, <1>3, <1>4, <1>5

LEMMA HandlerEffect ==
  ASSUME UartTypeOK, Handler, Phase
  PROVE  uart_op = "advance" /\ task' = task /\ uart_op' = uart_op
<1>1. task' = task /\ uart_op' = uart_op
  BY DEF Handler, TakeInterrupt, RxTest, RxPass, RxEmpty, RxClear, TxTest, TxPass, TxLoopEnds, TxRingTest,
         MaskRead, MaskWrite, TxClear
<1>2. uart_op = "advance" \/ irq.pc # "idle"
  BY DEF Handler, TakeInterrupt, RxTest, RxPass, RxEmpty, RxClear, TxTest, TxPass, TxLoopEnds, TxRingTest,
         MaskRead, MaskWrite, TxClear, In
<1> QED BY <1>1, <1>2 DEF Phase, UartTypeOK

LEMMA PhaseStep ==
  ASSUME SMP_NUM = 1, UartTypeOK, Phase, UartNext
  PROVE  Phase'
<1>1. CASE Arrive \/ Transmit
  BY <1>1 DEF Arrive, Transmit, rings, Phase
<1>2. CASE IoInit
  <2>1. task[0].pc = "idle" /\ task' = task /\ uart_op' = "advance"
    BY <1>2, OneCore DEF IoInit
  <2> QED BY <2>1 DEF Phase
<1>3. CASE CallStep
  BY <1>3, CallEffect DEF Phase, rings, EarlyPlaces, UartTypeOK
<1>4. CASE TaskStep(0)
  <2>1. CASE uart_op = "early"
    <3>1. EarlyWait(0) \/ EarlyWrite(0) \/ EarlyPoll(0) \/ EarlyRead(0)
      BY <1>4, <2>1, TaskEffect DEF TaskStep, Phase, EarlyPlaces
    <3>2. UNCHANGED rings
      BY <3>1 DEF EarlyWait, EarlyWrite, EarlyPoll, EarlyRead
    <3> QED BY <1>4, <2>1, <3>1, <3>2, TaskEffect DEF Phase, EarlyPlaces, rings
  <2>2. CASE uart_op = "advance"
    <3>1. ~(EarlyWait(0) \/ EarlyWrite(0) \/ EarlyPoll(0) \/ EarlyRead(0))
      BY <1>4, <2>2, TaskEffect DEF Phase, EarlyPlaces
    <3> QED BY <1>4, <2>2, <3>1, TaskEffect DEF TaskStep, Phase, EarlyPlaces
  <2> QED BY <2>1, <2>2 DEF UartTypeOK
<1>5. CASE Handler
  BY <1>5, HandlerEffect DEF Phase
<1> QED BY <1>1, <1>2, <1>3, <1>4, <1>5, NextOneCore

-----------------------------------------------------------------------------
(* Output *)

LEMMA TxStep ==
  ASSUME SMP_NUM = 1, UartTypeOK, Phase, TxInv, UartNext
  PROVE  TxInv'
<1> DEFINE B == Between(tx_buffer, tx_read_idx, tx_write_idx)
<1>0. /\ wire \in Seq(Nat) /\ tx_fifo \in Seq(Nat) /\ put \in Seq(Nat) /\ <<>> \in Seq(Nat)
      /\ tx_read_idx \in Indices /\ tx_write_idx \in Indices /\ tx_buffer \in Rings
      /\ task[0].c \in Nat
  BY OneCore, SMTT(60), ZenonT(60) DEF UartTypeOK, Rings
<1>1. B \in Seq(Nat) /\ (wire \o tx_fifo) \o B = put
  BY <1>0, BetweenType DEF TxInv, SentInOrder
<1> HIDE DEF B
\* Steps that leave the sending side alone.
<1>2. ASSUME UNCHANGED <<wire, tx_fifo, tx_buffer, tx_read_idx, tx_write_idx, put>>
      PROVE  SentInOrder' /\ Len(tx_fifo') <= 1
  BY <1>2 DEF TxInv, SentInOrder, Between
<1>3. ASSUME UNCHANGED <<wire, tx_fifo, tx_buffer, tx_read_idx, tx_write_idx, put>>, task' = task
      PROVE  TxInv'
  BY <1>2, <1>3 DEF TxInv
<1>4. CASE Arrive \/ IoInit
  BY <1>3, <1>4 DEF Arrive, IoInit, UartAdvanceInit, rings, history
<1>5. CASE Transmit
  <2>1. wire' = wire \o tx_fifo /\ tx_fifo' = <<>> /\ task' = task
        /\ UNCHANGED <<tx_buffer, tx_read_idx, tx_write_idx, put>>
    BY <1>5 DEF Transmit, rings
  <2>2. wire \o tx_fifo \in Seq(Nat)
    BY <1>0, ConcatProperties
  <2>3. (wire \o tx_fifo) \o <<>> = wire \o tx_fifo
    BY <2>2, ConcatEmptySeq
  <2>4. SentInOrder'
    BY <1>1, <2>1, <2>3 DEF SentInOrder, B
  <2>5. Len(tx_fifo') <= 1
    BY <2>1
  <2> QED BY <2>1, <2>4, <2>5 DEF TxInv
<1>6. CASE CallStep
  <2>1. /\ UNCHANGED <<wire, tx_fifo, tx_buffer, tx_read_idx, tx_write_idx, put>>
        /\ task'[0].pc \in {"early putc", "early getc", "full", "empty"}
        /\ task'[0].pc = "full" => task'[0].next = Next1(tx_write_idx)
    BY <1>6, CallEffect DEF rings, device, history
  <2> QED BY <1>2, <2>1 DEF TxInv
<1>7. CASE TaskStep(0)
  <2>1. CASE EarlyWait(0)
    <3>1. UNCHANGED <<wire, tx_fifo, tx_buffer, tx_read_idx, tx_write_idx, put>> /\ tx_fifo = <<>>
      BY <2>1 DEF EarlyWait, Full, rings, device, history
    <3> QED BY <1>2, <1>7, <2>1, <3>1, TaskEffect DEF TxInv
  <2>2. CASE EarlyWrite(0)
    <3> DEFINE c == task[0].c
    <3>1. uart_op = "early" /\ tx_read_idx = tx_write_idx /\ tx_fifo = <<>>
      BY <1>7, <2>2, TaskEffect DEF Phase, TxInv, EarlyPlaces, UartTypeOK
    <3>2. tx_fifo' = <<c>> /\ put' = Append(put, c) /\ wire' = wire
          /\ UNCHANGED <<tx_buffer, tx_read_idx, tx_write_idx>>
      BY <2>2, <3>1 DEF EarlyWrite, WriteDR, Full, rings
    <3>3. B = <<>>
      BY <1>0, <3>1, BetweenEmpty DEF B
    <3>4. wire = put
      <4>1. wire \o <<>> = wire
        BY <1>0, ConcatEmptySeq
      <4> QED BY <1>1, <3>1, <3>3, <4>1
    <3>5. Append(put, c) = put \o <<c>> /\ Append(put, c) \in Seq(Nat)
      <4>1. c \in Nat /\ put \in Seq(Nat)
        BY <1>0
      <4> HIDE DEF c
      <4>2. Append(put, c) = put \o <<c>>
        BY <4>1, AppendIsConcat
      <4>3. Append(put, c) \in Seq(Nat)
        BY <4>1, AppendProperties
      <4> QED BY <4>2, <4>3
    <3>6. (wire \o <<c>>) \o <<>> = Append(put, c)
      <4> HIDE DEF c
      <4>1. wire \o <<c>> = put \o <<c>>
        BY <3>4, Zenon
      <4>2. Append(put, c) \o <<>> = Append(put, c)
        BY <3>5, ConcatEmptySeq
      <4> QED BY <3>5, <4>1, <4>2, Zenon
    <3>7. SentInOrder'
      BY <3>2, <3>3, <3>6 DEF SentInOrder, B
    <3>8. Len(tx_fifo') <= 1
      BY <3>2
    <3> QED BY <1>7, <2>2, <3>7, <3>8, TaskEffect DEF TxInv
  <2>3. CASE EarlyPoll(0) \/ EarlyRead(0) \/ PutReadImsc(0) \/ PutEnable(0) \/ GetTake(0) \/ GetAdvance(0)
    <3>1. UNCHANGED <<wire, tx_fifo, tx_buffer, tx_read_idx, tx_write_idx, put>>
      BY <2>3 DEF EarlyPoll, EarlyRead, PutReadImsc, PutEnable, GetTake, GetAdvance, rings, device, history
    <3>2. task'[0].pc \in {"early read", "idle", "enable", "advance"}
      BY <1>7, <2>3, TaskEffect
    <3> QED BY <1>2, <3>1, <3>2 DEF TxInv
  <2>4. CASE PutRoom(0)
    <3>1. UNCHANGED <<wire, tx_fifo, tx_buffer, tx_read_idx, tx_write_idx, put>>
          /\ task[0].next # tx_read_idx /\ Goto(0, "store")
      BY <2>4 DEF PutRoom, rings, device, history
    <3>2. task[0].pc = "full" /\ task'[0].pc = "store" /\ task'[0].next = task[0].next
      BY <1>7, <2>4, <3>1, TaskEffect, GotoEffect
    <3> QED BY <1>2, <3>1, <3>2 DEF TxInv
  <2>5. CASE PutStore(0)
    <3> DEFINE c == task[0].c
    <3>1. tx_buffer' = [tx_buffer EXCEPT ![tx_write_idx] = c] /\ Goto(0, "index")
          /\ UNCHANGED <<wire, tx_fifo, tx_read_idx, tx_write_idx, put>>
      BY <2>5 DEF PutStore, device, history
    <3>2. task[0].pc = "store" /\ task'[0].pc = "index" /\ task'[0].next = task[0].next
          /\ task'[0].c = c
      BY <1>7, <2>5, <3>1, TaskEffect, GotoEffect
    <3>3. Between(tx_buffer', tx_read_idx, tx_write_idx) = B
      BY <1>0, <3>1, BetweenStore DEF B
    <3>4. SentInOrder'
      BY <1>1, <3>1, <3>3 DEF SentInOrder
    <3>5. tx_buffer'[tx_write_idx'] = c
      BY <1>0, <3>1 DEF Rings
    <3> QED BY <3>1, <3>2, <3>4, <3>5 DEF TxInv
  <2>6. CASE PutIndex(0)
    <3> DEFINE c == task[0].c
    <3>1. tx_write_idx' = task[0].next /\ put' = Append(put, c)
          /\ UNCHANGED <<wire, tx_fifo, tx_buffer, tx_read_idx>>
      BY <2>6 DEF PutIndex, device
    <3>2. task[0].pc = "index" /\ task'[0].pc = "imsc"
      BY <1>7, <2>6, TaskEffect
    <3>3. task[0].next = Next1(tx_write_idx) /\ Next1(tx_write_idx) # tx_read_idx
          /\ tx_buffer[tx_write_idx] = c
      BY <3>2 DEF TxInv
    <3>4. Between(tx_buffer, tx_read_idx, Next1(tx_write_idx)) = Append(B, c)
      BY <1>0, <3>3, BetweenAppend DEF B
    <3>5. (wire \o tx_fifo) \o Append(B, c) = Append(put, c)
      <4>1. wire \o tx_fifo \in Seq(Nat) /\ <<c>> \in Seq(Nat)
        BY <1>0, ConcatProperties
      <4>2. Append(B, c) = B \o <<c>> /\ Append(put, c) = put \o <<c>>
        BY <1>0, <1>1, AppendIsConcat
      <4>3. ((wire \o tx_fifo) \o B) \o <<c>> = (wire \o tx_fifo) \o (B \o <<c>>)
        <5> DEFINE W == wire \o tx_fifo
                   C == <<c>>
        <5>1. W \in Seq(Nat) /\ C \in Seq(Nat)
          BY <4>1
        <5> HIDE DEF W, C
        <5>2. (W \o B) \o C = W \o (B \o C)
          BY <1>1, <5>1, ConcatAssociative, SMTT(60), ZenonT(60)
        <5> QED BY <5>2 DEF W, C
      <4> QED BY <1>1, <4>2, <4>3
    <3>6. SentInOrder'
      BY <3>1, <3>3, <3>4, <3>5 DEF SentInOrder
    <3> QED BY <3>1, <3>2, <3>6 DEF TxInv
  <2> QED BY <1>7, <2>1, <2>2, <2>3, <2>4, <2>5, <2>6 DEF TaskStep
<1>8. CASE Handler
  <2>1. CASE TxPass
    <3> DEFINE c == tx_buffer[tx_read_idx]
               D == Between(tx_buffer, Next1(tx_read_idx), tx_write_idx)
    <3>1. tx_fifo = <<>> /\ tx_read_idx # tx_write_idx /\ tx_fifo' = <<c>>
          /\ tx_read_idx' = Next1(tx_read_idx) /\ UNCHANGED <<wire, tx_buffer, tx_write_idx, put, task>>
      BY <2>1 DEF TxPass, WriteDR, Full
    <3>2. B = <<c>> \o D
      BY <1>0, <3>1, BetweenTake DEF B
    <3>3. D \in Seq(Nat) /\ <<c>> \in Seq(Nat)
      <4>1. Next1(tx_read_idx) \in Indices
        BY <1>0, NextType
      <4>2. D \in Seq(Nat)
        BY <1>0, <4>1, BetweenType
      <4>3. c \in Nat
        BY <1>0 DEF Rings
      <4> HIDE DEF c, D
      <4> QED BY <4>2, <4>3
    <3> HIDE DEF D, c
    <3>4. wire \o <<>> = wire /\ (wire \o <<c>>) \o D = wire \o (<<c>> \o D)
      BY <1>0, <3>3, ConcatEmptySeq, ConcatAssociative, SMTT(60), ZenonT(60)
    <3>5. (wire \o <<c>>) \o D = put
      BY <1>1, <3>1, <3>2, <3>4
    <3>6. SentInOrder'
      BY <3>1, <3>5 DEF SentInOrder, D
    <3>7. Len(tx_fifo') <= 1
      BY <3>1
    <3>8. ASSUME task[0].pc \in {"store", "index"} PROVE task[0].next # tx_read_idx'
      BY <1>0, <3>1, <3>8, NextInjective DEF TxInv
    <3>9. task[0].pc # "early write"
      BY <1>8, HandlerEffect DEF Phase, EarlyPlaces
    <3> QED BY <3>1, <3>6, <3>7, <3>8, <3>9 DEF TxInv
  <2>2. CASE ~TxPass
    BY <1>3, <1>8, <2>2 DEF Handler, TakeInterrupt, RxTest, RxPass, RxEmpty, RxClear, TxTest, TxLoopEnds,
         TxRingTest, MaskRead, MaskWrite, TxClear, rings, device, history
  <2> QED BY <2>1, <2>2
<1> QED BY <1>4, <1>5, <1>6, <1>7, <1>8, NextOneCore

-----------------------------------------------------------------------------
(* Input *)

\* The order of arrival: numbers up to n, each greater than the one before.
Ordered(s, n) ==
  /\ \A i \in DOMAIN s : s[i] \in 1 .. n
  /\ \A i, j \in DOMAIN s : i < j => s[i] < s[j]

LEMMA OrderedMore ==
  ASSUME NEW s \in Seq(Nat), NEW n \in Nat, Ordered(s, n)
  PROVE  Ordered(s, n + 1)
BY DEF Ordered

LEMMA OrderedAppend ==
  ASSUME NEW s \in Seq(Nat), NEW n \in Nat, Ordered(s, n)
  PROVE  Ordered(Append(s, n + 1), n + 1)
<1> DEFINE t == Append(s, n + 1)
<1>1. t \in Seq(Nat) /\ Len(t) = Len(s) + 1 /\ (\A i \in 1 .. Len(s) : t[i] = s[i])
      /\ t[Len(s) + 1] = n + 1
  BY AppendProperties
<1>2. DOMAIN s = 1 .. Len(s) /\ DOMAIN t = 1 .. Len(s) + 1 /\ Len(s) \in Nat
  BY <1>1, LenProperties
<1> HIDE DEF t
<1>3. ASSUME NEW i \in DOMAIN t
      PROVE  i = Len(s) + 1 \/ (i \in DOMAIN s /\ t[i] = s[i] /\ s[i] \in 1 .. n)
  BY <1>1, <1>2, SMTT(60), ZenonT(60) DEF Ordered
<1>4. ASSUME NEW i \in DOMAIN t PROVE t[i] \in 1 .. n + 1
  BY <1>1, <1>3, SMTT(60), ZenonT(60)
<1>5. ASSUME NEW i \in DOMAIN t, NEW j \in DOMAIN t, i < j PROVE t[i] < t[j]
  <2>1. i # Len(s) + 1
    BY <1>2, <1>5
  <2>2. i \in DOMAIN s /\ t[i] = s[i] /\ s[i] \in 1 .. n
    BY <1>3, <2>1
  <2>3. CASE j = Len(s) + 1
    BY <1>1, <2>2, <2>3
  <2>4. CASE j # Len(s) + 1
    <3>1. j \in DOMAIN s /\ t[j] = s[j]
      BY <1>3, <2>4
    <3> QED BY <1>5, <2>2, <3>1 DEF Ordered
  <2> QED BY <2>3, <2>4
<1>6. Ordered(t, n + 1)
  BY <1>4, <1>5 DEF Ordered
<1> QED BY <1>6 DEF t

LEMMA OrderedPrefix ==
  ASSUME NEW s \in Seq(Nat), NEW t \in Seq(Nat), NEW n \in Nat, Ordered(s \o t, n)
  PROVE  Ordered(s, n)
<1> DEFINE u == s \o t
<1>1. Len(s) \in Nat /\ Len(t) \in Nat /\ DOMAIN s = 1 .. Len(s) /\ DOMAIN u = 1 .. Len(s) + Len(t)
  BY ConcatProperties, LenProperties
<1>2. \A i \in 1 .. Len(s) + Len(t) : u[i] = IF i <= Len(s) THEN s[i] ELSE t[i - Len(s)]
  BY ConcatProperties
<1>3. Ordered(u, n)
  OBVIOUS
<1> HIDE DEF u
<1>4. ASSUME NEW i \in DOMAIN s PROVE i \in DOMAIN u /\ u[i] = s[i]
  <2>1. i \in 1 .. Len(s) + Len(t) /\ i <= Len(s)
    BY <1>1
  <2> QED BY <1>1, <1>2, <2>1
<1> QED BY <1>3, <1>4 DEF Ordered

LEMMA OneCharacter ==
  ASSUME NEW s \in Seq(Nat), s # <<>>, Len(s) <= 1
  PROVE  Head(s) \in Nat /\ s = <<Head(s)>>
<1>1. Len(s) = 1
  <2> DEFINE n == Len(s)
  <2>1. n \in Nat \ {0} /\ n <= 1
    BY EmptySeq
  <2> HIDE DEF n
  <2>2. n = 1
    BY <2>1
  <2> QED BY <2>2 DEF n
<1>2. s[1] \in Nat /\ Head(s) = s[1]
  BY <1>1, ElementOfSeq
<1>3. s = <<s[1]>>
  BY <1>1, <1>2, SeqEqual
<1> QED BY <1>2, <1>3

LEMMA RxStep ==
  ASSUME SMP_NUM = 1, UartTypeOK, Phase, RxInv, UartNext
  PROVE  RxInv'
<1> DEFINE B == Between(rx_buffer, rx_read_idx, rx_write_idx)
<1>0. /\ kept \in Seq(Nat) /\ rx_fifo \in Seq(Nat) /\ got \in Seq(Nat) /\ <<>> \in Seq(Nat)
      /\ rx_read_idx \in Indices /\ rx_write_idx \in Indices /\ rx_buffer \in Rings
      /\ task[0].c \in Nat /\ arrived \in Nat
  BY OneCore, UartAssumption, SMTT(60), ZenonT(60) DEF UartTypeOK, Rings, Inputs
<1>1. B \in Seq(Nat) /\ got \o B = kept /\ Ordered(kept \o rx_fifo, arrived) /\ kept \o <<>> = kept
  BY <1>0, BetweenType, ConcatEmptySeq DEF RxInv, ReceivedInOrder, Ordered
<1> HIDE DEF B
\* The two halves of ReceivedInOrder after the step.
<1>2. ASSUME got' \o Between(rx_buffer', rx_read_idx', rx_write_idx') = kept',
             Ordered(kept' \o rx_fifo', arrived')
      PROVE  ReceivedInOrder'
  BY <1>2 DEF ReceivedInOrder, Ordered
<1>3. ASSUME UNCHANGED <<kept, rx_fifo, got, rx_buffer, rx_read_idx, rx_write_idx, arrived>>
      PROVE  ReceivedInOrder' /\ Len(rx_fifo') <= 1
  BY <1>1, <1>2, <1>3 DEF B, RxInv
<1>4. ASSUME UNCHANGED <<kept, rx_fifo, got, rx_buffer, rx_read_idx, rx_write_idx, arrived>>, task' = task
      PROVE  RxInv'
  BY <1>3, <1>4 DEF RxInv
<1>5. CASE Arrive
  <2>1. /\ arrived' = arrived + 1 /\ rx_fifo' = (IF rx_fifo # <<>> THEN rx_fifo ELSE <<arrived + 1>>)
        /\ UNCHANGED <<kept, got, rx_buffer, rx_read_idx, rx_write_idx, task>>
    BY <1>5 DEF Arrive, Full, rings, history
  <2>2. CASE rx_fifo # <<>>
    <3>1. kept \o rx_fifo \in Seq(Nat)
      BY <1>0, ConcatProperties
    <3>2. Ordered(kept \o rx_fifo, arrived + 1)
      BY <1>0, <1>1, <3>1, OrderedMore
    <3>3. ReceivedInOrder'
      BY <1>1, <1>2, <2>1, <2>2, <3>2 DEF B
    <3> QED BY <2>1, <2>2, <3>3 DEF RxInv
  <2>3. CASE rx_fifo = <<>>
    <3>1. rx_fifo' = <<arrived + 1>> /\ Len(rx_fifo') <= 1 /\ rx_fifo' # <<>>
      BY <2>1, <2>3
    <3>2. kept \o <<arrived + 1>> = Append(kept, arrived + 1)
      BY <1>0, AppendIsConcat
    <3>3. Ordered(kept, arrived)
      BY <1>0, <1>1, OrderedPrefix
    <3>4. Ordered(Append(kept, arrived + 1), arrived + 1)
      BY <1>0, <3>3, OrderedAppend
    <3>5. ReceivedInOrder'
      BY <1>1, <1>2, <2>1, <3>1, <3>2, <3>4 DEF B
    <3> QED BY <2>1, <3>1, <3>5 DEF RxInv
  <2> QED BY <2>2, <2>3
<1>6. CASE Transmit \/ IoInit
  BY <1>4, <1>6 DEF Transmit, IoInit, UartAdvanceInit, rings, history
<1>7. CASE CallStep
  <2>1. /\ UNCHANGED <<kept, rx_fifo, got, rx_buffer, rx_read_idx, rx_write_idx, arrived>>
        /\ task'[0].pc \in {"early putc", "early getc", "full", "empty"}
    BY <1>7, CallEffect DEF rings, device, history
  <2> QED BY <1>3, <2>1 DEF RxInv
<1>8. CASE TaskStep(0)
  <2>1. CASE EarlyPoll(0)
    <3>1. UNCHANGED <<kept, rx_fifo, got, rx_buffer, rx_read_idx, rx_write_idx, arrived>> /\ rx_fifo # <<>>
      BY <2>1 DEF EarlyPoll, Full, rings, device, history
    <3> QED BY <1>3, <1>8, <2>1, <3>1, TaskEffect DEF RxInv
  <2>2. CASE EarlyRead(0)
    <3> DEFINE h == Head(rx_fifo)
    <3>1. uart_op = "early" /\ rx_read_idx = rx_write_idx /\ rx_fifo # <<>> /\ Len(rx_fifo) <= 1
      BY <1>8, <2>2, TaskEffect DEF Phase, RxInv, EarlyPlaces, UartTypeOK
    <3>2. rx_fifo' = <<>> /\ kept' = Append(kept, h) /\ got' = Append(got, h)
          /\ UNCHANGED <<rx_buffer, rx_read_idx, rx_write_idx, arrived>>
      BY <2>2, <3>1 DEF EarlyRead, ReadDR, Full, rings
    <3>3. h \in Nat /\ rx_fifo = <<h>>
      BY <1>0, <3>1, OneCharacter
    <3> HIDE DEF h
    <3>4. B = <<>> /\ got = kept
      <4>1. B = <<>>
        BY <1>0, <3>1, BetweenEmpty DEF B
      <4>2. got \o <<>> = got
        BY <1>0, ConcatEmptySeq
      <4> QED BY <1>1, <4>1, <4>2
    <3>5. Append(kept, h) \in Seq(Nat) /\ Append(kept, h) = kept \o <<h>>
      BY <1>0, <3>3, AppendProperties, AppendIsConcat
    <3>6. Append(kept, h) \o <<>> = Append(kept, h)
      BY <3>5, ConcatEmptySeq
    <3>7. ReceivedInOrder'
      BY <1>1, <1>2, <3>2, <3>3, <3>4, <3>5, <3>6 DEF B
    <3>8. Len(rx_fifo') <= 1
      BY <3>2
    <3> QED BY <1>8, <2>2, <3>7, <3>8, TaskEffect DEF RxInv
  <2>3. CASE EarlyWait(0) \/ EarlyWrite(0) \/ PutRoom(0) \/ PutStore(0) \/ PutIndex(0) \/ PutReadImsc(0)
             \/ PutEnable(0)
    <3>1. UNCHANGED <<kept, rx_fifo, got, rx_buffer, rx_read_idx, rx_write_idx, arrived>>
      BY <2>3 DEF EarlyWait, EarlyWrite, PutRoom, PutStore, PutIndex, PutReadImsc, PutEnable, rings, device, history
    <3>2. task'[0].pc \in {"early write", "idle", "store", "index", "imsc", "enable"}
      BY <1>8, <2>3, TaskEffect
    <3> QED BY <1>3, <3>1, <3>2 DEF RxInv
  <2>4. CASE GetTake(0)
    <3>1. UNCHANGED <<kept, rx_fifo, got, rx_buffer, rx_read_idx, rx_write_idx, arrived>>
          /\ rx_read_idx # rx_write_idx
      BY <2>4 DEF GetTake, rings, device, history
    <3>2. task'[0].pc = "advance" /\ task'[0].c = rx_buffer[rx_read_idx]
      BY <1>8, <2>4, TaskEffect
    <3> QED BY <1>3, <3>1, <3>2 DEF RxInv
  <2>5. CASE GetAdvance(0)
    <3> DEFINE c == task[0].c
               D == Between(rx_buffer, Next1(rx_read_idx), rx_write_idx)
    <3>1. rx_read_idx' = Next1(rx_read_idx) /\ got' = Append(got, c)
          /\ UNCHANGED <<kept, rx_fifo, rx_buffer, rx_write_idx, arrived>>
      BY <2>5 DEF GetAdvance, device
    <3>2. task[0].pc = "advance" /\ task'[0].pc = "idle"
      BY <1>8, <2>5, TaskEffect
    <3>3. rx_read_idx # rx_write_idx /\ c = rx_buffer[rx_read_idx]
      BY <3>2 DEF RxInv
    <3>4. B = <<c>> \o D
      BY <1>0, <3>3, BetweenTake DEF B
    <3>5. D \in Seq(Nat) /\ <<c>> \in Seq(Nat)
      <4>1. Next1(rx_read_idx) \in Indices
        BY <1>0, NextType
      <4>2. D \in Seq(Nat)
        BY <1>0, <4>1, BetweenType
      <4> QED BY <1>0, <4>2
    <3>6. Append(got, c) = got \o <<c>>
      BY <1>0, AppendIsConcat
    <3>7. Append(got, c) \o D = kept
      <4> HIDE DEF c, D
      <4>1. (got \o <<c>>) \o D = got \o (<<c>> \o D)
        BY <1>0, <3>5, ConcatAssociative, SMTT(60), ZenonT(60)
      <4> QED BY <1>1, <3>4, <3>6, <4>1
    <3>8. ReceivedInOrder'
      BY <1>1, <1>2, <3>1, <3>7
    <3> QED BY <3>1, <3>2, <3>8 DEF RxInv
  <2> QED BY <1>8, <2>1, <2>2, <2>3, <2>4, <2>5 DEF TaskStep
<1>9. CASE Handler
  <2>0. task[0].pc # "early read"
    BY <1>9, HandlerEffect DEF Phase, EarlyPlaces
  <2>1. CASE RxPass
    <3> DEFINE h == Head(rx_fifo)
    <3>1. /\ rx_fifo # <<>> /\ rx_fifo' = <<>>
          /\ UNCHANGED <<got, rx_read_idx, task, arrived>>
      BY <2>1 DEF RxPass, ReadDR, Full
    <3>2. h \in Nat /\ rx_fifo = <<h>>
      BY <1>0, <3>1, OneCharacter DEF RxInv
    <3>3. Len(rx_fifo') <= 1
      BY <3>1
    <3>4. CASE Next1(rx_write_idx) # rx_read_idx
      <4> DEFINE b == [rx_buffer EXCEPT ![rx_write_idx] = h]
      <4>1. rx_buffer' = b /\ rx_write_idx' = Next1(rx_write_idx) /\ kept' = Append(kept, h)
        BY <2>1, <3>4 DEF RxPass
      <4>2. b \in Rings /\ Between(b, rx_read_idx, rx_write_idx) = B
        BY <1>0, <3>2, BetweenStore DEF B
      <4>3. b[rx_write_idx] = h /\ (rx_read_idx # rx_write_idx => b[rx_read_idx] = rx_buffer[rx_read_idx])
        BY <1>0 DEF Rings
      <4> HIDE DEF b, h
      <4>4. Between(b, rx_read_idx, Next1(rx_write_idx)) = Append(B, h)
        BY <1>0, <3>4, <4>2, <4>3, BetweenAppend
      <4>5. got \o Append(B, h) = Append(kept, h)
        <5>1. Append(B, h) = B \o <<h>> /\ Append(kept, h) = kept \o <<h>> /\ <<h>> \in Seq(Nat)
          BY <1>0, <1>1, <3>2, AppendIsConcat
        <5>2. (got \o B) \o <<h>> = got \o (B \o <<h>>)
          <6> DEFINE C == <<h>>
          <6>1. got \in Seq(Nat) /\ B \in Seq(Nat) /\ C \in Seq(Nat)
            BY <1>0, <1>1, <5>1
          <6> HIDE DEF C
          <6>2. (got \o B) \o C = got \o (B \o C)
            BY <6>1, ConcatAssociative, SMTT(60), ZenonT(60)
          <6> QED BY <6>2 DEF C
        <5> QED BY <1>1, <5>1, <5>2
      <4>6. Append(kept, h) \o <<>> = kept \o rx_fifo
        <5>1. Append(kept, h) = kept \o <<h>> /\ Append(kept, h) \in Seq(Nat)
          BY <1>0, <3>2, AppendIsConcat, AppendProperties
        <5>2. Append(kept, h) \o <<>> = Append(kept, h)
          BY <5>1, ConcatEmptySeq
        <5> QED BY <3>2, <5>1, <5>2
      <4>7. ReceivedInOrder'
        BY <1>1, <1>2, <3>1, <4>1, <4>4, <4>5, <4>6
      <4>8. ASSUME task[0].pc = "advance"
            PROVE  rx_read_idx' # rx_write_idx' /\ task[0].c = rx_buffer'[rx_read_idx']
        BY <3>1, <3>4, <4>1, <4>3, <4>8 DEF RxInv
      <4> QED BY <2>0, <3>1, <3>3, <4>7, <4>8 DEF RxInv
    <3>5. CASE Next1(rx_write_idx) = rx_read_idx
      <4>1. UNCHANGED <<rx_buffer, rx_write_idx, kept>>
        BY <2>1, <3>5 DEF RxPass
      <4>2. Ordered(kept, arrived)
        BY <1>0, <1>1, OrderedPrefix
      <4>3. ReceivedInOrder'
        BY <1>1, <1>2, <3>1, <4>1, <4>2 DEF B
      <4> QED BY <2>0, <3>1, <3>3, <4>1, <4>3 DEF RxInv
    <3> QED BY <3>4, <3>5
  <2>2. CASE ~RxPass
    BY <1>4, <1>9, <2>2 DEF Handler, TakeInterrupt, RxTest, TxPass, RxEmpty, RxClear, TxTest, TxLoopEnds,
         TxRingTest, MaskRead, MaskWrite, TxClear, rings, device, history
  <2> QED BY <2>1, <2>2
<1> QED BY <1>5, <1>6, <1>7, <1>8, <1>9, NextOneCore

-----------------------------------------------------------------------------
(* The interrupt mask *)

LEMMA ImscStep ==
  ASSUME SMP_NUM = 1, UartTypeOK, Phase, ImscInv, UartNext
  PROVE  ImscInv'
<1>0. StaysEnabled <=>
        /\ uart_op = "advance" => "rx" \in imsc
        /\ tx_read_idx # tx_write_idx => "tx" \in imsc \/ task[0].pc \in {"imsc", "enable"}
  BY OneCore DEF StaysEnabled
<1>1. StaysEnabled' <=>
        /\ uart_op' = "advance" => "rx" \in imsc'
        /\ tx_read_idx' # tx_write_idx' => "tx" \in imsc' \/ task'[0].pc \in {"imsc", "enable"}
  BY OneCore DEF StaysEnabled
<1>2. ASSUME UNCHANGED <<uart_op, imsc, tx_read_idx, tx_write_idx, task, irq>> PROVE ImscInv'
  BY <1>0, <1>1, <1>2 DEF ImscInv
<1>3. CASE Arrive \/ Transmit
  BY <1>2, <1>3 DEF Arrive, Transmit, rings
<1>4. CASE IoInit
  <2>1. imsc' = {"rx", "tx"} /\ UNCHANGED <<tx_read_idx, tx_write_idx, task, irq>>
    BY <1>4 DEF IoInit, UartAdvanceInit, Lines, rings
  <2> QED BY <1>1, <2>1 DEF ImscInv
<1>5. CASE CallStep
  <2>1. UNCHANGED <<uart_op, imsc, tx_read_idx, tx_write_idx, irq>> /\ task[0].pc = "idle"
        /\ task'[0].pc \in {"early putc", "early getc", "full", "empty"}
    BY <1>5, CallEffect DEF rings, device
  <2> QED BY <1>0, <1>1, <2>1 DEF ImscInv
<1>6. CASE TaskStep(0)
  <2>0. irq.pc = "idle" /\ irq' = irq /\ uart_op' = uart_op
    BY <1>6, TaskEffect
  <2>1. CASE PutIndex(0)
    <3>1. imsc' = imsc /\ task'[0].pc = "imsc"
      BY <1>6, <2>1, TaskEffect DEF PutIndex, device
    <3> QED BY <1>0, <1>1, <2>0, <3>1 DEF ImscInv
  <2>2. CASE PutReadImsc(0)
    <3>1. UNCHANGED <<imsc, tx_read_idx, tx_write_idx>> /\ task'[0].pc = "enable" /\ task'[0].imsc = imsc
          /\ task[0].pc = "imsc"
      BY <1>6, <2>2, TaskEffect DEF PutReadImsc, device, rings
    <3>2. uart_op = "advance"
      BY <3>1 DEF Phase, EarlyPlaces, UartTypeOK
    <3> QED BY <1>0, <1>1, <2>0, <3>1, <3>2 DEF ImscInv
  <2>3. CASE PutEnable(0)
    <3>1. imsc' = task[0].imsc \cup {"tx"} /\ task[0].pc = "enable" /\ task'[0].pc = "idle"
      BY <1>6, <2>3, TaskEffect DEF PutEnable
    <3> QED BY <1>0, <1>1, <2>0, <3>1 DEF ImscInv
  <2>4. CASE GetAdvance(0)
    <3>1. UNCHANGED <<imsc, tx_read_idx, tx_write_idx>> /\ task[0].pc = "advance" /\ task'[0].pc = "idle"
      BY <1>6, <2>4, TaskEffect DEF GetAdvance, device
    <3> QED BY <1>0, <1>1, <2>0, <3>1 DEF ImscInv
  <2>5. CASE EarlyWait(0) \/ EarlyWrite(0) \/ EarlyPoll(0) \/ EarlyRead(0) \/ PutRoom(0) \/ PutStore(0) \/ GetTake(0)
    <3>1. UNCHANGED <<imsc, tx_read_idx, tx_write_idx>>
      BY <2>5 DEF EarlyWait, EarlyWrite, EarlyPoll, EarlyRead, PutRoom, PutStore, GetTake, device, rings
    <3>2. /\ task[0].pc \notin {"imsc", "enable"}
          /\ task'[0].pc \in {"early write", "idle", "early read", "store", "index", "advance"}
      BY <1>6, <2>5, TaskEffect
    <3> QED BY <1>0, <1>1, <2>0, <3>1, <3>2 DEF ImscInv
  <2> QED BY <1>6, <2>1, <2>2, <2>3, <2>4, <2>5 DEF TaskStep
<1>7. CASE Handler
  <2>0. uart_op = "advance" /\ task' = task /\ uart_op' = uart_op
    BY <1>7, HandlerEffect
  <2>1. CASE TakeInterrupt \/ RxTest \/ RxEmpty \/ RxClear \/ TxTest \/ TxLoopEnds \/ TxClear
    <3>1. UNCHANGED <<imsc, tx_read_idx, tx_write_idx>>
      BY <2>1 DEF TakeInterrupt, RxTest, RxEmpty, RxClear, TxTest, TxLoopEnds, TxClear, device, rings
    <3>2. irq'.pc \in {"rx", "rx loop", "rx clear", "tx", "tx loop", "tx test", "idle"}
      BY <2>1, ThenEffect DEF TakeInterrupt, RxTest, RxEmpty, RxClear, TxTest, TxLoopEnds, TxClear
    <3> QED BY <1>0, <1>1, <2>0, <3>1, <3>2 DEF ImscInv
  <2>2. CASE RxPass
    BY <1>2, <2>0, <2>2 DEF RxPass
  <2>3. CASE TxPass
    <3>1. UNCHANGED <<imsc, tx_write_idx, irq>> /\ irq.pc = "tx loop" /\ tx_read_idx # tx_write_idx
      BY <2>3 DEF TxPass, In
    <3> QED BY <1>0, <1>1, <2>0, <3>1 DEF ImscInv
  <2>4. CASE TxRingTest
    <3>1. UNCHANGED <<imsc, tx_read_idx, tx_write_idx>>
          /\ irq'.pc = (IF tx_read_idx = tx_write_idx THEN "mask" ELSE "tx clear")
      BY <2>4, ThenEffect DEF TxRingTest, device, rings
    <3> QED BY <1>0, <1>1, <2>0, <3>1 DEF ImscInv
  <2>5. CASE MaskRead
    <3>1. UNCHANGED <<imsc, tx_read_idx, tx_write_idx>> /\ irq.pc = "mask" /\ irq'.pc = "disable" /\ irq'.imsc = imsc
      BY <2>5 DEF MaskRead, In, device, rings
    <3> QED BY <1>0, <1>1, <2>0, <3>1 DEF ImscInv
  <2>6. CASE MaskWrite
    <3>1. UNCHANGED <<tx_read_idx, tx_write_idx>> /\ irq.pc = "disable" /\ irq'.pc = "tx clear"
          /\ imsc' = irq.imsc \ {"tx"}
      BY <2>6 DEF MaskWrite, In, rings
    <3> QED BY <1>0, <1>1, <2>0, <3>1 DEF ImscInv
  <2> QED BY <1>7, <2>1, <2>2, <2>3, <2>4, <2>5, <2>6 DEF Handler
<1> QED BY <1>3, <1>4, <1>5, <1>6, <1>7, NextOneCore

-----------------------------------------------------------------------------
(* The theorems *)

LEMMA InitInv ==
  ASSUME SMP_NUM = 1, UartInit
  PROVE  UartInv
<1>0. /\ 0 \in Indices /\ 0 \in Outputs /\ 0 \in Inputs /\ task[0] = Idle /\ task[0].pc = "idle"
      /\ task \in [Cores -> TaskType]
  BY OneCore, IdleType, UartAssumption DEF UartInit, Indices, Outputs, Inputs
<1>1. UartTypeOK
  <2>1. rx_buffer \in [Indices -> Nat] /\ tx_buffer \in [Indices -> Nat]
    BY DEF UartInit
  <2>2. irq \in [pc : IrqPlaces, imsc : SUBSET Lines] /\ imsc \subseteq Lines /\ ris \subseteq Lines
    BY DEF UartInit, IrqPlaces
  <2>3. task \in [Cores -> [pc : TaskPlaces, c : Nat, next : Indices, imsc : SUBSET Lines, masked : BOOLEAN]]
    BY <1>0 DEF TaskType
  <2>4. /\ rx_fifo \in Seq(Nat) /\ tx_fifo \in Seq(Nat) /\ put \in Seq(Nat) /\ wire \in Seq(Nat)
        /\ kept \in Seq(Nat) /\ got \in Seq(Nat)
    BY DEF UartInit
  <2> QED BY <1>0, <2>1, <2>2, <2>3, <2>4 DEF UartInit, UartTypeOK
<1>2. Phase
  BY <1>0 DEF UartInit, Phase, EarlyPlaces
<1>3. Between(tx_buffer, tx_read_idx, tx_write_idx) = <<>> /\ Between(rx_buffer, rx_read_idx, rx_write_idx) = <<>>
  <2>1. tx_buffer \in Rings /\ rx_buffer \in Rings
    BY DEF UartInit, Rings
  <2> QED BY <1>0, <2>1, BetweenEmpty DEF UartInit
<1>4. <<>> \o <<>> = <<>>
  BY ConcatEmptySeq
<1>5. SentInOrder /\ ReceivedInOrder
  BY <1>3, <1>4 DEF UartInit, SentInOrder, ReceivedInOrder
<1>6. TxInv /\ RxInv
  <2>1. Len(tx_fifo) <= 1 /\ Len(rx_fifo) <= 1
    BY DEF UartInit
  <2> QED BY <1>0, <1>5, <2>1 DEF TxInv, RxInv
<1>7. ImscInv
  BY <1>0 DEF UartInit, ImscInv, StaysEnabled
<1> QED BY <1>1, <1>2, <1>6, <1>7 DEF UartInv

LEMMA StutterInv ==
  ASSUME UartInv, UNCHANGED uartVars
  PROVE  UartInv'
<1> USE DEF uartVars, device, rings, history
<1>1. UartTypeOK' /\ Phase'
  BY DEF UartInv, UartTypeOK, Phase
<1>2. TxInv' /\ RxInv'
  BY ZenonT(60), SMTT(60) DEF UartInv, TxInv, RxInv, SentInOrder, ReceivedInOrder, Between
<1>3. ImscInv'
  BY DEF UartInv, ImscInv, StaysEnabled
<1> QED BY <1>1, <1>2, <1>3 DEF UartInv

\* One core, any size of the rings: the invariant above holds throughout.
THEOREM UartInvariant ==
  ASSUME SMP_NUM = 1
  PROVE  UartSpec => []UartInv
<1>1. UartInit => UartInv
  BY InitInv
<1>2. UartInv /\ [UartNext]_uartVars => UartInv'
  <2> SUFFICES ASSUME UartInv, [UartNext]_uartVars PROVE UartInv'
    OBVIOUS
  <2>1. CASE UartNext
    BY <2>1, TypeStep, PhaseStep, TxStep, RxStep, ImscStep DEF UartInv
  <2>2. CASE UNCHANGED uartVars
    BY <2>2, StutterInv
  <2> QED BY <2>1, <2>2
<1> QED BY <1>1, <1>2, PTL DEF UartSpec

\* The indices of uart_pl011.c stay inside the two rings, and everything that the
\* driver and the device hold is a character.
THEOREM UartTypeCorrect ==
  ASSUME SMP_NUM = 1
  PROVE  UartSpec => []UartTypeOK
<1>1. UartInv => UartTypeOK
  BY DEF UartInv
<1> QED BY <1>1, UartInvariant, PTL

\* Both directions keep the characters that were accepted, once and in order,
\* whatever uart_interrupt_handler interrupts and for every BUFFER_SIZE above 1.
THEOREM AlwaysInOrder ==
  ASSUME SMP_NUM = 1
  PROVE  UartSpec => []CharactersInOrder
<1>1. UartInv => CharactersInOrder
  BY DEF UartInv, TxInv, RxInv, CharactersInOrder
<1> QED BY <1>1, UartInvariant, PTL

\* Neither read-modify-write of UART0_IMSC loses the other's update: the receive
\* interrupt stays enabled, and the transmit interrupt while the ring holds
\* characters.
THEOREM AlwaysStaysEnabled ==
  ASSUME SMP_NUM = 1
  PROVE  UartSpec => []StaysEnabled
<1>1. UartInv => StaysEnabled
  BY DEF UartInv, ImscInv
<1> QED BY <1>1, UartInvariant, PTL
=============================================================================
