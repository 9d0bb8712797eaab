------------------------------- MODULE KQueue -------------------------------
(***************************************************************************)
(* The linked queue between two sentinels of lib/queue.c, which the tree   *)
(* of lib/rbtree.c keeps its free nodes in.  Callers insert nodes that are *)
(* in no queue and remove nodes that are in one.                           *)
(***************************************************************************)
EXTENDS Integers, Sequences, SequencesExt

CONSTANTS QueueNodes, NoQueueNode, Sentinel1, Sentinel2

QHead == Sentinel1     \* &ls->head
QTail == Sentinel2     \* &ls->tail
AllNodes == QueueNodes \cup {QHead, QTail}

ASSUME QueueAssumption ==
  /\ NoQueueNode \notin AllNodes
  /\ QHead \notin QueueNodes /\ QTail \notin QueueNodes /\ QHead # QTail

VARIABLES
  qprev, qnext,        \* queue_node_t
  inQueue              \* auxiliary: what the callers put there, in order

queueVars == <<qprev, qnext, inQueue>>

\* queue_list_init.
QueueInit ==
  /\ qprev = [n \in AllNodes |-> IF n = QTail THEN QHead ELSE NoQueueNode]
  /\ qnext = [n \in AllNodes |-> IF n = QHead THEN QTail ELSE NoQueueNode]
  /\ inQueue = <<>>

Outside(n) == n \notin ToSet(inQueue)
Place(n) == IF n = QHead THEN 0 ELSE IF n = QTail THEN Len(inQueue) + 1
            ELSE CHOOSE i \in DOMAIN inQueue : inQueue[i] = n

\* Variant: prev->next is read after it was changed.
InsertBetweenStale(n, p) ==
  /\ qnext' = [qnext EXCEPT ![n] = qnext[p], ![p] = n]
  /\ qprev' = [qprev EXCEPT ![n] = p]

\* queue_insert: n comes after p, which is not the tail.
InsertBetween(n, p) ==
  /\ qnext' = [qnext EXCEPT ![n] = qnext[p], ![p] = n]
  /\ qprev' = [qprev EXCEPT ![qnext[p]] = n, ![n] = p]

queue_insert(n, p) ==
  /\ Outside(n) /\ p # QTail /\ (p = QHead \/ ~Outside(p))
  /\ InsertBetween(n, p)
  /\ inQueue' = InsertAt(inQueue, Place(p) + 1, n)

\* queue_insert_prev: n comes before m, which is not the head.
queue_insert_prev(n, m) ==
  /\ Outside(n) /\ m # QHead /\ (m = QTail \/ ~Outside(m))
  /\ qprev' = [qprev EXCEPT ![n] = qprev[m], ![m] = n]
  /\ qnext' = [qnext EXCEPT ![qprev[m]] = n, ![n] = m]
  /\ inQueue' = InsertAt(inQueue, Place(m), n)

queue_list_enque(n) ==
  /\ Outside(n)
  /\ InsertBetween(n, qprev[QTail])
  /\ inQueue' = Append(inQueue, n)

Unlink(n) ==
  /\ qnext' = [qnext EXCEPT ![qprev[n]] = qnext[n], ![n] = NoQueueNode]
  /\ qprev' = [qprev EXCEPT ![qnext[n]] = qprev[n], ![n] = NoQueueNode]

queue_remove(n) ==
  /\ ~Outside(n)
  /\ Unlink(n)
  /\ \E i \in DOMAIN inQueue : inQueue[i] = n /\ inQueue' = RemoveAt(inQueue, i)

queue_list_is_empty == qnext[qnext[QHead]] = NoQueueNode

queue_list_pop ==
  /\ ~queue_list_is_empty
  /\ Unlink(qnext[QHead])
  /\ inQueue' = Tail(inQueue)

QueueNext ==
  \/ \E n \in QueueNodes : queue_list_enque(n) \/ queue_remove(n)
  \/ \E n \in QueueNodes, m \in AllNodes : queue_insert(n, m) \/ queue_insert_prev(n, m)
  \/ queue_list_pop

QueueSpec == QueueInit /\ [][QueueNext]_queueVars

-----------------------------------------------------------------------------
(* The walks *)

\* queue_list_check, from the head: the loop ends at a node without a next.
queue_list_check ==
  LET from[n \in AllNodes] ==
        IF qnext[n] = NoQueueNode THEN n = QTail
        ELSE qprev[qnext[n]] = n /\ from[qnext[n]]
  IN qprev[QHead] = NoQueueNode /\ qnext[QTail] = NoQueueNode /\ from[QHead]

\* A node without a next is not passed: the code would follow NULL.
queue_list_find(q) ==
  LET from[n \in AllNodes] ==
        n # QTail /\ (n = q \/ (qnext[n] # NoQueueNode /\ from[qnext[n]]))
  IN from[qnext[QHead]]

\* The queue's own check accepts every queue that the operations can build, the
\* search finds exactly the nodes put there, the links follow their order, and
\* a queue says that it is empty only when it is.
QueueAgrees ==
  LET s == <<QHead>> \o inQueue \o <<QTail>> IN
  /\ queue_list_check
  /\ \A n \in QueueNodes : queue_list_find(n) = ~Outside(n)
  /\ \A i \in 1 .. Len(s) - 1 : qnext[s[i]] = s[i + 1] /\ qprev[s[i + 1]] = s[i]
  /\ queue_list_is_empty = (inQueue = <<>>)
=============================================================================
