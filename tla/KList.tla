------------------------------- MODULE KList -------------------------------
(***************************************************************************)
(* The doubly linked list with a counter of lib/list.c and                 *)
(* include/list.h.  Callers insert nodes that are not in the list and      *)
(* delete nodes that are: the code does not look.                          *)
(***************************************************************************)
EXTENDS Integers, Sequences, SequencesExt

CONSTANTS ListNodes, NoNode

ASSUME ListAssumption == NoNode \notin ListNodes

VARIABLES
  first, last, count,     \* list_t
  pre, next,              \* list_node_t
  inList                  \* auxiliary: what the callers put there, in order

listVars == <<first, last, count, pre, next, inList>>

ListInit ==
  /\ first = NoNode /\ last = NoNode /\ count = 0
  /\ pre = [n \in ListNodes |-> NoNode]
  /\ next = [n \in ListNodes |-> NoNode]
  /\ inList = <<>>

Absent(n) == n \notin ToSet(inList)

\* Variant: the links of the node that was first are left alone.
ListInsertFirstOneWay(n) ==
  /\ Absent(n)
  /\ next' = [next EXCEPT ![n] = first]
  /\ pre' = [pre EXCEPT ![n] = NoNode]
  /\ last' = IF count = 0 THEN n ELSE last
  /\ first' = n
  /\ count' = count + 1
  /\ inList' = <<n>> \o inList

ListInsertFirst(n) ==
  /\ Absent(n)
  /\ next' = [next EXCEPT ![n] = first]
  /\ IF count = 0
     THEN pre' = [pre EXCEPT ![n] = NoNode] /\ last' = n
     ELSE pre' = [pre EXCEPT ![n] = NoNode, ![first] = n] /\ UNCHANGED last
  /\ first' = n
  /\ count' = count + 1
  /\ inList' = <<n>> \o inList

ListInsertLast(n) ==
  /\ Absent(n)
  /\ pre' = [pre EXCEPT ![n] = last]
  /\ IF count = 0
     THEN next' = [next EXCEPT ![n] = NoNode] /\ first' = n
     ELSE next' = [next EXCEPT ![n] = NoNode, ![last] = n] /\ UNCHANGED first
  /\ last' = n
  /\ count' = count + 1
  /\ inList' = Append(inList, n)

\* Of an empty list nothing is taken.
ListDeleteFirst ==
  LET second == next[first] IN
  /\ count # 0
  /\ first' = second
  /\ IF second = NoNode
     THEN last' = NoNode /\ pre' = [pre EXCEPT ![first] = NoNode]
     ELSE pre' = [pre EXCEPT ![second] = NoNode, ![first] = NoNode] /\ UNCHANGED last
  /\ next' = [next EXCEPT ![first] = NoNode]
  /\ count' = count - 1
  /\ inList' = Tail(inList)

ListDelete(n) ==
  LET skip(f, at, to) == IF at = NoNode THEN f ELSE [f EXCEPT ![at] = to] IN
  /\ ~Absent(n)
  /\ first' = IF n = first THEN next[n] ELSE first
  /\ last' = IF n = last THEN pre[n] ELSE last
  /\ next' = [skip(next, pre[n], next[n]) EXCEPT ![n] = NoNode]
  /\ pre' = [skip(pre, next[n], pre[n]) EXCEPT ![n] = NoNode]
  /\ count' = count - 1
  /\ \E i \in DOMAIN inList : inList[i] = n /\ inList' = RemoveAt(inList, i)

ListNext ==
  \/ \E n \in ListNodes : ListInsertFirst(n) \/ ListInsertLast(n) \/ ListDelete(n)
  \/ ListDeleteFirst

ListSpec == ListInit /\ [][ListNext]_listVars

-----------------------------------------------------------------------------
\* Both ways through the list give what was put there, in order; the counter,
\* by which list_is_empty decides, agrees; a node outside holds no links.
ListAgrees ==
  LET s == inList IN
  /\ count = Len(s)
  /\ first = IF s = <<>> THEN NoNode ELSE Head(s)
  /\ last = IF s = <<>> THEN NoNode ELSE Last(s)
  /\ \A i \in DOMAIN s : /\ next[s[i]] = IF i = Len(s) THEN NoNode ELSE s[i + 1]
                         /\ pre[s[i]] = IF i = 1 THEN NoNode ELSE s[i - 1]
  /\ \A n \in ListNodes \ ToSet(s) : next[n] = NoNode /\ pre[n] = NoNode
=============================================================================
