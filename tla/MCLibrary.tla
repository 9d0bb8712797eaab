------------------------------ MODULE MCLibrary ------------------------------
(***************************************************************************)
(* The console driver and the library for TLC: seven modules that share no *)
(* state, so that a behaviour is one of exactly one of them, the subject.  *)
(***************************************************************************)
EXTENDS Uart, RbTree, KList, KQueue, Bitmap, CString, Printf

CONSTANTS
  Keys,              \* the tree holds these keys
  Repeated           \* those that are inserted again while they are stored

VARIABLE subject

\* One key has a value of its own: a value that strays is seen.
MCItems == {<<k, IF k = 3 THEN 1 ELSE 0>> : k \in Keys}

\* Every short format, and every conversion with flags and a width.
Alphabet == {"%", "c", "d", "x", "s", "0", "-", "5", "#", "l", "A"}
Flags == {<<>>, <<"#">>, <<"0">>, <<"-">>, <<"#", "0">>, <<"#", "-">>, <<"0", "-">>, <<"#", "0", "-">>}
MCFormats ==
  UNION {[1 .. n -> Alphabet] : n \in 0 .. 3}
    \cup {<<"%">> \o f \o <<w, c>> : f \in Flags, w \in {"2", "5"}, c \in {"d", "x", "s", "u", "p"}}
    \cup {<<"%", "z", "u">>, <<"%", "t", "d">>}
MCChars == Alphabet \cup {digits[i] : i \in 1 .. 16} \cup {Blank, Junk, "p", "t", "u", "z"}
MCInts == {0, 7, -12, -128}
MCStrings == {<<>>, <<"A", "A", "A">>}

allVars == <<subject, uartVars, treeVars, listVars, queueVars, bitmapVars, stringVars, printfVars>>

AtRest == [fmt |-> <<>>, size |-> 1, mem |-> [a \in Addrs |-> 0]]

\* The parameters vary only for the subject.
LibraryInit ==
  /\ subject \in {"uart", "tree", "list", "queue", "bitmap", "string", "printf"}
  /\ UartInit /\ TreeInit /\ ListInit /\ QueueInit /\ BitmapStart /\ StringInit /\ PrintfInit
  /\ subject # "string" => mem = AtRest.mem
  /\ subject # "printf" => fmt = AtRest.fmt /\ bufSize = AtRest.size

\* Bound of the instance, not of TreeSpec: the other keys are stored once.
FewCopies == \A k \in Keys \ Repeated : Cardinality({n \in ToSet(InOrder) : node[n].kv[1] = k}) <= 1
InsertBound == op = "idle" /\ op' = "insert" => FewCopies'

LibraryNext ==
  \/ /\ subject = "uart" /\ UartNext
     /\ UNCHANGED <<subject, treeVars, listVars, queueVars, bitmapVars, stringVars, printfVars>>
  \/ /\ subject = "tree" /\ TreeNext /\ InsertBound
     /\ UNCHANGED <<subject, uartVars, listVars, queueVars, bitmapVars, stringVars, printfVars>>
  \/ /\ subject = "list" /\ ListNext
     /\ UNCHANGED <<subject, uartVars, treeVars, queueVars, bitmapVars, stringVars, printfVars>>
  \/ /\ subject = "queue" /\ QueueNext
     /\ UNCHANGED <<subject, uartVars, treeVars, listVars, bitmapVars, stringVars, printfVars>>
  \/ /\ subject = "bitmap" /\ BitmapNext
     /\ UNCHANGED <<subject, uartVars, treeVars, listVars, queueVars, stringVars, printfVars>>
  \/ /\ subject = "string" /\ StringNext
     /\ UNCHANGED <<subject, uartVars, treeVars, listVars, queueVars, bitmapVars, printfVars>>
  \/ /\ subject = "printf" /\ PrintfNext
     /\ UNCHANGED <<subject, uartVars, treeVars, listVars, queueVars, bitmapVars, stringVars>>

LibrarySpec == LibraryInit /\ [][LibraryNext]_allVars /\ TreeFairness /\ UartFairness

\* Which node of the pool is where in the tree makes no difference to what
\* follows: states are told apart by the shape of the tree and what it holds, and
\* by whether the links that the shape does not show are sound.
TreeShape ==
  LET from[n \in {NULL} \cup Nodes] ==
        IF n = NULL THEN <<>>
        ELSE <<node[n].kv, node[n].color, n = tar, n = del_tar, from[node[n].left], from[node[n].right]>>
  IN <<op, flag, LinksSound, from[head]>>
LibraryView == <<subject, uartVars, TreeShape, listVars, queueVars, bitmapVars, stringVars, printfVars>>
=============================================================================
