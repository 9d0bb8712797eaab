------------------------------ MODULE Spinlock ------------------------------
(***************************************************************************)
(* spinlock/spinlock.S, instruction by instruction: spin_lock,             *)
(* spin_trylock and spin_unlock on one lock word, by any number of cores.  *)
(*                                                                         *)
(* The part that carries the correctness is the exclusive monitor of the   *)
(* architecture: ldaxr arms the monitor of its core, every store to the    *)
(* word disarms all monitors, and stlxr stores only through an armed       *)
(* monitor.  stlxr may also fail for no visible reason (an interrupt       *)
(* between the two instructions, an evicted line), so a failure is always  *)
(* possible.                                                               *)
(***************************************************************************)
EXTENDS Naturals, FiniteSets

CONSTANTS Cores, NoCore

ASSUME NoCoreAssumption == NoCore \notin Cores

VARIABLES lock,   \* the lock word: 0 free, 1 taken
          mon,    \* the cores whose exclusive monitor is armed
          pc      \* the instruction each core is about to execute

vars == <<lock, mon, pc>>

\* "out": not in spinlock.S.  "ldaxr"/"stlxr": in the loop of spin_lock.
\* "tryld"/"tryst": in spin_trylock.  "held": returned with the lock taken.
PCs == {"out", "ldaxr", "stlxr", "tryld", "tryst", "held"}

TypeOK == /\ lock \in {0, 1}
          /\ mon \subseteq Cores
          /\ pc \in [Cores -> PCs]

Init == /\ lock = 0
        /\ mon = {}
        /\ pc = [c \in Cores |-> "out"]

Goto(c, l) == pc' = [pc EXCEPT ![c] = l]

CallLock(c) == /\ pc[c] = "out"
               /\ Goto(c, "ldaxr")
               /\ UNCHANGED <<lock, mon>>

CallTrylock(c) == /\ pc[c] = "out"
                  /\ Goto(c, "tryld")
                  /\ UNCHANGED <<lock, mon>>

-----------------------------------------------------------------------------
(* spin_lock *)

\* ldaxr, and the cbnz that goes round while the word is not 0.
Load(c) == /\ pc[c] = "ldaxr"
           /\ mon' = mon \cup {c}
           /\ Goto(c, IF lock = 0 THEN "stlxr" ELSE "ldaxr")
           /\ UNCHANGED lock

\* A plain store would not look at the monitor.
StorePlain(c) == /\ pc[c] = "stlxr"
                 /\ lock' = 1
                 /\ mon' = {}
                 /\ Goto(c, "held")

\* stlxr through an armed monitor: the word becomes 1, all monitors go off.
Store(c) == /\ pc[c] = "stlxr"
            /\ c \in mon
            /\ lock' = 1
            /\ mon' = {}
            /\ Goto(c, "held")

\* stlxr reports failure: nothing is stored and cbnz goes back to ldaxr.
StoreFail(c) == /\ pc[c] = "stlxr"
                /\ mon' = mon \ {c}
                /\ Goto(c, "ldaxr")
                /\ UNCHANGED lock

-----------------------------------------------------------------------------
(* spin_trylock: the same two instructions, but every failure returns 1 *)

TryLoad(c) == /\ pc[c] = "tryld"
              /\ mon' = mon \cup {c}
              /\ Goto(c, IF lock = 0 THEN "tryst" ELSE "out")
              /\ UNCHANGED lock

TryStore(c) == /\ pc[c] = "tryst"
               /\ c \in mon
               /\ lock' = 1
               /\ mon' = {}
               /\ Goto(c, "held")

\* Branching to label 1 instead of label 2 would make trylock a loop.
TryStoreFailRetries(c) == /\ pc[c] = "tryst"
                          /\ mon' = mon \ {c}
                          /\ Goto(c, "tryld")
                          /\ UNCHANGED lock

TryStoreFail(c) == /\ pc[c] = "tryst"
                   /\ mon' = mon \ {c}
                   /\ Goto(c, "out")
                   /\ UNCHANGED lock

-----------------------------------------------------------------------------
(* spin_unlock *)

\* An unlock that writes back the value lock uses for "taken".
UnlockWritesOne(c) == /\ pc[c] = "held"
                      /\ lock' = 1
                      /\ mon' = {}
                      /\ Goto(c, "out")

\* stlr: the word becomes 0 and, being a store, disarms every monitor.
Unlock(c) == /\ pc[c] = "held"
             /\ lock' = 0
             /\ mon' = {}
             /\ Goto(c, "out")

-----------------------------------------------------------------------------
Step(c) == \/ CallLock(c) \/ CallTrylock(c)
           \/ Load(c) \/ Store(c) \/ StoreFail(c)
           \/ TryLoad(c) \/ TryStore(c) \/ TryStoreFail(c)
           \/ Unlock(c)

Next == \E c \in Cores : Step(c)

Spec == Init /\ [][Next]_vars

\* A core keeps executing instructions, and whoever has the lock releases it
\* (every critical section of the kernel is straight-line code with interrupts
\* masked).  The strong fairness of Store is the architecture's promise that a
\* load/store-exclusive loop does not fail spuriously for ever.
Fairness == \A c \in Cores : /\ WF_vars(Load(c))
                             /\ WF_vars(Store(c) \/ StoreFail(c))
                             /\ SF_vars(Store(c))
                             /\ WF_vars(TryLoad(c))
                             /\ WF_vars(TryStore(c) \/ TryStoreFail(c))
                             /\ WF_vars(Unlock(c))

FairSpec == Spec /\ Fairness

-----------------------------------------------------------------------------
(* Properties *)

\* No two cores are past spin_lock (or a successful spin_trylock) at once,
\* whatever the other cores do between ldaxr and stlxr.
MutualExclusion == \A c, d \in Cores : pc[c] = "held" /\ pc[d] = "held" => c = d

\* The word tells the truth: it is 1 exactly while some core is between its
\* successful stlxr and its stlr.
LockWord == lock = 1 <=> \E c \in Cores : pc[c] = "held"

\* The reason for mutual exclusion: a core that saw 0 and still has its monitor
\* armed may rely on the word still being 0.
ArmedMeansFree == \A c \in Cores : pc[c] \in {"stlxr", "tryst"} /\ c \in mon => lock = 0

\* The owner that AbstractLock speaks of.
Owner == IF \E c \in Cores : pc[c] = "held"
         THEN CHOOSE c \in Cores : pc[c] = "held"
         ELSE NoCore

Abs == INSTANCE AbstractLock WITH owner <- Owner

\* spinlock.S implements the abstract lock: the successful stlxr is Acquire,
\* the stlr is Release and every other instruction is invisible.
ImplementsAbstractLock == Abs!Spec

\* While some core is spinning in spin_lock, the lock is taken by some core
\* again and again (which core is up to the hardware: the lock is not fair).
SpinMakesProgress ==
  (\E c \in Cores : pc[c] \in {"ldaxr", "stlxr"}) ~> (\E c \in Cores : pc[c] = "held")

\* spin_trylock always returns, whatever happens to the word meanwhile.
TrylockReturns ==
  \A c \in Cores : pc[c] \in {"tryld", "tryst"} ~> pc[c] \in {"out", "held"}
=============================================================================
