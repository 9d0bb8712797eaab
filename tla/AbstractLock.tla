---------------------------- MODULE AbstractLock ----------------------------
(***************************************************************************)
(* What a spinlock_t promises to the code that calls spin_lock and         *)
(* spin_unlock (spinlock/spinlock.S): it is free or owned by exactly one   *)
(* core, only a free lock can be taken, and only its owner gives it back.  *)
(* Spinlock.tla shows that the exclusive-access loop of spinlock.S         *)
(* implements this module; Scheduler.tla and SmpBoot.tla use the two       *)
(* actions for every lock that the kernel takes.                           *)
(***************************************************************************)
CONSTANTS Cores,    \* the cores that may take the lock
          NoCore    \* the owner of a free lock

VARIABLE owner

\* spinlock_init: the lock word is 0.
Init == owner = NoCore

\* spin_lock returned on core c: the word was seen 0 and written 1.
Acquire(c) == owner = NoCore /\ owner' = c

\* spin_unlock on core c: the word is written 0.
Release(c) == owner = c /\ owner' = NoCore

Next == \E c \in Cores : Acquire(c) \/ Release(c)

Spec == Init /\ [][Next]_owner
=============================================================================
