---------------------------- MODULE SpinlockProof ----------------------------
(***************************************************************************)
(* For every set of cores: the instructions of spinlock.S keep the lock    *)
(* exclusive and implement AbstractLock.                                   *)
(*                                                                         *)
(* MutualExclusion alone is not inductive: a core at stlxr takes the lock  *)
(* without looking at the other cores.  What makes it safe is              *)
(* ArmedMeansFree (an intact monitor means the word is still 0) together   *)
(* with LockWord (word 0 means that nobody holds the lock).                *)
(***************************************************************************)
EXTENDS Spinlock, TLAPS

IInv == TypeOK /\ MutualExclusion /\ LockWord /\ ArmedMeansFree

\* Initially the lock is free and nobody is in spinlock.S.
LEMMA SpinlockInit == Init => IInv
BY DEF Init, IInv, TypeOK, PCs, MutualExclusion, LockWord, ArmedMeansFree

\* Every instruction of spin_lock, spin_trylock and spin_unlock keeps the
\* inductive invariant.
LEMMA SpinlockStep == IInv /\ [Next]_vars => IInv'
<1> SUFFICES ASSUME IInv, [Next]_vars PROVE IInv'
  OBVIOUS
<1> USE DEF IInv, TypeOK, PCs, MutualExclusion, LockWord, ArmedMeansFree, Goto
<1>1. ASSUME NEW c \in Cores, CallLock(c) PROVE IInv'
  BY <1>1 DEF CallLock
<1>2. ASSUME NEW c \in Cores, CallTrylock(c) PROVE IInv'
  BY <1>2 DEF CallTrylock
<1>3. ASSUME NEW c \in Cores, Load(c) PROVE IInv'
  BY <1>3 DEF Load
<1>4. ASSUME NEW c \in Cores, Store(c) PROVE IInv'
  BY <1>4 DEF Store
<1>5. ASSUME NEW c \in Cores, StoreFail(c) PROVE IInv'
  BY <1>5 DEF StoreFail
<1>6. ASSUME NEW c \in Cores, TryLoad(c) PROVE IInv'
  BY <1>6 DEF TryLoad
<1>7. ASSUME NEW c \in Cores, TryStore(c) PROVE IInv'
  BY <1>7 DEF TryStore
<1>8. ASSUME NEW c \in Cores, TryStoreFail(c) PROVE IInv'
  BY <1>8 DEF TryStoreFail
<1>9. ASSUME NEW c \in Cores, Unlock(c) PROVE IInv'
  BY <1>9 DEF Unlock
<1>10. CASE UNCHANGED vars
  BY <1>10 DEF vars
<1> QED
  BY <1>1, <1>2, <1>3, <1>4, <1>5, <1>6, <1>7, <1>8, <1>9, <1>10 DEF Next, Step

\* The inductive invariant holds throughout every execution of spinlock.S.
THEOREM SpinlockInvariant == Spec => []IInv
BY SpinlockInit, SpinlockStep, PTL DEF Spec

\* Two cores never hold a spinlock_t at the same time, for any number of cores.
THEOREM SpinlockMutualExclusion == Spec => []MutualExclusion
<1>1. IInv => MutualExclusion
  BY DEF IInv
<1> QED
  BY <1>1, SpinlockInvariant, PTL

\* The lock word is 1 exactly while some core holds the lock.
THEOREM SpinlockWord == Spec => []LockWord
<1>1. IInv => LockWord
  BY DEF IInv
<1> QED
  BY <1>1, SpinlockInvariant, PTL

-----------------------------------------------------------------------------
\* The refinement mapping names the holder when there is one.
LEMMA OwnerIsHolder ==
  ASSUME MutualExclusion, NEW c \in Cores, pc[c] = "held"
  PROVE  Owner = c
BY DEF MutualExclusion, Owner

\* Without a holder the abstract lock is free.
LEMMA NoHolder ==
  ASSUME \A c \in Cores : pc[c] # "held"
  PROVE  Owner = NoCore
BY DEF Owner

\* A step that leaves the set of holders alone leaves the abstract lock alone.
LEMMA OwnerStutters ==
  ASSUME MutualExclusion, MutualExclusion',
         \A c \in Cores : pc[c] = "held" <=> pc'[c] = "held"
  PROVE  Owner' = Owner
<1>1. CASE \E c \in Cores : pc[c] = "held"
  BY <1>1 DEF MutualExclusion, Owner
<1>2. CASE \A c \in Cores : pc[c] # "held"
  BY <1>2 DEF Owner
<1> QED
  BY <1>1, <1>2

\* A store through the monitor is the abstract Acquire.
LEMMA StoreAcquires ==
  ASSUME IInv, IInv', NEW c \in Cores, Store(c) \/ TryStore(c)
  PROVE  Abs!Acquire(c)
<1>1. \A d \in Cores : pc[d] # "held"
  BY DEF IInv, LockWord, ArmedMeansFree, TypeOK, Store, TryStore
<1>2. Owner = NoCore
  BY <1>1 DEF Owner
<1>3. pc'[c] = "held" /\ MutualExclusion'
  BY DEF IInv, TypeOK, Store, TryStore, Goto
<1>4. Owner' = c
  BY <1>3 DEF Owner, MutualExclusion
<1> QED
  BY <1>2, <1>4 DEF Abs!Acquire

\* The store of 0 is the abstract Release.
LEMMA UnlockReleases ==
  ASSUME IInv, IInv', NEW c \in Cores, Unlock(c)
  PROVE  Abs!Release(c)
<1>1. Owner = c
  BY OwnerIsHolder DEF IInv, Unlock
<1>2. \A d \in Cores : pc'[d] # "held"
  BY DEF IInv, TypeOK, MutualExclusion, Unlock, Goto
<1>3. Owner' = NoCore
  BY <1>2 DEF Owner
<1> QED
  BY <1>1, <1>3 DEF Abs!Release

\* spinlock.S implements AbstractLock, for any number of cores: every
\* instruction is an Acquire, a Release or invisible to the lock's users.
THEOREM SpinlockRefinement == Spec => ImplementsAbstractLock
<1>1. Init => Abs!Init
  BY DEF Init, Abs!Init, Owner
<1>2. IInv /\ IInv' /\ [Next]_vars => [Abs!Next]_Owner
  <2> SUFFICES ASSUME IInv, IInv', [Next]_vars PROVE [Abs!Next]_Owner
    OBVIOUS
  <2> USE DEF IInv, TypeOK, Goto
  <2>1. ASSUME NEW c \in Cores, Store(c) \/ TryStore(c) PROVE Abs!Next
    BY <2>1, StoreAcquires DEF Abs!Next
  <2>2. ASSUME NEW c \in Cores, Unlock(c) PROVE Abs!Next
    BY <2>2, UnlockReleases DEF Abs!Next
  <2>3. ASSUME NEW c \in Cores,
               \/ CallLock(c) \/ CallTrylock(c) \/ Load(c)
               \/ StoreFail(c) \/ TryLoad(c) \/ TryStoreFail(c)
        PROVE  Owner' = Owner
    <3>1. \A d \in Cores : pc[d] = "held" <=> pc'[d] = "held"
      BY <2>3 DEF CallLock, CallTrylock, Load, StoreFail, TryLoad, TryStoreFail
    <3> QED
      BY <3>1, OwnerStutters
  <2>4. CASE UNCHANGED vars
    BY <2>4 DEF vars, Owner
  <2> QED
    BY <2>1, <2>2, <2>3, <2>4 DEF Next, Step
<1> QED
  BY <1>1, <1>2, SpinlockInvariant, PTL DEF Spec, ImplementsAbstractLock, Abs!Spec
=============================================================================
