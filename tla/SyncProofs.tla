----------------------------- MODULE SyncProofs -----------------------------
(***************************************************************************)
(* For any number of tasks: the guard slot of a mutex, accessed without a  *)
(* lock of its own, stays consistent with the mutex, and the mutex, the    *)
(* condition variable and the tasks keep their promises.                   *)
(***************************************************************************)
EXTENDS Sync, TLAPS

LEMMA InitInv == Init => SyncInv
BY SyncAssumption DEF Init, SyncInv, TypeOK, PC, GuardSlotConsistent, MutualExclusion,
   NoLostWakeup, MutexOutlivesTasks, InCritical

(* The conjuncts of SyncInv that a step of one task can disturb.           *)
LEMMA StepInv ==
  ASSUME SyncInv, NEW t \in Task, Step(t)
  PROVE  SyncInv'
<1> USE SyncAssumption DEF SyncInv, TypeOK, PC, GuardSlotConsistent, MutualExclusion,
        NoLostWakeup, MutexOutlivesTasks, InCritical, Goto
<1>1. CASE LockAcquire(t) BY <1>1 DEF LockAcquire
<1>2. CASE LockStore(t) BY <1>2 DEF LockStore
<1>3. CASE UnlockTake(t) BY <1>3 DEF UnlockTake
<1>4. CASE UnlockRelease(t) BY <1>4 DEF UnlockRelease
<1>5. CASE WaitTake(t) BY <1>5 DEF WaitTake
<1>6. CASE WaitPark(t) BY <1>6 DEF WaitPark
<1>7. CASE WaitAcquire(t) BY <1>7 DEF WaitAcquire
<1>8. CASE WaitStore(t) BY <1>8 DEF WaitStore
<1>9. CASE Signal(t)
  <2>1. ASSUME NEW u \in Task, pc[u] = "asleep", Goto(u, "waking") PROVE SyncInv'
    BY <1>9, <2>1 DEF Signal
  <2>2. CASE (\A u \in Task : pc[u] # "asleep") /\ Goto(t, "holding")
    BY <1>9, <2>2 DEF Signal
  <2>. QED BY <1>9, <2>1, <2>2 DEF Signal
<1>. QED BY <1>1, <1>2, <1>3, <1>4, <1>5, <1>6, <1>7, <1>8, <1>9 DEF Step

LEMMA NextInv == SyncInv /\ [Next]_vars => SyncInv'
<1> SUFFICES ASSUME SyncInv, [Next]_vars PROVE SyncInv'
  OBVIOUS
<1> USE SyncAssumption DEF SyncInv, TypeOK, PC, GuardSlotConsistent, MutualExclusion,
        NoLostWakeup, MutexOutlivesTasks, InCritical, Goto
<1>1. ASSUME NEW t \in Task, Step(t) PROVE SyncInv'
  BY <1>1, StepInv
<1>2. ASSUME NEW t \in Task, Lock(t) PROVE SyncInv'
  BY <1>2 DEF Lock
<1>3. ASSUME NEW t \in Task, TryLock(t) PROVE SyncInv'
  BY <1>3 DEF TryLock
<1>4. ASSUME NEW t \in Task, SpuriousWakeup(t) PROVE SyncInv'
  BY <1>4 DEF SpuriousWakeup
<1>5. ASSUME NEW t \in Task, SetFlag(t) PROVE SyncInv'
  BY <1>5 DEF SetFlag
<1>6. ASSUME NEW t \in Task, TaskInit(t) PROVE SyncInv'
  BY <1>6 DEF TaskInit
<1>7. ASSUME NEW t \in Task, TaskEnd(t) PROVE SyncInv'
  BY <1>7 DEF TaskEnd
<1>8. ASSUME NEW t \in Task, TaskJoin(t) \/ TaskDetach(t) PROVE SyncInv'
  BY <1>8 DEF TaskJoin, TaskDetach
<1>9. CASE DropMutex
  BY <1>9 DEF DropMutex
<1>10. CASE UNCHANGED vars
  BY <1>10 DEF vars
<1>. QED BY <1>1, <1>2, <1>3, <1>4, <1>5, <1>6, <1>7, <1>8, <1>9, <1>10 DEF Next

LEMMA SyncInvariant == Spec => []SyncInv
BY InitInv, NextInv, PTL DEF Spec

(* For any number of tasks: unlock and wait find the caller's own guard in *)
(* the slot, and no guard is forgotten or dropped by storing another.      *)
THEOREM GuardSlotIsConsistent == Spec => []GuardSlotConsistent
<1>1. SyncInv => GuardSlotConsistent
  BY DEF SyncInv
<1>. QED BY <1>1, SyncInvariant, PTL

(* For any number of tasks: mutual exclusion.                              *)
THEOREM MutexExcludes == Spec => []MutualExclusion
<1>1. SyncInv => MutualExclusion
  BY DEF SyncInv
<1>. QED BY <1>1, SyncInvariant, PTL

(* For any number of tasks: no wakeup of the condition variable is lost.   *)
THEOREM WakeupsAreKept == Spec => []NoLostWakeup
<1>1. SyncInv => NoLostWakeup
  BY DEF SyncInv
<1>. QED BY <1>1, SyncInvariant, PTL

(* For any number of tasks: the mutex is dropped after its last use.       *)
THEOREM MutexIsDroppedLast == Spec => []MutexOutlivesTasks
<1>1. SyncInv => MutexOutlivesTasks
  BY DEF SyncInv
<1>. QED BY <1>1, SyncInvariant, PTL

=============================================================================
