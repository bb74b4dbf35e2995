-------------------------------- MODULE Sync --------------------------------
(***************************************************************************)
(* The platform's mutex, condition variable and tasks.  A z_owned_mutex_t  *)
(* holds a Rust mutex and, beside it, a slot for the guard: locking stores *)
(* the guard in the slot, unlocking takes it from there.  The slot itself  *)
(* is protected by nothing but the mutex, so every function is modelled as *)
(* the sequence of its accesses to the mutex and to the slot.              *)
(*                                                                         *)
(* The client is a main thread that spawns tasks, joins them and drops the *)
(* mutex, and tasks that lock, unlock, wait for a flag, or set it and      *)
(* signal every waiter, each as the documentation asks.                    *)
(***************************************************************************)
EXTENDS Naturals, FiniteSets

CONSTANTS Task, None

ASSUME SyncAssumption == None \notin Task

VARIABLES
  mutex,    \* the z_owned_mutex_t and z_owned_condvar_t: initialized or gravestones
  owner,    \* the task that has the Rust mutex locked, or None
  guard,    \* the guard in the slot, named by the task that locked with it, or None
  pc,       \* pc[t]: where task t is
  handle,   \* handle[t]: the z_owned_task_t of t
  joined,   \* the tasks whose z_task_join has returned
  flag      \* the condition the tasks wait for

vars == <<mutex, owner, guard, pc, handle, joined, flag>>

PC == {"new", "idle", "locking", "locked", "holding", "signalling", "unlocking",
       "parking", "asleep", "waking", "woken", "ended"}

TypeOK ==
  /\ mutex \in {"some", "null"}
  /\ owner \in Task \cup {None}
  /\ guard \in Task \cup {None}
  /\ pc \in [Task -> PC]
  /\ handle \in [Task -> {"uninit", "some", "null"}]
  /\ joined \subseteq Task
  /\ flag \in BOOLEAN

(* z_mutex_init and z_condvar_init have returned.                          *)
Init ==
  /\ mutex = "some"
  /\ owner = None
  /\ guard = None
  /\ pc = [t \in Task |-> "new"]
  /\ handle = [t \in Task |-> "uninit"]
  /\ joined = {}
  /\ flag = FALSE

Goto(t, l) == pc' = [pc EXCEPT ![t] = l]

-----------------------------------------------------------------------------
(* z_mutex_lock: locks the Rust mutex, then replaces what is in the slot   *)
(* and forgets the guard that was there, if any.                           *)
Lock(t) ==
  /\ pc[t] = "idle" /\ Goto(t, "locking")
  /\ UNCHANGED <<mutex, owner, guard, handle, joined, flag>>

LockAcquire(t) ==
  /\ pc[t] = "locking" /\ owner = None
  /\ owner' = t
  /\ Goto(t, "locked")
  /\ UNCHANGED <<mutex, guard, handle, joined, flag>>

(* The same for lock and try_lock.                                         *)
LockStore(t) ==
  /\ pc[t] = "locked"
  /\ guard' = t
  /\ Goto(t, "holding")
  /\ UNCHANGED <<mutex, owner, handle, joined, flag>>

(* Slip: the result of try_lock is not looked at.                          *)
TryLockIgnoresBusy(t) ==
  /\ pc[t] = "idle"
  /\ Goto(t, "locked")
  /\ UNCHANGED <<mutex, owner, guard, handle, joined, flag>>

(* z_mutex_try_lock; on a locked mutex it returns Z_EBUSY_MUTEX.           *)
TryLock(t) ==
  /\ pc[t] = "idle" /\ owner = None
  /\ owner' = t
  /\ Goto(t, "locked")
  /\ UNCHANGED <<mutex, guard, handle, joined, flag>>

(* Slip: the guard is dropped in the slot, which is cleared afterwards.    *)
UnlockTakeLate(t) ==
  /\ pc[t] = "holding"
  /\ owner' = None
  /\ Goto(t, "unlocking")
  /\ UNCHANGED <<mutex, guard, handle, joined, flag>>

(* z_mutex_unlock: Z_EINVAL_MUTEX if the slot is empty; otherwise takes    *)
(* the guard, which is dropped once the slot is empty.                     *)
UnlockTake(t) ==
  /\ pc[t] = "holding"
  /\ IF guard = None THEN Goto(t, "idle") ELSE Goto(t, "unlocking")
  /\ guard' = None
  /\ UNCHANGED <<mutex, owner, handle, joined, flag>>

(* Slip: the guard is forgotten instead of dropped.                        *)
UnlockForgets(t) ==
  /\ pc[t] = "unlocking"
  /\ Goto(t, "idle")
  /\ UNCHANGED <<mutex, owner, guard, handle, joined, flag>>

UnlockRelease(t) ==
  /\ pc[t] = "unlocking"
  /\ owner' = None
  /\ Goto(t, "idle")
  /\ UNCHANGED <<mutex, guard, handle, joined, flag>>

-----------------------------------------------------------------------------
(* Slip: the mutex is unlocked before the wait begins.                     *)
WaitReleaseFirst(t) ==
  /\ pc[t] = "holding" /\ ~flag /\ guard # None
  /\ guard' = None
  /\ owner' = None
  /\ Goto(t, "parking")
  /\ UNCHANGED <<mutex, handle, joined, flag>>

(* z_condvar_wait, called in a loop until the flag is set.  Takes the      *)
(* guard out of the slot; Condvar::wait then releases the mutex and blocks *)
(* in one step.                                                            *)
WaitTake(t) ==
  /\ pc[t] = "holding" /\ ~flag /\ guard # None
  /\ guard' = None
  /\ Goto(t, "parking")
  /\ UNCHANGED <<mutex, owner, handle, joined, flag>>

WaitPark(t) ==
  /\ pc[t] = "parking"
  /\ owner' = None
  /\ Goto(t, "asleep")
  /\ UNCHANGED <<mutex, guard, handle, joined, flag>>

(* "The function may be subject to spurious wakeups."                      *)
SpuriousWakeup(t) ==
  /\ pc[t] = "asleep" /\ Goto(t, "waking")
  /\ UNCHANGED <<mutex, owner, guard, handle, joined, flag>>

WaitAcquire(t) ==
  /\ pc[t] = "waking" /\ owner = None
  /\ owner' = t
  /\ Goto(t, "woken")
  /\ UNCHANGED <<mutex, guard, handle, joined, flag>>

(* m.1 = Some(new_lock): what was in the slot is dropped, not forgotten,   *)
(* and dropping a guard unlocks the mutex.                                 *)
WaitStore(t) ==
  /\ pc[t] = "woken"
  /\ owner' = IF guard = None THEN owner ELSE None
  /\ guard' = t
  /\ Goto(t, "holding")
  /\ UNCHANGED <<mutex, handle, joined, flag>>

(* The holder of the mutex sets the flag; before it unlocks it calls       *)
(* z_condvar_signal for every task that may be waiting.                    *)
SetFlag(t) ==
  /\ pc[t] = "holding" /\ ~flag
  /\ flag' = TRUE
  /\ Goto(t, "signalling")
  /\ UNCHANGED <<mutex, owner, guard, handle, joined>>

(* z_condvar_signal wakes one blocked task if there is one.                *)
Signal(t) ==
  /\ pc[t] = "signalling"
  /\ \/ \E u \in Task : pc[u] = "asleep" /\ Goto(u, "waking")
     \/ (\A u \in Task : pc[u] # "asleep") /\ Goto(t, "holding")
  /\ UNCHANGED <<mutex, owner, guard, handle, joined, flag>>

-----------------------------------------------------------------------------
(* z_task_init: spawns the thread; on Z_EAGAIN_MUTEX the owned variable is *)
(* not written and no thread runs.                                         *)
TaskInit(t) ==
  /\ pc[t] = "new" /\ handle[t] = "uninit" /\ mutex = "some"
  /\ \/ Goto(t, "idle") /\ handle' = [handle EXCEPT ![t] = "some"]
     \/ Goto(t, "ended") /\ UNCHANGED handle
  /\ UNCHANGED <<mutex, owner, guard, joined, flag>>

TaskEnd(t) ==
  /\ pc[t] = "idle" /\ Goto(t, "ended")
  /\ UNCHANGED <<mutex, owner, guard, handle, joined, flag>>

(* Slip: the handle is taken and dropped, which detaches the thread.       *)
TaskJoinDetaches(t) ==
  /\ handle[t] = "some"
  /\ handle' = [handle EXCEPT ![t] = "null"]
  /\ joined' = joined \cup {t}
  /\ UNCHANGED <<mutex, owner, guard, pc, flag>>

(* z_task_join takes the handle and returns when the thread has ended.     *)
TaskJoin(t) ==
  /\ handle[t] = "some" /\ pc[t] = "ended"
  /\ handle' = [handle EXCEPT ![t] = "null"]
  /\ joined' = joined \cup {t}
  /\ UNCHANGED <<mutex, owner, guard, pc, flag>>

(* z_task_detach and z_task_drop take the handle and let the thread run.   *)
TaskDetach(t) ==
  /\ handle[t] = "some"
  /\ handle' = [handle EXCEPT ![t] = "null"]
  /\ UNCHANGED <<mutex, owner, guard, pc, joined, flag>>

(* z_mutex_drop and z_condvar_drop, after every task that was started has  *)
(* been joined.                                                            *)
DropMutex ==
  /\ mutex = "some"
  /\ \A t \in Task : pc[t] # "new" /\ (t \in joined \/ handle[t] = "uninit")
  /\ mutex' = "null"
  /\ UNCHANGED <<owner, guard, pc, handle, joined, flag>>

-----------------------------------------------------------------------------
Step(t) ==
  \/ LockAcquire(t) \/ LockStore(t) \/ UnlockTake(t) \/ UnlockRelease(t)
  \/ WaitTake(t) \/ WaitPark(t) \/ WaitAcquire(t) \/ WaitStore(t)
  \/ Signal(t)

Next ==
  \/ \E t \in Task :
       \/ Step(t) \/ Lock(t) \/ TryLock(t) \/ SpuriousWakeup(t) \/ SetFlag(t)
       \/ TaskInit(t) \/ TaskEnd(t) \/ TaskJoin(t) \/ TaskDetach(t)
  \/ DropMutex

Spec == Init /\ [][Next]_vars

(* Threads are scheduled, and a task that holds the mutex goes on to       *)
(* unlock it or to wait.  The mutex is not fair: no task is promised to    *)
(* get it.                                                                 *)
FairSpec == Spec /\ \A t \in Task : WF_vars(Step(t))

-----------------------------------------------------------------------------
InCritical(t) ==
  pc[t] \in {"locked", "holding", "signalling", "unlocking", "parking", "woken"}

(* The guard slot, which no lock of its own protects, is consistent with   *)
(* the mutex: a task between lock and unlock finds its own guard there, so *)
(* that unlock and wait never fail with Z_EINVAL_MUTEX, and whoever stores *)
(* a guard finds the slot empty, so that no guard is ever forgotten (the   *)
(* mutex would stay locked) or dropped (it would be unlocked too early).   *)
GuardSlotConsistent ==
  /\ \A t \in Task : pc[t] \in {"holding", "signalling"} => guard = t
  /\ \A t \in Task : pc[t] \in {"locked", "woken"} => guard = None

(* At most one task is between lock and unlock, and the Rust mutex is      *)
(* locked by that task.                                                    *)
MutualExclusion ==
  \A t \in Task : InCritical(t) => owner = t

(* No wakeup is lost: once the flag is set and signalled, no task sleeps   *)
(* or is about to.                                                         *)
NoLostWakeup ==
  flag /\ (\A t \in Task : pc[t] # "signalling") =>
    \A t \in Task : pc[t] \notin {"parking", "asleep"}

(* The mutex is not dropped while a task may still use it.                 *)
MutexOutlivesTasks ==
  mutex = "null" => owner = None /\ \A t \in Task : pc[t] = "ended"

(* The mutex is never lost: when tasks want it, some task gets it.         *)
SomebodyGetsMutex ==
  (\E t \in Task : pc[t] \in {"locking", "waking"}) ~> (\E t \in Task : pc[t] = "holding")

(* A guard is in the slot only while its task holds the mutex; with the    *)
(* properties above this is inductive.                                     *)
SyncInv ==
  /\ TypeOK /\ GuardSlotConsistent /\ MutualExclusion /\ NoLostWakeup /\ MutexOutlivesTasks
  /\ guard # None => pc[guard] \in {"holding", "signalling"}
  /\ owner # None => InCritical(owner)
  /\ \A t \in Task : handle[t] = "uninit" => pc[t] \in {"new", "ended"}
  /\ \A t \in Task : pc[t] = "signalling" => flag
  /\ flag => \A t \in Task : pc[t] # "parking"
  /\ \A t \in joined : pc[t] = "ended"

=============================================================================
