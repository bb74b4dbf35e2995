\* Three tasks, a mutex and a condition variable.
SPECIFICATION FairSpec
CONSTANTS
  t1 = t1
  t2 = t2
  t3 = t3
  None = None
  Task = {t1, t2, t3}
INVARIANTS GuardSlotConsistent MutualExclusion NoLostWakeup MutexOutlivesTasks
PROPERTY SomebodyGetsMutex
CHECK_DEADLOCK FALSE
