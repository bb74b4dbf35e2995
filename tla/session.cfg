\* An advanced subscriber whose callback may undeclare its sample miss
\* listener, whose closure has no `call'; under fair scheduling.
SPECIFICATION FairSpec
CONSTANTS
  e1 = e1
  e2 = e2
  Closer = Closer
  None = None
  Entity = {e1, e2}
  App = {a1}
  Worker = {w1, w2}
  kind <- ExtKind
  parent <- ExtParent
  background = {}
  HasCall = {e1}
  MayUndeclare <- Reentry
INVARIANTS TypeOK QuietAfterOk NoOrphanCallback
PROPERTIES ImplementsContract MovedClosureIsDropped BlockedCallsReturn
CHECK_DEADLOCK FALSE
