\* A thread and two spawned allocations, one through a layout, compete for one chunk;
\* in the receiver, two threads receive buffers through one client.
SPECIFICATION ShmSpec
CONSTANTS
  t1 = t1
  t2 = t2
  r1 = r1
  r2 = r2
  Backend = Backend
  Thread = {t1}
  Request = {r1, r2}
  Kinds = {"dynamic", "dynamic_threadsafe", "posix"}
  via <- Mixed
  Policies = {"just", "gc", "dealloc", "block"}
  Chunks = 1
  Client = {c1}
  Segment = {g1}
  Storage = {s1, s2}
  Mapper = {m1, m2}
  MaxObjects = 2
  NoClient = NoClient
  NoSegment = NoSegment
  Roles = {"sender", "receiver"}
INVARIANT CallbacksAreSerial
PROPERTIES ContextsObeyContract AsyncAllocCompletes ContextIsDeleted
           ClientsObeyContract ReleasedContextsAreDeleted
CHECK_DEADLOCK FALSE
