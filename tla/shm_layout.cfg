\* A provider that is not thread-safe; an asynchronous allocation through a layout.
SPECIFICATION ShmSpec
CONSTANTS
  t1 = t1
  t2 = t2
  r1 = r1
  r2 = r2
  Backend = Backend
  Thread = {t1}
  Request = {r1}
  Kinds = {"dynamic"}
  via <- ByLayout
  Policies = {"just"}
  Chunks = 1
  Client = {}
  Segment = {g1}
  Storage = {s1, s2}
  Mapper = {m1, m2}
  MaxObjects = 2
  NoClient = NoClient
  NoSegment = NoSegment
  Roles = {"sender"}
PROPERTY MovedContextIsDeleted
CHECK_DEADLOCK FALSE
