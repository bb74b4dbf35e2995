\* Two operations at a time: queries that share a token, a query beside z_scout or z_info_xxx.
SPECIFICATION FairSpec
CONSTANTS
  t1 = t1
  t2 = t2
  w1 = w1
  w2 = w2
  o1 = o1
  o2 = o2
  k1 = k1
  None = None
  Thread = {t1, t2}
  Worker = {w1}
  Op = {o1, o2}
  Token = {k1}
  Kinds <- Mixed
  tokenFor <- OneToken
  timeoutOf <- Timeouts
  DefaultTimeout = 1
  MaxTime = 1
INVARIANTS TypeOK CancelIsQuiet RefusedIsDropped TimeoutIsHonoured
PROPERTIES DeliversWithinContract ClosureIsDropped FunctionsReturn
CHECK_DEADLOCK FALSE
