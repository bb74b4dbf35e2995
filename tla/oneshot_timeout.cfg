\* z_liveliness_get with timeout_ms = 0.
SPECIFICATION Spec
CONSTANTS
  t1 = t1
  t2 = t2
  w1 = w1
  w2 = w2
  o1 = o1
  o2 = o2
  k1 = k1
  None = None
  Thread = {t1}
  Worker = {w1}
  Op = {o1}
  Token = {k1}
  Kinds <- LivelinessGet
  tokenFor <- NoToken
  timeoutOf <- ZeroTimeouts
  DefaultTimeout = 1
  MaxTime = 1
INVARIANT TimeoutIsHonoured
CHECK_DEADLOCK FALSE
