\* The application calls the closure of a channel itself.
SPECIFICATION Spec
CONSTANTS
  m1 = m1
  m2 = m2
  m3 = m3
  m4 = m4
  s1 = s1
  s2 = s2
  r1 = r1
  r2 = r2
  None = None
  Msg = {m1, m2, m3, m4}
  Sender = {s1, s2}
  Receiver = {r1}
  Kinds = {"fifo"}
  Capacity = 2
INVARIANT LoanedStaysUsable
CHECK_DEADLOCK FALSE
