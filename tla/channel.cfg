\* A fifo or a ring of one element, two runtime threads and two receivers.
SPECIFICATION FairSpec
CONSTANTS
  m1 = m1
  m2 = m2
  m3 = m3
  m4 = m4
  s1 = s1
  s2 = s2
  r1 = r1
  r2 = r2
  None = None
  Msg = {m1, m2, m3}
  Sender = {s1, s2}
  Receiver = {r1, r2}
  Kinds = {"fifo", "ring"}
  Capacity = 1
INVARIANTS ContextIsLive OwnedOnce DisconnectedIsFinal
PROPERTIES RecvEndsWithChannel UndeclareCompletes
CHECK_DEADLOCK FALSE
