\* A slice, a string, a view, two arrays, two payloads and a writer;
\* two key expressions and a view of one, an array of two characters.
SPECIFICATION KeySpec
CONSTANTS
  s1 = s1
  t1 = t1
  v1 = v1
  w1 = w1
  Programs <- SmallPrograms
  a1 = a1
  a2 = a2
  b1 = b1
  b2 = b2
  k1 = k1
  k2 = k2
  q1 = q1
  c1 = c1
  Slice = {s1}
  String = {t1}
  View = {v1}
  Array = {a1, a2}
  Bytes = {b1, b2}
  Writer = {w1}
  Key = {k1, k2}
  KeyView = {q1}
  Other = {k1, k2, q1}
  Chars = c1
  MaxText = 2
  MaxCells = 3
  MaxStrings = 2
  MaxSlices = 2
  Null = Null
  Static = Static
  Dangling = Dangling
  None = None
SYMMETRY Interchangeable
INVARIANTS TypeOK FreedOnce ReadableIsLive NothingLeaks BorrowedIsCanonical
PROPERTIES LiteralIsKept
