\* Two values in a payload, three reads, bytes of two bits.
SPECIFICATION Spec
CONSTANTS
  Base = 4
  Items <- SmallItems
  Foreign <- ShortBytes
  MaxItems = 2
  MaxReads = 3
  MaxVarInt = 4
  Offset <- SmallOffsets
  MaxLen = 2
  None = None
  Kept = Kept
  Gravestone = Gravestone
INVARIANTS TypeOK RoundTrip TruncationDetected NothingInvented
