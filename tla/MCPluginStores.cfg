SPECIFICATION Spec
CONSTANTS
  k1 = k1
  empty = empty
  Entries <- MCEntries
  Values = {v1, empty}
  Length <- MCLength
  Empty = empty
  None = None
  TTLs <- MCTTLs
  Second = 2
  DurationBits = 8
  SecondsBits = 4
  MaxClock = 5
  ArenaCap = 3
  MaxSize = 2
  MaxInt32 = 7
PROPERTY
  IsAStore
