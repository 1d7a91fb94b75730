SPECIFICATION Spec
CONSTANTS
  NumArrays = 12
  Payloads <- MCPayloads
  Readers = {p}
  None = None
  MaxSpare = 1
  MaxWrites = 2
INVARIANTS
  SharedArraysAreSafe
PROPERTIES
  ListsAreValues
