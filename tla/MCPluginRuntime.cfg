SPECIFICATION Spec
CONSTANTS
  a = a
  b = b
  Names <- MCNames
  Registrable <- MCRegistrable
  ArenaCap = 3
  MaxSize = 2
  MaxInt32 = 7
  MaxResult = 1
  MaxReply = 2
  MaxInits = 1
INVARIANTS
  TypeOK
  HandlerSeesItsCall
  HeldResultIntact
  HostReadsTheReply
  ContextOfOneInit
  OnlyDebtRemains
PROPERTIES
  InitIsFinal
