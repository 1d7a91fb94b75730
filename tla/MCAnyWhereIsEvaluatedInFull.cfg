SPECIFICATION DBSpec
CONSTANTS
  Tables <- MCTables
  Seeds <- MCSeeds
  Cells <- MCCells
  nil = 0
  InsertLists <- MCInsertLists
  Returnings <- MCReturnings
  SetLists <- MCSetLists
  Clauses <- MCClauses
  Params <- MCParams
  MaxRows = 2
INVARIANT
  AnyWhereIsEvaluatedInFull
