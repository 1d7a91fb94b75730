---------------------------- MODULE MCInMemoryDB ----------------------------
(* Model-checking instance of InMemoryDB: one table of two columns, seeded *)
(* empty, with a row too short, or without an id column.                   *)
EXTENDS InMemoryDB

MCTables == {"t"}
MCSeeds ==
  {[columns |-> <<"id", "a">>, rows |-> <<>>],
   [columns |-> <<"id", "a">>, rows |-> <<<<1, 1>>, <<2>>>>],
   [columns |-> <<"a">>, rows |-> <<<<1>>, <<0>>>>]}
MCCells == {0, 1, 2}
MCInsertLists == {<<>>, <<"a">>, <<"a", "id">>, <<"b">>}
MCReturnings == {<<>>, <<"id">>, <<"id", "b">>}
Set(c, k) == [column |-> c, paramIdx |-> k]
MCSetLists == {<<Set("id", 2), Set("a", 3)>>, <<Set("a", 2), Set("b", 1)>>,
               <<Set("a", 1), Set("a", 2)>>, <<Set("id", 1)>>}
Test(c, test, k) == [column |-> c, test |-> test, paramIdx |-> k]
MCClauses == {Test("id", "=", 1), Test("a", "=", 2), Test("a", "IS NULL", 0),
              Test("id", "IS NOT NULL", 0), Test("b", "=", 1)}
MCParams == {<<1>>, <<2, 1>>, <<1, 0>>}
=============================================================================
