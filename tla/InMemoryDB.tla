----------------------------- MODULE InMemoryDB -----------------------------
(***************************************************************************)
(* plugintest's in-memory database (plugintest/backends.go), which stands  *)
(* in for the host's SQL in plugin tests.  Every method holds db.mu, so a  *)
(* statement is one step; inside it the rows are visited one by one, and a *)
(* statement that fails keeps what it had done.                            *)
(*                                                                         *)
(* A statement is given by what its text says, and the parsers by what     *)
(* they make of it.  Values are numbers; two values that print alike are   *)
(* one.  A row is as long as it was seeded, maybe shorter than the columns. *)
(***************************************************************************)
EXTENDS Integers, SequencesExt

CONSTANTS
  Tables,       \* the table names statements use
  Seeds,        \* what tests seed a table with: columns and rows
  Cells,        \* the values tests use, besides generated ids
  nil,
  InsertLists,  \* column lists of INSERT statements
  Returnings,   \* column lists of RETURNING
  SetLists,     \* SET lists: sequences of [column, paramIdx]
  Clauses,      \* conditions: [column, test, paramIdx]
  Params,       \* parameter lists
  MaxRows       \* bound: rows a table grows to

ASSUME TablesAssumption == "no table" \notin Tables
ASSUME CellsAssumption == Cells \subseteq 0..99 /\ nil \in Cells
ASSUME SeedsAssumption ==
  \A seed \in Seeds :
    /\ seed \in [columns : Seq(STRING), rows : Seq(Seq(Cells))]
    /\ \A i, j \in DOMAIN seed.columns : i # j => seed.columns[i] # seed.columns[j]
    /\ \A i \in DOMAIN seed.rows : Len(seed.rows[i]) <= Len(seed.columns)
ASSUME ParamsAssumption == Params \subseteq Seq(Cells)
ASSUME ListsAssumption ==
  /\ InsertLists \subseteq Seq(STRING)
  /\ SetLists \subseteq Seq([column : STRING, paramIdx : Nat])
ASSUME MaxRowsAssumption == MaxRows \in Nat

VARIABLES
  tables,    \* the tables seeded so far
  outcome,   \* the last call and how it ended
  \* history, for the properties only:
  shrunk     \* tables rows were deleted from since they were seeded

dbVars == <<tables, outcome, shrunk>>

EmptyDB == tables = <<>> /\ outcome = [op |-> "none", how |-> "ok"] /\ shrunk = {}

Answer(op, how) == outcome' = [op |-> op, how |-> how]

----------------------------------------------------------------------------
(* What the parsers make of a statement                                    *)

(* A WHERE clause as written: conditions joined by AND, in either case.    *)
Wheres(joins) ==
  [clauses : {<<>>} \cup {<<c>> : c \in Clauses} \cup (Clauses \X Clauses), join : joins]

(* parseConditions splits at the upper-case AND only.  What is left        *)
(* unsplit is read by parseColParam as its first three words.              *)
Unsplit(where) == where.join = "and" /\ Len(where.clauses) > 1
parseConditions(where) ==
  IF Unsplit(where) THEN <<where.clauses[1]>> ELSE where.clauses
ParsesConditions(where) == Unsplit(where) => where.clauses[1].test = "="

(* parseSimpleUpdate insists on a WHERE.                                   *)
ParsesUpdate(where) == where.clauses # <<>> /\ ParsesConditions(where)

(* The table parseInsertColumns finds: up to the first parenthesis, which  *)
(* without a column list is the one after VALUES.                          *)
InsertTable(form, t) == IF form = "values" THEN "no table" ELSE t

----------------------------------------------------------------------------
(* Conditions                                                              *)

(* The position of a column, 0 when the table has none of that name.       *)
colIndex(columns, col) == SelectInSeq(columns, LAMBDA c : c = col)

InRow(columns, row, col) == colIndex(columns, col) \in DOMAIN row

Holds(v, c, params) ==
  CASE c.test = "IS NULL" -> v = nil
    [] c.test = "IS NOT NULL" -> v # nil
    [] OTHER -> v = params[c.paramIdx]

Verdict(columns, row, c, params) ==
  IF ~InRow(columns, row, c.column) \/ (c.test = "=" /\ c.paramIdx \notin DOMAIN params)
    THEN "error"
  ELSE IF Holds(row[colIndex(columns, c.column)], c, params) THEN "yes" ELSE "no"

(* Mutation: only the last condition decides.                              *)
LastConditionDecides(columns, row, conditions, params) ==
  FoldLeft(LAMBDA m, c : Verdict(columns, row, c, params), "yes", conditions)

(* The first condition that does not hold, or cannot be evaluated, decides. *)
matchesConditions(columns, row, conditions, params) ==
  FoldLeft(LAMBDA m, c : IF m = "yes" THEN Verdict(columns, row, c, params) ELSE m,
           "yes", conditions)

----------------------------------------------------------------------------
(* Statements.  Each gives the rows it leaves or returns, how many rows it *)
(* counts, and how it ends.                                                *)

Refused(rows) == [rows |-> rows, n |-> 0, how |-> "error"]

(* The places of the rows of table t with that verdict.                    *)
Judged(t, where, params, verdict) ==
  {i \in DOMAIN tables[t].rows :
     matchesConditions(tables[t].columns, tables[t].rows[i], parseConditions(where), params) = verdict}

(* The rows at the places in I, as a loop over all rows collects them.     *)
Kept(rows, I) ==
  FoldLeft(LAMBDA kept, i : IF i \in I THEN Append(kept, rows[i]) ELSE kept,
           <<>>, [i \in DOMAIN rows |-> i])

querySelect(t, where, params) ==
  LET found == Kept(tables[t].rows, Judged(t, where, params, "yes"))
  IN  IF ~ParsesConditions(where) \/ Judged(t, where, params, "error") # {} THEN Refused(<<>>)
      ELSE [rows |-> found, n |-> Len(found), how |-> "ok"]

(* Mutation: rows are dropped as the loop meets them, before it fails.     *)
DeletesAsItGoes(t, where, params) ==
  LET kept == Kept(tables[t].rows, DOMAIN tables[t].rows \ Judged(t, where, params, "yes"))
  IN  IF ~ParsesConditions(where) THEN Refused(tables[t].rows)
      ELSE [rows |-> kept, n |-> Len(tables[t].rows) - Len(kept),
            how |-> IF Judged(t, where, params, "error") # {} THEN "error" ELSE "ok"]

(* The kept rows replace the table's only after the last row was looked at. *)
execDelete(t, where, params) ==
  LET kept == Kept(tables[t].rows, Judged(t, where, params, "no"))
  IN  IF ~ParsesConditions(where) \/ Judged(t, where, params, "error") # {} THEN Refused(tables[t].rows)
      ELSE [rows |-> kept, n |-> Len(tables[t].rows) - Len(kept), how |-> "ok"]

(* The assignments to one row, up to one that names no column of it or no  *)
(* parameter; the latter is an index out of range.                         *)
Assign(columns, params, s, a) ==
  IF s.how # "ok" THEN s
  ELSE IF ~InRow(columns, s.row, a.column) THEN [s EXCEPT !.how = "error"]
  ELSE IF a.paramIdx \notin DOMAIN params THEN [s EXCEPT !.how = "panic"]
  ELSE [s EXCEPT !.row[colIndex(columns, a.column)] = params[a.paramIdx]]

Assigned(columns, row, assignments, params) ==
  FoldLeft(LAMBDA s, a : Assign(columns, params, s, a), [row |-> row, how |-> "ok"], assignments)

(* Mutation: every row is counted as updated.                              *)
CountsEveryRow(s, m, done) ==
  [rows |-> Append(s.rows, done.row), n |-> s.n + 1, how |-> done.how]

(* A row the loop has dealt with: m says whether it matched.               *)
UpdatedRow(s, m, done) ==
  [rows |-> Append(s.rows, done.row),
   n |-> IF m = "yes" /\ done.how = "ok" THEN s.n + 1 ELSE s.n, how |-> done.how]

(* One turn of the loop, after the rows s has dealt with.                  *)
UpdateRow(columns, assignments, conditions, params, s, row) ==
  LET m == matchesConditions(columns, row, conditions, params)
      done == IF s.how # "ok" THEN [row |-> row, how |-> s.how]
              ELSE IF m = "yes" THEN Assigned(columns, row, assignments, params)
              ELSE [row |-> row, how |-> IF m = "no" THEN "ok" ELSE "error"]
  IN  UpdatedRow(s, IF s.how = "ok" THEN m ELSE "no", done)

(* Rows are changed in place, so that a failure leaves the rows before it  *)
(* updated and its own row updated in part.                                *)
Updated(columns, rows, assignments, conditions, params) ==
  FoldLeft(LAMBDA s, row : UpdateRow(columns, assignments, conditions, params, s, row),
           [rows |-> <<>>, n |-> 0, how |-> "ok"], rows)

execUpdate(t, assignments, where, params) ==
  IF ~ParsesUpdate(where) THEN Refused(tables[t].rows)
  ELSE Updated(tables[t].columns, tables[t].rows, assignments, parseConditions(where), params)

(* generated-id-k, a value no test uses.                                   *)
Generated(k) == 100 + k

(* Mutation: ids are not counted.                                          *)
SameId(rows) == Generated(1)

NewId(rows) == Generated(Len(rows) + 1)

(* A row of nils, with the parameters put into the columns listed.         *)
Filled(columns, cols, params) ==
  FoldLeft(LAMBDA row, i : [row EXCEPT ![colIndex(columns, cols[i])] = params[i]],
           [i \in DOMAIN columns |-> nil], [i \in DOMAIN cols |-> i])

(* The row an INSERT adds, its id generated when it has none.              *)
InsertedRow(t, cols, params) ==
  LET columns == tables[t].columns
      row == IF cols = <<>> THEN params ELSE Filled(columns, cols, params)
      id == colIndex(columns, "id")
  IN  IF id # 0 /\ row[id] = nil THEN [row EXCEPT ![id] = NewId(tables[t].rows)] ELSE row

(* insertRow refuses an unknown table or column and the wrong number of    *)
(* parameters.                                                             *)
Insertable(form, t, cols, params) ==
  /\ InsertTable(form, t) \in DOMAIN tables
  /\ Len(params) = Len(IF cols = <<>> THEN tables[t].columns ELSE cols)
  /\ \A i \in DOMAIN cols : colIndex(tables[t].columns, cols[i]) # 0

----------------------------------------------------------------------------
(* SeedRows replaces the table.                                            *)
SeedRows(t, seed) ==
  /\ tables' = [u \in DOMAIN tables \cup {t} |-> IF u = t THEN seed ELSE tables[u]]
  /\ shrunk' = shrunk \ {t}
  /\ Answer("seed", "ok")

insertRow(t, cols, params) ==
  /\ Len(tables[t].rows) < MaxRows
  /\ tables' = [tables EXCEPT ![t].rows = Append(@, InsertedRow(t, cols, params))]
  /\ UNCHANGED shrunk

(* Exec of an INSERT: with a column list, with VALUES alone, or bare.      *)
execInsert(form, t, cols, params) ==
  /\ (form = "columns") = (cols # <<>>)
  /\ IF Insertable(form, t, cols, params)
       THEN insertRow(t, cols, params) /\ Answer("insert", "ok")
       ELSE UNCHANGED <<tables, shrunk>> /\ Answer("insert", "error")

(* Query of an INSERT: RETURNING is required, and its columns are looked   *)
(* up after the row was stored.                                            *)
queryInsert(t, cols, params, returning) ==
  IF returning # <<>> /\ Insertable("columns", t, cols, params)
    THEN /\ insertRow(t, cols, params)
         /\ Answer("returning",
              IF \A i \in DOMAIN returning : colIndex(tables[t].columns, returning[i]) # 0
                THEN "ok" ELSE "error")
    ELSE UNCHANGED <<tables, shrunk>> /\ Answer("returning", "error")

(* Exec of DELETE and UPDATE; a table never seeded has no rows to change.  *)
ExecDelete(t, where, params) ==
  LET done == execDelete(t, where, params)
  IN  IF t \in DOMAIN tables
        THEN /\ tables' = [tables EXCEPT ![t].rows = done.rows]
             /\ shrunk' = IF done.n > 0 THEN shrunk \cup {t} ELSE shrunk
             /\ Answer("delete", done.how)
        ELSE /\ UNCHANGED <<tables, shrunk>>
             /\ Answer("delete", IF ParsesConditions(where) THEN "ok" ELSE "error")

ExecUpdate(t, assignments, where, params) ==
  LET done == execUpdate(t, assignments, where, params)
  IN  /\ IF t \in DOMAIN tables
            THEN tables' = [tables EXCEPT ![t].rows = done.rows] /\ Answer("update", done.how)
            ELSE UNCHANGED tables /\ Answer("update", IF ParsesUpdate(where) THEN "ok" ELSE "error")
      /\ UNCHANGED shrunk

Statement ==
  \E t \in Tables :
    \/ \E seed \in Seeds : SeedRows(t, seed)
    \/ \E params \in Params :
       \/ \E form \in {"columns", "values", "bare"}, cols \in InsertLists :
            execInsert(form, t, cols, params)
       \/ \E cols \in InsertLists \ {<<>>}, returning \in Returnings :
            queryInsert(t, cols, params, returning)
       \/ \E where \in Wheres({"AND", "and"}) :
            \/ ExecDelete(t, where, params)
            \/ \E assignments \in SetLists : ExecUpdate(t, assignments, where, params)

DBSpec == EmptyDB /\ [][Statement]_dbVars
----------------------------------------------------------------------------
(* The reference: the rows that satisfy every condition as it is written.  *)
(* A statement is well formed when each condition can be evaluated.        *)
Satisfies(t, row, where, params) ==
  \A i \in DOMAIN where.clauses :
    Verdict(tables[t].columns, row, where.clauses[i], params) = "yes"
WellFormed(t, where, params) ==
  \A i \in DOMAIN where.clauses, j \in DOMAIN tables[t].rows :
    Verdict(tables[t].columns, tables[t].rows[j], where.clauses[i], params) # "error"

(* SELECT returns and DELETE removes exactly the rows that satisfy every   *)
(* condition of the WHERE clause, in order, and DELETE counts them.        *)
InFull(joins) ==
  \A t \in DOMAIN tables, where \in Wheres(joins), params \in Params :
    WellFormed(t, where, params) =>
      LET rows == tables[t].rows
          gone == execDelete(t, where, params)
          chosen == {i \in DOMAIN rows : Satisfies(t, rows[i], where, params)}
      IN  /\ querySelect(t, where, params).rows = Kept(rows, chosen)
          /\ gone.rows = Kept(rows, DOMAIN rows \ chosen)
          /\ gone.n = Cardinality(chosen)

(* After any statements, failed ones included, a WHERE joined by AND is    *)
(* evaluated in full (matchesConditions, querySelect, execDelete).         *)
WhereIsEvaluatedInFull == InFull({"AND"})

(* backends.go on condition: a multi-part WHERE "is evaluated in full      *)
(* instead of silently checking only its first clause" - in whichever case *)
(* SQL lets the keyword be written.                                        *)
AnyWhereIsEvaluatedInFull == InFull({"AND", "and"})

(* The assignments to the column in place c that no later one overrides.   *)
LastSet(t, set, c) ==
  {k \in DOMAIN set : /\ set[k].column = tables[t].columns[c]
                      /\ \A l \in k+1..Len(set) : set[l].column # tables[t].columns[c]}

UpdateApplies(t, set, where, params) ==
  /\ where.clauses # <<>> /\ WellFormed(t, where, params)
  /\ \A k \in DOMAIN set :
       /\ set[k].paramIdx \in DOMAIN params
       /\ \A row \in Range(tables[t].rows) : InRow(tables[t].columns, row, set[k].column)

ChangesWhatItSays(t, set, where, params) ==
  LET rows == tables[t].rows
      done == execUpdate(t, set, where, params)
  IN  /\ done.how = "ok" /\ Len(done.rows) = Len(rows)
      /\ done.n = Cardinality({i \in DOMAIN rows : Satisfies(t, rows[i], where, params)})
      /\ \A i \in DOMAIN rows : \A c \in DOMAIN rows[i] :
           IF Satisfies(t, rows[i], where, params) /\ LastSet(t, set, c) # {}
             THEN \A k \in LastSet(t, set, c) : done.rows[i][c] = params[set[k].paramIdx]
             ELSE done.rows[i][c] = rows[i][c]

(* A well-formed UPDATE changes the rows that satisfy its WHERE, in the    *)
(* columns it sets, to the last value it sets them to, leaves all others,  *)
(* and counts what it changed (execUpdate).                                *)
UpdateChangesWhatItSays ==
  \A t \in DOMAIN tables, where \in Wheres({"AND"}), params \in Params, set \in SetLists :
    UpdateApplies(t, set, where, params) => ChangesWhatItSays(t, set, where, params)

(* A statement that fails and has still changed rows is an UPDATE or an    *)
(* INSERT ... RETURNING: a DELETE that meets a row it cannot judge, after  *)
(* rows it would remove, removes none (execDelete's kept), and a refused   *)
(* INSERT stores none.                                                     *)
OnlyTheseFailHalfway ==
  [][outcome'.how # "ok" /\ tables' # tables => outcome'.op \in {"update", "returning"}]_dbVars

(* Generated ids tell rows apart as long as none was deleted, whatever was *)
(* seeded, updated and inserted with ids of its own in between (insertRow  *)
(* counts the rows there are, so that a deletion makes an id come again).  *)
GeneratedIdsDistinct ==
  \A t \in DOMAIN tables \ shrunk :
    LET id == colIndex(tables[t].columns, "id")
        rows == tables[t].rows
    IN  id # 0 => \A i, j \in DOMAIN rows :
          i # j /\ id \in DOMAIN rows[i] /\ id \in DOMAIN rows[j] /\ rows[i][id] > 100
            => rows[i][id] # rows[j][id]
=============================================================================
