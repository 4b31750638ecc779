----------------------------- MODULE SqliteWork -----------------------------
(***************************************************************************)
(* src/sqlite/sqlite_work.cpp: QueryDB gives the value in one row of what  *)
(* a SELECT finds, while other processes change the database with CreateDB *)
(* and ModifyDB. SQLite (3.9.2, rollback journal, no busy timeout) lets    *)
(* nobody commit while a statement is at a row.                            *)
(***************************************************************************)
EXTENDS Integers, Sequences

CONSTANTS
  Queries,    (* processes that call QueryDB                               *)
  Cells,      (* values of the column, strings                             *)
  NullCell,   (* SQL's NULL                                                *)
  LongCells,  (* the values too long for the caller's buffer               *)
  MaxRowPos,  (* bound: row_pos asked for                                  *)
  MaxRows     (* bound: rows of the table                                  *)

ASSUME SqliteAssumption ==
  NullCell \in Cells /\ LongCells \subseteq Cells \ {NullCell} /\ MaxRowPos \in Nat /\ MaxRows \in Nat

VARIABLES
  table,    (* the rows the SELECT finds, in its order                     *)
  query,    (* per process: "none", "stepping" or "answered"               *)
  cursor,   (* per process: the row its statement is at, or 0              *)
  scanned,  (* per process: the rows the statement is going through        *)
  rowPos, rowIndex,  (* per process: row_pos and row_index                 *)
  value, result,     (* per process: what the caller gets                  *)
  snapshot, (* history, per process: the rows at its first step            *)
  erred     (* history, per process: has a later step failed?              *)
queryVars == <<query, cursor, scanned, rowPos, rowIndex, value, result, snapshot, erred>>
sqliteVars == <<table, queryVars>>

------------------------------------------------------------------------------
(* CreateDB and ModifyDB: sqlite3_exec runs the sentences one by one, each *)
(* a transaction; it stops at the first that fails (or finds the database  *)
(* locked), with those before it done.                                     *)
Inserted == {Append(table, c) : c \in Cells}
Deleted == {SubSeq(table, 1, i - 1) \o SubSeq(table, i + 1, Len(table)) : i \in DOMAIN table}
Updated == {[table EXCEPT ![i] = c] : i \in DOMAIN table, c \in Cells}
ModifyDB(rows) ==
  /\ \A q \in Queries : query[q] = "stepping" => cursor[q] = 0
  /\ Len(rows) <= MaxRows
  /\ table' = rows
  /\ UNCHANGED queryVars

(* The first sqlite3_step of QueryDB finds a row.                          *)
FirstRow(q, pos) ==
  /\ query[q] = "none" /\ table # <<>>
  /\ query' = [query EXCEPT ![q] = "stepping"]
  /\ cursor' = [cursor EXCEPT ![q] = 1]
  /\ scanned' = [scanned EXCEPT ![q] = table]
  /\ rowPos' = [rowPos EXCEPT ![q] = pos]
  /\ snapshot' = [snapshot EXCEPT ![q] = table]
  /\ UNCHANGED <<table, rowIndex, value, result, erred>>

(* It finds none, and `result` is returned without having been set; or it, *)
(* or a call before it, fails: false.                                      *)
NoRow(q, pos, returned) ==
  /\ query[q] = "none" /\ (returned => table = <<>>)
  /\ query' = [query EXCEPT ![q] = "answered"]
  /\ rowPos' = [rowPos EXCEPT ![q] = pos]
  /\ result' = [result EXCEPT ![q] = returned]
  /\ snapshot' = [snapshot EXCEPT ![q] = table]
  /\ UNCHANGED <<table, cursor, scanned, rowIndex, value, erred>>

(* Where sqlite3_step leads: to the next row; past the last one, which     *)
(* ends the statement; from there to the first row again (auto-reset).     *)
Step(q) ==
  CASE cursor[q] = 0 -> [to |-> IF table = <<>> THEN 0 ELSE 1, in |-> table]
    [] cursor[q] = Len(scanned[q]) -> [to |-> 0, in |-> scanned[q]]
    [] OTHER -> [to |-> cursor[q] + 1, in |-> scanned[q]]

(* sprintf("%s") of sqlite3_column_text, and "(null)" made empty.          *)
Shown(cell) == IF cell = NullCell THEN "" ELSE cell
(* mutant: the column of the row that the next step leads to               *)
ColumnAfterStep(q) == IF Step(q).to = 0 THEN NullCell ELSE Step(q).in[Step(q).to]
Column(q) == IF cursor[q] = 0 THEN NullCell ELSE scanned[q][cursor[q]]

(* One turn of the loop: the column of the row the statement is at, then a *)
(* step, which may fail; after the last turn sqlite3_finalize ends the     *)
(* statement and reports the failure of the last step.                     *)
LoopTurn(q, ok) ==
  LET last == rowIndex[q] = rowPos[q] IN
  /\ query[q] = "stepping"
  /\ value' = [value EXCEPT ![q] = IF Column(q) \in LongCells THEN @ ELSE Shown(Column(q))]
  /\ result' = [result EXCEPT ![q] = Column(q) \notin LongCells /\ (last => ok)]
  /\ cursor' = [cursor EXCEPT ![q] = IF ok /\ ~last THEN Step(q).to ELSE 0]
  /\ scanned' = [scanned EXCEPT ![q] = IF last THEN <<>> ELSE Step(q).in]
  /\ rowIndex' = [rowIndex EXCEPT ![q] = @ + 1]
  /\ query' = [query EXCEPT ![q] = IF last THEN "answered" ELSE @]
  /\ erred' = [erred EXCEPT ![q] = @ \/ ~ok]
  /\ UNCHANGED <<table, rowPos, snapshot>>

SqliteInit ==
  /\ table = <<>> /\ query = [q \in Queries |-> "none"]
  /\ cursor = [q \in Queries |-> 0] /\ rowPos = cursor /\ rowIndex = cursor
  /\ scanned = [q \in Queries |-> <<>>] /\ snapshot = scanned
  /\ value = [q \in Queries |-> ""]
  /\ result = [q \in Queries |-> FALSE] /\ erred = result

SqliteNext ==
  \/ \E rows \in Inserted \union Deleted \union Updated : ModifyDB(rows)
  \/ \E q \in Queries :
       \/ \E ok \in BOOLEAN : LoopTurn(q, ok)
       \/ \E pos \in 0 .. MaxRowPos :
            FirstRow(q, pos) \/ \E returned \in BOOLEAN : NoRow(q, pos, returned)

SqliteSpec == SqliteInit /\ [][SqliteNext]_sqliteVars

------------------------------------------------------------------------------
(* Whatever other processes do to the table meanwhile, a query that        *)
(* returned true, with a row_pos among the rows there were when it began,  *)
(* has the value of that row (lines 72-84), unless a step has failed on    *)
(* the way, after which the statement begins again from the first row.     *)
RowAskedFor ==
  \A q \in Queries :
    query[q] = "answered" /\ result[q] /\ ~erred[q] /\ rowPos[q] < Len(snapshot[q])
      => value[q] = Shown(snapshot[q][rowPos[q] + 1])
==============================================================================
