---------------------------- MODULE StoreProofs -----------------------------
(***************************************************************************)
(* Proofs about the stores: Occi for any connections and rows, SqliteWork  *)
(* for any tables and queries, MysqlEvents for any programs and groups of  *)
(* events, DirectoryTree for any tree, and DeviceXml for any lines that are *)
(* well formed.                                                            *)
(***************************************************************************)
EXTENDS Occi, SqliteWork, MysqlEvents, DirectoryTree, DeviceXml, FiniteSetTheorems, SequenceTheorems, TLAPS

------------------------------------------------------------------------------
(* Occi. What is committed are whole groups.                               *)

(* What a transaction may hold. A row is locked by one connection, which   *)
(* has changed it; a connection that is not in OCCI_UpdateMultiSql holds   *)
(* the row OCCI_UpdateSql has inserted, or none; one that is in it has     *)
(* given its name to the rows it holds among those it has come past.       *)
OneHolder == \A r \in Rows, c, d \in Conns : c \in holder[r] /\ d \in holder[r] => c = d
HeldChanged == \A r \in Rows, c \in Conns : c \in holder[r] => change[r] # Absent
ClosedHoldsNone == \A r \in Rows, c \in Conns : conn[c] = "none" => c \notin holder[r]
OpenHoldsInsert ==
  \A r \in Rows, c \in Conns :
    conn[c] = "open" /\ c \in holder[r] => r = 1 /\ change[r] = "insert"
MultiHasNamed ==
  \A r \in Rows, c \in Conns :
    conn[c] = "multi" /\ c \in holder[r] /\ r < iterIdx[c] => change[r] = c

OcciInv ==
  /\ OcciTypeOK /\ OnlyWholeGroups
  /\ OneHolder /\ HeldChanged /\ ClosedHoldsNone /\ OpenHoldsInsert /\ MultiHasNamed

LEMMA OcciInvInit == OcciInit => OcciInv
BY OcciAssumption
   DEF OcciInit, OcciInv, OcciTypeOK, OnlyWholeGroups, OneHolder, HeldChanged, ClosedHoldsNone,
       OpenHoldsInsert, MultiHasNamed, Name, Rows

(* Who holds a row, said with the sets that the actions compare.           *)
LEMMA HolderIs ==
  ASSUME OcciInv, NEW r \in Rows, NEW c \in Conns
  PROVE  /\ c \in holder[r] <=> holder[r] = {c}
         /\ Lockable(c, r) <=> \A d \in Conns : d \in holder[r] => d = c
BY DEF OcciInv, OcciTypeOK, OneHolder, Lockable

(* The transaction of c is over: its locks are gone, and no others.        *)
EndsTransaction(c) ==
  /\ Commit(c) \/ Rollback(c)
  /\ conn' \in [Conns -> {"none", "open", "multi"}]
  /\ iterIdx' \in [Conns -> 0 .. iterMax + 1]
  /\ \A d \in Conns \ {c} : conn'[d] = conn[d] /\ iterIdx'[d] = iterIdx[d]

LEMMA TransactionEnds ==
  ASSUME OcciInv, NEW c \in Conns, EndsTransaction(c)
  PROVE  /\ OneHolder' /\ HeldChanged' /\ ClosedHoldsNone' /\ OpenHoldsInsert' /\ MultiHasNamed'
         /\ holder' \in [Rows -> SUBSET Conns] /\ change' \in [Rows -> Name]
         /\ emp' \in [Rows -> Name]
         /\ conn' \in [Conns -> {"none", "open", "multi"}]
         /\ iterIdx' \in [Conns -> 0 .. iterMax + 1]
<1>1. \A r \in Rows : holder'[r] = holder[r] \ {c}
  BY DEF EndsTransaction, Commit, Rollback
<1>2. \A r \in Rows, d \in Conns : d \in holder'[r] => d # c /\ d \in holder[r] /\ r \notin Mine(c)
  BY <1>1, HolderIs DEF Mine
<1>3. \A r \in Rows : r \notin Mine(c) => change'[r] = change[r]
  BY DEF EndsTransaction, Commit, Rollback
<1>4. OneHolder' /\ HeldChanged' /\ ClosedHoldsNone' /\ OpenHoldsInsert' /\ MultiHasNamed'
  BY <1>2, <1>3
     DEF EndsTransaction, OcciInv, OneHolder, HeldChanged, ClosedHoldsNone, OpenHoldsInsert, MultiHasNamed, Rows
<1>5. holder' \in [Rows -> SUBSET Conns]
  BY DEF EndsTransaction, Commit, Rollback, OcciInv, OcciTypeOK
<1>6. change' \in [Rows -> Name] /\ emp' \in [Rows -> Name]
  BY DEF EndsTransaction, Commit, Rollback, OcciInv, OcciTypeOK, Sees, Name
<1>7. QED BY <1>4, <1>5, <1>6 DEF EndsTransaction

LEMMA OcciInvStep == OcciInv /\ [OcciNext]_occiVars => OcciInv'
<1> SUFFICES ASSUME OcciInv, [OcciNext]_occiVars PROVE OcciInv'
  OBVIOUS
<1>t. 1 \in Rows /\ iterMax \in Nat \ {0} /\ Absent \in Name /\ Absent # "insert"
  BY OcciAssumption DEF Rows, Name
<1>1. ASSUME NEW c \in Conns, CreateConnection(c) PROVE OcciInv'
  BY <1>1 DEF CreateConnection, OcciInv, OcciTypeOK, OnlyWholeGroups, OneHolder, HeldChanged,
              ClosedHoldsNone, OpenHoldsInsert, MultiHasNamed
<1>2. ASSUME NEW c \in Conns, NEW commits \in BOOLEAN, DestroyConnection(c, commits)
      PROVE OcciInv'
  <2>1. EndsTransaction(c)
    BY <1>2 DEF DestroyConnection, EndsTransaction, OcciInv, OcciTypeOK
  <2>2. whole' \in [Rows -> Name]
    BY <1>2 DEF DestroyConnection, OcciInv, OcciTypeOK, Name
  <2>3. emp' = whole'
    <3>1. CASE commits
      <4>1. \A r \in Rows : holder[r] = {c} => r = 1 /\ change[r] = "insert"
        BY <1>2 DEF DestroyConnection, OcciInv, OpenHoldsInsert
      <4>2. /\ emp' = [r \in Rows |-> Sees(c, r)]
            /\ whole' = IF holder[1] = {c} THEN [whole EXCEPT ![1] = "insert"] ELSE whole
        BY <1>2, <3>1 DEF DestroyConnection, Commit
      <4>3. \A r \in Rows : whole'[r] = Sees(c, r)
        BY <1>t, <4>1, <4>2 DEF Sees, OcciInv, OnlyWholeGroups, OcciTypeOK
      <4>4. QED BY <2>2, <4>2, <4>3
    <3>2. CASE ~commits
      BY <1>2, <3>2 DEF DestroyConnection, Rollback, OcciInv, OnlyWholeGroups
    <3>3. QED BY <3>1, <3>2
  <2>4. QED BY <2>1, <2>2, <2>3, TransactionEnds DEF OcciInv, OnlyWholeGroups, OcciTypeOK
<1>3. ASSUME NEW c \in Conns, UpdateSql(c) PROVE OcciInv'
  <2>1. OcciTypeOK' /\ OnlyWholeGroups'
    BY <1>3, <1>t DEF UpdateSql, OcciInv, OcciTypeOK, OnlyWholeGroups, Name
  <2>2. \A r \in Rows : r # 1 => holder'[r] = holder[r] /\ change'[r] = change[r]
    BY <1>3, <1>t DEF UpdateSql, OcciInv, OcciTypeOK
  <2>3. holder'[1] = {c} /\ change'[1] = "insert" /\ conn' = conn /\ iterIdx' = iterIdx
    BY <1>3, <1>t DEF UpdateSql, OcciInv, OcciTypeOK
  <2>4. conn[c] = "open"
    BY <1>3 DEF UpdateSql
  <2>5. OneHolder' BY <2>2, <2>3 DEF OcciInv, OneHolder
  <2>6. HeldChanged' BY <1>t, <2>2, <2>3 DEF OcciInv, HeldChanged
  <2>7. ClosedHoldsNone' BY <2>2, <2>3, <2>4 DEF OcciInv, ClosedHoldsNone
  <2>8. OpenHoldsInsert' BY <2>2, <2>3 DEF OcciInv, OpenHoldsInsert
  <2>9. MultiHasNamed' BY <2>2, <2>3, <2>4 DEF OcciInv, MultiHasNamed
  <2>10. QED BY <2>1, <2>5, <2>6, <2>7, <2>8, <2>9 DEF OcciInv
<1>4. ASSUME NEW c \in Conns, BeginMultiSql(c) PROVE OcciInv'
  <2>1. OcciTypeOK' /\ OnlyWholeGroups'
    BY <1>4, <1>t DEF BeginMultiSql, OcciInv, OcciTypeOK, OnlyWholeGroups
  <2>2. /\ conn'[c] = "multi" /\ iterIdx'[c] = 1 /\ holder' = holder /\ change' = change
        /\ \A d \in Conns \ {c} : conn'[d] = conn[d] /\ iterIdx'[d] = iterIdx[d]
    BY <1>4 DEF BeginMultiSql, OcciInv, OcciTypeOK
  <2>3. QED
    BY <2>1, <2>2 DEF OcciInv, OneHolder, HeldChanged, ClosedHoldsNone, OpenHoldsInsert,
                      MultiHasNamed, Rows
<1>5. ASSUME NEW c \in Conns, Iteration(c) PROVE OcciInv'
  <2> DEFINE r == iterIdx[c]
  <2>1. /\ conn[c] = "multi" /\ r \in Rows /\ conn' = conn /\ emp' = emp /\ whole' = whole
        /\ iterIdx' = [iterIdx EXCEPT ![c] = r + 1]
    BY <1>5 DEF Iteration
  <2>2. iterIdx' \in [Conns -> 0 .. iterMax + 1]
    BY <2>1, <1>t DEF OcciInv, OcciTypeOK, Rows
  <2>3. CASE Sees(c, r) = Absent
    <3>1. UNCHANGED <<holder, change>>
      BY <1>5, <2>3 DEF Iteration
    <3>2. c \notin holder[r]
      BY <2>1, <2>3, HolderIs DEF Sees, OcciInv, HeldChanged
    <3>3. MultiHasNamed'
      BY <2>1, <3>1, <3>2 DEF OcciInv, OcciTypeOK, MultiHasNamed, Rows
    <3>4. QED
      BY <2>1, <2>2, <3>1, <3>3 DEF OcciInv, OcciTypeOK, OnlyWholeGroups, OneHolder, HeldChanged,
                                    ClosedHoldsNone, OpenHoldsInsert
  <2>4. CASE Sees(c, r) # Absent
    <3>1. /\ Lockable(c, r) /\ holder' = [holder EXCEPT ![r] = {c}]
          /\ change' = [change EXCEPT ![r] = c]
      BY <1>5, <2>4 DEF Iteration
    <3>2. /\ holder'[r] = {c} /\ change'[r] = c
          /\ \A s \in Rows \ {r} : holder'[s] = holder[s] /\ change'[s] = change[s]
      BY <2>1, <3>1 DEF OcciInv, OcciTypeOK
    <3>3. OcciTypeOK' /\ OnlyWholeGroups'
      BY <2>1, <2>2, <3>1 DEF OcciInv, OcciTypeOK, OnlyWholeGroups, Name
    <3>4. OneHolder' BY <3>2 DEF OcciInv, OneHolder
    <3>5. HeldChanged' BY <3>2, OcciAssumption DEF OcciInv, HeldChanged
    <3>6. ClosedHoldsNone' BY <2>1, <3>2 DEF OcciInv, ClosedHoldsNone
    <3>7. OpenHoldsInsert' BY <2>1, <3>2 DEF OcciInv, OpenHoldsInsert
    <3>8. MultiHasNamed'
      BY <2>1, <3>2 DEF OcciInv, OcciTypeOK, MultiHasNamed, Rows
    <3>9. QED BY <3>3, <3>4, <3>5, <3>6, <3>7, <3>8 DEF OcciInv
  <2>5. QED BY <2>3, <2>4
<1>6. ASSUME NEW c \in Conns, MultiSqlCommit(c) PROVE OcciInv'
  <2>1. EndsTransaction(c)
    BY <1>6, <1>t DEF MultiSqlCommit, EndsTransaction, OcciInv, OcciTypeOK
  <2>2. whole' \in [Rows -> Name]
    BY <1>6 DEF MultiSqlCommit, OcciInv, OcciTypeOK, Name
  <2>3. \A r \in Rows : holder[r] = {c} => change[r] = c
    BY <1>6, <1>t DEF MultiSqlCommit, OcciInv, MultiHasNamed, Rows
  <2>4. emp' = whole'
    BY <1>6, <2>3 DEF MultiSqlCommit, Commit, Sees, Mine, OcciInv, OnlyWholeGroups
  <2>5. QED BY <2>1, <2>2, <2>4, TransactionEnds DEF OcciInv, OnlyWholeGroups, OcciTypeOK
<1>7. ASSUME NEW c \in Conns, MultiSqlFails(c) PROVE OcciInv'
  <2>1. EndsTransaction(c)
    BY <1>7, <1>t DEF MultiSqlFails, EndsTransaction, OcciInv, OcciTypeOK
  <2>2. emp' = emp /\ whole' = whole
    BY <1>7 DEF MultiSqlFails, Rollback
  <2>3. QED BY <2>1, <2>2, TransactionEnds DEF OcciInv, OnlyWholeGroups, OcciTypeOK
<1>8. ASSUME NEW c \in Conns, ConnectionLost(c) PROVE OcciInv'
  <2>1. EndsTransaction(c)
    BY <1>8, <1>t DEF ConnectionLost, EndsTransaction, OcciInv, OcciTypeOK
  <2>2. emp' = emp /\ whole' = whole
    BY <1>8 DEF ConnectionLost, Rollback
  <2>3. QED BY <2>1, <2>2, TransactionEnds DEF OcciInv, OnlyWholeGroups, OcciTypeOK
<1>9. CASE UNCHANGED occiVars
  BY <1>9 DEF occiVars, OcciInv, OcciTypeOK, OnlyWholeGroups, OneHolder, HeldChanged,
              ClosedHoldsNone, OpenHoldsInsert, MultiHasNamed
<1>10. QED
  BY <1>1, <1>2, <1>3, <1>4, <1>5, <1>6, <1>7, <1>8, <1>9 DEF OcciNext

(* The committed table shows only groups that were changed whole, with     *)
(* whatever calls failing half way, connections lost and commits of        *)
(* others in between.                                                      *)
THEOREM CommitsWholeGroups == OcciSpec => []OnlyWholeGroups
<1>1. OcciInv => OnlyWholeGroups BY DEF OcciInv
<1>2. QED BY OcciInvInit, OcciInvStep, <1>1, PTL DEF OcciSpec

------------------------------------------------------------------------------
(* SqliteWork. An answer is of the row that was asked for.                 *)

SqliteTypeOK ==
  /\ table \in Seq(Cells)
  /\ query \in [Queries -> {"none", "stepping", "answered"}]
  /\ cursor \in [Queries -> Nat] /\ rowPos \in [Queries -> Nat] /\ rowIndex \in [Queries -> Nat]
  /\ scanned \in [Queries -> Seq(Cells)] /\ snapshot \in [Queries -> Seq(Cells)]
  /\ result \in [Queries -> BOOLEAN] /\ erred \in [Queries -> BOOLEAN]
  /\ DOMAIN value = Queries

(* While no step has failed, the statement is at the row that the turn of  *)
(* the loop is about, and goes through the rows it found at first, as long *)
(* as there are any.                                                       *)
ScanInv(q) ==
  /\ query[q] = "none" => rowIndex[q] = 0
  /\ query[q] = "stepping" /\ ~erred[q] /\ rowIndex[q] < Len(snapshot[q]) =>
       scanned[q] = snapshot[q] /\ cursor[q] = rowIndex[q] + 1

AnswerInv(q) ==
  query[q] = "answered" /\ result[q] /\ ~erred[q] /\ rowPos[q] < Len(snapshot[q])
    => value[q] = Shown(snapshot[q][rowPos[q] + 1])

SqliteInv == SqliteTypeOK /\ \A q \in Queries : ScanInv(q) /\ AnswerInv(q)

LEMMA SqliteInvInit == SqliteInit => SqliteInv
<1> SUFFICES ASSUME SqliteInit PROVE SqliteInv
  OBVIOUS
<1>1. SqliteTypeOK
  <2>1. <<>> \in Seq(Cells)
    OBVIOUS
  <2>2. /\ cursor = [q \in Queries |-> 0] /\ rowPos = cursor /\ rowIndex = cursor
        /\ scanned = [q \in Queries |-> <<>>] /\ snapshot = scanned /\ table = <<>>
        /\ value = [q \in Queries |-> ""] /\ query = [q \in Queries |-> "none"]
        /\ result = [q \in Queries |-> FALSE] /\ erred = result
    BY DEF SqliteInit
  <2>3. cursor \in [Queries -> Nat] /\ scanned \in [Queries -> Seq(Cells)] /\ DOMAIN value = Queries
    BY <2>1, <2>2
  <2>4. result \in [Queries -> BOOLEAN] /\ query \in [Queries -> {"none", "stepping", "answered"}]
    BY <2>2
  <2>5. QED BY <2>1, <2>2, <2>3, <2>4 DEF SqliteTypeOK
<1>2. QED BY <1>1 DEF SqliteInit, SqliteInv, ScanInv, AnswerInv

(* A query that is not asked stays as it is.                               *)
LEMMA OtherQuery ==
  ASSUME SqliteInv, NEW q \in Queries,
         UNCHANGED <<query[q], cursor[q], scanned[q], rowPos[q], rowIndex[q], value[q], result[q],
                     snapshot[q], erred[q]>>
  PROVE  ScanInv(q)' /\ AnswerInv(q)'
BY DEF SqliteInv, ScanInv, AnswerInv

(* The rows of the table after a change by another process.                *)
LEMMA ModifiedTable ==
  ASSUME SqliteTypeOK, NEW new \in Inserted \union Deleted \union Updated
  PROVE  new \in Seq(Cells)
<1>1. table \in Seq(Cells)
  BY DEF SqliteTypeOK
<1>2. \A c \in Cells : Append(table, c) \in Seq(Cells)
  BY <1>1
<1>3. ASSUME NEW i \in DOMAIN table
      PROVE  SubSeq(table, 1, i - 1) \o SubSeq(table, i + 1, Len(table)) \in Seq(Cells)
  <2>1. SubSeq(table, 1, i - 1) \in Seq(Cells) /\ SubSeq(table, i + 1, Len(table)) \in Seq(Cells)
    BY <1>1
  <2>2. QED BY <2>1, ConcatProperties
<1>4. \A i \in DOMAIN table, c \in Cells : [table EXCEPT ![i] = c] \in Seq(Cells)
  BY <1>1
<1>5. CASE new \in Inserted
  BY <1>2, <1>5 DEF Inserted
<1>6. CASE new \in Deleted
  BY <1>3, <1>6 DEF Deleted
<1>7. CASE new \in Updated
  BY <1>4, <1>7 DEF Updated
<1>8. QED BY <1>5, <1>6, <1>7

LEMMA SqliteInvStep == SqliteInv /\ [SqliteNext]_sqliteVars => SqliteInv'
<1> SUFFICES ASSUME SqliteInv, [SqliteNext]_sqliteVars PROVE SqliteInv'
  OBVIOUS
<1>t. SqliteTypeOK
  BY DEF SqliteInv
<1>1. ASSUME NEW new \in Inserted \union Deleted \union Updated, ModifyDB(new) PROVE SqliteInv'
  <2>1. table' \in Seq(Cells) /\ UNCHANGED queryVars
    BY <1>1, <1>t, ModifiedTable DEF ModifyDB
  <2>2. SqliteTypeOK'
    BY <1>t, <2>1 DEF queryVars, SqliteTypeOK
  <2>3. \A q \in Queries : ScanInv(q)' /\ AnswerInv(q)'
    BY <2>1, OtherQuery DEF queryVars
  <2>4. QED BY <2>2, <2>3 DEF SqliteInv
<1>2. ASSUME NEW q \in Queries, NEW pos \in 0 .. MaxRowPos, FirstRow(q, pos) PROVE SqliteInv'
  <2>1. pos \in Nat /\ table \in Seq(Cells) /\ rowIndex[q] = 0
    BY <1>2, <1>t, SqliteAssumption DEF SqliteTypeOK, FirstRow, SqliteInv, ScanInv
  <2>2. SqliteTypeOK'
    BY <1>2, <1>t, <2>1 DEF FirstRow, SqliteTypeOK
  <2>3. ScanInv(q)' /\ AnswerInv(q)'
    BY <1>2, <1>t, <2>1 DEF FirstRow, SqliteTypeOK, ScanInv, AnswerInv
  <2>4. ASSUME NEW r \in Queries, r # q PROVE ScanInv(r)' /\ AnswerInv(r)'
    BY <1>2, <1>t, <2>4, OtherQuery DEF FirstRow, SqliteTypeOK
  <2>5. QED BY <2>2, <2>3, <2>4 DEF SqliteInv
<1>3. ASSUME NEW q \in Queries, NEW pos \in 0 .. MaxRowPos, NEW returned \in BOOLEAN,
             NoRow(q, pos, returned)
      PROVE SqliteInv'
  <2>1. pos \in Nat /\ table \in Seq(Cells)
    BY <1>t, SqliteAssumption DEF SqliteTypeOK
  <2>2. SqliteTypeOK'
    BY <1>3, <1>t, <2>1 DEF NoRow, SqliteTypeOK
  <2>3. /\ query'[q] = "answered" /\ result'[q] = returned /\ snapshot'[q] = table /\ rowPos'[q] = pos
        /\ returned => table = <<>>
    BY <1>3, <1>t DEF NoRow, SqliteTypeOK
  <2>4. ScanInv(q)' /\ AnswerInv(q)'
    BY <2>1, <2>3 DEF ScanInv, AnswerInv
  <2>5. ASSUME NEW r \in Queries, r # q PROVE ScanInv(r)' /\ AnswerInv(r)'
    BY <1>3, <1>t, <2>5, OtherQuery DEF NoRow, SqliteTypeOK
  <2>6. QED BY <2>2, <2>4, <2>5 DEF SqliteInv
<1>4. ASSUME NEW q \in Queries, NEW ok \in BOOLEAN, LoopTurn(q, ok) PROVE SqliteInv'
  <2> DEFINE last == rowIndex[q] = rowPos[q]
  <2>1. /\ query[q] = "stepping" /\ cursor[q] \in Nat /\ scanned[q] \in Seq(Cells)
        /\ rowIndex[q] \in Nat /\ rowPos[q] \in Nat /\ snapshot[q] \in Seq(Cells) /\ table \in Seq(Cells)
        /\ ScanInv(q)
    BY <1>4, <1>t DEF LoopTurn, SqliteTypeOK, SqliteInv
  <2>2. Step(q).to \in Nat /\ Step(q).in \in Seq(Cells)
    BY <2>1 DEF Step
  <2>3. /\ cursor'[q] = IF ok /\ ~last THEN Step(q).to ELSE 0
        /\ scanned'[q] = IF last THEN <<>> ELSE Step(q).in
        /\ rowIndex'[q] = rowIndex[q] + 1
        /\ query'[q] = IF last THEN "answered" ELSE query[q]
        /\ erred'[q] = (erred[q] \/ ~ok)
        /\ UNCHANGED <<table, rowPos, snapshot>>
    BY <1>4, <1>t DEF LoopTurn, SqliteTypeOK
  <2>4. /\ result'[q] = (Column(q) \notin LongCells /\ (last => ok))
        /\ value'[q] = IF Column(q) \in LongCells THEN value[q] ELSE Shown(Column(q))
    BY <1>4, <1>t DEF LoopTurn, SqliteTypeOK
  <2>5. SqliteTypeOK'
    <3>1. (IF ok /\ ~last THEN Step(q).to ELSE 0) \in Nat /\ (IF last THEN <<>> ELSE Step(q).in) \in Seq(Cells)
      BY <2>2
    <3>2. cursor' \in [Queries -> Nat] /\ scanned' \in [Queries -> Seq(Cells)]
      BY <1>4, <1>t, <3>1 DEF LoopTurn, SqliteTypeOK
    <3>3. /\ query' \in [Queries -> {"none", "stepping", "answered"}] /\ rowIndex' \in [Queries -> Nat]
          /\ DOMAIN value' = Queries
      BY <1>4, <1>t, <2>1 DEF LoopTurn, SqliteTypeOK
    <3>4. result' \in [Queries -> BOOLEAN] /\ erred' \in [Queries -> BOOLEAN]
      BY <1>4, <1>t DEF LoopTurn, SqliteTypeOK
    <3>5. QED BY <1>t, <2>3, <3>2, <3>3, <3>4 DEF SqliteTypeOK
  <2>6. ScanInv(q)'
    <3> SUFFICES ASSUME query'[q] = "stepping", ~erred'[q], rowIndex'[q] < Len(snapshot[q])
                 PROVE  scanned'[q] = snapshot[q] /\ cursor'[q] = rowIndex'[q] + 1
      BY <2>1, <2>3 DEF ScanInv
    <3>1. ~last /\ ok /\ ~erred[q] /\ rowIndex[q] + 1 < Len(snapshot[q])
      BY <2>3
    <3>2. scanned[q] = snapshot[q] /\ cursor[q] = rowIndex[q] + 1
      BY <2>1, <3>1 DEF ScanInv
    <3>3. Step(q) = [to |-> cursor[q] + 1, in |-> scanned[q]]
      BY <2>1, <3>1, <3>2 DEF Step
    <3>4. QED BY <2>3, <3>1, <3>2, <3>3
  <2>7. AnswerInv(q)'
    <3> SUFFICES ASSUME query'[q] = "answered", result'[q], ~erred'[q], rowPos[q] < Len(snapshot[q])
                 PROVE  value'[q] = Shown(snapshot[q][rowPos[q] + 1])
      BY <2>3 DEF AnswerInv, Shown
    <3>1. last /\ ~erred[q] /\ Column(q) \notin LongCells
      BY <2>1, <2>3, <2>4
    <3>2. scanned[q] = snapshot[q] /\ cursor[q] = rowPos[q] + 1
      BY <2>1, <3>1 DEF ScanInv
    <3>3. Column(q) = snapshot[q][rowPos[q] + 1]
      BY <2>1, <3>2 DEF Column
    <3>4. QED BY <2>4, <3>1, <3>3
  <2>8. ASSUME NEW r \in Queries, r # q PROVE ScanInv(r)' /\ AnswerInv(r)'
    BY <1>4, <1>t, <2>8, OtherQuery DEF LoopTurn, SqliteTypeOK
  <2>9. QED BY <2>5, <2>6, <2>7, <2>8 DEF SqliteInv
<1>5. CASE UNCHANGED sqliteVars
  BY <1>5 DEF sqliteVars, queryVars, SqliteInv, SqliteTypeOK, ScanInv, AnswerInv
<1>6. QED BY <1>1, <1>2, <1>3, <1>4, <1>5 DEF SqliteNext

(* A query in which no step failed answers with the row of the row_pos it  *)
(* was asked for, of the rows there were when it began, for any tables,    *)
(* queries and writers beside them.                                        *)
THEOREM AnswersRowAskedFor == SqliteSpec => []RowAskedFor
<1>1. SqliteInv => RowAskedFor
  BY DEF SqliteInv, AnswerInv, RowAskedFor
<1>2. QED BY SqliteInvInit, SqliteInvStep, <1>1, PTL DEF SqliteSpec

------------------------------------------------------------------------------
(* MysqlEvents. Every event is stored, and a pass misses no row.           *)

Row == [id : Nat, event : Nat]

EventsTypeOK ==
  /\ evtId \in Nat /\ page \in Nat
  /\ rows \in SUBSET Row /\ IsFiniteSet(rows)
  /\ inserting \in [Stores -> SUBSET Row]
  /\ eventIndex \in [Stores -> Nat] /\ failed \in [Stores -> Nat]
  /\ wrote \in [Stores -> {"idle", "writing", "true"}]
  /\ reading \in {"idle", "paging", "done", "overrun"}
  /\ seen \subseteq rows /\ old \subseteq rows

(* An id is given once, and a program inserts the event it has come to.    *)
IdInv ==
  /\ \A r \in rows : r.id < evtId /\ \A t \in rows : r.id = t.id => r = t
  /\ \A s \in Stores : \A r \in inserting[s] :
       /\ inserting[s] = {r} /\ r.id < evtId
       /\ wrote[s] = "writing" /\ r.event = Group[s][eventIndex[s]]
       /\ \A t \in rows : t.id # r.id
       /\ \A u \in Stores \ {s} : \A t \in inserting[u] : t.id # r.id

Count(s, i) == Stored(Group[s][i])

(* Has the call that s is in, or that has returned true, stored event i?   *)
Ahead(s, i) == wrote[s] = "true" \/ (wrote[s] = "writing" /\ i < eventIndex[s])

(* A call has stored once more what is ahead of it, and nothing else: that *)
(* is why the next event is stored less often than the one before it.      *)
CountInv(s) ==
  /\ wrote[s] = "writing" => eventIndex[s] \in 1 .. Len(Group[s])
  /\ \A i \in 1 .. Len(Group[s]) :
       /\ Count(s, i) <= failed[s] + (IF Ahead(s, i) THEN 1 ELSE 0)
       /\ Ahead(s, i) => Count(s, i) >= 1
       /\ i > 1 => Count(s, i) <= Count(s, i - 1)
       /\ i > 1 /\ wrote[s] = "writing" /\ i = eventIndex[s] => Count(s, i) < Count(s, i - 1)

(* Where a row stands in the order of the ids.                             *)
RankIn(R, r) == Cardinality({s \in R : s.id <= r.id})

(* Rows only move back: those of the first pages have been seen.           *)
PageInv ==
  /\ reading = "paging" => \A r \in old : RankIn(rows, r) <= NUM_PERPAGE * page => r \in seen
  /\ reading = "done" => old \subseteq seen
  /\ reading = "overrun" => NUM_PERPAGE * page > MAX_EVENT

EventsInv == EventsTypeOK /\ IdInv /\ (\A s \in Stores : CountInv(s)) /\ PageInv

(* What one more row changes.                                              *)
LEMMA RowAdded ==
  ASSUME NEW R \in SUBSET Row, IsFiniteSet(R), NEW x \in Row, x \notin R
  PROVE  /\ IsFiniteSet(R \union {x})
         /\ \A e : Cardinality({r \in R : r.event = e}) \in Nat
         /\ \A e : Cardinality({r \in R \union {x} : r.event = e})
                     = Cardinality({r \in R : r.event = e}) + (IF x.event = e THEN 1 ELSE 0)
         /\ \A r \in R : /\ RankIn(R, r) \in Nat /\ RankIn(R \union {x}, r) \in Nat
                         /\ RankIn(R, r) <= RankIn(R \union {x}, r)
<1>1. IsFiniteSet(R \union {x})
  BY FS_AddElement
<1>2. ASSUME NEW e
      PROVE  /\ Cardinality({r \in R : r.event = e}) \in Nat
             /\ Cardinality({r \in R \union {x} : r.event = e})
                     = Cardinality({r \in R : r.event = e}) + (IF x.event = e THEN 1 ELSE 0)
  <2> DEFINE those == {r \in R : r.event = e}
  <2>1. IsFiniteSet(those) /\ Cardinality(those) \in Nat
    BY FS_Subset, FS_CardinalityType
  <2> DEFINE more == {r \in R \union {x} : r.event = e}
  <2>2. x.event = e => Cardinality(more) = Cardinality(those) + 1
    <3> SUFFICES ASSUME x.event = e PROVE Cardinality(more) = Cardinality(those) + 1
      OBVIOUS
    <3>1. {r \in R \union {x} : r.event = e} = those \union {x} /\ x \notin those
      OBVIOUS
    <3>2. Cardinality(those \union {x}) = Cardinality(those) + 1
      BY <2>1, <3>1, FS_AddElement
    <3>3. QED BY <3>1, <3>2
  <2>3. x.event # e => more = those
    OBVIOUS
  <2>4. /\ Cardinality(those) \in Nat
        /\ Cardinality(more) = Cardinality(those) + (IF x.event = e THEN 1 ELSE 0)
    <3> HIDE DEF those, more
    <3>1. QED BY <2>1, <2>2, <2>3
  <2>5. QED BY <2>4
<1>3. ASSUME NEW r \in R
      PROVE  /\ RankIn(R, r) \in Nat /\ RankIn(R \union {x}, r) \in Nat
             /\ RankIn(R, r) <= RankIn(R \union {x}, r)
  <2> DEFINE before == {s \in R : s.id <= r.id}
             after == {s \in R \union {x} : s.id <= r.id}
  <2>1. IsFiniteSet(after)
    BY <1>1, FS_Subset
  <2>2. before \subseteq after
    OBVIOUS
  <2>3. IsFiniteSet(before) /\ Cardinality(before) <= Cardinality(after)
    BY <2>1, <2>2, FS_Subset
  <2>4. Cardinality(before) \in Nat /\ Cardinality(after) \in Nat
    BY <2>1, <2>3, FS_CardinalityType
  <2>5. QED BY <2>3, <2>4 DEF RankIn
<1>4. QED BY <1>1, <1>2, <1>3

(* The rows in order are a sequence of all of them, each at its rank.      *)
LEMMA RowsInOrder ==
  ASSUME EventsTypeOK, IdInv
  PROVE  /\ Cardinality(rows) \in Nat /\ InOrder \in Seq(rows) /\ Len(InOrder) = Cardinality(rows)
         /\ \A r \in rows : RankIn(rows, r) \in 1 .. Cardinality(rows) /\ InOrder[RankIn(rows, r)] = r
<1> DEFINE N == Cardinality(rows)
           f == [r \in rows |-> RankIn(rows, r)]
<1>1. N \in Nat /\ IsFiniteSet(rows) /\ rows \subseteq Row
  BY FS_CardinalityType DEF EventsTypeOK
<1>2. ASSUME NEW r \in rows PROVE RankIn(rows, r) \in 1 .. N
  <2> DEFINE upto == {s \in rows : s.id <= r.id}
  <2>1. IsFiniteSet(upto) /\ Cardinality(upto) <= N
    BY <1>1, FS_Subset
  <2>2. r \in upto
    BY <1>1 DEF Row
  <2>3. Cardinality(upto) # 0 /\ Cardinality(upto) \in Nat
    BY <2>1, <2>2, FS_EmptySet, FS_CardinalityType
  <2>4. QED BY <1>1, <2>1, <2>3 DEF RankIn
<1>3. ASSUME NEW r \in rows, NEW t \in rows, r.id < t.id PROVE RankIn(rows, r) # RankIn(rows, t)
  <2> DEFINE lower == {s \in rows : s.id <= r.id}
             upper == {s \in rows : s.id <= t.id}
  <2>1. IsFiniteSet(upper)
    BY <1>1, FS_Subset
  <2>2. r.id \in Nat /\ t.id \in Nat /\ \A s \in rows : s.id \in Nat
    BY <1>1 DEF Row
  <2>3. lower \subseteq upper /\ t \in upper /\ t \notin lower
    BY <1>3, <2>2
  <2>4. Cardinality(upper) = Cardinality(lower) => upper = lower
    BY <2>1, <2>3, FS_Subset
  <2>5. QED BY <2>3, <2>4 DEF RankIn
<1>4. ASSUME NEW r \in rows, NEW t \in rows, RankIn(rows, r) = RankIn(rows, t) PROVE r = t
  <2>1. r.id \in Nat /\ t.id \in Nat
    BY <1>1 DEF Row
  <2>2. r.id = t.id
    BY <1>3, <1>4, <2>1
  <2>3. QED BY <2>2 DEF IdInv
<1>5. f \in Injection(rows, 1 .. N)
  BY <1>2, <1>4 DEF Injection, IsInjective
<1>6. IsFiniteSet(1 .. N) /\ Cardinality(1 .. N) = N
  BY <1>1, FS_Interval
<1>7. f \in Surjection(rows, 1 .. N)
  <2> HIDE DEF f
  <2> QED BY <1>5, <1>6, FS_Injection
<1>8. ASSUME NEW i \in 1 .. N PROVE \E r \in rows : RankIn(rows, r) = i
  BY <1>7 DEF Surjection
<1>9. ASSUME NEW i \in 1 .. N PROVE InOrder[i] \in rows /\ RankIn(rows, InOrder[i]) = i
  <2>1. InOrder[i] = CHOOSE r \in rows : RankIn(rows, r) = i
    BY <1>9 DEF InOrder, RankIn
  <2>2. QED BY <1>8, <2>1
<1>10. InOrder \in Seq(rows) /\ Len(InOrder) = N
  <2> DEFINE at(i) == CHOOSE r \in rows : RankIn(rows, r) = i
  <2>1. InOrder = [i \in 1 .. N |-> at(i)]
    BY DEF InOrder, RankIn
  <2>2. \A i \in 1 .. N : at(i) \in rows
    BY <1>8
  <2> HIDE DEF at
  <2>3. InOrder \in [1 .. N -> rows]
    BY <2>1, <2>2
  <2> HIDE DEF N
  <2>4. QED BY <1>1, <2>3
<1>11. ASSUME NEW r \in rows PROVE InOrder[RankIn(rows, r)] = r
  <2>1. RankIn(rows, r) \in 1 .. N
    BY <1>2
  <2>2. QED BY <1>4, <1>9, <2>1
<1>12. QED BY <1>1, <1>2, <1>10, <1>11

LEMMA EventsInvInit == EventsInit => EventsInv
<1> SUFFICES ASSUME EventsInit PROVE EventsInv
  OBVIOUS
<1>1. \A e : Stored(e) = 0
  <2>1. ASSUME NEW e PROVE {r \in rows : r.event = e} = {}
    BY DEF EventsInit
  <2>2. QED BY <2>1, FS_EmptySet DEF Stored
<1>2. EventsTypeOK
  BY FS_EmptySet DEF EventsInit, EventsTypeOK
<1>3. IdInv
  BY DEF EventsInit, IdInv
<1>4. ASSUME NEW s \in Stores PROVE CountInv(s)
  <2>1. wrote[s] = "idle" /\ failed[s] = 0
    BY DEF EventsInit
  <2>2. \A i : ~Ahead(s, i)
    BY <2>1 DEF Ahead
  <2>3. \A i : Count(s, i) = 0
    BY <1>1 DEF Count
  <2>4. QED BY <2>1, <2>2, <2>3 DEF CountInv
<1>5. PageInv
  BY DEF EventsInit, PageInv
<1>6. QED BY <1>2, <1>3, <1>4, <1>5 DEF EventsInv

(* What a program has come to is the only event its row is of.             *)
LEMMA RowStored ==
  ASSUME EventsInv, NEW s \in Stores, inserting[s] # {}, rows' = rows \union inserting[s]
  PROVE  /\ rows' \in SUBSET Row /\ IsFiniteSet(rows') /\ wrote[s] = "writing"
         /\ \A u \in Stores : \A i \in 1 .. Len(Group[u]) :
              /\ Count(u, i) \in Nat
              /\ Count(u, i)' = Count(u, i) + (IF u = s /\ i = eventIndex[s] THEN 1 ELSE 0)
         /\ \A r \in rows : /\ RankIn(rows, r) \in Nat /\ RankIn(rows', r) \in Nat
                            /\ RankIn(rows, r) <= RankIn(rows', r)
<1> PICK x \in inserting[s] : TRUE
  OBVIOUS
<1>1. rows \in SUBSET Row /\ IsFiniteSet(rows) /\ x \in Row
  BY DEF EventsInv, EventsTypeOK
<1>2. /\ inserting[s] = {x} /\ x \notin rows /\ wrote[s] = "writing"
      /\ x.event = Group[s][eventIndex[s]]
  BY DEF EventsInv, IdInv
<1>3. rows' = rows \union {x}
  BY <1>2
<1>4. eventIndex[s] \in 1 .. Len(Group[s])
  BY <1>2 DEF EventsInv, CountInv
<1>5. ASSUME NEW u \in Stores, NEW i \in 1 .. Len(Group[u])
      PROVE  /\ Count(u, i) \in Nat
             /\ Count(u, i)' = Count(u, i) + (IF u = s /\ i = eventIndex[s] THEN 1 ELSE 0)
  <2>1. /\ Count(u, i) \in Nat
        /\ Count(u, i)' = Count(u, i) + (IF x.event = Group[u][i] THEN 1 ELSE 0)
    <3> DEFINE e == Group[u][i]
    <3>1. x \notin rows
      BY <1>2
    <3>2. /\ Cardinality({r \in rows : r.event = e}) \in Nat
          /\ Cardinality({r \in rows \union {x} : r.event = e})
               = Cardinality({r \in rows : r.event = e}) + (IF x.event = e THEN 1 ELSE 0)
      <4> HIDE DEF e
      <4>1. rows \in SUBSET Row /\ IsFiniteSet(rows) /\ x \in Row
        BY <1>1
      <4>2. QED BY ONLY <3>1, <4>1, RowAdded
    <3>3. QED BY <1>3, <3>2 DEF Count, Stored
  <2>2. Group[u] \in Seq(Nat) /\ Group[s] \in Seq(Nat) /\ IsInjective(Group[s])
    BY EventsAssumption
  <2>3. x.event = Group[u][i] <=> u = s /\ i = eventIndex[s]
    <3>1. CASE u = s
      BY <1>2, <1>4, <2>2, <3>1 DEF IsInjective
    <3>2. CASE u # s
      <4>1. Range(Group[s]) \cap Range(Group[u]) = {}
        BY <3>2, EventsAssumption
      <4>2. Group[u][i] \in Range(Group[u]) /\ x.event \in Range(Group[s])
        <5>1. \A t \in Stores : \A j \in 1 .. Len(Group[t]) : Group[t][j] \in Range(Group[t])
          <6>1. \A t \in Stores : Group[t] \in Seq(Nat)
            BY EventsAssumption
          <6>2. \A t \in Stores : DOMAIN Group[t] = 1 .. Len(Group[t])
            BY <6>1
          <6>3. QED BY <6>2 DEF Range
        <5>2. QED BY <1>2, <1>4, <5>1
      <4>3. QED BY <3>2, <4>1, <4>2
    <3>3. QED BY <3>1, <3>2
  <2>4. QED BY <2>1, <2>3
<1>6. QED BY <1>1, <1>2, <1>3, <1>5, RowAdded

(* A pass goes on as the pages do.                                         *)
LEMMA PageRead ==
  ASSUME EventsInv, ReadPage
  PROVE  PageInv' /\ EventsTypeOK'
<1> DEFINE start == NUM_PERPAGE * page
           N == Cardinality(rows)
           upto == IF start + (start + NUM_PERPAGE) < N THEN start + (start + NUM_PERPAGE) ELSE N
           given == Page(page)
<1>1. /\ N \in Nat /\ InOrder \in Seq(rows) /\ Len(InOrder) = N
      /\ \A r \in rows : RankIn(rows, r) \in 1 .. N /\ InOrder[RankIn(rows, r)] = r
  BY RowsInOrder DEF EventsInv
<1>2. page \in Nat /\ NUM_PERPAGE \in Nat \ {0} /\ MAX_EVENT \in Nat \ {0}
  BY EventsAssumption DEF EventsInv, EventsTypeOK
<1>3. start \in Nat /\ NUM_PERPAGE * (page + 1) = start + NUM_PERPAGE
  BY <1>2
<1>4. given = SubSeq(InOrder, start + 1, upto)
  BY <1>1 DEF Page, StartPoint
<1> HIDE DEF start, N, given
<1>5. upto \in Nat /\ upto <= N
  BY <1>1, <1>2, <1>3
<1>6. /\ given \in Seq(rows)
      /\ Len(given) = IF start + 1 <= upto THEN upto - start ELSE 0
      /\ \A k \in 1 .. Len(given) : given[k] = InOrder[start + k]
  <2>1. /\ Len(given) = IF start + 1 <= upto THEN upto - start ELSE 0
        /\ \A k \in 1 .. Len(given) : given[k] = InOrder[start + k]
    BY <1>1, <1>3, <1>4, <1>5
  <2>2. given \in Seq(rows)
    BY <1>1, <1>3, <1>4, <1>5
  <2>3. QED BY <2>1, <2>2
<1>7. Range(given) \subseteq rows
  BY <1>6 DEF Range
<1>8. EventsTypeOK'
  BY <1>2, <1>7 DEF EventsInv, EventsTypeOK, ReadPage, storeVars, given
<1>9. ASSUME NEW r \in rows, start < RankIn(rows, r), RankIn(rows, r) <= upto
      PROVE  r \in Range(given)
  <2> DEFINE k == RankIn(rows, r) - start
  <2>1. k \in 1 .. Len(given)
    <3>1. RankIn(rows, r) \in Nat
      BY <1>1
    <3>2. Len(given) = IF start + 1 <= upto THEN upto - start ELSE 0
      BY <1>6
    <3> HIDE DEF upto
    <3>3. QED BY <1>3, <1>5, <1>9, <3>1, <3>2
  <2>2. given[k] = r
    <3>1. RankIn(rows, r) \in Nat /\ InOrder[RankIn(rows, r)] = r
      BY <1>1
    <3>2. given[k] = InOrder[start + k] /\ start + k = RankIn(rows, r)
      BY <1>3, <1>6, <2>1, <3>1
    <3>3. QED BY <3>1, <3>2
  <2>3. QED BY <1>6, <2>1, <2>2 DEF Range
<1>10. old \subseteq rows /\ rows' = rows /\ old' = old /\ page' = page + 1 /\ seen' = seen \union Range(given)
  BY DEF EventsInv, EventsTypeOK, ReadPage, storeVars, given
<1>11. \A r \in old : RankIn(rows, r) <= start => r \in seen
  BY DEF EventsInv, PageInv, ReadPage, start
<1>12. \A r \in old : RankIn(rows, r) <= upto => r \in seen'
  BY <1>1, <1>3, <1>9, <1>10, <1>11
<1>13. \A r \in old : RankIn(rows, r) <= NUM_PERPAGE * page' => r \in seen'
  BY <1>1, <1>2, <1>3, <1>10, <1>12
<1>14. reading' = "done" => old' \subseteq seen'
  <2> SUFFICES ASSUME reading' = "done" PROVE old' \subseteq seen'
    OBVIOUS
  <2>1. Len(given) < NUM_PERPAGE
    BY DEF ReadPage, given
  <2>2. upto = N \/ upto <= start
    BY <1>1, <1>2, <1>3, <1>6, <2>1
  <2>3. upto = N
    BY <1>1, <1>2, <1>3, <2>2
  <2>4. QED BY <1>1, <1>10, <1>12, <2>3
<1>15. reading' = "overrun" => NUM_PERPAGE * page' > MAX_EVENT
  <2> SUFFICES ASSUME reading' = "overrun" PROVE NUM_PERPAGE * page' > MAX_EVENT
    OBVIOUS
  <2>1. Len(given) > MAX_EVENT
    BY DEF ReadPage, given
  <2>2. upto - start <= start + NUM_PERPAGE
    BY <1>1, <1>2, <1>3
  <2>3. NUM_PERPAGE * page' = start + NUM_PERPAGE
    BY <1>3, <1>10
  <2> HIDE DEF upto
  <2>4. start + NUM_PERPAGE > MAX_EVENT
    BY <1>2, <1>3, <1>5, <1>6, <2>1, <2>2
  <2>5. QED BY <2>3, <2>4
<1>16. \A r \in old' : RankIn(rows', r) <= NUM_PERPAGE * page' => r \in seen'
  BY <1>10, <1>13
<1>17. QED BY <1>8, <1>14, <1>15, <1>16 DEF PageInv

(* A row more, of the program that inserts it.                             *)
LEMMA IdsStay ==
  ASSUME EventsInv, NEW s \in Stores, inserting[s] # {},
         rows' = rows \union inserting[s] \/ rows' = rows,
         inserting' = [inserting EXCEPT ![s] = {}],
         evtId' = evtId,
         \A u \in Stores \ {s} : wrote'[u] = wrote[u] /\ eventIndex'[u] = eventIndex[u]
  PROVE  IdInv'
<1> PICK x \in inserting[s] : TRUE
  OBVIOUS
<1>1. /\ inserting \in [Stores -> SUBSET Row] /\ IdInv
  BY DEF EventsInv, EventsTypeOK
<1>2. inserting[s] = {x} /\ x.id < evtId /\ \A t \in rows : t.id # x.id
  BY <1>1 DEF IdInv
<1>3. \A u \in Stores : inserting'[u] = IF u = s THEN {} ELSE inserting[u]
  BY <1>1
<1>4. \A r \in rows' : r \in rows \/ r = x
  BY <1>2
<1>5. \A r \in rows' : r.id < evtId' /\ \A t \in rows' : r.id = t.id => r = t
  BY <1>1, <1>2, <1>4 DEF IdInv
<1>6. ASSUME NEW u \in Stores, NEW r \in inserting'[u]
      PROVE  /\ inserting'[u] = {r} /\ r.id < evtId'
             /\ wrote'[u] = "writing" /\ r.event = Group[u][eventIndex'[u]]
             /\ \A t \in rows' : t.id # r.id
             /\ \A v \in Stores \ {u} : \A t \in inserting'[v] : t.id # r.id
  <2>1. u # s /\ r \in inserting[u] /\ inserting'[u] = inserting[u]
    BY <1>3
  <2>2. /\ inserting[u] = {r} /\ r.id < evtId
        /\ wrote[u] = "writing" /\ r.event = Group[u][eventIndex[u]]
        /\ \A t \in rows : t.id # r.id
        /\ \A v \in Stores \ {u} : \A t \in inserting[v] : t.id # r.id
    BY <1>1, <2>1 DEF IdInv
  <2>3. x.id # r.id
    BY <2>1, <2>2
  <2>4. \A t \in rows' : t.id # r.id
    BY <1>4, <2>2, <2>3
  <2>5. \A v \in Stores \ {u} : \A t \in inserting'[v] : t.id # r.id
    BY <1>3, <2>2
  <2>6. QED BY <2>1, <2>2, <2>4, <2>5
<1>7. QED BY <1>5, <1>6 DEF IdInv

(* Rows of others, and of this program, only push a row back.              *)
LEMMA PagesStay ==
  ASSUME EventsInv, rows \subseteq rows', UNCHANGED pageVars,
         \A r \in rows : RankIn(rows, r) \in Nat /\ RankIn(rows, r) <= RankIn(rows', r),
         \A r \in rows : RankIn(rows', r) \in Nat
  PROVE  PageInv'
<1>1. /\ old \subseteq rows /\ page \in Nat /\ NUM_PERPAGE \in Nat /\ PageInv
      /\ page' = page /\ reading' = reading /\ seen' = seen /\ old' = old
  BY EventsAssumption DEF EventsInv, EventsTypeOK, pageVars
<1> DEFINE start == NUM_PERPAGE * page
<1>2. start \in Nat
  BY <1>1
<1>3. reading = "paging" => \A r \in old : RankIn(rows, r) <= start => r \in seen
  BY <1>1 DEF PageInv
<1>4. \A r \in old : RankIn(rows', r) <= start => RankIn(rows, r) <= start
  <2> HIDE DEF start
  <2> QED BY <1>1, <1>2
<1>5. reading' = "paging" => \A r \in old' : RankIn(rows', r) <= NUM_PERPAGE * page' => r \in seen'
  BY <1>1, <1>3, <1>4
<1>6. QED BY <1>1, <1>5 DEF PageInv

(* The counts of a program that neither calls nor returns stay as they are *)
(* when an event of another one's group is stored.                         *)
LEMMA OthersCount ==
  ASSUME NEW u \in Stores, CountInv(u),
         wrote'[u] = wrote[u], eventIndex'[u] = eventIndex[u], failed'[u] = failed[u],
         \A i \in 1 .. Len(Group[u]) : Count(u, i)' = Count(u, i)
  PROVE  CountInv(u)'
<1>1. \A i : Ahead(u, i)' <=> Ahead(u, i)
  BY DEF Ahead
<1>2. Group[u] \in Seq(Nat)
  BY EventsAssumption
<1>3. ASSUME NEW i \in 1 .. Len(Group[u])
      PROVE  /\ Count(u, i)' <= failed'[u] + (IF Ahead(u, i)' THEN 1 ELSE 0)
             /\ Ahead(u, i)' => Count(u, i)' >= 1
             /\ i > 1 => Count(u, i)' <= Count(u, i - 1)'
             /\ i > 1 /\ wrote'[u] = "writing" /\ i = eventIndex'[u] => Count(u, i)' < Count(u, i - 1)'
  <2>1. i > 1 => Count(u, i - 1)' = Count(u, i - 1)
    BY <1>2
  <2>2. QED BY <1>1, <2>1 DEF CountInv
<1>4. QED BY <1>3 DEF CountInv

(* The event a program has come to is stored, and it goes on to the next.  *)
LEMMA NextEventCount ==
  ASSUME EventsInv, NEW s \in Stores, inserting[s] # {}, rows' = rows \union inserting[s],
         NextEvent(s), failed' = failed
  PROVE  CountInv(s)'
<1> DEFINE e == eventIndex[s]
           L == Len(Group[s])
<1>1. wrote[s] = "writing" /\ CountInv(s)
  BY DEF EventsInv, IdInv
<1>2. e \in 1 .. L /\ L \in Nat /\ failed[s] \in Nat
  BY <1>1, EventsAssumption DEF CountInv, EventsInv, EventsTypeOK
<1>3. eventIndex'[s] = e + 1 /\ wrote'[s] = (IF e = L THEN "true" ELSE "writing") /\ failed'[s] = failed[s]
  BY <1>1 DEF NextEvent, EventsInv, EventsTypeOK
<1>4. \A i \in 1 .. L : /\ Count(s, i) \in Nat
                        /\ Count(s, i)' = Count(s, i) + (IF i = e THEN 1 ELSE 0)
  BY RowStored
<1>5. \A i \in 1 .. L : (Ahead(s, i) <=> i < e) /\ (Ahead(s, i)' <=> i <= e)
  BY <1>1, <1>2, <1>3 DEF Ahead
<1>6. ASSUME NEW i \in 1 .. L
      PROVE  /\ Count(s, i)' <= failed'[s] + (IF Ahead(s, i)' THEN 1 ELSE 0)
             /\ Ahead(s, i)' => Count(s, i)' >= 1
             /\ i > 1 => Count(s, i)' <= Count(s, i - 1)'
             /\ i > 1 /\ wrote'[s] = "writing" /\ i = eventIndex'[s] => Count(s, i)' < Count(s, i - 1)'
  <2>1. /\ Count(s, i) <= failed[s] + (IF Ahead(s, i) THEN 1 ELSE 0)
        /\ Ahead(s, i) => Count(s, i) >= 1
        /\ i > 1 => Count(s, i) <= Count(s, i - 1)
        /\ i > 1 /\ i = e => Count(s, i) < Count(s, i - 1)
    BY <1>1 DEF CountInv
  <2>2. i > 1 => i - 1 \in 1 .. L
    BY <1>2
  <2>3. /\ Count(s, i) \in Nat /\ Count(s, i)' = Count(s, i) + (IF i = e THEN 1 ELSE 0)
        /\ i > 1 => /\ Count(s, i - 1) \in Nat
                    /\ Count(s, i - 1)' = Count(s, i - 1) + (IF i - 1 = e THEN 1 ELSE 0)
    BY <1>4, <2>2
  <2>4. (Ahead(s, i) <=> i < e) /\ (Ahead(s, i)' <=> i <= e)
    BY <1>5
  <2> HIDE DEF e, L
  <2>5. /\ Count(s, i)' <= failed'[s] + (IF Ahead(s, i)' THEN 1 ELSE 0)
        /\ Ahead(s, i)' => Count(s, i)' >= 1
    BY <1>2, <1>3, <2>1, <2>3, <2>4
  <2>6. i > 1 => Count(s, i)' <= Count(s, i - 1)'
    BY <1>2, <2>1, <2>3
  <2>7. i > 1 /\ i = eventIndex'[s] => Count(s, i)' < Count(s, i - 1)'
    BY <1>2, <1>3, <2>1, <2>3
  <2>8. QED BY <2>5, <2>6, <2>7
<1>7. wrote'[s] = "writing" => eventIndex'[s] \in 1 .. L
  BY <1>2, <1>3
<1>8. QED BY <1>6, <1>7 DEF CountInv

(* A call that fails has stored no event that its failure does not count.  *)
LEMMA FailedCount ==
  ASSUME EventsInv, NEW s \in Stores, inserting[s] # {},
         rows' = rows \union inserting[s] \/ rows' = rows,
         wrote'[s] = "idle", failed'[s] = failed[s] + 1
  PROVE  CountInv(s)'
<1> DEFINE e == eventIndex[s]
           L == Len(Group[s])
<1>1. wrote[s] = "writing" /\ CountInv(s)
  BY DEF EventsInv, IdInv
<1>2. e \in 1 .. L /\ L \in Nat /\ failed[s] \in Nat
  BY <1>1, EventsAssumption DEF CountInv, EventsInv, EventsTypeOK
<1>3. PICK one \in {0, 1} :
        \A i \in 1 .. L : /\ Count(s, i) \in Nat
                          /\ Count(s, i)' = Count(s, i) + (IF i = e THEN one ELSE 0)
  <2>1. CASE rows' = rows \union inserting[s]
    <3>1. \A i \in 1 .. L : /\ Count(s, i) \in Nat
                            /\ Count(s, i)' = Count(s, i) + (IF i = e THEN 1 ELSE 0)
      BY <2>1, RowStored
    <3>2. QED BY <3>1
  <2>2. CASE rows' = rows
    <3>1. \A i \in 1 .. L : Count(s, i) \in Nat
      <4>1. rows \subseteq Row /\ IsFiniteSet(rows)
        BY DEF EventsInv, EventsTypeOK
      <4>2. \A event : IsFiniteSet({r \in rows : r.event = event})
        BY <4>1, FS_Subset
      <4>3. QED BY <4>2, FS_CardinalityType DEF Count, Stored
    <3>2. \A i \in 1 .. L : Count(s, i)' = Count(s, i)
      BY <2>2 DEF Count, Stored
    <3>3. \A i \in 1 .. L : /\ Count(s, i) \in Nat
                            /\ Count(s, i)' = Count(s, i) + (IF i = e THEN 0 ELSE 0)
      BY <3>1, <3>2
    <3>4. QED BY <3>3
  <2>3. QED BY <2>1, <2>2
<1>4. \A i \in 1 .. L : (Ahead(s, i) <=> i < e) /\ ~Ahead(s, i)'
  BY <1>1 DEF Ahead
<1>5. ASSUME NEW i \in 1 .. L
      PROVE  /\ Count(s, i)' <= failed'[s] + (IF Ahead(s, i)' THEN 1 ELSE 0)
             /\ Ahead(s, i)' => Count(s, i)' >= 1
             /\ i > 1 => Count(s, i)' <= Count(s, i - 1)'
             /\ i > 1 /\ wrote'[s] = "writing" /\ i = eventIndex'[s] => Count(s, i)' < Count(s, i - 1)'
  <2>1. /\ Count(s, i) <= failed[s] + (IF Ahead(s, i) THEN 1 ELSE 0)
        /\ i > 1 => Count(s, i) <= Count(s, i - 1)
        /\ i > 1 /\ i = e => Count(s, i) < Count(s, i - 1)
    BY <1>1 DEF CountInv
  <2>2. i > 1 => i - 1 \in 1 .. L
    BY <1>2
  <2>3. /\ Count(s, i) \in Nat /\ Count(s, i)' = Count(s, i) + (IF i = e THEN one ELSE 0)
        /\ i > 1 => /\ Count(s, i - 1) \in Nat
                    /\ Count(s, i - 1)' = Count(s, i - 1) + (IF i - 1 = e THEN one ELSE 0)
    BY <1>3, <2>2
  <2>4. (Ahead(s, i) <=> i < e) /\ ~Ahead(s, i)'
    BY <1>4
  <2> HIDE DEF e, L
  <2>5. Count(s, i)' <= failed'[s]
    BY <1>2, <2>1, <2>3, <2>4
  <2>6. i > 1 => Count(s, i)' <= Count(s, i - 1)'
    BY <1>2, <2>1, <2>3
  <2>7. failed'[s] \in Nat
    BY <1>2
  <2>8. QED BY <2>3, <2>4, <2>5, <2>6, <2>7
<1>6. QED BY <1>5 DEF CountInv

(* The rows and what has been committed or not of one INSERT.              *)
LEMMA InsertEnds ==
  ASSUME EventsInv, NEW s \in Stores, inserting[s] # {},
         rows' = rows \union inserting[s] \/ rows' = rows,
         inserting' = [inserting EXCEPT ![s] = {}], evtId' = evtId, UNCHANGED pageVars,
         \A u \in Stores \ {s} :
           wrote'[u] = wrote[u] /\ eventIndex'[u] = eventIndex[u] /\ failed'[u] = failed[u],
         eventIndex' \in [Stores -> Nat], failed' \in [Stores -> Nat],
         wrote' \in [Stores -> {"idle", "writing", "true"}]
  PROVE  EventsTypeOK' /\ IdInv' /\ PageInv' /\ \A u \in Stores \ {s} : CountInv(u)'
<1>1. EventsTypeOK
  BY DEF EventsInv
<1>2. /\ rows' \in SUBSET Row /\ IsFiniteSet(rows') /\ rows \subseteq rows'
      /\ \A r \in rows : /\ RankIn(rows, r) \in Nat /\ RankIn(rows', r) \in Nat
                         /\ RankIn(rows, r) <= RankIn(rows', r)
  <2>1. CASE rows' = rows \union inserting[s]
    BY <2>1, RowStored
  <2>2. CASE rows' = rows
    <3>1. \A r \in rows : RankIn(rows, r) \in 1 .. Cardinality(rows) /\ Cardinality(rows) \in Nat
      BY RowsInOrder DEF EventsInv
    <3>2. \A r \in rows : RankIn(rows, r) \in Nat /\ RankIn(rows, r) <= RankIn(rows, r)
      BY <3>1
    <3>3. QED BY <1>1, <2>2, <3>2 DEF EventsTypeOK
  <2>3. QED BY <2>1, <2>2
<1>3. EventsTypeOK'
  BY <1>1, <1>2 DEF EventsTypeOK, pageVars
<1>4. IdInv'
  BY IdsStay
<1>5. PageInv'
  BY <1>2, PagesStay
<1>6. ASSUME NEW u \in Stores \ {s} PROVE CountInv(u)'
  <2>1. CASE rows' = rows \union inserting[s]
    <3>1. \A i \in 1 .. Len(Group[u]) : /\ Count(u, i) \in Nat
                                        /\ Count(u, i)' = Count(u, i) + (IF u = s THEN 1 ELSE 0)
      BY <2>1, RowStored
    <3>2. \A i \in 1 .. Len(Group[u]) : Count(u, i)' = Count(u, i)
      BY <3>1
    <3>3. QED BY <3>2, OthersCount DEF EventsInv
  <2>2. CASE rows' = rows
    <3>1. \A i \in 1 .. Len(Group[u]) : Count(u, i)' = Count(u, i)
      BY <2>2 DEF Count, Stored
    <3>2. QED BY <3>1, OthersCount DEF EventsInv
  <2>3. QED BY <2>1, <2>2
<1>7. QED BY <1>3, <1>4, <1>5, <1>6

LEMMA EventsInvStep == EventsInv /\ [EventsNext]_eventVars => EventsInv'
<1> SUFFICES ASSUME EventsInv, [EventsNext]_eventVars PROVE EventsInv'
  OBVIOUS
<1>1. EventsTypeOK /\ IdInv /\ PageInv /\ (\A s \in Stores : CountInv(s))
  BY DEF EventsInv
<1>2. ASSUME rows' = rows PROVE \A u \in Stores : \A i \in 1 .. Len(Group[u]) : Count(u, i)' = Count(u, i)
  BY <1>2 DEF Count, Stored
<1>3. CASE BeginPages
  <2>1. EventsTypeOK'
    BY <1>1, <1>3 DEF BeginPages, storeVars, EventsTypeOK
  <2>2. IdInv'
    BY <1>1, <1>3 DEF BeginPages, storeVars, IdInv
  <2>3. \A s \in Stores : CountInv(s)'
    BY <1>1, <1>2, <1>3, OthersCount DEF BeginPages, storeVars
  <2>4. \A r \in rows : RankIn(rows, r) \in 1 .. Cardinality(rows)
    BY <1>1, RowsInOrder
  <2>5. NUM_PERPAGE * 0 = 0
    BY EventsAssumption
  <2>6. \A r \in rows : ~(RankIn(rows, r) <= 0)
    BY <1>1, <2>4, RowsInOrder
  <2>7. PageInv'
    BY <1>3, <2>5, <2>6 DEF BeginPages, storeVars, PageInv
  <2>8. QED BY <2>1, <2>2, <2>3, <2>7 DEF EventsInv
<1>4. CASE ReadPage
  <2>1. PageInv' /\ EventsTypeOK'
    BY <1>4, PageRead
  <2>2. IdInv'
    BY <1>1, <1>4 DEF ReadPage, storeVars, IdInv
  <2>3. \A s \in Stores : CountInv(s)'
    BY <1>1, <1>2, <1>4, OthersCount DEF ReadPage, storeVars
  <2>4. QED BY <2>1, <2>2, <2>3 DEF EventsInv
<1>5. ASSUME NEW s \in Stores, BeginStore(s) PROVE EventsInv'
  <2>1. EventsTypeOK'
    BY <1>1, <1>5 DEF BeginStore, pageVars, EventsTypeOK
  <2>2. inserting[s] = {}
    BY <1>1, <1>5 DEF BeginStore, IdInv
  <2>3. IdInv'
    BY <1>1, <1>5, <2>2 DEF BeginStore, pageVars, IdInv, EventsTypeOK
  <2>4. PageInv'
    BY <1>1, <1>5 DEF BeginStore, pageVars, PageInv
  <2>5. ASSUME NEW u \in Stores PROVE CountInv(u)'
    <3>1. CASE u # s
      BY <1>1, <1>2, <1>5, <3>1, OthersCount DEF BeginStore, EventsTypeOK
    <3>2. CASE u = s
      <4>1. /\ wrote'[s] = (IF Group[s] = <<>> THEN "true" ELSE "writing")
            /\ eventIndex'[s] = 1 /\ failed'[s] = failed[s] /\ wrote[s] = "idle"
        BY <1>1, <1>5 DEF BeginStore, EventsTypeOK
      <4>2. Group[s] \in Seq(Nat) /\ (Group[s] = <<>> <=> Len(Group[s]) = 0) /\ Len(Group[s]) \in Nat
        BY EventsAssumption
      <4>3. \A i \in 1 .. Len(Group[s]) : ~Ahead(s, i)' /\ ~Ahead(s, i)
        BY <4>1, <4>2 DEF Ahead
      <4>4. \A i \in 1 .. Len(Group[s]) : Count(s, i)' = Count(s, i)
        BY <1>2, <1>5 DEF BeginStore
      <4>5. \A i \in 1 .. Len(Group[s]) : i > 1 => i - 1 \in 1 .. Len(Group[s])
        BY <4>2
      <4>6. \A i \in 1 .. Len(Group[s]) : i > 1 => Count(s, i - 1)' = Count(s, i - 1)
        BY <4>4, <4>5
      <4>7. QED BY <1>1, <3>2, <4>1, <4>2, <4>3, <4>4, <4>6 DEF CountInv
    <3>3. QED BY <3>1, <3>2
  <2>6. QED BY <2>1, <2>3, <2>4, <2>5 DEF EventsInv
<1>6. ASSUME NEW s \in Stores, StartInsert(s) PROVE EventsInv'
  <2> DEFINE x == [id |-> evtId, event |-> Group[s][eventIndex[s]]]
  <2>1. Group[s] \in Seq(Nat) /\ eventIndex[s] \in 1 .. Len(Group[s])
    BY <1>1, <1>6, EventsAssumption DEF StartInsert, CountInv
  <2>2. x \in Row
    BY <1>1, <2>1 DEF Row, EventsTypeOK
  <2>3. /\ \A u \in Stores : inserting'[u] = IF u = s THEN {x} ELSE inserting[u]
        /\ evtId' = evtId + 1 /\ evtId \in Nat
    BY <1>1, <1>6 DEF StartInsert, EventsTypeOK
  <2>4. EventsTypeOK'
    BY <1>1, <1>6, <2>2 DEF StartInsert, pageVars, EventsTypeOK
  <2>5. PageInv'
    BY <1>1, <1>6 DEF StartInsert, pageVars, PageInv
  <2>6. \A u \in Stores : CountInv(u)'
    BY <1>1, <1>2, <1>6, OthersCount DEF StartInsert
  <2>7. /\ \A t \in rows : t.id \in Nat /\ t.id < evtId
        /\ \A u \in Stores : \A t \in inserting[u] : t.id \in Nat /\ t.id < evtId
    BY <1>1 DEF EventsTypeOK, IdInv, Row
  <2>8. IdInv'
    <3>1. \A r \in rows' : r.id < evtId' /\ \A t \in rows' : r.id = t.id => r = t
      BY <1>1, <1>6, <2>3, <2>7 DEF IdInv, StartInsert
    <3>2. ASSUME NEW u \in Stores, NEW r \in inserting'[u]
          PROVE  /\ inserting'[u] = {r} /\ r.id < evtId'
                 /\ wrote'[u] = "writing" /\ r.event = Group[u][eventIndex'[u]]
                 /\ \A t \in rows' : t.id # r.id
                 /\ \A v \in Stores \ {u} : \A t \in inserting'[v] : t.id # r.id
      <4>1. CASE u = s
        BY <1>6, <2>3, <2>7, <4>1 DEF StartInsert
      <4>2. CASE u # s
        <5>1. r \in inserting[u] /\ inserting'[u] = inserting[u] /\ r.id < evtId /\ r.id \in Nat
          BY <2>3, <2>7, <4>2
        <5>2. \A v \in Stores \ {u} : \A t \in inserting'[v] : t.id # r.id
          BY <1>1, <2>3, <5>1 DEF IdInv
        <5>3. QED BY <1>1, <1>6, <2>3, <5>1, <5>2 DEF IdInv, StartInsert
      <4>3. QED BY <4>1, <4>2
    <3>3. QED BY <3>1, <3>2 DEF IdInv
  <2>9. QED BY <2>4, <2>5, <2>6, <2>8 DEF EventsInv
<1>7. ASSUME NEW s \in Stores, CommitInsert(s) PROVE EventsInv'
  <2>1. CountInv(s)'
    BY <1>7, NextEventCount DEF CommitInsert
  <2>2. /\ eventIndex' \in [Stores -> Nat] /\ failed' \in [Stores -> Nat]
        /\ wrote' \in [Stores -> {"idle", "writing", "true"}]
        /\ \A u \in Stores \ {s} :
             wrote'[u] = wrote[u] /\ eventIndex'[u] = eventIndex[u] /\ failed'[u] = failed[u]
    <3>1. eventIndex[s] + 1 \in Nat /\ wrote[s] \in {"idle", "writing", "true"}
      BY <1>1 DEF EventsTypeOK
    <3>2. QED BY <1>1, <1>7, <3>1 DEF CommitInsert, NextEvent, EventsTypeOK
  <2>3. EventsTypeOK' /\ IdInv' /\ PageInv' /\ \A u \in Stores \ {s} : CountInv(u)'
    BY <1>7, <2>2, InsertEnds DEF CommitInsert
  <2>4. QED BY <2>1, <2>3 DEF EventsInv
<1>8. ASSUME NEW s \in Stores, NEW committed \in BOOLEAN, InsertFails(s, committed) PROVE EventsInv'
  <2>1. rows' = rows \union inserting[s] \/ rows' = rows
    BY <1>8 DEF InsertFails
  <2>2. /\ eventIndex' \in [Stores -> Nat] /\ failed' \in [Stores -> Nat]
        /\ wrote' \in [Stores -> {"idle", "writing", "true"}]
        /\ \A u \in Stores \ {s} :
             wrote'[u] = wrote[u] /\ eventIndex'[u] = eventIndex[u] /\ failed'[u] = failed[u]
        /\ wrote'[s] = "idle" /\ failed'[s] = failed[s] + 1
    <3>1. failed[s] + 1 \in Nat
      BY <1>1 DEF EventsTypeOK
    <3>2. QED BY <1>1, <1>8, <3>1 DEF InsertFails, ReturnFalse, EventsTypeOK
  <2>3. EventsTypeOK' /\ IdInv' /\ PageInv' /\ \A u \in Stores \ {s} : CountInv(u)'
    BY <1>8, <2>1, <2>2, InsertEnds DEF InsertFails
  <2>4. CountInv(s)'
    BY <1>8, <2>1, <2>2, FailedCount DEF InsertFails
  <2>5. QED BY <2>3, <2>4 DEF EventsInv
<1>9. CASE UNCHANGED eventVars
  <2>1. UNCHANGED storeVars /\ UNCHANGED pageVars
    BY <1>9 DEF eventVars, storeVars, pageVars
  <2>2. EventsTypeOK' /\ IdInv' /\ PageInv'
    BY <1>1, <2>1 DEF storeVars, pageVars, EventsTypeOK, IdInv, PageInv
  <2>3. \A s \in Stores : CountInv(s)'
    BY <1>1, <1>2, <2>1, OthersCount DEF storeVars
  <2>4. QED BY <2>2, <2>3 DEF EventsInv
<1>10. QED BY <1>3, <1>4, <1>5, <1>6, <1>7, <1>8, <1>9 DEF EventsNext

LEMMA EventsInvHolds == EventsSpec => []EventsInv
<1>1. QED BY EventsInvInit, EventsInvStep, PTL DEF EventsSpec

(* What Mysql_WriteEvent has said is stored is in the table, whatever fails *)
(* and whoever else writes: with the program's calls counted, an event is  *)
(* stored as often as it was tried at most, and never before those ahead   *)
(* of it in its group.                                                     *)
THEOREM EventsAreStored == EventsSpec => []StoredAtLeastOnce
<1>1. EventsInv => StoredAtLeastOnce
  <2> SUFFICES ASSUME EventsInv, NEW s \in Stores, NEW i \in DOMAIN Group[s]
               PROVE  /\ wrote[s] = "true" => Stored(Group[s][i]) >= 1
                      /\ Stored(Group[s][i]) <= failed[s] + 1
                      /\ i > 1 => Stored(Group[s][i]) <= Stored(Group[s][i - 1])
    BY DEF StoredAtLeastOnce
  <2>1. i \in 1 .. Len(Group[s])
    BY EventsAssumption
  <2>2. CountInv(s) /\ failed[s] \in Nat /\ IsFiniteSet(rows)
    BY DEF EventsInv, EventsTypeOK
  <2>3. IsFiniteSet({r \in rows : r.event = Group[s][i]})
    BY <2>2, FS_Subset
  <2>4. Count(s, i) \in Nat
    BY <2>3, FS_CardinalityType DEF Count, Stored
  <2>5. /\ Count(s, i) <= failed[s] + (IF Ahead(s, i) THEN 1 ELSE 0)
        /\ Ahead(s, i) => Count(s, i) >= 1
        /\ i > 1 => Count(s, i) <= Count(s, i - 1)
    BY <2>1, <2>2 DEF CountInv
  <2>6. QED BY <2>2, <2>4, <2>5 DEF Count, Ahead
<1>2. QED BY <1>1, EventsInvHolds, PTL

(* No page of a pass, however the rows commit while it goes on, hides a row *)
(* that was there when the pass began.                                     *)
THEOREM PassMissesNoRow == EventsSpec => []NoRowMissed
<1>1. EventsInv => NoRowMissed
  BY DEF EventsInv, EventsTypeOK, PageInv, NoRowMissed
<1>2. QED BY <1>1, EventsInvHolds, PTL

------------------------------------------------------------------------------
(* DirectoryTree. Nothing outside the tree is touched, and what is left    *)
(* of it is told.                                                          *)

(* The tree: every node is under itself and what its parent is under, and  *)
(* under nothing else; under a node that is no directory there is nothing. *)
LEMMA UnderSelf ==
  ASSUME NEW n \in Nodes
  PROVE  Under(n, n)
BY DEF Under, Ancestors

LEMMA UnderUp ==
  ASSUME NEW n \in Nodes, NEW d, Under(n, d)
  PROVE  d \in Nodes /\ Parent[n] \in Nodes /\ Parent[d] \in Nodes /\ Under(n, Parent[d])
<1>1. Parent \in [Nodes -> Nodes]
  BY DirectoryAssumption
<1>2. d \in Nodes /\ Parent[d] \in Nodes /\ Parent[n] \in Nodes
  BY <1>1 DEF Under, Ancestors
<1>3. \A S \in SUBSET Nodes : n \in S /\ (\A m \in S : Parent[m] \in S) => d \in S
  BY DEF Under, Ancestors
<1>4. \A S \in SUBSET Nodes : n \in S /\ (\A m \in S : Parent[m] \in S) => Parent[d] \in S
  BY <1>3
<1>5. Under(n, Parent[d])
  BY <1>2, <1>4 DEF Under, Ancestors
<1>6. QED BY <1>2, <1>5

LEMMA UnderParent ==
  ASSUME NEW n \in Nodes, NEW d
  PROVE  /\ Under(Parent[n], d) => Under(n, d)
         /\ Under(n, d) /\ n # d => Under(Parent[n], d)
<1>1. Parent \in [Nodes -> Nodes] /\ Parent[n] \in Nodes
  BY DirectoryAssumption
<1>2. ASSUME Under(Parent[n], d) PROVE Under(n, d)
  <2>1. d \in Nodes /\ \A S \in SUBSET Nodes : Parent[n] \in S /\ (\A m \in S : Parent[m] \in S) => d \in S
    BY <1>1, <1>2 DEF Under, Ancestors
  <2>2. \A S \in SUBSET Nodes : n \in S /\ (\A m \in S : Parent[m] \in S) => d \in S
    BY <2>1
  <2>3. QED BY <2>1, <2>2 DEF Under, Ancestors
<1>3. ASSUME Under(n, d), n # d PROVE Under(Parent[n], d)
  <2>1. d \in Nodes /\ \A S \in SUBSET Nodes : n \in S /\ (\A m \in S : Parent[m] \in S) => d \in S
    BY <1>3 DEF Under, Ancestors
  <2>2. ASSUME NEW S \in SUBSET Nodes, Parent[n] \in S, \A m \in S : Parent[m] \in S
        PROVE  d \in S
    <3>1. S \union {n} \in SUBSET Nodes /\ \A m \in S \union {n} : Parent[m] \in S \union {n}
      BY <2>2
    <3>2. d \in S \union {n}
      BY <2>1, <3>1
    <3>3. QED BY <1>3, <3>2
  <2>3. QED BY <1>1, <2>1, <2>2 DEF Under, Ancestors
<1>4. QED BY <1>2, <1>3

LEMMA UnderTrans ==
  ASSUME NEW n \in Nodes, NEW m, NEW d, Under(n, m), Under(m, d)
  PROVE  Under(n, d)
<1>1. m \in Nodes /\ \A S \in SUBSET Nodes : n \in S /\ (\A x \in S : Parent[x] \in S) => m \in S
  BY DEF Under, Ancestors
<1>2. d \in Nodes /\ \A S \in SUBSET Nodes : m \in S /\ (\A x \in S : Parent[x] \in S) => d \in S
  BY <1>1 DEF Under, Ancestors
<1>3. \A S \in SUBSET Nodes : n \in S /\ (\A x \in S : Parent[x] \in S) => d \in S
  BY <1>1, <1>2
<1>4. QED BY <1>2, <1>3 DEF Under, Ancestors

(* What lies under a directory, but is not it, lies under an entry of it.  *)
Closed(P) == P \in SUBSET Nodes /\ \A n \in P : Parent[n] \in P

LEMMA UnderEntry ==
  ASSUME NEW P, Closed(P), NEW n \in P, NEW d, Under(n, d), n # d
  PROVE  \E m \in P : Parent[m] = d /\ m # d /\ Under(n, m)
<1>1. n \in Nodes /\ P \in SUBSET Nodes /\ \A x \in P : Parent[x] \in P
  BY DEF Closed
<1> DEFINE S == {x \in P : Under(n, x) /\ x # d}
<1>2. n \in S /\ S \in SUBSET Nodes /\ d \notin S
  BY <1>1, UnderSelf
<1>3. ~(\A x \in S : Parent[x] \in S)
  <2> HIDE DEF S
  <2>1. QED BY <1>1, <1>2 DEF Under, Ancestors
<1>4. PICK x \in S : Parent[x] \notin S
  BY <1>3
<1>5. Parent[x] \in P /\ Under(n, Parent[x])
  BY <1>1, UnderUp
<1>6. QED BY <1>4, <1>5

LEMMA NothingUnder ==
  ASSUME NEW n \in Nodes, NEW d, Under(n, d), dType[d] # DT_DIR
  PROVE  n = d
<1> SUFFICES ASSUME n # d PROVE FALSE
  OBVIOUS
<1>1. Closed(Nodes)
  BY DirectoryAssumption DEF Closed
<1>2. PICK m \in Nodes : Parent[m] = d
  BY <1>1, UnderEntry
<1>3. QED BY <1>2, DirectoryAssumption

LEMMA Acyclic ==
  ASSUME NEW n \in Nodes, NEW d, Under(n, d), Under(d, n)
  PROVE  n = d
BY UnderUp, DirectoryAssumption

------------------------------------------------------------------------------
(* Of two directories something is in, one is in the other. *)
LEMMA Comparable ==
  ASSUME NEW n \in Nodes, NEW d, NEW e, Under(n, d), Under(n, e)
  PROVE  Under(e, d) \/ Under(d, e)
<1> DEFINE S == {y \in Nodes : Under(n, y) /\ (Under(y, d) \/ Under(d, y))}
<1>1. n \in S
  BY UnderSelf
<1>2. ASSUME NEW y \in S PROVE Parent[y] \in S
  <2>1. Parent[y] \in Nodes /\ Under(n, Parent[y])
    BY UnderUp
  <2>2. d \in Nodes
    BY UnderUp
  <2>3. CASE Under(d, y)
    BY <2>1, <2>2, <2>3, UnderUp
  <2>4. CASE Under(y, d) /\ y # d
    BY <2>1, <2>4, UnderParent
  <2>5. CASE y = d
    BY <2>2, <2>3, <2>5, UnderSelf
  <2>6. QED BY <2>3, <2>4, <2>5
<1>3. S \in SUBSET Nodes
  OBVIOUS
<1> HIDE DEF S
<1>4. e \in S
  BY <1>1, <1>2, <1>3 DEF Under, Ancestors
<1>5. QED BY <1>4 DEF S

(* What something present is in is present. *)
LEMMA UpPresent ==
  ASSUME NEW P, Closed(P), NEW n \in P, NEW d, Under(n, d)
  PROVE  d \in P
<1>1. n \in Nodes /\ P \in SUBSET Nodes /\ \A m \in P : Parent[m] \in P
  BY DEF Closed
<1>2. QED BY <1>1 DEF Under, Ancestors

------------------------------------------------------------------------------
(* The types; the calls, each for a directory that the call may come to,   *)
(* with entries of it; what is opened next, an entry of the last.          *)
Frames == [dir : Nodes, todo : SUBSET Nodes]
Reach(x) == Under(x, Emptied) \/ \E m \in Swapped : Under(x, opens[m])

TreeTypeOK ==
  /\ Closed(present) /\ Closed(first) /\ opens \in [Nodes -> Nodes]
  /\ calls \in Seq(Frames) /\ opening \in SUBSET Nodes /\ deleted \in SUBSET BOOLEAN
  /\ deleted # {} => ~InCall
  /\ ~InCall /\ deleted = {} => Swapped = {} /\ kept = {} /\ refused = {}

FramesInv ==
  /\ \A i \in DOMAIN calls :
       /\ dType[Dir(i)] = DT_DIR /\ Reach(Dir(i))
       /\ \A m \in calls[i].todo : Parent[m] = Dir(i) /\ m # Dir(i)
  /\ calls # <<>> => calls[1].dir = Root

OpeningInv ==
  \A n \in opening :
    IF calls = <<>> THEN n = Root ELSE n \in Top.todo /\ n \notin Unfilled /\ IsDir(dType[n])

OutsideInv == \A n \in first : n \in present \/ Reach(n)

(* While no link takes a directory's place: the calls are for directories  *)
(* each in the one before it, with nothing between them, and none is under *)
(* an entry yet to be dealt with.                                          *)
CallsApart ==
  /\ \A i, j \in DOMAIN calls : i # j => Dir(i) # Dir(j)
  /\ \A i, j \in DOMAIN calls : \A m \in calls[i].todo : ~Under(Dir(j), m)
  /\ \A i \in DOMAIN calls :
       i > 1 => calls[i].dir = Dir(i) /\ Parent[Dir(i)] = Dir(i - 1) /\ Dir(i) \notin Unfilled
  /\ \A i \in DOMAIN calls : \A x :
       Under(Dir(i), x) /\ Under(x, Emptied) => \E j \in DOMAIN calls : j <= i /\ x = Dir(j)

AllThere == \A i \in DOMAIN calls : Dir(i) \in present /\ calls[i].todo \subseteq present

(* What is to be dealt with is there, and nothing about it is settled; of  *)
(* the rest there is what is left in the end.                              *)
Pending(x) ==
  \/ \E i \in DOMAIN calls : x = Dir(i) \/ \E m \in calls[i].todo : Under(x, m)
  \/ calls = <<>> /\ opening # {} /\ Under(x, Emptied)
Settled(x) == x \in kept \/ \E r \in refused : Under(x, r)

Done ==
  \A x \in first : Under(x, Emptied) =>
    /\ Pending(x) => x \in present /\ ~Settled(x)
    /\ Stays(x) => x \in present
    /\ x \in present => Pending(x) \/ Left(x) \/ AddedUnder(x)

LinkStands == (calls # <<>> \/ deleted # {}) /\ Emptied # Root => Emptied \in present

QuietInv ==
  Swapped = {} /\ (InCall \/ deleted = {TRUE}) => CallsApart /\ AllThere /\ Done /\ LinkStands

TreeInv == TreeTypeOK /\ FramesInv /\ OpeningInv /\ OutsideInv /\ QuietInv

LEMMA Types ==
  ASSUME NEW n \in Nodes
  PROVE  /\ Opened(n) \in Nodes
         /\ dType[n] # DT_LNK => Opened(n) = n
         /\ IsDir(dType[n]) => dType[n] \in {DT_DIR, DT_BLK, DT_SOCK}
         /\ dType[n] \in {DT_DIR, DT_BLK, DT_SOCK} => IsDir(dType[n]) /\ dType[n] # DT_LNK
<1>1. dType[n] \in {6, 4, 10, 8, 12}
  BY DirectoryAssumption DEF DT_BLK, DT_DIR, DT_LNK, DT_REG, DT_SOCK
<1>2. Opened(n) \in Nodes /\ (dType[n] # DT_LNK => Opened(n) = n)
  BY DirectoryAssumption DEF Opened
<1>3. IsDir(dType[n]) <=> dType[n] \in {6, 4, 12}
  <2>1. (6 \div 4) % 2 = 1 /\ (4 \div 4) % 2 = 1 /\ (12 \div 4) % 2 = 1
        /\ (10 \div 4) % 2 = 0 /\ (8 \div 4) % 2 = 0
    OBVIOUS
  <2>2. QED BY <1>1, <2>1 DEF IsDir
<1>4. QED BY <1>1, <1>2, <1>3 DEF DT_BLK, DT_DIR, DT_LNK, DT_REG, DT_SOCK

LEMMA TopIsIn == Emptied \in Nodes /\ Root \in Nodes /\ Under(Emptied, Emptied)
BY DirectoryAssumption, Types, UnderSelf DEF Emptied

LEMMA NoCalls ==
  /\ <<>> \in Seq(Frames) /\ DOMAIN <<>> = {}
  /\ \A cs \in Seq(Frames) : cs # <<>> =>
       Len(cs) \in Nat \ {0} /\ DOMAIN cs = 1 .. Len(cs) /\ Len(cs) \in DOMAIN cs /\ 1 \in DOMAIN cs
<1>1. ASSUME NEW cs \in Seq(Frames), cs # <<>>
      PROVE  Len(cs) \in Nat \ {0} /\ DOMAIN cs = 1 .. Len(cs)
  BY <1>1, EmptySeq
<1>2. QED BY <1>1

(* What holds of the calls while there are some. *)
LEMMA CallFacts ==
  ASSUME TreeInv, calls # <<>>
  PROVE  /\ calls \in Seq(Frames) /\ Len(calls) \in Nat \ {0}
         /\ DOMAIN calls = 1 .. Len(calls) /\ Len(calls) \in DOMAIN calls /\ 1 \in DOMAIN calls
         /\ calls[1].dir = Root /\ Dir(1) = opens[Root]
         /\ deleted = {} /\ InCall /\ opens \in [Nodes -> Nodes]
         /\ Closed(present) /\ Closed(first) /\ present \subseteq Nodes /\ first \subseteq Nodes
         /\ \A i \in DOMAIN calls :
              /\ calls[i].dir \in Nodes /\ calls[i].todo \subseteq Nodes
              /\ dType[Dir(i)] = DT_DIR /\ Dir(i) \in Nodes /\ Reach(Dir(i))
              /\ \A m \in calls[i].todo : Parent[m] = Dir(i) /\ m # Dir(i) /\ Under(m, Dir(i))
<1>1. calls \in Seq(Frames) /\ opens \in [Nodes -> Nodes] /\ Closed(present) /\ Closed(first)
  BY DEF TreeInv, TreeTypeOK
<1>2. /\ Len(calls) \in Nat \ {0}
      /\ DOMAIN calls = 1 .. Len(calls) /\ Len(calls) \in DOMAIN calls /\ 1 \in DOMAIN calls
  BY <1>1, NoCalls
<1>3. InCall /\ deleted = {}
  BY DEF InCall, TreeInv, TreeTypeOK
<1>4. calls[1].dir = Root /\ Dir(1) = opens[Root]
  BY DEF TreeInv, FramesInv, Dir
<1>5. ASSUME NEW i \in DOMAIN calls
      PROVE  /\ calls[i].dir \in Nodes /\ calls[i].todo \subseteq Nodes
             /\ dType[Dir(i)] = DT_DIR /\ Dir(i) \in Nodes /\ Reach(Dir(i))
             /\ \A m \in calls[i].todo : Parent[m] = Dir(i) /\ m # Dir(i) /\ Under(m, Dir(i))
  <2>1. calls[i] \in Frames
    BY <1>1, <1>2, ElementOfSeq
  <2>2. calls[i].dir \in Nodes /\ calls[i].todo \subseteq Nodes
    BY <2>1 DEF Frames
  <2>3. /\ dType[Dir(i)] = DT_DIR /\ Reach(Dir(i))
        /\ \A m \in calls[i].todo : Parent[m] = Dir(i) /\ m # Dir(i)
    BY DEF TreeInv, FramesInv
  <2>4. Dir(i) \in Nodes
    BY <1>1, <2>2 DEF Dir
  <2>5. \A m \in calls[i].todo : Under(m, Dir(i))
    BY <2>2, <2>3, <2>4, UnderSelf, UnderParent
  <2>6. QED BY <2>2, <2>3, <2>4, <2>5
<1>6. present \subseteq Nodes /\ first \subseteq Nodes
  BY <1>1 DEF Closed
<1>7. QED BY <1>1, <1>2, <1>3, <1>4, <1>5, <1>6

LEMMA OthersAre ==
  ASSUME calls \in Seq(Frames), calls # <<>>
  PROVE  /\ Others \in Seq(Frames)
         /\ Len(Others) = Len(calls) - 1 /\ DOMAIN Others = 1 .. Len(calls) - 1
         /\ \A i \in 1 .. Len(calls) - 1 : Others[i] = calls[i]
<1> DEFINE L == Len(calls)
<1>1. L \in Nat \ {0} /\ \A i \in 1 .. L : calls[i] \in Frames
  BY EmptySeq, ElementOfSeq
<1>2. 1 \in Int /\ L - 1 \in Int /\ \A i \in 1 .. L - 1 : calls[i] \in Frames
  BY <1>1
<1> HIDE DEF L
<1>3. /\ SubSeq(calls, 1, L - 1) \in Seq(Frames)
      /\ Len(SubSeq(calls, 1, L - 1)) = IF 1 <= L - 1 THEN L - 1 - 1 + 1 ELSE 0
      /\ \A i \in 1 .. L - 1 - 1 + 1 : SubSeq(calls, 1, L - 1)[i] = calls[1 + i - 1]
  BY <1>2, SubSeqProperties
<1>4. L - 1 - 1 + 1 = L - 1 /\ (IF 1 <= L - 1 THEN L - 1 - 1 + 1 ELSE 0) = L - 1
  BY <1>1
<1>5. \A i \in 1 .. L - 1 : 1 + i - 1 = i
  BY <1>1
<1>6. Others = SubSeq(calls, 1, L - 1)
  BY DEF Others, L
<1>7. Others \in Seq(Frames) /\ Len(Others) = L - 1 /\ \A i \in 1 .. L - 1 : Others[i] = calls[i]
  BY <1>3, <1>4, <1>5, <1>6
<1>8. DOMAIN Others = 1 .. L - 1
  BY <1>7
<1>9. QED BY <1>7, <1>8 DEF L

LEMMA GivenIs ==
  ASSUME calls \in Seq(Frames), calls # <<>>, NEW S
  PROVE  /\ Given(S) \in Seq(Frames) /\ Len(Given(S)) = Len(calls)
         /\ DOMAIN Given(S) = DOMAIN calls
         /\ \A i \in DOMAIN calls :
              /\ Given(S)[i].dir = calls[i].dir
              /\ Given(S)[i].todo = IF i = Len(calls) THEN calls[i].todo \ S ELSE calls[i].todo
<1> DEFINE L == Len(calls)
           last == [dir |-> Top.dir, todo |-> Top.todo \ S]
<1>1. L \in Nat \ {0} /\ DOMAIN calls = 1 .. L /\ calls[L] \in Frames
  <2>1. L \in Nat \ {0} /\ DOMAIN calls = 1 .. L
    BY EmptySeq
  <2>2. \A i \in 1 .. L : calls[i] \in Frames
    BY ElementOfSeq
  <2>3. QED BY <2>1, <2>2
<1>2. last \in Frames /\ last.dir = calls[L].dir /\ last.todo = calls[L].todo \ S
  BY <1>1 DEF Top, Frames
<1>3. Others \in Seq(Frames) /\ Len(Others) = L - 1 /\ \A i \in 1 .. L - 1 : Others[i] = calls[i]
  BY OthersAre
<1> HIDE DEF L, last
<1>4. /\ Append(Others, last) \in Seq(Frames) /\ Len(Append(Others, last)) = Len(Others) + 1
      /\ \A i \in 1 .. Len(Others) : Append(Others, last)[i] = Others[i]
      /\ Append(Others, last)[Len(Others) + 1] = last
  BY <1>2, <1>3, AppendProperties
<1>5. Given(S) = Append(Others, last)
  BY DEF Given, last
<1>6. L - 1 + 1 = L
  BY <1>1
<1>7. /\ Given(S) \in Seq(Frames) /\ Len(Given(S)) = L
      /\ \A i \in 1 .. L - 1 : Given(S)[i] = calls[i]
      /\ Given(S)[L] = last
  BY <1>3, <1>4, <1>5, <1>6
<1>8. DOMAIN Given(S) = 1 .. L
  BY <1>7
<1>9. \A i \in 1 .. L : i = L \/ i \in 1 .. L - 1
  BY <1>1
<1>10. \A i \in 1 .. L : i \in 1 .. L - 1 => i # L
  BY <1>1
<1>11. \A i \in 1 .. L :
         /\ Given(S)[i].dir = calls[i].dir
         /\ Given(S)[i].todo = IF i = L THEN calls[i].todo \ S ELSE calls[i].todo
  BY <1>2, <1>7, <1>9, <1>10
<1>12. QED BY <1>1, <1>7, <1>8, <1>11 DEF L

(* What stays the same while no link takes a directory's place. *)
LEMMA SameLinks ==
  ASSUME opens' = opens
  PROVE  /\ Swapped' = Swapped
         /\ \A x : Reach(x)' <=> Reach(x)
BY DEF Swapped, Reach, Opened, Emptied, Under, Ancestors

LEMMA QuietLinks ==
  ASSUME TreeInv, calls # <<>>, Swapped = {}
  PROVE  /\ Dir(1) = Emptied
         /\ \A n \in Nodes : opens[n] = Opened(n)
         /\ CallsApart /\ AllThere /\ Done /\ LinkStands
<1>1. \A n \in Nodes : opens[n] = Opened(n)
  BY DEF Swapped
<1>2. Dir(1) = Emptied
  BY <1>1, CallFacts, TopIsIn DEF Emptied
<1>3. QED BY <1>1, <1>2, CallFacts DEF TreeInv, QuietInv

(* Some calls have returned, and entries been dealt with. *)
LEMMA FewerCalls ==
  ASSUME TreeInv, calls # <<>>, opens' = opens, opening' = {}, calls' \in Seq(Frames),
         DOMAIN calls' \subseteq DOMAIN calls,
         \A i \in DOMAIN calls' : calls'[i].dir = calls[i].dir /\ calls'[i].todo \subseteq calls[i].todo
  PROVE  /\ FramesInv' /\ OpeningInv'
         /\ \A i \in DOMAIN calls' : Dir(i)' = Dir(i)
         /\ \A x : Pending(x)' <=>
              \E i \in DOMAIN calls' : x = Dir(i) \/ \E m \in calls'[i].todo : Under(x, m)
         /\ \A x : Pending(x)' => Pending(x)
         /\ CallsApart => CallsApart'
<1>1. \A i \in DOMAIN calls' : Dir(i)' = Dir(i) /\ i \in DOMAIN calls
  BY DEF Dir
<1>2. Swapped' = Swapped
  BY SameLinks
<1>3. FramesInv'
  <2>1. ASSUME NEW i \in DOMAIN calls'
        PROVE  /\ dType[Dir(i)'] = DT_DIR /\ Reach(Dir(i))'
               /\ \A m \in calls'[i].todo : Parent[m] = Dir(i)' /\ m # Dir(i)'
    <3>1. /\ dType[Dir(i)] = DT_DIR /\ Reach(Dir(i))
          /\ \A m \in calls[i].todo : Parent[m] = Dir(i) /\ m # Dir(i)
      BY <1>1, CallFacts
    <3>2. Dir(i)' = Dir(i) /\ calls'[i].todo \subseteq calls[i].todo
      BY <1>1
    <3>3. Reach(Dir(i))' <=> Reach(Dir(i))
      BY <3>2 DEF Reach, Swapped, Opened, Emptied, Under, Ancestors
    <3>4. QED BY <3>1, <3>2, <3>3
  <2>2. calls' # <<>> => calls'[1].dir = Root
    <3>1. calls' # <<>> => 1 \in DOMAIN calls'
      BY NoCalls
    <3>2. QED BY <3>1, CallFacts
  <2>3. QED BY <2>1, <2>2 DEF FramesInv
<1>4. OpeningInv'
  BY DEF OpeningInv
<1>5. \A x : Pending(x)' <=>
         \E i \in DOMAIN calls' : x = Dir(i) \/ \E m \in calls'[i].todo : Under(x, m)
  BY <1>1 DEF Pending, Under, Ancestors
<1>6. \A x : Pending(x)' => Pending(x)
  BY <1>1, <1>5 DEF Pending
<1>7. ASSUME CallsApart PROVE CallsApart'
  <2>1. \A i, j \in DOMAIN calls' : i # j => Dir(i)' # Dir(j)'
    BY <1>1, <1>7 DEF CallsApart
  <2>2. \A i, j \in DOMAIN calls' : \A m \in calls'[i].todo : ~Under(Dir(j)', m)
    BY <1>1, <1>7 DEF CallsApart
  <2>3. ASSUME NEW i \in DOMAIN calls', i > 1
        PROVE  calls'[i].dir = Dir(i)' /\ Parent[Dir(i)'] = Dir(i - 1)' /\ Dir(i)' \notin Unfilled
    <3>1. i - 1 \in DOMAIN calls'
      <4>1. calls' # <<>>
        BY NoCalls
      <4>2. DOMAIN calls' = 1 .. Len(calls') /\ Len(calls') \in Nat
        BY <4>1, NoCalls
      <4>3. QED BY <2>3, <4>2
    <3>2. QED BY <1>1, <1>7, <2>3, <3>1 DEF CallsApart
  <2>4. ASSUME NEW i \in DOMAIN calls', NEW x, Under(Dir(i)', x), Under(x, Emptied)
        PROVE  \E j \in DOMAIN calls' : j <= i /\ x = Dir(j)'
    <3>1. PICK j \in DOMAIN calls : j <= i /\ x = Dir(j)
      BY <1>1, <1>7, <2>4 DEF CallsApart
    <3>2. j \in DOMAIN calls'
      <4>1. calls' # <<>>
        BY NoCalls
      <4>2. DOMAIN calls' = 1 .. Len(calls') /\ Len(calls') \in Nat
        BY <4>1, NoCalls
      <4>3. j \in Nat /\ j >= 1
        BY CallFacts
      <4>4. QED BY <3>1, <4>2, <4>3
    <3>3. QED BY <1>1, <3>1, <3>2
  <2>5. QED BY <2>1, <2>2, <2>3, <2>4 DEF CallsApart, Under, Emptied, Opened
<1>8. QED BY <1>1, <1>3, <1>4, <1>5, <1>6, <1>7

(* Entries of the last call that have been dealt with are no longer        *)
(* pending, nor is what lies under them.                                   *)
LEMMA GivenStep ==
  ASSUME TreeInv, calls # <<>>, opens' = opens, opening' = {},
         NEW S \in SUBSET Top.todo, calls' = Given(S)
  PROVE  /\ calls' \in Seq(Frames) /\ calls' # <<>> /\ DOMAIN calls' = DOMAIN calls
         /\ \A i \in DOMAIN calls : Dir(i)' = Dir(i) /\ calls'[i].todo \subseteq calls[i].todo
         /\ FramesInv' /\ OpeningInv'
         /\ \A x : Pending(x)' => Pending(x)
         /\ \A x : Pending(x) /\ ~Pending(x)' => \E n \in S : Under(x, n)
         /\ \A n \in S : \A x : Under(x, n) => Pending(x)
         /\ CallsApart => CallsApart' /\ \A n \in S : \A x \in Nodes : Under(x, n) => ~Pending(x)'
<1> DEFINE L == Len(calls)
<1>1. /\ calls' \in Seq(Frames) /\ Len(calls') = L /\ DOMAIN calls' = DOMAIN calls
      /\ \A i \in DOMAIN calls :
           /\ calls'[i].dir = calls[i].dir
           /\ calls'[i].todo = IF i = L THEN calls[i].todo \ S ELSE calls[i].todo
  <2>1. calls \in Seq(Frames)
    BY CallFacts
  <2>2. QED BY <2>1, GivenIs
<1>2. L \in DOMAIN calls /\ S \subseteq calls[L].todo /\ L \in Nat \ {0}
  BY CallFacts DEF Top
<1>3. calls' # <<>>
  BY <1>1, <1>2, NoCalls
<1> HIDE DEF L
<1>4. \A i \in DOMAIN calls' : calls'[i].dir = calls[i].dir /\ calls'[i].todo \subseteq calls[i].todo
  BY <1>1
<1>5. /\ FramesInv' /\ OpeningInv'
      /\ \A i \in DOMAIN calls' : Dir(i)' = Dir(i)
      /\ \A x : Pending(x)' <=>
           \E i \in DOMAIN calls' : x = Dir(i) \/ \E m \in calls'[i].todo : Under(x, m)
      /\ \A x : Pending(x)' => Pending(x)
      /\ CallsApart => CallsApart'
  BY <1>1, <1>4, FewerCalls
<1>6. ASSUME NEW x, Pending(x), ~Pending(x)' PROVE \E n \in S : Under(x, n)
  <2>1. PICK i \in DOMAIN calls : x = Dir(i) \/ \E m \in calls[i].todo : Under(x, m)
    BY <1>6 DEF Pending
  <2>2. PICK m \in calls[i].todo : Under(x, m)
    BY <1>1, <1>5, <1>6, <2>1
  <2>3. m \notin calls'[i].todo
    BY <1>1, <1>5, <1>6, <2>2
  <2>4. m \in S
    BY <1>1, <2>3
  <2>5. QED BY <2>2, <2>4
<1>7. \A n \in S : \A x : Under(x, n) => Pending(x)
  BY <1>2 DEF Pending
<1>8. ASSUME CallsApart, NEW n \in S, NEW x \in Nodes, Under(x, n), Pending(x)' PROVE FALSE
  <2>1. PICK i \in DOMAIN calls : x = Dir(i) \/ \E m \in calls'[i].todo : Under(x, m)
    BY <1>1, <1>5, <1>8
  <2>2. x # Dir(i)
    BY <1>2, <1>8 DEF CallsApart
  <2>3. PICK m \in calls'[i].todo : Under(x, m)
    BY <2>1, <2>2
  <2>4. m \in calls[i].todo /\ m \in Nodes /\ Parent[m] = Dir(i)
    BY <1>1, <1>4, CallFacts
  <2>5. n \in calls[L].todo /\ n \in Nodes /\ Parent[n] = Dir(L)
    BY <1>2, CallFacts
  <2>6. Under(m, n) \/ Under(n, m)
    BY <1>8, <2>3, Comparable
  <2>7. CASE m = n
    <3>1. i = L
      BY <1>2, <1>8, <2>4, <2>5, <2>7 DEF CallsApart
    <3>2. n \notin calls'[L].todo
      BY <1>1, <1>2
    <3>3. QED BY <2>3, <2>7, <3>1, <3>2
  <2>8. CASE Under(m, n) /\ m # n
    <3>1. Under(Dir(i), n)
      BY <2>4, <2>8, UnderParent
    <3>2. QED BY <1>2, <1>8, <2>5, <3>1 DEF CallsApart
  <2>9. CASE Under(n, m) /\ m # n
    <3>1. Under(Dir(L), m)
      BY <2>5, <2>9, UnderParent
    <3>2. QED BY <1>2, <1>8, <2>4, <3>1 DEF CallsApart
  <2>10. QED BY <2>6, <2>7, <2>8, <2>9
<1>9. QED BY <1>1, <1>3, <1>4, <1>5, <1>6, <1>7, <1>8

(* What becomes settled, and is left, as more is kept and refused. *)
LEMMA MoreSettled ==
  ASSUME first' = first, first \subseteq Nodes, NEW K, NEW R,
         kept' = kept \union K, refused' = refused \union R
  PROVE  /\ \A x : Settled(x)' <=> Settled(x) \/ x \in K \/ \E r \in R : Under(x, r)
         /\ \A x : Stays(x)' <=> Stays(x) \/ x \in K \/ \E r \in R : Under(x, r)
         /\ \A x : Left(x) => Left(x)'
         /\ \A x \in first : Stays(x)' => Left(x)'
<1>1. \A x : Settled(x)' <=> Settled(x) \/ x \in K \/ \E r \in R : Under(x, r)
  BY DEF Settled, Under, Ancestors
<1>2. \A x : Stays(x)' <=> Stays(x) \/ x \in K \/ \E r \in R : Under(x, r)
  BY DEF Stays, Under, Ancestors, Emptied, Opened
<1>3. ASSUME NEW x, Left(x) PROVE Left(x)'
  <2>1. CASE x = Emptied /\ x # Root
    BY <2>1 DEF Left, Emptied, Opened
  <2>2. CASE \E s \in first : Stays(s) /\ Under(s, x)
    <3>1. PICK s \in first : Stays(s) /\ Under(s, x)
      BY <2>2
    <3>2. Stays(s)' /\ s \in first'
      BY <1>2, <3>1
    <3>3. QED BY <3>1, <3>2 DEF Left, Under, Ancestors
  <2>3. QED BY <1>3, <2>1, <2>2 DEF Left
<1>4. ASSUME NEW x \in first, Stays(x)' PROVE Left(x)'
  <2>1. Under(x, x)
    BY UnderSelf
  <2>2. QED BY <1>4, <2>1 DEF Left, Under, Ancestors
<1>5. QED BY <1>1, <1>2, <1>3, <1>4

------------------------------------------------------------------------------
LEMMA TreeInvInit == TreeInit => TreeInv
<1> SUFFICES ASSUME TreeInit PROVE TreeInv
  OBVIOUS
<1>1. /\ Closed(present) /\ first = present /\ calls = <<>> /\ opening = {} /\ deleted = {}
      /\ opens = [n \in Nodes |-> Opened(n)] /\ kept = {} /\ refused = {} /\ ~InCall
  BY DEF TreeInit, Closed, InCall
<1>2. TreeTypeOK
  <2>1. opens \in [Nodes -> Nodes] /\ Swapped = {}
    BY <1>1, Types DEF Swapped
  <2>2. calls \in Seq(Frames)
    BY <1>1, NoCalls
  <2>3. QED BY <1>1, <2>1, <2>2 DEF TreeTypeOK
<1>3. FramesInv /\ OpeningInv /\ OutsideInv
  BY <1>1, NoCalls DEF FramesInv, OpeningInv, OutsideInv
<1>4. QuietInv
  BY <1>1 DEF QuietInv
<1>5. QED BY <1>2, <1>3, <1>4 DEF TreeInv

(* The call begins: all that is in the directory is pending. *)
LEMMA DeleteStep ==
  ASSUME TreeInv, DeleteDirTree
  PROVE  TreeInv'
<1>1. /\ calls = <<>> /\ opening = {} /\ deleted = {} /\ ~InCall
      /\ first' = present /\ opening' = {Root} /\ opens' = opens /\ present' = present
      /\ calls' = calls /\ deleted' = deleted /\ kept' = kept /\ refused' = refused /\ InCall'
  BY DEF DeleteDirTree, InCall
<1>2. /\ Closed(present) /\ opens \in [Nodes -> Nodes] /\ calls \in Seq(Frames)
      /\ Swapped = {} /\ kept = {} /\ refused = {}
  BY <1>1 DEF TreeInv, TreeTypeOK
<1>3. TreeTypeOK'
  BY <1>1, <1>2, TopIsIn DEF TreeTypeOK, Closed
<1>4. FramesInv' /\ OpeningInv' /\ OutsideInv'
  BY <1>1, NoCalls DEF FramesInv, OpeningInv, OutsideInv
<1>5. CallsApart' /\ AllThere' /\ LinkStands'
  BY <1>1, NoCalls DEF CallsApart, AllThere, LinkStands
<1>6. Done'
  <2>1. \A x : Pending(x)' <=> Under(x, Emptied)
    BY <1>1, NoCalls DEF Pending, Under, Emptied, Opened
  <2>2. \A x : ~Settled(x)'
    BY <1>1, <1>2 DEF Settled
  <2>3. QED BY <1>1, <2>1, <2>2 DEF Done, Under, Emptied, Opened
<1>7. QED BY <1>3, <1>4, <1>5, <1>6 DEF TreeInv, QuietInv

(* An entry that is a directory: it is still to be dealt with. *)
LEMMA EnterStep ==
  ASSUME TreeInv, NEW n \in Nodes, EnterDir(n)
  PROVE  TreeInv'
<1>1. /\ calls # <<>> /\ opening = {} /\ n \in Top.todo /\ IsDir(d_type(n)) /\ opening' = {n}
      /\ present' = present /\ opens' = opens /\ calls' = calls /\ deleted' = deleted
      /\ first' = first /\ kept' = kept /\ refused' = refused
  BY DEF EnterDir
<1>2. TreeTypeOK'
  BY <1>1, CallFacts DEF TreeInv, TreeTypeOK, Closed, InCall
<1>3. FramesInv' /\ OutsideInv'
  BY <1>1 DEF TreeInv, FramesInv, OutsideInv, Reach, Swapped, Dir, Under, Emptied, Opened
<1>4. OpeningInv'
  <2>1. ~IsDir(DT_UNKNOWN) /\ ~IsDir(DT_LNK)
    <3>1. ~((0 \div 4) % 2 = 1) /\ ~((10 \div 4) % 2 = 1)
      OBVIOUS
    <3>2. QED BY <3>1 DEF IsDir, DT_UNKNOWN, DT_LNK
  <2>2. n \notin Unfilled /\ IsDir(dType[n])
    BY <1>1, <2>1 DEF d_type
  <2>3. QED BY <1>1, <2>2 DEF OpeningInv, Top
<1>5. QuietInv'
  <2> SUFFICES ASSUME Swapped' = {} PROVE CallsApart' /\ AllThere' /\ Done' /\ LinkStands'
    BY DEF QuietInv
  <2>1. CallsApart /\ AllThere /\ Done /\ LinkStands
    BY <1>1, SameLinks, QuietLinks
  <2>2. \A i : Dir(i)' = Dir(i)
    BY <1>1 DEF Dir
  <2>3. CallsApart' /\ AllThere' /\ LinkStands'
    BY <1>1, <2>1, <2>2 DEF CallsApart, AllThere, LinkStands, Under, Emptied, Opened
  <2>4. \A x : Pending(x)' <=> Pending(x)
    BY <1>1, <2>2 DEF Pending, Under
  <2>5. \A x : (Settled(x)' <=> Settled(x)) /\ (Stays(x)' <=> Stays(x)) /\ (Left(x)' <=> Left(x))
    BY <1>1 DEF Settled, Stays, Left, Under, Emptied, Opened
  <2>6. \A x : AddedUnder(x)' <=> AddedUnder(x)
    BY <1>1 DEF AddedUnder, Under
  <2>7. Done'
    BY <1>1, <2>1, <2>4, <2>5, <2>6 DEF Done, Under, Emptied, Opened
  <2>8. QED BY <2>3, <2>7
<1>6. QED BY <1>2, <1>3, <1>4, <1>5 DEF TreeInv

(* Entries are dealt with and none of them is removed: what is under them  *)
(* is left, or has been added.                                             *)
LEMMA DroppedStep ==
  ASSUME TreeInv, calls # <<>>, opens' = opens, opening' = {}, deleted' = deleted,
         present' = present, first' = first,
         NEW S \in SUBSET Top.todo, calls' = Given(S),
         NEW K \in SUBSET S, NEW R \in SUBSET S,
         kept' = kept \union K, refused' = refused \union R,
         Swapped = {} => \A n \in S : \A x \in first :
           Under(x, n) /\ Under(x, Emptied) /\ x \in present => Left(x)' \/ AddedUnder(x)
  PROVE  TreeInv'
<1>1. /\ calls' \in Seq(Frames) /\ calls' # <<>> /\ DOMAIN calls' = DOMAIN calls
      /\ \A i \in DOMAIN calls : Dir(i)' = Dir(i) /\ calls'[i].todo \subseteq calls[i].todo
      /\ FramesInv' /\ OpeningInv'
      /\ \A x : Pending(x)' => Pending(x)
      /\ \A x : Pending(x) /\ ~Pending(x)' => \E n \in S : Under(x, n)
      /\ \A n \in S : \A x : Under(x, n) => Pending(x)
      /\ CallsApart => CallsApart' /\ \A n \in S : \A x \in Nodes : Under(x, n) => ~Pending(x)'
  BY GivenStep
<1>2. /\ Closed(present) /\ Closed(first) /\ first \subseteq Nodes /\ deleted = {}
      /\ opens \in [Nodes -> Nodes]
  BY CallFacts
<1>3. TreeTypeOK'
  BY <1>1, <1>2 DEF TreeTypeOK, Closed, InCall
<1>4. OutsideInv'
  BY DEF TreeInv, OutsideInv, Reach, Swapped, Under, Emptied, Opened
<1>5. ASSUME Swapped' = {} PROVE CallsApart' /\ AllThere' /\ Done' /\ LinkStands'
  <2>1. Swapped = {} /\ CallsApart /\ AllThere /\ Done /\ LinkStands
    BY <1>5, SameLinks, QuietLinks
  <2>2. CallsApart' /\ \A n \in S : \A x \in Nodes : Under(x, n) => ~Pending(x)'
    BY <1>1, <2>1
  <2>3. AllThere' /\ LinkStands'
    BY <1>1, <2>1 DEF AllThere, LinkStands, Emptied, Opened
  <2>4. /\ \A x : Settled(x)' <=> Settled(x) \/ x \in K \/ \E r \in R : Under(x, r)
        /\ \A x : Stays(x)' <=> Stays(x) \/ x \in K \/ \E r \in R : Under(x, r)
        /\ \A x : Left(x) => Left(x)'
        /\ \A x \in first : Stays(x)' => Left(x)'
    BY <1>2, MoreSettled
  <2>5. \A x : AddedUnder(x)' <=> AddedUnder(x)
    BY DEF AddedUnder, Under
  <2>6. ASSUME NEW x \in first, Under(x, Emptied)
        PROVE  /\ Pending(x)' => x \in present /\ ~Settled(x)'
               /\ Stays(x)' => x \in present
               /\ x \in present => Pending(x)' \/ Left(x)' \/ AddedUnder(x)'
    <3>1. /\ x \in Nodes
          /\ Pending(x) => x \in present /\ ~Settled(x)
          /\ Stays(x) => x \in present
          /\ x \in present => Pending(x) \/ Left(x) \/ AddedUnder(x)
      BY <1>2, <2>1, <2>6 DEF Done
    <3>2. (x \in K \/ \E r \in R : Under(x, r)) => \E n \in S : Under(x, n)
      BY <3>1, UnderSelf
    <3>3. (\E n \in S : Under(x, n)) => Pending(x) /\ ~Pending(x)'
      BY <1>1, <2>2, <3>1
    <3>4. Pending(x)' => x \in present /\ ~Settled(x)'
      BY <1>1, <2>4, <3>1, <3>2, <3>3
    <3>5. Stays(x)' => x \in present
      BY <2>4, <3>1, <3>2, <3>3
    <3>6. ASSUME x \in present PROVE Pending(x)' \/ Left(x)' \/ AddedUnder(x)'
      <4>1. CASE Pending(x) /\ ~Pending(x)'
        <5>1. PICK n \in S : Under(x, n)
          BY <1>1, <4>1
        <5>2. QED BY <2>1, <2>5, <2>6, <3>6, <5>1
      <4>2. CASE ~(Pending(x) /\ ~Pending(x)')
        BY <2>4, <2>5, <3>1, <3>6, <4>2
      <4>3. QED BY <4>1, <4>2
    <3>7. QED BY <3>4, <3>5, <3>6
  <2>7. Done'
    BY <2>6 DEF Done, Under, Emptied, Opened
  <2>8. QED BY <2>2, <2>3, <2>7
<1>6. QED BY <1>1, <1>3, <1>4, <1>5 DEF TreeInv, QuietInv

(* The entries of the last call lie in the directory, each of them.        *)
LEMMA EntryFacts ==
  ASSUME TreeInv, calls # <<>>, NEW n \in Top.todo
  PROVE  /\ n \in Nodes /\ Parent[n] = Dir(Len(calls)) /\ n # Dir(Len(calls))
         /\ n \in calls[Len(calls)].todo /\ Reach(n) /\ \A x : Under(x, n) => Pending(x)
         /\ Swapped = {} =>
              /\ n \in present /\ Under(n, Emptied) /\ n # Emptied
              /\ \A i \in DOMAIN calls : ~Under(Dir(i), n)
<1> DEFINE L == Len(calls)
<1>1. /\ L \in DOMAIN calls /\ n \in calls[L].todo /\ n \in Nodes /\ Parent[n] = Dir(L) /\ n # Dir(L)
      /\ 1 \in DOMAIN calls /\ Reach(Dir(L)) /\ Under(n, Dir(L)) /\ Dir(L) \in Nodes
  BY CallFacts DEF Top
<1> HIDE DEF L
<1>2. Reach(n)
  BY <1>1, UnderParent DEF Reach
<1>3. \A x : Under(x, n) => Pending(x)
  BY <1>1 DEF Pending
<1>4. ASSUME Swapped = {}
      PROVE  /\ n \in present /\ Under(n, Emptied) /\ n # Emptied
             /\ \A i \in DOMAIN calls : ~Under(Dir(i), n)
  <2>1. CallsApart /\ AllThere /\ Dir(1) = Emptied
    BY <1>4, QuietLinks
  <2>2. n \in present /\ \A i \in DOMAIN calls : ~Under(Dir(i), n)
    BY <1>1, <2>1 DEF CallsApart, AllThere
  <2>3. n # Emptied
    BY <1>1, <2>1, <2>2, UnderSelf
  <2>4. Under(n, Emptied)
    BY <1>2, <1>4 DEF Reach
  <2>5. QED BY <2>2, <2>3, <2>4
<1>5. QED BY <1>1, <1>2, <1>3, <1>4 DEF L

(* readdir fails. *)
LEMMA ReadFailsStep ==
  ASSUME TreeInv, ReadFails
  PROVE  TreeInv'
<1>1. /\ calls # <<>> /\ opens' = opens /\ opening' = {} /\ deleted' = deleted
      /\ present' = present /\ first' = first /\ calls' = Given(Top.todo)
      /\ kept' = kept \union {} /\ refused' = refused \union Top.todo
  BY DEF ReadFails
<1>2. first \subseteq Nodes
  BY <1>1, CallFacts
<1>3. ASSUME NEW n \in Top.todo, NEW x \in first, Under(x, n) PROVE Left(x)'
  BY <1>1, <1>2, <1>3, MoreSettled
<1>4. QED BY <1>1, <1>3, DroppedStep

(* opendir fails. *)
LEMMA OpenFailsStep ==
  ASSUME TreeInv, NEW n \in Nodes, OpenFails(n)
  PROVE  TreeInv'
<1>1. /\ n \in opening /\ opening' = {} /\ present' = present /\ opens' = opens
      /\ first' = first /\ kept' = kept
      /\ refused' = IF CanOpen(n) THEN refused \union {n} ELSE refused
  BY DEF OpenFails
<1>2. CASE calls = <<>>
  <2>1. calls' = <<>> /\ deleted' = {FALSE} /\ ~InCall'
    BY <1>1, <1>2 DEF OpenFails, InCall
  <2>2. TreeTypeOK'
    BY <1>1, <2>1, NoCalls DEF TreeInv, TreeTypeOK, Closed
  <2>3. FramesInv' /\ OpeningInv'
    BY <1>1, <2>1, NoCalls DEF FramesInv, OpeningInv
  <2>4. OutsideInv'
    BY <1>1 DEF TreeInv, OutsideInv, Reach, Swapped, Under, Emptied, Opened
  <2>5. QuietInv'
    BY <2>1 DEF QuietInv
  <2>6. QED BY <2>2, <2>3, <2>4, <2>5 DEF TreeInv
<1>3. CASE calls # <<>>
  <2>1. calls' = Given({n}) /\ deleted' = deleted
    BY <1>1, <1>3 DEF OpenFails
  <2>2. n \in Top.todo /\ n \notin Unfilled /\ IsDir(dType[n])
    BY <1>1, <1>3 DEF TreeInv, OpeningInv
  <2> DEFINE R == IF CanOpen(n) THEN {n} ELSE {}
  <2>3. R \in SUBSET {n} /\ refused' = refused \union R /\ kept' = kept \union {}
    BY <1>1
  <2>4. first \subseteq Nodes
    BY <1>3, CallFacts
  <2>5. ASSUME Swapped = {}, NEW x \in first, Under(x, n) PROVE Left(x)'
    <3>1. \A y \in first : Stays(y) \/ (\E r \in R : Under(y, r)) => Left(y)'
      BY <1>1, <2>3, <2>4, MoreSettled
    <3>2. CASE CanOpen(n)
      BY <2>5, <3>1, <3>2
    <3>3. CASE ~CanOpen(n)
      <4>1. n \in present /\ opens[n] = Opened(n)
        BY <1>3, <2>2, <2>5, EntryFacts, QuietLinks
      <4>2. opens[n] = n
        BY <2>2, <4>1, Types DEF DT_DIR, DT_LNK, DT_BLK, DT_SOCK
      <4>3. dType[n] # DT_DIR
        BY <3>3, <4>1, <4>2 DEF CanOpen
      <4>4. dType[n] \in {DT_BLK, DT_SOCK}
        BY <2>2, <4>3, Types
      <4>5. x = n
        BY <2>4, <2>5, <4>3, NothingUnder
      <4>6. QED BY <2>2, <2>5, <3>1, <4>4, <4>5 DEF Stays
    <3>4. QED BY <3>2, <3>3
  <2>6. {n} \in SUBSET Top.todo
    BY <2>2
  <2> HIDE DEF R
  <2>7. QED BY <1>1, <1>3, <2>1, <2>3, <2>5, <2>6, DroppedStep
<1>4. QED BY <1>2, <1>3

(* An entry that is removed, or that could not be.                         *)
LEMMA RemoveFailsStep ==
  ASSUME TreeInv, NEW n \in Nodes, RemoveEntry(n, FALSE)
  PROVE  TreeInv'
<1> DEFINE K == IF CanRemove(n) THEN {n} ELSE {}
<1>1. /\ calls # <<>> /\ n \in Top.todo /\ ~IsDir(d_type(n)) /\ calls' = Given({n})
      /\ opens' = opens /\ opening' = {} /\ deleted' = deleted /\ present' = present
      /\ first' = first /\ kept' = kept \union K /\ refused' = refused \union {}
      /\ K \in SUBSET {n} /\ {n} \in SUBSET Top.todo
  BY DEF RemoveEntry
<1>2. /\ Closed(present) /\ Closed(first) /\ first \subseteq Nodes
  BY <1>1, CallFacts
<1>3. ASSUME Swapped = {}, NEW x \in first, Under(x, n), Under(x, Emptied), x \in present
      PROVE  Left(x)' \/ AddedUnder(x)
  <2>1. n \in present /\ Under(n, Emptied) /\ n # Emptied
    BY <1>1, <1>3, EntryFacts
  <2>2. \A y \in first : Stays(y) \/ y \in K => Left(y)'
    BY <1>1, <1>2, MoreSettled
  <2>3. n \in first
    BY <1>2, <1>3, UpPresent
  <2>4. CASE x # n
    <3>1. PICK e \in present : Parent[e] = n /\ e # n
      BY <1>2, <1>3, <2>4, UnderEntry
    <3>2. PICK m \in first : Parent[m] = n /\ m # n
      BY <1>2, <1>3, <2>4, UnderEntry
    <3>3. dType[n] = DT_DIR
      BY <1>2, <3>2, DirectoryAssumption
    <3>4. IsDir(DT_DIR)
      BY <3>3, Types
    <3>5. n \in Unfilled
      BY <1>1, <1>3, <3>3, <3>4 DEF d_type
    <3>6. Stays(x)
      BY <1>3, <2>1, <3>2, <3>5 DEF Stays
    <3>7. QED BY <2>2, <3>6
  <2>5. CASE x = n /\ CanRemove(n)
    BY <1>3, <2>2, <2>5
  <2>6. CASE x = n /\ ~CanRemove(n)
    <3>1. PICK e \in present : Parent[e] = n /\ e # n
      BY <2>1, <2>6 DEF CanRemove, Entries
    <3>2. e \in Nodes /\ dType[n] = DT_DIR
      BY <1>2, <3>1, DirectoryAssumption DEF Closed
    <3>3. Under(e, n)
      BY <3>1, <3>2, UnderSelf, UnderParent
    <3>4. CASE e \notin first
      BY <2>6, <3>3, <3>4 DEF AddedUnder
    <3>5. CASE e \in first
      <4>1. IsDir(DT_DIR)
        BY <3>2, Types
      <4>2. n \in Unfilled
        BY <1>1, <1>3, <3>2, <4>1 DEF d_type
      <4>3. Stays(x)
        BY <1>3, <2>1, <3>1, <3>5, <4>2 DEF Stays
      <4>4. QED BY <2>2, <4>3
    <3>6. QED BY <3>4, <3>5
  <2>7. QED BY <2>4, <2>5, <2>6
<1> HIDE DEF K
<1>4. QED BY <1>1, <1>3, DroppedStep

(* What the last directory is in, within the tree, has a call of its own,  *)
(* and so its type was told.                                               *)
LEMMA Chain ==
  ASSUME TreeInv, calls # <<>>, Swapped = {}, NEW x, Under(x, Emptied),
         Under(Dir(Len(calls)), x) \/ \E n \in Top.todo : n # x /\ Under(n, x)
  PROVE  /\ \E j \in DOMAIN calls : x = Dir(j) /\ (x # Dir(Len(calls)) => j < Len(calls))
         /\ x # Emptied => x \notin Unfilled
<1> DEFINE L == Len(calls)
<1>1. L \in DOMAIN calls /\ L \in Nat /\ 1 \in DOMAIN calls /\ DOMAIN calls = 1 .. L
  BY CallFacts
<1>2. Under(Dir(L), x)
  BY EntryFacts, UnderParent
<1> HIDE DEF L
<1>3. CallsApart /\ Dir(1) = Emptied
  BY QuietLinks
<1>4. PICK j \in DOMAIN calls : j <= L /\ x = Dir(j)
  BY <1>1, <1>2, <1>3 DEF CallsApart
<1>5. x # Dir(L) => j < L
  BY <1>1, <1>4
<1>6. x # Emptied => x \notin Unfilled
  <2>1. j = 1 \/ j > 1
    BY <1>1
  <2>2. QED BY <1>3, <1>4, <2>1 DEF CallsApart
<1>7. QED BY <1>4, <1>5, <1>6 DEF L

LEMMA RemoveStep ==
  ASSUME TreeInv, NEW n \in Nodes, RemoveEntry(n, TRUE)
  PROVE  TreeInv'
<1>1. /\ calls # <<>> /\ n \in Top.todo /\ ~IsDir(d_type(n)) /\ calls' = Given({n})
      /\ opens' = opens /\ opening' = {} /\ deleted' = deleted /\ present' = present \ {n}
      /\ first' = first /\ kept' = kept /\ refused' = refused
      /\ CanRemove(n) /\ {n} \in SUBSET Top.todo
  BY DEF RemoveEntry
<1>2. /\ calls' \in Seq(Frames) /\ calls' # <<>> /\ DOMAIN calls' = DOMAIN calls
      /\ \A i \in DOMAIN calls : Dir(i)' = Dir(i) /\ calls'[i].todo \subseteq calls[i].todo
      /\ FramesInv' /\ OpeningInv'
      /\ \A x : Pending(x)' => Pending(x)
      /\ \A x : Pending(x) /\ ~Pending(x)' => Under(x, n)
      /\ \A x : Under(x, n) => Pending(x)
      /\ CallsApart => CallsApart' /\ \A x \in Nodes : Under(x, n) => ~Pending(x)'
  BY <1>1, GivenStep
<1>3. /\ Closed(present) /\ Closed(first) /\ first \subseteq Nodes /\ present \subseteq Nodes /\ deleted = {}
      /\ opens \in [Nodes -> Nodes]
  BY <1>1, CallFacts
<1>4. Entries(n) = {} /\ n \in present /\ Under(n, n)
  BY <1>1, UnderSelf DEF CanRemove
<1>5. \A x \in present : Under(x, n) => x = n
  <2> SUFFICES ASSUME NEW x \in present, Under(x, n), x # n PROVE FALSE
    OBVIOUS
  <2>1. PICK e \in present : Parent[e] = n /\ e # n
    BY <1>3, UnderEntry
  <2>2. QED BY <1>4, <2>1 DEF Entries
<1>6. TreeTypeOK'
  <2>1. Closed(present)'
    BY <1>1, <1>3, <1>4 DEF Closed, Entries
  <2>2. Closed(first)'
    BY <1>1, <1>3 DEF Closed
  <2>3. InCall' /\ deleted' = {}
    BY <1>1, <1>2, <1>3 DEF InCall
  <2>4. QED BY <1>1, <1>2, <1>3, <2>1, <2>2, <2>3 DEF TreeTypeOK
<1>7. OutsideInv'
  <2>1. Reach(n)
    BY <1>1, EntryFacts
  <2>2. \A x \in first : x \in present' \/ Reach(x)
    BY <1>1, <2>1 DEF TreeInv, OutsideInv
  <2>3. QED BY <1>1, <2>2 DEF OutsideInv, Reach, Swapped, Under, Emptied, Opened
<1>8. ASSUME Swapped' = {} PROVE CallsApart' /\ AllThere' /\ Done' /\ LinkStands'
  <2>1. Swapped = {} /\ CallsApart /\ AllThere /\ Done /\ LinkStands
    BY <1>1, <1>8, SameLinks, QuietLinks
  <2>2. CallsApart' /\ \A x \in Nodes : Under(x, n) => ~Pending(x)'
    BY <1>2, <2>1
  <2>3. Under(n, Emptied) /\ n # Emptied /\ \A i \in DOMAIN calls : ~Under(Dir(i), n)
    BY <1>1, <2>1, EntryFacts
  <2>4. AllThere'
    <3>1. ASSUME NEW i \in DOMAIN calls PROVE Dir(i) \in present \ {n} /\ calls'[i].todo \subseteq present \ {n}
      <4>1. Dir(i) # n
        BY <1>4, <2>3
      <4>2. n \notin calls'[i].todo
        <5>1. n \in calls'[i].todo => Pending(n)'
          BY <1>2, <1>4 DEF Pending, Under
        <5>2. QED BY <1>4, <2>2, <5>1
      <4>3. QED BY <1>2, <2>1, <4>1, <4>2 DEF AllThere
    <3>2. QED BY <1>1, <1>2, <3>1 DEF AllThere
  <2>5. LinkStands'
    BY <1>1, <2>1, <2>3 DEF LinkStands, Emptied, Opened
  <2>6. \A x : (Settled(x)' <=> Settled(x)) /\ (Stays(x)' <=> Stays(x)) /\ (Left(x)' <=> Left(x))
    BY <1>1 DEF Settled, Stays, Left, Under, Emptied, Opened
  <2>7. n \in first => ~Stays(n)
    <3> SUFFICES ASSUME n \in first, Stays(n) PROVE FALSE
      OBVIOUS
    <3>1. ~Settled(n)
      BY <1>2, <1>4, <2>1, <2>3 DEF Done
    <3>2. CASE n \notin Unfilled /\ dType[n] \in {DT_BLK, DT_SOCK}
      <4>1. IsDir(dType[n])
        BY <3>2, Types
      <4>2. QED BY <1>1, <2>1, <3>2, <4>1 DEF d_type
    <3>3. ASSUME NEW u \in Unfilled, Under(n, u), Under(u, Emptied), u # Emptied,
                 NEW m \in first, Parent[m] = u, m # u
          PROVE  FALSE
      <4>1. u = n
        BY <1>1, <2>1, <3>3, Chain
      <4>2. Under(m, n)
        BY <1>3, <1>4, <3>3, <4>1, UnderParent
      <4>3. Under(m, Emptied)
        BY <1>3, <2>3, <4>2, UnderTrans
      <4>4. m \in present
        BY <1>2, <2>1, <4>2, <4>3 DEF Done
      <4>5. QED BY <1>5, <3>3, <4>1, <4>2, <4>4
    <3>4. QED BY <3>1, <3>2, <3>3 DEF Stays, Settled
  <2>8. ASSUME NEW x \in first, Under(x, Emptied)
        PROVE  /\ Pending(x)' => x \in present' /\ ~Settled(x)'
               /\ Stays(x)' => x \in present'
               /\ x \in present' => Pending(x)' \/ Left(x)' \/ AddedUnder(x)'
    <3>1. /\ Pending(x) => x \in present /\ ~Settled(x)
          /\ Stays(x) => x \in present
          /\ x \in present => Pending(x) \/ Left(x) \/ AddedUnder(x)
      BY <2>1, <2>8 DEF Done
    <3>2. Pending(x)' => x \in present' /\ ~Settled(x)'
      BY <1>1, <1>2, <1>4, <2>2, <2>6, <3>1
    <3>3. Stays(x)' => x \in present'
      BY <1>1, <2>6, <2>7, <3>1
    <3>4. ASSUME x \in present', ~Pending(x)', ~Left(x)' PROVE AddedUnder(x)'
      <4>1. x \in present /\ x # n
        BY <1>1, <3>4
      <4>2. ~Pending(x)
        BY <1>2, <1>5, <3>4, <4>1
      <4>3. PICK a \in present \ first : Under(a, x)
        BY <2>6, <3>1, <3>4, <4>1, <4>2 DEF AddedUnder
      <4>4. a # n
        <5>1. ASSUME a = n PROVE \E j \in DOMAIN calls : x = Dir(j)
          BY <1>1, <2>1, <2>8, <4>1, <4>3, <5>1, Chain
        <5>2. QED BY <4>2, <5>1 DEF Pending
      <4>5. QED BY <1>1, <4>3, <4>4 DEF AddedUnder, Under
    <3>5. QED BY <3>2, <3>3, <3>4
  <2>9. Done'
    BY <1>1, <2>8 DEF Done, Under, Emptied, Opened
  <2>10. QED BY <2>2, <2>4, <2>5, <2>9
<1>9. QED BY <1>2, <1>6, <1>7, <1>8 DEF TreeInv, QuietInv

(* A call that returns: its directory is empty but for what is left.       *)
LEMMA LeaveStep ==
  ASSUME TreeInv, NEW ok \in BOOLEAN, LeaveDir(ok)
  PROVE  TreeInv'
<1>1. PICK L \in Nat : L = Len(calls)
  <2>1. calls # <<>>
    BY DEF LeaveDir
  <2>2. QED BY <2>1, CallFacts
<1>0. PICK T \in Nodes, D \in Nodes : T = calls[L].dir /\ D = Dir(L)
  <2>1. calls # <<>>
    BY DEF LeaveDir
  <2>2. calls[L].dir \in Nodes /\ Dir(L) \in Nodes
    BY <1>1, <2>1, CallFacts
  <2>3. QED BY <2>2
<1> DEFINE K == IF CanLeave(T) /\ ~ok THEN {T} ELSE {}
<1>2. /\ calls # <<>> /\ opening = {} /\ calls[L].todo = {} /\ (ok => CanLeave(T))
      /\ present' = (IF ok THEN present \ {T} ELSE present)
      /\ kept' = kept \union K /\ calls' = Others
      /\ deleted' = (IF L = 1 THEN {TRUE} ELSE deleted)
      /\ opens' = opens /\ opening' = {} /\ first' = first /\ refused' = refused \union {}
  BY <1>0, <1>1 DEF LeaveDir, Top
<1>3. /\ calls \in Seq(Frames) /\ L # 0 /\ DOMAIN calls = 1 .. L /\ L \in DOMAIN calls /\ 1 \in DOMAIN calls
      /\ Closed(first) /\ Closed(present) /\ deleted = {} /\ opens \in [Nodes -> Nodes]
      /\ first \subseteq Nodes /\ present \subseteq Nodes
      /\ T \in Nodes /\ D \in Nodes /\ dType[D] = DT_DIR /\ Reach(D) /\ calls[1].dir = Root
  BY <1>0, <1>1, <1>2, CallFacts
<1>4. /\ calls' \in Seq(Frames) /\ Len(calls') = L - 1 /\ DOMAIN calls' = 1 .. L - 1
      /\ \A i \in 1 .. L - 1 : calls'[i] = calls[i]
  BY <1>1, <1>2, <1>3, OthersAre
<1>5. DOMAIN calls' \subseteq DOMAIN calls /\ L \notin DOMAIN calls' /\ DOMAIN calls = DOMAIN calls' \union {L}
  BY <1>3, <1>4
<1>6. \A i \in DOMAIN calls' : calls'[i].dir = calls[i].dir /\ calls'[i].todo = calls[i].todo
  BY <1>4
<1>7. /\ FramesInv' /\ OpeningInv'
      /\ \A i \in DOMAIN calls' : Dir(i)' = Dir(i)
      /\ \A x : Pending(x)' <=>
           \E i \in DOMAIN calls' : x = Dir(i) \/ \E m \in calls'[i].todo : Under(x, m)
      /\ CallsApart => CallsApart'
  BY <1>2, <1>4, <1>5, <1>6, FewerCalls
<1>8. CanLeave(T) => T = D /\ T \in present /\ Entries(D) = {}
  BY <1>0 DEF CanLeave, CanRemove, Dir
<1>9. CanLeave(T) <=> T = D /\ D \in present /\ Entries(D) = {}
  BY <1>0, <1>3, <1>8 DEF CanLeave, CanRemove, Dir
<1>10. present' = (IF ok THEN present \ {D} ELSE present) /\ (\A x \in K : x = D) /\ (ok => CanLeave(T))
  BY <1>2, <1>8
<1>11. TreeTypeOK'
  <2>1. Closed(present)'
    BY <1>3, <1>8, <1>10 DEF Closed, Entries
  <2>2. Closed(first)'
    BY <1>2, <1>3 DEF Closed
  <2>3. CASE L = 1
    <3>1. Len(calls') = 0
      BY <1>4, <2>3
    <3>2. calls' = <<>>
      BY <1>4, <3>1, NoCalls
    <3>3. deleted' = {TRUE} /\ ~InCall'
      BY <1>2, <2>3, <3>2 DEF InCall
    <3>4. QED BY <1>2, <1>3, <1>4, <2>1, <2>2, <3>3 DEF TreeTypeOK
  <2>4. CASE L # 1
    <3>1. 1 \in DOMAIN calls'
      BY <1>3, <1>4, <2>4
    <3>2. InCall' /\ deleted' = {}
      BY <1>2, <1>3, <2>4, <3>1, NoCalls DEF InCall
    <3>3. QED BY <1>2, <1>3, <1>4, <2>1, <2>2, <3>2 DEF TreeTypeOK
  <2>5. QED BY <2>3, <2>4
<1>12. OutsideInv'
  <2>1. \A x \in first : x \in present' \/ Reach(x)
    BY <1>3, <1>10 DEF TreeInv, OutsideInv
  <2>2. QED BY <1>2, <2>1 DEF OutsideInv, Reach, Swapped, Under, Emptied, Opened
<1>13. ASSUME Swapped' = {} PROVE CallsApart' /\ AllThere' /\ Done' /\ LinkStands'
  <2>1. Swapped = {} /\ CallsApart /\ AllThere /\ Done /\ LinkStands /\ Dir(1) = Emptied
    BY <1>2, <1>13, SameLinks, QuietLinks
  <2>2. /\ \A i \in DOMAIN calls' : Dir(i) # D
        /\ \A i \in DOMAIN calls : \A m \in calls[i].todo : ~Under(D, m)
        /\ L > 1 => T = D
        /\ D \in present /\ Under(D, D) /\ Under(D, Emptied)
    <3>1. Under(D, Emptied)
      BY <1>3, <2>1 DEF Reach
    <3>2. QED BY <1>0, <1>3, <1>5, <2>1, <3>1, UnderSelf DEF CallsApart, AllThere
  <2>3. \A x : Pending(x) <=> Pending(x)' \/ x = D
    <3>1. \A x : Pending(x) <=> \E i \in DOMAIN calls : x = Dir(i) \/ \E m \in calls[i].todo : Under(x, m)
      BY <1>2 DEF Pending
    <3>2. QED BY <1>0, <1>2, <1>5, <1>6, <1>7, <3>1
  <2>4. ~Pending(D)'
    BY <1>5, <1>6, <1>7, <2>2
  <2>5. CallsApart'
    BY <1>7, <2>1
  <2>6. AllThere'
    <3>1. ASSUME NEW i \in DOMAIN calls' PROVE Dir(i) \in present' /\ calls'[i].todo \subseteq present'
      <4>1. Dir(i) \in present /\ calls[i].todo \subseteq present
        BY <1>5, <2>1, <3>1 DEF AllThere
      <4>2. Dir(i) # D /\ D \notin calls[i].todo
        BY <1>5, <2>2, <3>1
      <4>3. QED BY <1>6, <1>10, <3>1, <4>1, <4>2
    <3>2. QED BY <1>7, <3>1 DEF AllThere
  <2>7. LinkStands'
    <3>1. D = Emptied => L = 1
      BY <1>0, <1>3, <2>1 DEF CallsApart
    <3>2. L = 1 => T = Root
      BY <1>0, <1>3
    <3>3. ok /\ Emptied # Root => D # Emptied
      BY <1>8, <1>10, <3>1, <3>2
    <3>4. Emptied # Root => Emptied \in present
      BY <1>2, <2>1 DEF LinkStands
    <3>5. QED BY <1>10, <3>3, <3>4 DEF LinkStands, Emptied, Opened
  <2>8. /\ \A x : Settled(x)' <=> Settled(x) \/ x \in K
        /\ \A x : Stays(x)' <=> Stays(x) \/ x \in K
        /\ \A x : Left(x) => Left(x)'
        /\ \A x \in first : Stays(x)' => Left(x)'
    <3> HIDE DEF K
    <3>1. QED BY <1>2, <1>3, MoreSettled
  <2>9. ASSUME NEW x \in first, Under(x, Emptied), x # D
        PROVE  /\ Pending(x)' => x \in present' /\ ~Settled(x)'
               /\ Stays(x)' => x \in present'
               /\ x \in present' => Pending(x)' \/ Left(x)' \/ AddedUnder(x)'
    <3>1. /\ Pending(x) => x \in present /\ ~Settled(x)
          /\ Stays(x) => x \in present
          /\ x \in present => Pending(x) \/ Left(x) \/ AddedUnder(x)
      BY <2>1, <2>9 DEF Done
    <3>2. (x \in present' <=> x \in present) /\ x \notin K /\ (Pending(x)' <=> Pending(x))
      BY <1>10, <2>3, <2>9
    <3>3. ASSUME AddedUnder(x), ~Pending(x)' PROVE AddedUnder(x)'
      <4>1. PICK a \in present \ first : Under(a, x)
        BY <3>3 DEF AddedUnder
      <4>2. a # D
        <5>1. ASSUME a = D PROVE \E j \in DOMAIN calls : x = Dir(j)
          BY <1>0, <1>1, <1>2, <2>1, <2>9, <4>1, <5>1, Chain
        <5>2. QED BY <3>2, <3>3, <5>1 DEF Pending
      <4>3. a \in present' \ first'
        BY <1>2, <1>10, <4>1, <4>2
      <4>4. QED BY <4>1, <4>3 DEF AddedUnder, Under
    <3>4. QED BY <2>8, <3>1, <3>2, <3>3
  <2>10. ASSUME D \in first
         PROVE  /\ Stays(D)' => D \in present'
                /\ D \in present' => Left(D)' \/ AddedUnder(D)'
    <3>1. ~Settled(D)
      BY <2>1, <2>2, <2>3, <2>10 DEF Done
    <3>2. ~Stays(D)
      <4>1. dType[D] \notin {DT_BLK, DT_SOCK}
        BY <1>3 DEF DT_BLK, DT_SOCK, DT_DIR
      <4>2. \A u : Under(D, u) /\ Under(u, Emptied) /\ u # Emptied => u \notin Unfilled
        BY <1>0, <1>1, <1>2, <2>1, Chain
      <4>3. QED BY <3>1, <4>1, <4>2 DEF Stays, Settled
    <3>3. Stays(D)' => D \in present'
      BY <1>10, <2>2, <2>8, <3>2
    <3>4. ASSUME D \in present' PROVE Left(D)' \/ AddedUnder(D)'
      <4>1. ~ok /\ present' = present
        BY <1>10, <3>4
      <4>2. CASE CanLeave(T)
        <5>1. Stays(D)'
          BY <1>8, <2>8, <4>1, <4>2
        <5>2. QED BY <2>8, <2>10, <5>1
      <4>3. CASE T # D
        <5>1. L = 1
          BY <1>3, <2>2, <4>3
        <5>2. D = Emptied /\ T = Root
          BY <1>0, <1>3, <2>1, <5>1
        <5>3. Left(D)
          BY <4>3, <5>2 DEF Left
        <5>4. QED BY <2>8, <5>3
      <4>4. CASE ~CanLeave(T) /\ T = D
        <5>1. PICK e \in present : Parent[e] = D /\ e # D
          BY <1>9, <2>2, <4>4 DEF Entries
        <5>2. e \in Nodes /\ Under(e, D)
          BY <1>3, <2>2, <5>1, UnderParent
        <5>3. Under(e, Emptied)
          BY <1>3, <2>2, <5>2, UnderTrans
        <5>4. ASSUME AddedUnder(e) PROVE AddedUnder(D)'
          <6>1. PICK a \in present \ first : Under(a, e)
            BY <5>4 DEF AddedUnder
          <6>2. Under(a, D)
            BY <1>3, <5>2, <6>1, UnderTrans
          <6>3. QED BY <1>2, <4>1, <6>1, <6>2 DEF AddedUnder, Under
        <5>5. CASE e \notin first
          <6>1. AddedUnder(e)
            BY <5>2, <5>5, UnderSelf DEF AddedUnder
          <6>2. QED BY <5>4, <6>1
        <5>6. CASE e \in first
          <6>1. e # Emptied
            BY <1>3, <2>2, <5>1, <5>2, Acyclic, TopIsIn
          <6>2. ~Pending(e)
            <7>1. ASSUME NEW i \in DOMAIN calls, e = Dir(i) PROVE FALSE
              <8>1. i > 1
                BY <1>3, <2>1, <6>1, <7>1
              <8>2. Parent[e] = Dir(i - 1) /\ i - 1 \in DOMAIN calls /\ i - 1 # L
                BY <1>3, <2>1, <7>1, <8>1 DEF CallsApart
              <8>3. QED BY <1>0, <1>3, <2>1, <5>1, <8>2 DEF CallsApart
            <7>2. ASSUME NEW i \in DOMAIN calls, NEW m \in calls[i].todo, Under(e, m) PROVE FALSE
              <8>1. m \in Nodes /\ Parent[m] = Dir(i)
                BY <1>2, CallFacts
              <8>2. CASE m = e
                <9>1. i = L
                  BY <1>0, <1>3, <2>1, <5>1, <8>1, <8>2 DEF CallsApart
                <9>2. QED BY <1>2, <9>1
              <8>3. CASE m # e
                <9>1. Under(D, m)
                  BY <5>1, <5>2, <7>2, <8>3, UnderParent
                <9>2. QED BY <2>2, <9>1
              <8>4. QED BY <8>2, <8>3
            <7>3. QED BY <1>2, <7>1, <7>2 DEF Pending
          <6>3. Left(e) \/ AddedUnder(e)
            BY <2>1, <5>3, <5>6, <6>2 DEF Done
          <6>4. ASSUME Left(e) PROVE Left(D)
            <7>1. PICK s \in first : Stays(s) /\ Under(s, e)
              BY <6>1, <6>4 DEF Left
            <7>2. Under(s, D)
              BY <1>3, <5>2, <7>1, UnderTrans
            <7>3. QED BY <7>1, <7>2 DEF Left
          <6>5. QED BY <2>8, <5>4, <6>3, <6>4
        <5>7. QED BY <5>5, <5>6
      <4>5. QED BY <4>2, <4>3, <4>4
    <3>5. QED BY <3>3, <3>4
  <2>11. \A x \in first : Under(x, Emptied) =>
           /\ Pending(x)' => x \in present' /\ ~Settled(x)'
           /\ Stays(x)' => x \in present'
           /\ x \in present' => Pending(x)' \/ Left(x)' \/ AddedUnder(x)'
    BY <2>4, <2>9, <2>10
  <2>12. Done'
    BY <1>2, <2>11 DEF Done, Under, Emptied, Opened
  <2>13. QED BY <2>5, <2>6, <2>7, <2>12
<1>14. QED BY <1>7, <1>11, <1>12, <1>13 DEF TreeInv, QuietInv

(* The calls when one for n has been made. *)
LEMMA CallAdded ==
  ASSUME TreeInv, NEW n \in Nodes, OpenDir(n)
  PROVE  /\ calls' \in Seq(Frames) /\ Len(calls) \in Nat
         /\ DOMAIN calls' = DOMAIN calls \union {Len(calls) + 1} /\ Len(calls) + 1 \notin DOMAIN calls
         /\ \A i \in DOMAIN calls :
              /\ calls'[i].dir = calls[i].dir
              /\ calls'[i].todo = IF i = Len(calls) THEN calls[i].todo \ {n} ELSE calls[i].todo
         /\ calls'[Len(calls) + 1].dir = n /\ calls'[Len(calls) + 1].todo = Entries(opens[n])
<1> DEFINE L == Len(calls)
           cs == IF calls = <<>> THEN <<>> ELSE Given({n})
<1>1. /\ calls \in Seq(Frames) /\ L \in Nat /\ DOMAIN calls = 1 .. L /\ Closed(present)
  BY DEF TreeInv, TreeTypeOK
<1>2. /\ cs \in Seq(Frames) /\ Len(cs) = L /\ DOMAIN cs = DOMAIN calls
      /\ \A i \in DOMAIN calls :
           /\ cs[i].dir = calls[i].dir
           /\ cs[i].todo = IF i = L THEN calls[i].todo \ {n} ELSE calls[i].todo
  <2>1. CASE calls = <<>>
    BY <2>1, NoCalls
  <2>2. CASE calls # <<>>
    BY <1>1, <2>2, GivenIs
  <2>3. QED BY <2>1, <2>2
<1>3. Call(n) \in Frames /\ Call(n).dir = n /\ Call(n).todo = Entries(opens[n])
  BY <1>1 DEF Call, Entries, Frames, Closed
<1>4. calls' = Append(cs, Call(n))
  BY DEF OpenDir
<1> HIDE DEF L, cs
<1>5. /\ calls' \in Seq(Frames) /\ Len(calls') = L + 1
      /\ \A i \in 1 .. L : calls'[i] = cs[i]
      /\ calls'[L + 1] = Call(n)
  BY <1>2, <1>3, <1>4, AppendProperties
<1>6. DOMAIN calls' = 1 .. L + 1
  BY <1>5
<1>7. 1 .. L + 1 = 1 .. L \union {L + 1} /\ L + 1 \notin 1 .. L
  BY <1>1
<1>8. QED BY <1>1, <1>2, <1>3, <1>5, <1>6, <1>7 DEF L

(* A directory that is opened: its entries are pending in its place.       *)
LEMMA OpenStep ==
  ASSUME TreeInv, NEW n \in Nodes, OpenDir(n)
  PROVE  TreeInv'
<1>0. PICK L \in Nat, M \in Nat, d \in Nodes : L = Len(calls) /\ M = L + 1 /\ d = opens[n]
  BY CallAdded DEF TreeInv, TreeTypeOK
<1>1. /\ n \in opening /\ opening' = {} /\ present' = present /\ opens' = opens /\ deleted' = deleted
      /\ first' = first /\ kept' = kept /\ refused' = refused
      /\ n \in present /\ d \in present /\ dType[d] = DT_DIR /\ InCall
  BY <1>0 DEF OpenDir, CanOpen, InCall
<1>2. /\ calls' \in Seq(Frames)
      /\ DOMAIN calls' = DOMAIN calls \union {M} /\ M \notin DOMAIN calls
      /\ \A i \in DOMAIN calls :
           /\ calls'[i].dir = calls[i].dir
           /\ calls'[i].todo = IF i = L THEN calls[i].todo \ {n} ELSE calls[i].todo
      /\ calls'[M].dir = n /\ calls'[M].todo = Entries(d)
  BY <1>0, CallAdded
<1>3. /\ Closed(present) /\ Closed(first) /\ present \subseteq Nodes /\ first \subseteq Nodes
      /\ opens \in [Nodes -> Nodes] /\ deleted = {} /\ calls \in Seq(Frames)
      /\ DOMAIN calls = 1 .. L
  BY <1>0, <1>1 DEF TreeInv, TreeTypeOK, Closed
<1>4. (\A i \in DOMAIN calls : Dir(i)' = Dir(i)) /\ Dir(M)' = d
  BY <1>0, <1>1, <1>2 DEF Dir
<1>5. \A m \in Entries(d) : m \in present /\ m \in Nodes /\ Parent[m] = d /\ m # d /\ Under(m, d)
  BY <1>3, UnderSelf, UnderParent DEF Entries
<1>7. calls = <<>> => n = Root /\ M = 1 /\ DOMAIN calls = {}
  BY <1>0, <1>1, NoCalls DEF TreeInv, OpeningInv
<1>8. calls # <<>> =>
        /\ L \in DOMAIN calls /\ M > 1 /\ M # 1
        /\ n \in calls[L].todo /\ n \notin Unfilled /\ IsDir(dType[n]) /\ n \in Top.todo
        /\ Parent[n] = Dir(L) /\ n # Dir(L) /\ Reach(n)
  <2> SUFFICES ASSUME calls # <<>>
               PROVE  /\ L \in DOMAIN calls /\ M > 1 /\ M # 1
                      /\ n \in calls[L].todo /\ n \notin Unfilled /\ IsDir(dType[n]) /\ n \in Top.todo
                      /\ Parent[n] = Dir(L) /\ n # Dir(L) /\ Reach(n)
    OBVIOUS
  <2>1. n \in Top.todo /\ n \notin Unfilled /\ IsDir(dType[n])
    BY <1>1 DEF TreeInv, OpeningInv
  <2>2. L \in DOMAIN calls /\ M > 1
    BY <1>0, CallFacts
  <2>3. QED BY <1>0, <2>1, <2>2, EntryFacts
<1>9. n \notin Swapped => d = IF calls = <<>> THEN Emptied ELSE n
  <2>1. n \notin Swapped => d = Opened(n)
    BY <1>0 DEF Swapped
  <2>2. IsDir(dType[n]) => Opened(n) = n
    BY Types DEF DT_DIR, DT_LNK, DT_BLK, DT_SOCK
  <2>3. QED BY <1>7, <1>8, <2>1, <2>2 DEF Emptied
<1>10. Reach(d)
  <2>1. CASE n \in Swapped
    BY <1>0, <2>1, UnderSelf DEF Reach
  <2>2. CASE n \notin Swapped
    BY <1>8, <1>9, <2>2, TopIsIn DEF Reach
  <2>3. QED BY <2>1, <2>2
<1>11. TreeTypeOK'
  <2>1. calls' # <<>>
    BY <1>2, NoCalls
  <2>2. QED BY <1>1, <1>2, <1>3, <2>1 DEF TreeTypeOK, Closed, InCall
<1>12. FramesInv'
  <2>1. ASSUME NEW i \in DOMAIN calls'
        PROVE  /\ dType[Dir(i)'] = DT_DIR /\ Reach(Dir(i))'
               /\ \A m \in calls'[i].todo : Parent[m] = Dir(i)' /\ m # Dir(i)'
    <3>1. CASE i = M
      <4>1. dType[Dir(i)'] = DT_DIR /\ \A m \in calls'[i].todo : Parent[m] = Dir(i)' /\ m # Dir(i)'
        BY <1>1, <1>2, <1>4, <1>5, <3>1
      <4>2. Dir(i)' = d
        BY <1>4, <3>1
      <4>3. Reach(Dir(i))'
        BY <1>1, <1>10, <4>2 DEF Reach, Swapped, Opened, Emptied, Under, Ancestors
      <4>4. QED BY <4>1, <4>3
    <3>2. CASE i \in DOMAIN calls
      <4>1. /\ dType[Dir(i)] = DT_DIR /\ Reach(Dir(i))
            /\ \A m \in calls[i].todo : Parent[m] = Dir(i) /\ m # Dir(i)
        BY <3>2 DEF TreeInv, FramesInv
      <4>2. Dir(i)' = Dir(i) /\ calls'[i].todo \subseteq calls[i].todo
        BY <1>2, <1>4, <3>2
      <4>3. Reach(Dir(i))' <=> Reach(Dir(i))
        BY <1>1, <4>2 DEF Reach, Swapped, Opened, Emptied, Under, Ancestors
      <4>4. QED BY <4>1, <4>2, <4>3
    <3>3. QED BY <1>2, <3>1, <3>2
  <2>2. calls'[1].dir = Root
    <3>1. CASE calls = <<>>
      BY <1>2, <1>7, <3>1
    <3>2. CASE calls # <<>>
      BY <1>2, <3>2, CallFacts
    <3>3. QED BY <3>1, <3>2
  <2>3. QED BY <2>1, <2>2 DEF FramesInv
<1>13. OpeningInv' /\ OutsideInv'
  BY <1>1 DEF TreeInv, OpeningInv, OutsideInv, Reach, Swapped, Under, Emptied, Opened
<1>14. ASSUME Swapped' = {} PROVE CallsApart' /\ AllThere' /\ Done' /\ LinkStands'
  <2>1. Swapped = {} /\ CallsApart /\ AllThere /\ Done /\ LinkStands
    <3>1. Swapped = {}
      BY <1>1, <1>14, SameLinks
    <3>2. QED BY <1>1, <3>1 DEF TreeInv, QuietInv
  <2>2. /\ calls = <<>> => d = Emptied
        /\ calls # <<>> => d = n /\ \A i \in DOMAIN calls : ~Under(Dir(i), d)
    <3>1. calls # <<>> => \A i \in DOMAIN calls : ~Under(Dir(i), n)
      BY <1>8, <2>1, EntryFacts
    <3>2. QED BY <1>9, <2>1, <3>1
  <2>3. \A i \in DOMAIN calls : calls # <<>> /\ ~Under(Dir(i), d) /\ Dir(i) # d
    BY <1>7, <2>2, UnderSelf
  <2>4. \A i \in DOMAIN calls : calls'[i].todo \subseteq calls[i].todo /\ d \notin calls'[i].todo
    <3>1. ASSUME NEW i \in DOMAIN calls, i # L, d \in calls[i].todo PROVE FALSE
      <4>1. Parent[n] = Dir(i) /\ Parent[n] = Dir(L) /\ L \in DOMAIN calls
        BY <1>8, <2>2, <2>3, <3>1, CallFacts
      <4>2. QED BY <2>1, <3>1, <4>1 DEF CallsApart
    <3>2. QED BY <1>2, <2>2, <2>3, <3>1
  <2>5. \A m : calls # <<>> /\ Under(d, m) /\ m # d => Under(Dir(L), m)
    BY <1>8, <2>2, UnderParent
  <2>6. CallsApart'
    <3>1. \A i, j \in DOMAIN calls' : i # j => Dir(i)' # Dir(j)'
      BY <1>2, <1>4, <2>1, <2>3 DEF CallsApart
    <3>2. ASSUME NEW i \in DOMAIN calls, NEW m \in calls'[i].todo
          PROVE  ~Under(d, m) /\ \A j \in DOMAIN calls : ~Under(Dir(j), m)
      <4>1. \A j \in DOMAIN calls : ~Under(Dir(j), m)
        BY <2>1, <2>4, <3>2 DEF CallsApart
      <4>2. ~Under(d, m)
        BY <1>8, <2>3, <2>4, <2>5, <3>2, <4>1
      <4>3. QED BY <4>1, <4>2
    <3>3. ASSUME NEW m \in Entries(d) PROVE ~Under(d, m) /\ \A j \in DOMAIN calls : ~Under(Dir(j), m)
      <4>1. m \in Nodes /\ m # d /\ Under(m, d)
        BY <1>5
      <4>2. ~Under(d, m)
        BY <4>1, Acyclic
      <4>3. ASSUME NEW j \in DOMAIN calls, Under(Dir(j), m) PROVE FALSE
        <5>1. Dir(j) \in Nodes
          BY <2>3, <4>3, CallFacts
        <5>2. QED BY <2>3, <4>1, <4>3, <5>1, UnderTrans
      <4>4. QED BY <4>2, <4>3
    <3>4. \A i, j \in DOMAIN calls' : \A m \in calls'[i].todo : ~Under(Dir(j)', m)
      <4> SUFFICES ASSUME NEW i \in DOMAIN calls', NEW j \in DOMAIN calls', NEW m \in calls'[i].todo
                   PROVE  ~Under(Dir(j)', m)
        OBVIOUS
      <4>1. Dir(j)' = d \/ (j \in DOMAIN calls /\ Dir(j)' = Dir(j))
        BY <1>2, <1>4
      <4>2. i \in DOMAIN calls \/ m \in Entries(d)
        BY <1>2
      <4>3. QED BY <3>2, <3>3, <4>1, <4>2
    <3>5. ASSUME NEW i \in DOMAIN calls', i > 1
          PROVE  calls'[i].dir = Dir(i)' /\ Parent[Dir(i)'] = Dir(i - 1)' /\ Dir(i)' \notin Unfilled
      <4>1. i - 1 \in DOMAIN calls /\ Dir(i - 1)' = Dir(i - 1)
        <5>1. i - 1 \in DOMAIN calls
          BY <1>0, <1>2, <1>3, <3>5
        <5>2. QED BY <1>4, <5>1
      <4>2. CASE i = M
        <5>1. calls # <<>> /\ i - 1 = L
          BY <1>0, <1>7, <3>5, <4>2
        <5>2. QED BY <1>2, <1>4, <1>8, <2>2, <4>1, <4>2, <5>1
      <4>3. CASE i \in DOMAIN calls
        BY <1>2, <1>4, <2>1, <3>5, <4>1, <4>3 DEF CallsApart
      <4>4. QED BY <1>2, <4>2, <4>3
    <3>6. ASSUME NEW i \in DOMAIN calls', NEW x, Under(Dir(i)', x), Under(x, Emptied)
          PROVE  \E j \in DOMAIN calls' : j <= i /\ x = Dir(j)'
      <4>1. CASE i \in DOMAIN calls
        <5>1. PICK j \in DOMAIN calls : j <= i /\ x = Dir(j)
          BY <1>4, <2>1, <3>6, <4>1 DEF CallsApart
        <5>2. QED BY <1>2, <1>4, <5>1
      <4>2. CASE i = M /\ x = d
        BY <1>0, <1>4, <4>2
      <4>3. CASE i = M /\ x # d
        <5>1. Under(d, x)
          BY <1>4, <3>6, <4>3
        <5>2. calls # <<>>
          <6>1. x \in Nodes
            BY <5>1, UnderUp
          <6>2. QED BY <2>2, <3>6, <4>3, <5>1, <6>1, Acyclic
        <5>3. Under(Dir(L), x) /\ L \in DOMAIN calls
          BY <1>8, <2>5, <4>3, <5>1, <5>2
        <5>4. PICK j \in DOMAIN calls : j <= L /\ x = Dir(j)
          BY <2>1, <3>6, <5>3 DEF CallsApart
        <5>5. j <= i
          BY <1>0, <1>3, <4>3, <5>4
        <5>6. QED BY <1>2, <1>4, <5>4, <5>5
      <4>4. QED BY <1>2, <4>1, <4>2, <4>3
    <3>7. QED BY <3>1, <3>4, <3>5, <3>6 DEF CallsApart, Under, Emptied, Opened
  <2>7. AllThere'
    <3>1. ASSUME NEW i \in DOMAIN calls' PROVE Dir(i)' \in present /\ calls'[i].todo \subseteq present
      <4>1. CASE i = M
        BY <1>1, <1>2, <1>4, <1>5, <4>1
      <4>2. CASE i \in DOMAIN calls
        BY <1>4, <2>1, <2>4, <4>2 DEF AllThere
      <4>3. QED BY <1>2, <4>1, <4>2
    <3>2. QED BY <1>1, <3>1 DEF AllThere
  <2>8. LinkStands'
    <3>1. Emptied # Root => Emptied \in present
      BY <1>1, <2>1, <2>2 DEF LinkStands
    <3>2. QED BY <1>1, <3>1 DEF LinkStands, Emptied, Opened
  <2>9. \A x : Pending(x)' <=>
          \/ x = d \/ \E m \in Entries(d) : Under(x, m)
          \/ \E i \in DOMAIN calls : x = Dir(i) \/ \E m \in calls'[i].todo : Under(x, m)
    BY <1>1, <1>2, <1>4 DEF Pending, Under
  <2>10. ASSUME NEW x, Under(x, d) PROVE Pending(x)
    <3>1. CASE calls = <<>>
      BY <1>1, <2>2, <2>10, <3>1 DEF Pending
    <3>2. CASE calls # <<>>
      BY <1>8, <2>2, <2>10, <3>2 DEF Pending
    <3>3. QED BY <3>1, <3>2
  <2>11. ASSUME NEW x \in first, Pending(x)' PROVE Pending(x)
    <3>1. CASE x = d
      BY <2>10, <3>1, UnderSelf
    <3>2. CASE \E m \in Entries(d) : Under(x, m)
      BY <1>3, <1>5, <2>10, <3>2, UnderTrans
    <3>3. CASE \E i \in DOMAIN calls : x = Dir(i) \/ \E m \in calls'[i].todo : Under(x, m)
      BY <2>4, <3>3 DEF Pending
    <3>4. QED BY <2>9, <2>11, <3>1, <3>2, <3>3
  <2>12. ASSUME NEW x \in present, Under(x, d) PROVE Pending(x)'
    <3>1. CASE x = d
      BY <2>9, <3>1
    <3>2. CASE x # d
      <4>1. PICK m \in present : Parent[m] = d /\ m # d /\ Under(x, m)
        BY <1>3, <2>12, <3>2, UnderEntry
      <4>2. m \in Entries(d)
        BY <4>1 DEF Entries
      <4>3. QED BY <2>9, <4>1, <4>2
    <3>3. QED BY <3>1, <3>2
  <2>13. ASSUME NEW x \in present, Pending(x) PROVE Pending(x)'
    <3>1. CASE calls = <<>>
      <4>1. Under(x, d)
        BY <1>7, <2>2, <2>13, <3>1 DEF Pending
      <4>2. QED BY <2>12, <4>1
    <3>2. CASE calls # <<>>
      <4>1. PICK i \in DOMAIN calls : x = Dir(i) \/ \E m \in calls[i].todo : Under(x, m)
        BY <2>13, <3>2 DEF Pending
      <4>2. CASE x = Dir(i)
        BY <2>9, <4>2
      <4>3. ASSUME NEW m \in calls[i].todo, Under(x, m) PROVE Pending(x)'
        <5>1. CASE m = d
          BY <2>12, <4>3, <5>1
        <5>2. CASE m # d
          <6>1. m \in calls'[i].todo
            BY <1>2, <2>2, <3>2, <5>2
          <6>2. QED BY <2>9, <4>3, <6>1
        <5>3. QED BY <5>1, <5>2
      <4>4. QED BY <4>1, <4>2, <4>3
    <3>3. QED BY <3>1, <3>2
  <2>14. \A x : (Settled(x)' <=> Settled(x)) /\ (Stays(x)' <=> Stays(x)) /\ (Left(x)' <=> Left(x))
    BY <1>1 DEF Settled, Stays, Left, Under, Emptied, Opened
  <2>15. \A x : AddedUnder(x)' <=> AddedUnder(x)
    BY <1>1 DEF AddedUnder, Under
  <2>16. \A x \in first : Under(x, Emptied) =>
           /\ Pending(x)' => x \in present /\ ~Settled(x)'
           /\ Stays(x)' => x \in present
           /\ x \in present => Pending(x)' \/ Left(x)' \/ AddedUnder(x)'
    BY <2>1, <2>11, <2>13, <2>14, <2>15 DEF Done
  <2>17. Done'
    BY <1>1, <2>16 DEF Done, Under, Emptied, Opened
  <2>18. QED BY <2>6, <2>7, <2>8, <2>17
<1>15. QED BY <1>11, <1>12, <1>13, <1>14 DEF TreeInv, QuietInv

(* Something made by another process: none of what is pending lies in it.  *)
LEMMA MakeStep ==
  ASSUME TreeInv, NEW n \in Nodes, NEW given \in BOOLEAN, MakeEntry(n, given)
  PROVE  TreeInv'
<1>1. /\ InCall /\ n \notin present /\ n \notin first /\ Parent[n] \in present
      /\ present' = present \union {n} /\ opens' = opens /\ opening' = opening
      /\ deleted' = deleted /\ first' = first /\ kept' = kept /\ refused' = refused
      /\ calls' = [i \in DOMAIN calls |->
                     [calls[i] EXCEPT !.todo = IF given /\ Dir(i) = Parent[n] THEN @ \union {n} ELSE @]]
  BY DEF MakeEntry
<1>2. PICK L \in Nat : L = Len(calls) /\ DOMAIN calls = 1 .. L
  BY DEF TreeInv, TreeTypeOK
<1>3. /\ Closed(present) /\ Closed(first) /\ present \subseteq Nodes /\ first \subseteq Nodes
      /\ opens \in [Nodes -> Nodes] /\ deleted = {} /\ calls \in Seq(Frames)
  BY <1>1 DEF TreeInv, TreeTypeOK, Closed
<1>4. \A i \in DOMAIN calls : calls[i] \in Frames
  BY <1>2, <1>3, ElementOfSeq
<1>5. /\ DOMAIN calls' = DOMAIN calls
      /\ \A i \in DOMAIN calls :
           /\ calls'[i] \in Frames /\ calls'[i].dir = calls[i].dir
           /\ calls[i].todo \subseteq calls'[i].todo
           /\ \A m \in calls'[i].todo : m \in calls[i].todo \/ (m = n /\ Dir(i) = Parent[n])
  <2>1. DOMAIN calls' = DOMAIN calls
    BY <1>1
  <2>2. ASSUME NEW i \in DOMAIN calls
        PROVE  /\ calls'[i] \in Frames /\ calls'[i].dir = calls[i].dir
               /\ calls[i].todo \subseteq calls'[i].todo
               /\ \A m \in calls'[i].todo : m \in calls[i].todo \/ (m = n /\ Dir(i) = Parent[n])
    <3>1. calls'[i] = [calls[i] EXCEPT !.todo = IF given /\ Dir(i) = Parent[n] THEN @ \union {n} ELSE @]
      BY <1>1
    <3>2. QED BY <1>4, <3>1 DEF Frames
  <2>3. QED BY <2>1, <2>2
<1>6. calls' \in Seq(Frames) /\ Len(calls') = L
  <2>1. calls' = [i \in 1 .. L |-> calls'[i]] /\ \A i \in 1 .. L : calls'[i] \in Frames
    BY <1>1, <1>2, <1>5
  <2>2. QED BY <1>2, <2>1
<1>7. calls' = <<>> <=> calls = <<>>
  <2>1. calls = <<>> <=> DOMAIN calls = {}
    BY <1>3, NoCalls
  <2>2. calls' = <<>> <=> DOMAIN calls' = {}
    BY <1>6, NoCalls
  <2>3. QED BY <1>5, <2>1, <2>2
<1>8. \A i \in DOMAIN calls : Dir(i)' = Dir(i)
  BY <1>1, <1>5 DEF Dir
<1>9. n # Parent[n]
  BY <1>1
<1>10. TreeTypeOK'
  <2>1. Closed(present)' /\ Closed(first)'
    BY <1>1, <1>3 DEF Closed
  <2>2. InCall' /\ opening \in SUBSET Nodes
    BY <1>1, <1>7 DEF InCall, TreeInv, TreeTypeOK
  <2>3. QED BY <1>1, <1>3, <1>6, <2>1, <2>2 DEF TreeTypeOK
<1>11. FramesInv'
  <2>1. ASSUME NEW i \in DOMAIN calls'
        PROVE  /\ dType[Dir(i)'] = DT_DIR /\ Reach(Dir(i))'
               /\ \A m \in calls'[i].todo : Parent[m] = Dir(i)' /\ m # Dir(i)'
    <3>1. i \in DOMAIN calls
      BY <1>5
    <3>2. /\ dType[Dir(i)] = DT_DIR /\ Reach(Dir(i))
          /\ \A m \in calls[i].todo : Parent[m] = Dir(i) /\ m # Dir(i)
      BY <3>1 DEF TreeInv, FramesInv
    <3>3. Dir(i)' = Dir(i)
      BY <1>8, <3>1
    <3>4. Reach(Dir(i))' <=> Reach(Dir(i))
      BY <1>1, <3>3 DEF Reach, Swapped, Opened, Emptied, Under, Ancestors
    <3>5. \A m \in calls'[i].todo : Parent[m] = Dir(i) /\ m # Dir(i)
      BY <1>5, <1>9, <3>1, <3>2
    <3>6. QED BY <3>2, <3>3, <3>4, <3>5
  <2>2. calls' # <<>> => calls'[1].dir = Root
    <3>1. calls # <<>> => 1 \in DOMAIN calls /\ calls[1].dir = Root
      BY CallFacts
    <3>2. QED BY <1>5, <1>7, <3>1
  <2>3. QED BY <2>1, <2>2 DEF FramesInv
<1>12. OpeningInv'
  <2>1. ASSUME NEW m \in opening, calls # <<>> PROVE m \in calls'[L].todo /\ m \notin Unfilled /\ IsDir(dType[m])
    <3>1. m \in calls[L].todo /\ m \notin Unfilled /\ IsDir(dType[m])
      BY <1>2, <2>1 DEF TreeInv, OpeningInv, Top
    <3>2. L \in DOMAIN calls
      BY <1>2, <2>1, CallFacts
    <3>3. QED BY <1>5, <3>1, <3>2
  <2>2. \A m \in opening : calls = <<>> => m = Root
    BY DEF TreeInv, OpeningInv
  <2>3. QED BY <1>1, <1>6, <1>7, <2>1, <2>2 DEF OpeningInv, Top
<1>13. OutsideInv'
  BY <1>1 DEF TreeInv, OutsideInv, Reach, Swapped, Under, Emptied, Opened
<1>14. ASSUME Swapped' = {} PROVE CallsApart' /\ AllThere' /\ Done' /\ LinkStands'
  <2>1. CallsApart /\ AllThere /\ Done /\ LinkStands
    <3>1. Swapped = {}
      BY <1>1, <1>14, SameLinks
    <3>2. QED BY <1>1, <3>1 DEF TreeInv, QuietInv
  <2>2. CallsApart'
    <3>1. \A i, j \in DOMAIN calls' : i # j => Dir(i)' # Dir(j)'
      BY <1>5, <1>8, <2>1 DEF CallsApart
    <3>2. \A i, j \in DOMAIN calls' : \A m \in calls'[i].todo : ~Under(Dir(j)', m)
      <4>1. \A j \in DOMAIN calls : ~Under(Dir(j), n)
        BY <1>1, <1>3, <2>1, UpPresent DEF AllThere
      <4>2. QED BY <1>5, <1>8, <2>1, <4>1 DEF CallsApart
    <3>3. ASSUME NEW i \in DOMAIN calls', i > 1
          PROVE  calls'[i].dir = Dir(i)' /\ Parent[Dir(i)'] = Dir(i - 1)' /\ Dir(i)' \notin Unfilled
      <4>1. i - 1 \in DOMAIN calls
        BY <1>2, <1>5, <3>3
      <4>2. QED BY <1>5, <1>8, <2>1, <3>3, <4>1 DEF CallsApart
    <3>4. ASSUME NEW i \in DOMAIN calls', NEW x, Under(Dir(i)', x), Under(x, Emptied)
          PROVE  \E j \in DOMAIN calls' : j <= i /\ x = Dir(j)'
      <4>1. PICK j \in DOMAIN calls : j <= i /\ x = Dir(j)
        BY <1>5, <1>8, <2>1, <3>4 DEF CallsApart
      <4>2. QED BY <1>5, <1>8, <4>1
    <3>5. QED BY <3>1, <3>2, <3>3, <3>4 DEF CallsApart, Under, Emptied, Opened
  <2>3. AllThere'
    <3>1. ASSUME NEW i \in DOMAIN calls' PROVE Dir(i)' \in present' /\ calls'[i].todo \subseteq present'
      BY <1>1, <1>5, <1>8, <2>1 DEF AllThere
    <3>2. QED BY <3>1 DEF AllThere
  <2>4. LinkStands'
    BY <1>1, <1>7, <2>1 DEF LinkStands, Emptied, Opened
  <2>5. \A x : Pending(x)' <=>
          \/ \E i \in DOMAIN calls : x = Dir(i) \/ \E m \in calls'[i].todo : Under(x, m)
          \/ calls = <<>> /\ opening # {} /\ Under(x, Emptied)
    BY <1>1, <1>5, <1>7, <1>8 DEF Pending, Under, Emptied, Opened
  <2>6. \A x : Pending(x) => Pending(x)'
    BY <1>5, <2>5 DEF Pending
  <2>7. ASSUME NEW x \in first, Pending(x)' PROVE Pending(x)
    <3>1. ~Under(x, n)
      BY <1>1, <1>3, UpPresent
    <3>2. QED BY <1>5, <2>5, <2>7, <3>1 DEF Pending
  <2>8. \A x : (Settled(x)' <=> Settled(x)) /\ (Stays(x)' <=> Stays(x)) /\ (Left(x)' <=> Left(x))
    BY <1>1 DEF Settled, Stays, Left, Under, Emptied, Opened
  <2>9. \A x : AddedUnder(x) => AddedUnder(x)'
    BY <1>1 DEF AddedUnder, Under
  <2>10. \A x \in first : Under(x, Emptied) =>
           /\ Pending(x)' => x \in present' /\ ~Settled(x)'
           /\ Stays(x)' => x \in present'
           /\ x \in present' => Pending(x)' \/ Left(x)' \/ AddedUnder(x)'
    BY <1>1, <2>1, <2>6, <2>7, <2>8, <2>9 DEF Done
  <2>11. Done'
    BY <1>1, <2>10 DEF Done, Under, Emptied, Opened
  <2>12. QED BY <2>2, <2>3, <2>4, <2>11
<1>15. QED BY <1>10, <1>11, <1>12, <1>13, <1>14 DEF TreeInv, QuietInv

(* A link in the place of a directory: what it leads to may be come to.    *)
LEMMA SwapStep ==
  ASSUME TreeInv, NEW n \in Nodes, NEW d \in Nodes, Swap(n, d)
  PROVE  TreeInv'
<1>1. /\ InCall /\ n \in present /\ opens[n] = n /\ dType[n] = DT_DIR /\ d # n
      /\ Under(n, Emptied) /\ \A i \in DOMAIN calls : ~Under(Dir(i), n)
      /\ opens' = [m \in Nodes |-> IF opens[m] = n THEN d ELSE opens[m]]
      /\ present' = {m \in present : m = n \/ ~Under(m, n)}
      /\ calls' = calls /\ opening' = opening /\ deleted' = deleted /\ first' = first
  BY UnderSelf DEF Swap
<1>2. /\ Closed(present) /\ Closed(first) /\ present \subseteq Nodes /\ first \subseteq Nodes
      /\ opens \in [Nodes -> Nodes] /\ deleted = {} /\ calls \in Seq(Frames) /\ opening \in SUBSET Nodes
  BY <1>1 DEF TreeInv, TreeTypeOK, Closed
<1>3. \A i \in DOMAIN calls : Dir(i)' = Dir(i)
  <2>1. \A i \in DOMAIN calls : Dir(i) # n /\ calls[i].dir \in Nodes
    BY <1>1, <1>2, CallFacts, UnderSelf, NoCalls
  <2>2. QED BY <1>1, <2>1 DEF Dir
<1>4. n \in Swapped'
  <2>1. Opened(n) = n
    BY <1>1, Types DEF DT_DIR, DT_LNK
  <2>2. opens'[n] # Opened(n)
    BY <1>1, <2>1
  <2>3. QED BY <2>2 DEF Swapped, Opened
<1>5. ASSUME NEW x \in Nodes, Reach(x) PROVE Under(x, Emptied) \/ \E m \in Swapped' : Under(x, opens'[m])
  <2>1. ASSUME NEW m \in Swapped, Under(x, opens[m])
        PROVE  Under(x, Emptied) \/ \E k \in Swapped' : Under(x, opens'[k])
    <3>1. CASE opens[m] = n
      BY <1>1, <2>1, <3>1, UnderTrans
    <3>2. CASE opens[m] # n
      <4>1. opens'[m] = opens[m] /\ m \in Nodes /\ opens[m] # Opened(m)
        BY <1>1, <3>2 DEF Swapped
      <4>2. m \in Swapped'
        BY <4>1 DEF Swapped, Opened
      <4>3. QED BY <2>1, <4>1, <4>2
    <3>3. QED BY <3>1, <3>2
  <2>2. QED BY <1>5, <2>1 DEF Reach
<1>6. Closed(present)'
  <2>1. ASSUME NEW m \in present' PROVE Parent[m] \in present'
    <3>1. m \in Nodes /\ m \in present /\ Parent[m] \in present /\ (m = n \/ ~Under(m, n))
      BY <1>1, <1>2 DEF Closed
    <3>2. CASE m = n
      <4>1. Under(n, Parent[n])
        BY UnderSelf, UnderUp
      <4>2. Under(Parent[n], n) => Parent[n] = n
        BY <1>2, <3>1, <3>2, <4>1, Acyclic
      <4>3. QED BY <1>1, <3>1, <3>2, <4>2
    <3>3. CASE ~Under(m, n)
      BY <1>1, <3>1, <3>3, UnderParent
    <3>4. QED BY <3>1, <3>2, <3>3
  <2>2. present' \in SUBSET Nodes
    BY <1>1, <1>2
  <2>3. QED BY <2>1, <2>2 DEF Closed
<1>7. TreeTypeOK'
  <2>1. opens' \in [Nodes -> Nodes] /\ InCall' /\ Closed(first)'
    BY <1>1, <1>2 DEF InCall, Closed
  <2>2. QED BY <1>1, <1>2, <1>6, <2>1 DEF TreeTypeOK
<1>8. FramesInv'
  <2>1. ASSUME NEW i \in DOMAIN calls'
        PROVE  /\ dType[Dir(i)'] = DT_DIR /\ Reach(Dir(i))'
               /\ \A m \in calls'[i].todo : Parent[m] = Dir(i)' /\ m # Dir(i)'
    <3>1. /\ dType[Dir(i)] = DT_DIR /\ Reach(Dir(i)) /\ Dir(i) \in Nodes
          /\ \A m \in calls[i].todo : Parent[m] = Dir(i) /\ m # Dir(i)
      BY <1>1, <2>1, CallFacts, NoCalls
    <3>2. Dir(i)' = Dir(i)
      BY <1>1, <1>3, <2>1
    <3>3. Reach(Dir(i))'
      <4>1. Under(Dir(i), Emptied) \/ \E m \in Swapped' : Under(Dir(i), opens'[m])
        BY <1>5, <3>1
      <4>2. QED BY <3>2, <4>1 DEF Reach, Under, Emptied, Opened
    <3>4. QED BY <1>1, <3>1, <3>2, <3>3
  <2>2. calls' # <<>> => calls'[1].dir = Root
    BY <1>1 DEF TreeInv, FramesInv
  <2>3. QED BY <2>1, <2>2 DEF FramesInv
<1>9. OpeningInv'
  BY <1>1 DEF TreeInv, OpeningInv, Top
<1>10. OutsideInv'
  <2>1. ASSUME NEW x \in first
        PROVE  x \in present' \/ Under(x, Emptied) \/ \E m \in Swapped' : Under(x, opens'[m])
    <3>1. x \in Nodes /\ (x \in present \/ Reach(x))
      BY <1>2 DEF TreeInv, OutsideInv
    <3>2. CASE x \in present
      BY <1>1, <3>1, <3>2, UnderTrans
    <3>3. CASE Reach(x)
      BY <1>5, <3>1, <3>3
    <3>4. QED BY <3>1, <3>2, <3>3
  <2>2. QED BY <1>1, <2>1 DEF OutsideInv, Reach, Under, Emptied, Opened
<1>11. QED BY <1>4, <1>7, <1>8, <1>9, <1>10 DEF TreeInv, QuietInv

LEMMA TreeInvNext == TreeInv /\ [TreeNext]_treeVars => TreeInv'
<1> SUFFICES ASSUME TreeInv, [TreeNext]_treeVars PROVE TreeInv'
  OBVIOUS
<1>1. CASE DeleteDirTree
  BY <1>1, DeleteStep
<1>2. CASE ReadFails
  BY <1>2, ReadFailsStep
<1>3. ASSUME NEW ok \in BOOLEAN, LeaveDir(ok) PROVE TreeInv'
  BY <1>3, LeaveStep
<1>4. ASSUME NEW ok \in BOOLEAN, NEW n \in Nodes, RemoveEntry(n, ok) PROVE TreeInv'
  BY <1>4, RemoveStep, RemoveFailsStep
<1>5. ASSUME NEW n \in Nodes, EnterDir(n) PROVE TreeInv'
  BY <1>5, EnterStep
<1>6. ASSUME NEW n \in Nodes, OpenDir(n) PROVE TreeInv'
  BY <1>6, OpenStep
<1>7. ASSUME NEW n \in Nodes, OpenFails(n) PROVE TreeInv'
  BY <1>7, OpenFailsStep
<1>8. ASSUME NEW n \in Nodes, NEW given \in BOOLEAN, MakeEntry(n, given) PROVE TreeInv'
  BY <1>8, MakeStep
<1>9. ASSUME NEW n \in Nodes, NEW d \in Nodes, Swap(n, d) PROVE TreeInv'
  BY <1>9, SwapStep
<1>10. CASE UNCHANGED treeVars
  <2>1. /\ present' = present /\ opens' = opens /\ calls' = calls /\ opening' = opening
        /\ deleted' = deleted /\ first' = first /\ kept' = kept /\ refused' = refused
    BY <1>10 DEF treeVars
  <2>2. /\ Swapped' = Swapped /\ InCall' = InCall /\ TreeTypeOK' = TreeTypeOK
        /\ OpeningInv' = OpeningInv
    BY <2>1 DEF Swapped, InCall, TreeTypeOK, OpeningInv, Opened, Closed, Top
  <2>3. FramesInv' /\ OutsideInv'
    BY <2>1 DEF TreeInv, FramesInv, OutsideInv, Reach, Swapped, Dir, Under, Emptied, Opened
  <2>4. (CallsApart' <=> CallsApart) /\ (AllThere' <=> AllThere) /\ (LinkStands' <=> LinkStands)
    BY <2>1 DEF CallsApart, AllThere, LinkStands, Dir, Under, Emptied, Opened
  <2>5. \A x : (Pending(x)' <=> Pending(x)) /\ (Settled(x)' <=> Settled(x)) /\ (Stays(x)' <=> Stays(x))
               /\ (Left(x)' <=> Left(x)) /\ (AddedUnder(x)' <=> AddedUnder(x))
    BY <2>1 DEF Pending, Settled, Stays, Left, AddedUnder, Dir, Under, Emptied, Opened
  <2>6. Done' <=> Done
    BY <2>1, <2>5 DEF Done, Under, Emptied, Opened
  <2>7. QED BY <2>1, <2>2, <2>3, <2>4, <2>6 DEF TreeInv, QuietInv
<1>11. QED BY <1>1, <1>2, <1>3, <1>4, <1>5, <1>6, <1>7, <1>8, <1>9, <1>10 DEF TreeNext

(* Whatever fails and whatever others do, DeleteDirTree comes out of its   *)
(* directory only through a link that takes a directory's place while it   *)
(* is being entered (lines 102 and 98); without one it leaves exactly what *)
(* could not be removed, opened or read, what its test of d_type leaves    *)
(* (line 102), what was added, and the directories these are in.           *)
THEOREM DeletesWholeTree == TreeSpec => []DeletesTheTree
<1>1. TreeInv => DeletesTheTree
  <2> SUFFICES ASSUME TreeInv PROVE DeletesTheTree
    OBVIOUS
  <2>1. \A n \in first : n \in present \/ Under(n, Emptied) \/ \E m \in Swapped : Under(n, opens[m])
    BY DEF TreeInv, OutsideInv, Reach
  <2>2. ASSUME deleted = {TRUE}, Swapped = {}, NEW n \in first, Under(n, Emptied)
        PROVE  /\ Left(n) => n \in present
               /\ n \in present => Left(n) \/ AddedUnder(n)
    <3>1. Done /\ LinkStands
      BY <2>2 DEF TreeInv, QuietInv
    <3>2. calls = <<>> /\ opening = {}
      BY <2>2 DEF TreeInv, TreeTypeOK, InCall
    <3>3. Closed(present) /\ Closed(first)
      BY DEF TreeInv, TreeTypeOK
    <3>4. ~Pending(n)
      BY <3>2, NoCalls DEF Pending
    <3>5. n \in present => Left(n) \/ AddedUnder(n)
      BY <2>2, <3>1, <3>4 DEF Done
    <3>6. ASSUME NEW s \in first, Stays(s), Under(s, n) PROVE n \in present
      <4>1. Under(s, Emptied)
        BY <2>2, <3>3, <3>6, UnderTrans DEF Closed
      <4>2. s \in present
        BY <3>1, <3>6, <4>1 DEF Done
      <4>3. QED BY <3>3, <3>6, <4>2, UpPresent
    <3>7. n = Emptied /\ n # Root => n \in present
      BY <2>2, <3>1 DEF LinkStands
    <3>8. QED BY <3>5, <3>6, <3>7 DEF Left
  <2>3. QED BY <2>1, <2>2 DEF DeletesTheTree
<1>2. QED BY <1>1, TreeInvInit, TreeInvNext, PTL DEF TreeSpec

------------------------------------------------------------------------------
(* DeviceXml. A file that is read is the one that was saved.               *)

Line == [type : Nat, points : Seq(Nat)]

DeviceTypeOK ==
  /\ lanes \in 0 .. MAX_LINE - 1
  /\ lines \in [1 .. MAX_LINE -> Line]
  /\ saved \in [lanes : 0 .. MAX_LINE - 1, lines : [1 .. MAX_LINE -> Line]]

(* A file that can be read is the last one that was saved.                 *)
DeviceInv == DeviceTypeOK /\ xml \subseteq {Elements(saved.lanes, saved.lines)}

LEMMA NoLineType == NoLine \in Line
<1>1. <<>> \in Seq(Nat)
  OBVIOUS
<1>2. QED BY <1>1 DEF NoLine, Line

LEMMA ElementParsed ==
  ASSUME NEW line \in Line
  PROVE  /\ ParsedLine(Element(line)) \in Line
         /\ ParsedLine(Element(line)).points = line.points
         /\ line.points # <<>> => ParsedLine(Element(line)) = line
         /\ Element(line).type # {} <=> line.points # <<>>
<1>1. CASE line.points = <<>>
  <2>1. Element(line) = [type |-> {}, points |-> line.points]
    BY <1>1 DEF Element
  <2>2. ParsedLine(Element(line)) = NoLine
    BY <2>1 DEF ParsedLine
  <2>3. QED BY <1>1, <2>1, <2>2, NoLineType DEF NoLine
<1>2. CASE line.points # <<>>
  <2>1. Element(line) = [type |-> {line.type}, points |-> line.points]
    BY <1>2 DEF Element
  <2>2. ParsedLine(Element(line)) = [type |-> line.type, points |-> line.points]
    BY <2>1 DEF ParsedLine
  <2>3. line = [type |-> line.type, points |-> line.points]
    BY DEF Line
  <2>4. QED BY <1>2, <2>1, <2>2, <2>3
<1>3. QED BY <1>1, <1>2

(* The file of a device has an element for each of its lines, and as many  *)
(* of them count as have a point.                                          *)
LEMMA ElementsParsed ==
  ASSUME NEW n \in 0 .. MAX_LINE - 1, NEW all \in [1 .. MAX_LINE -> Line]
  PROVE  LET doc == Elements(n, all) IN
         /\ Len(doc) = n + 1 /\ DOMAIN doc = 1 .. n + 1
         /\ \A i \in 1 .. n + 1 : doc[i] = Element(all[i]) /\ all[i] \in Line
         /\ LaneNum(doc) \in 0 .. n + 1
         /\ (\A i \in 1 .. n + 1 : all[i].points # <<>>) => LaneNum(doc) = n + 1
<1> DEFINE doc == Elements(n, all)
           counted == {i \in DOMAIN doc : doc[i].type # {}}
<1>1. n \in Nat /\ n + 1 \in Nat /\ n + 1 <= MAX_LINE
  BY DeviceAssumption
<1>2. DOMAIN doc = 1 .. n + 1 /\ Len(doc) = n + 1
  BY <1>1 DEF Elements
<1>3. \A i \in 1 .. n + 1 : doc[i] = Element(all[i]) /\ all[i] \in Line
  BY <1>1, DeviceAssumption DEF Elements
<1>4. IsFiniteSet(1 .. n + 1) /\ Cardinality(1 .. n + 1) = n + 1
  BY <1>1, FS_Interval
<1>5. counted \subseteq 1 .. n + 1
  BY <1>2
<1>6. IsFiniteSet(counted) /\ Cardinality(counted) <= n + 1
  BY <1>4, <1>5, FS_Subset
<1>7. LaneNum(doc) \in 0 .. n + 1
  BY <1>1, <1>6, FS_CardinalityType DEF LaneNum
<1>8. ASSUME \A i \in 1 .. n + 1 : all[i].points # <<>> PROVE LaneNum(doc) = n + 1
  <2>1. counted = 1 .. n + 1
    BY <1>2, <1>3, <1>8, ElementParsed
  <2>2. QED BY <1>4, <2>1 DEF LaneNum
<1> HIDE DEF doc
<1>9. QED BY <1>2, <1>3, <1>7, <1>8 DEF doc

LEMMA DeviceInvInit == DeviceInit => DeviceInv
<1> SUFFICES ASSUME DeviceInit PROVE DeviceInv
  OBVIOUS
<1>1. 0 \in 0 .. MAX_LINE - 1
  BY DeviceAssumption
<1>2. lines \in [1 .. MAX_LINE -> Line]
  <2>1. lines = [i \in 1 .. MAX_LINE |-> NoLine]
    BY DeviceAssumption DEF DeviceInit, FirstLines
  <2>2. QED BY <2>1, NoLineType
<1>3. QED BY <1>1, <1>2 DEF DeviceInit, DeviceInv, DeviceTypeOK

LEMMA DeviceInvStep == DeviceInv /\ [DeviceNext]_deviceVars => DeviceInv'
<1> SUFFICES ASSUME DeviceInv, [DeviceNext]_deviceVars PROVE DeviceInv'
  OBVIOUS
<1>t. DeviceTypeOK /\ xml \subseteq {Elements(saved.lanes, saved.lines)}
  BY DEF DeviceInv
<1>1. ASSUME NEW i \in 1 .. MAX_LINE, NEW line \in LaneLines, DrawLine(i, line) PROVE DeviceInv'
  <2>1. line \in Line
    BY DeviceAssumption DEF Line
  <2>2. QED BY <1>1, <1>t, <2>1 DEF DrawLine, DeviceInv, DeviceTypeOK
<1>2. ASSUME NEW n \in 0 .. MAX_LINE - 1, SetLanes(n) PROVE DeviceInv'
  BY <1>2, <1>t DEF SetLanes, DeviceInv, DeviceTypeOK
<1>3. CASE SaveDevicedataXml
  BY <1>3, <1>t DEF SaveDevicedataXml, DeviceInv, DeviceTypeOK
<1>4. CASE SaveDevicedataDies
  BY <1>4, <1>t DEF SaveDevicedataDies, DeviceInv, DeviceTypeOK
<1>5. CASE ParseDevicedataXml
  <2>1. PICK doc \in xml : /\ lines' = ParsedLines(doc) /\ lanes' = ParsedLanes(doc)
                           /\ UNCHANGED <<xml, saved>>
    BY <1>5 DEF ParseDevicedataXml
  <2> DEFINE n == saved.lanes
             all == saved.lines
  <2>2. doc = Elements(n, all) /\ n \in 0 .. MAX_LINE - 1 /\ all \in [1 .. MAX_LINE -> Line]
    BY <1>t, <2>1 DEF DeviceTypeOK
  <2> HIDE DEF n, all
  <2>3. /\ Len(doc) = n + 1 /\ LaneNum(doc) \in 0 .. n + 1
        /\ \A i \in 1 .. n + 1 : doc[i] = Element(all[i]) /\ all[i] \in Line
    BY <2>2, ElementsParsed
  <2>4. lanes' \in 0 .. MAX_LINE - 1
    BY <2>1, <2>2, <2>3, DeviceAssumption DEF ParsedLanes
  <2>5. \A i \in 1 .. MAX_LINE : (IF i <= Len(doc) THEN ParsedLine(doc[i]) ELSE NoLine) \in Line
    <3> SUFFICES ASSUME NEW i \in 1 .. MAX_LINE, i <= n + 1 PROVE ParsedLine(doc[i]) \in Line
      BY <2>3, NoLineType
    <3>1. i \in 1 .. n + 1
      BY <2>2
    <3>2. QED BY <2>3, <3>1, ElementParsed
  <2>6. lines' \in [1 .. MAX_LINE -> Line]
    BY <2>1, <2>5 DEF ParsedLines
  <2>7. QED BY <1>t, <2>1, <2>4, <2>6 DEF DeviceInv, DeviceTypeOK
<1>6. CASE UNCHANGED deviceVars
  BY <1>6, <1>t DEF deviceVars, DeviceInv, DeviceTypeOK
<1>7. QED BY <1>1, <1>2, <1>3, <1>4, <1>5, <1>6 DEF DeviceNext

(* A file that can be read gives back the points that were saved, and the  *)
(* whole device when each of its lines has a point, for any lines.         *)
THEOREM DevicesComeBack == DeviceSpec => []DeviceComesBack
<1>1. ASSUME DeviceInv, NEW doc \in xml
      PROVE  /\ \A i \in 1 .. saved.lanes + 1 : ParsedLines(doc)[i].points = saved.lines[i].points
             /\ saved.lanes > 0 /\ (\A i \in 1 .. saved.lanes + 1 : saved.lines[i].points # <<>>) =>
                  /\ ParsedLanes(doc) = saved.lanes
                  /\ ParsedLines(doc) = FirstLines(saved.lanes + 1, saved.lines)
  <2> DEFINE n == saved.lanes
             all == saved.lines
  <2>1. doc = Elements(n, all) /\ n \in 0 .. MAX_LINE - 1 /\ all \in [1 .. MAX_LINE -> Line]
    BY <1>1 DEF DeviceInv, DeviceTypeOK
  <2> HIDE DEF n, all
  <2>2. /\ Len(doc) = n + 1 /\ LaneNum(doc) \in 0 .. n + 1
        /\ \A i \in 1 .. n + 1 : doc[i] = Element(all[i]) /\ all[i] \in Line
        /\ (\A i \in 1 .. n + 1 : all[i].points # <<>>) => LaneNum(doc) = n + 1
    BY <2>1, ElementsParsed
  <2>3. \A i \in 1 .. n + 1 : ParsedLines(doc)[i] = ParsedLine(Element(all[i]))
    BY <2>1, <2>2, DeviceAssumption DEF ParsedLines
  <2>4. \A i \in 1 .. n + 1 : ParsedLines(doc)[i].points = all[i].points
    BY <2>2, <2>3, ElementParsed
  <2>5. ASSUME n > 0, \A i \in 1 .. n + 1 : all[i].points # <<>>
        PROVE  ParsedLanes(doc) = n /\ ParsedLines(doc) = FirstLines(n + 1, all)
    <3>1. LaneNum(doc) = n + 1
      BY <2>2, <2>5
    <3>2. ParsedLanes(doc) = n
      BY <2>1, <2>5, <3>1 DEF ParsedLanes
    <3>3. \A i \in 1 .. n + 1 : ParsedLine(doc[i]) = all[i]
      BY <2>2, <2>5, ElementParsed
    <3>4. ASSUME NEW i \in 1 .. MAX_LINE
          PROVE  (IF i <= Len(doc) THEN ParsedLine(doc[i]) ELSE NoLine) = (IF i <= n + 1 THEN all[i] ELSE NoLine)
      BY <2>1, <2>2, <3>3
    <3>5. QED BY <3>2, <3>4 DEF ParsedLines, FirstLines
  <2>6. QED BY <2>4, <2>5 DEF n, all
<1>2. DeviceInv => DeviceComesBack
  BY <1>1 DEF DeviceComesBack
<1>3. QED BY DeviceInvInit, DeviceInvStep, <1>2, PTL DEF DeviceSpec
==============================================================================
