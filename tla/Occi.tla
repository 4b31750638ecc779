-------------------------------- MODULE Occi --------------------------------
(***************************************************************************)
(* src/oracle/test1/occi_package.cpp: connections through which the two    *)
(* updates are made: OCCI_UpdateMultiSql gives every row of its group a    *)
(* new name, and commits; OCCI_UpdateSql inserts the group's first row and *)
(* leaves the commit to whoever comes next. The database locks the rows a  *)
(* transaction changes; other transactions wait for them.                  *)
(***************************************************************************)
EXTENDS Integers, Sequences

CONSTANTS
  Conns,   (* connections, each used by a thread of its own                *)
  iterMax, (* rows of the group, key[0] .. key[iterMax-1]                  *)
  Absent   (* of a row that is not there                                   *)

ASSUME OcciAssumption == iterMax \in Nat \ {0} /\ Absent \notin Conns \union {"insert"}

VARIABLES
  emp,     (* per row of the group, as committed: Absent, "insert", or the *)
           (* connection whose names it has                                *)
  holder,  (* per row: the connections that hold its lock, at most one     *)
  change,  (* per row: what its holder has made of it                      *)
  conn,    (* per connection: "none", "open", or "multi" while it is in    *)
           (* OCCI_UpdateMultiSql                                          *)
  iterIdx, (* per connection: the row its executeUpdate is at              *)
  whole    (* history: what emp should be, when only calls that have       *)
           (* returned a count, and been committed, have an effect         *)
occiVars == <<emp, holder, change, conn, iterIdx, whole>>

Rows == 1 .. iterMax
Mine(c) == {r \in Rows : holder[r] = {c}}
Sees(c, r) == IF holder[r] = {c} THEN change[r] ELSE emp[r]

(* Row r is c's to change: nobody else has it locked.                      *)
Lockable(c, r) == holder[r] \subseteq {c}

Commit(c) ==
  /\ emp' = [r \in Rows |-> Sees(c, r)]
  /\ holder' = [r \in Rows |-> holder[r] \ {c}]
  /\ change' = [r \in Rows |-> IF r \in Mine(c) THEN Absent ELSE change[r]]

Rollback(c) ==
  /\ holder' = [r \in Rows |-> holder[r] \ {c}]
  /\ change' = [r \in Rows |-> IF r \in Mine(c) THEN Absent ELSE change[r]]
  /\ UNCHANGED emp

------------------------------------------------------------------------------
(* OCCI_CreateConnection and OCCI_CreateConnectionByPool, and a statement. *)
CreateConnection(c) ==
  /\ conn[c] = "none"
  /\ conn' = [conn EXCEPT ![c] = "open"]
  /\ UNCHANGED <<emp, holder, change, iterIdx, whole>>

(* OCCI_DestroyConnection ends the transaction one way or the other.       *)
DestroyConnection(c, commits) ==
  /\ conn[c] = "open"
  /\ conn' = [conn EXCEPT ![c] = "none"]
  /\ IF commits THEN Commit(c) ELSE Rollback(c)
  /\ whole' = IF commits /\ holder[1] = {c} THEN [whole EXCEPT ![1] = "insert"] ELSE whole
  /\ UNCHANGED iterIdx

(* OCCI_UpdateSql: an INSERT, which fails, and undoes nothing, when the    *)
(* row is there already; it does not commit.                               *)
UpdateSql(c) ==
  /\ conn[c] = "open" /\ Lockable(c, 1) /\ Sees(c, 1) = Absent
  /\ holder' = [holder EXCEPT ![1] = {c}]
  /\ change' = [change EXCEPT ![1] = "insert"]
  /\ UNCHANGED <<emp, conn, iterIdx, whole>>

(* OCCI_UpdateMultiSql: one UPDATE with its iterations,                    *)
BeginMultiSql(c) ==
  /\ conn[c] = "open"
  /\ conn' = [conn EXCEPT ![c] = "multi"]
  /\ iterIdx' = [iterIdx EXCEPT ![c] = 1]
  /\ UNCHANGED <<emp, holder, change, whole>>

(* each of which changes the row if it is there,                           *)
Iteration(c) ==
  LET r == iterIdx[c] IN
  /\ conn[c] = "multi" /\ r \in Rows
  /\ IF Sees(c, r) = Absent THEN UNCHANGED <<holder, change>>
     ELSE /\ Lockable(c, r)
          /\ holder' = [holder EXCEPT ![r] = {c}]
          /\ change' = [change EXCEPT ![r] = c]
  /\ iterIdx' = [iterIdx EXCEPT ![c] = r + 1]
  /\ UNCHANGED <<emp, conn, whole>>

(* then the commit.                                                        *)
MultiSqlCommit(c) ==
  /\ conn[c] = "multi" /\ iterIdx[c] = iterMax + 1
  /\ Commit(c)
  /\ whole' = [r \in Rows |-> IF r \in Mine(c) THEN c ELSE whole[r]]
  /\ conn' = [conn EXCEPT ![c] = "open"]
  /\ iterIdx' = [iterIdx EXCEPT ![c] = 0]

(* mutant: the catch without its rollback                                  *)
MultiSqlFailsOnly(c) ==
  /\ conn[c] = "multi"
  /\ conn' = [conn EXCEPT ![c] = "open"]
  /\ iterIdx' = [iterIdx EXCEPT ![c] = 0]
  /\ UNCHANGED <<emp, holder, change, whole>>

(* An exception, from any iteration or the commit: iterations before it    *)
(* have taken effect in the transaction, which is rolled back, an insert   *)
(* of OCCI_UpdateSql included.                                             *)
MultiSqlFails(c) ==
  /\ conn[c] = "multi"
  /\ Rollback(c)
  /\ conn' = [conn EXCEPT ![c] = "open"]
  /\ iterIdx' = [iterIdx EXCEPT ![c] = 0]
  /\ UNCHANGED whole

(* The program or the network dies: the database rolls back.               *)
ConnectionLost(c) ==
  /\ conn[c] # "none"
  /\ Rollback(c)
  /\ conn' = [conn EXCEPT ![c] = "none"]
  /\ iterIdx' = [iterIdx EXCEPT ![c] = 0]
  /\ UNCHANGED whole

OcciInit ==
  /\ emp \in [Rows -> {Absent, "insert"}]
  /\ whole = emp
  /\ holder = [r \in Rows |-> {}] /\ change = [r \in Rows |-> Absent]
  /\ conn = [c \in Conns |-> "none"] /\ iterIdx = [c \in Conns |-> 0]

OcciNext ==
  \E c \in Conns :
    \/ CreateConnection(c) \/ UpdateSql(c) \/ BeginMultiSql(c) \/ Iteration(c)
    \/ MultiSqlCommit(c) \/ MultiSqlFails(c) \/ ConnectionLost(c)
    \/ \E commits \in BOOLEAN : DestroyConnection(c, commits)

OcciSpec == OcciInit /\ [][OcciNext]_occiVars

------------------------------------------------------------------------------
(* Type correctness. *)
Name == Conns \union {Absent, "insert"}
OcciTypeOK ==
  /\ emp \in [Rows -> Name] /\ change \in [Rows -> Name] /\ whole \in [Rows -> Name]
  /\ holder \in [Rows -> SUBSET Conns]
  /\ conn \in [Conns -> {"none", "open", "multi"}] /\ iterIdx \in [Conns -> 0 .. iterMax + 1]

(* The committed table shows groups that were changed whole: iterations of *)
(* a call that failed half way (lines 247-257) or died are never seen by   *)
(* anyone, now or after a later commit on the same connection.             *)
OnlyWholeGroups == emp = whole
==============================================================================
