---------------------------- MODULE MysqlEvents ----------------------------
(***************************************************************************)
(* src/mysql/windows/mysql_database.cpp: programs store groups of events   *)
(* in a table, row by row, and a program reads the table page by page.     *)
(* The table is InnoDB's: each INSERT is a transaction of its own, takes   *)
(* the next evt_id when it starts and shows when it commits, and a SELECT  *)
(* goes by evt_id.                                                         *)
(***************************************************************************)
EXTENDS Integers, Sequences, FiniteSets, SequencesExt

CONSTANTS
  Stores,      (* the programs that call Mysql_WriteEvent                  *)
  Group,       (* per program: its group of events, a sequence without     *)
               (* repetition                                               *)
  NUM_PERPAGE, (* num_perpage of the reader                                *)
  MAX_EVENT,   (* length of t_EventGroup.m_event                           *)
  MaxFailures  (* bound: calls of each program that fail                   *)

ASSUME EventsAssumption ==
  /\ NUM_PERPAGE \in Nat \ {0} /\ MAX_EVENT \in Nat \ {0} /\ MaxFailures \in Nat
  /\ \A s \in Stores : Group[s] \in Seq(Nat) /\ IsInjective(Group[s])
  /\ \A s, t \in Stores : s = t \/ Range(Group[s]) \cap Range(Group[t]) = {}

VARIABLES
  evtId,     (* AUTO_INCREMENT                                             *)
  rows,      (* the rows that have been committed                          *)
  inserting, (* per program: the row of its INSERT, as a set               *)
  eventIndex,(* per program: event_index                                   *)
  wrote,     (* per program: "idle", "writing", or the true it got         *)
  failed,    (* per program: calls that returned false                     *)
  page,      (* page_index of the reader's next call                       *)
  reading,   (* "idle", "paging", "done", or "overrun"                     *)
  seen,      (* what the reader has been given in this pass                *)
  old        (* history: the rows there were when the pass began           *)
eventVars == <<evtId, rows, inserting, eventIndex, wrote, failed, page, reading, seen, old>>
storeVars == <<evtId, rows, inserting, eventIndex, wrote, failed>>
pageVars == <<page, reading, seen, old>>

(* The rows in the order of their ids. *)
InOrder ==
  [i \in 1 .. Cardinality(rows) |->
     CHOOSE r \in rows : Cardinality({s \in rows : s.id <= r.id}) = i]

(* LIMIT start_point, end_point: an offset, and how many rows at most.     *)
(* mutant: pages counted from 1                                            *)
StartPointFromOne(k) == NUM_PERPAGE * (k + 1)
StartPoint(k) == NUM_PERPAGE * k
Page(k) ==
  LET start_point == StartPoint(k)
      end_point == start_point + NUM_PERPAGE
  IN SubSeq(InOrder, start_point + 1,
            IF start_point + end_point < Len(InOrder) THEN start_point + end_point ELSE Len(InOrder))
------------------------------------------------------------------------------
(* Mysql_WriteEvent. USE may fail, which changes nothing.                  *)
BeginStore(s) ==
  /\ wrote[s] = "idle"
  /\ wrote' = [wrote EXCEPT ![s] = IF Group[s] = <<>> THEN "true" ELSE "writing"]
  /\ eventIndex' = [eventIndex EXCEPT ![s] = 1]
  /\ UNCHANGED <<evtId, rows, inserting, failed, pageVars>>

StartInsert(s) ==
  /\ wrote[s] = "writing" /\ inserting[s] = {}
  /\ evtId' = evtId + 1
  /\ inserting' = [inserting EXCEPT ![s] = {[id |-> evtId, event |-> Group[s][eventIndex[s]]]}]
  /\ UNCHANGED <<rows, eventIndex, wrote, failed, pageVars>>

(* The loop goes on, or the call ends with true; after an error, false.    *)
NextEvent(s) ==
  /\ eventIndex' = [eventIndex EXCEPT ![s] = @ + 1]
  /\ wrote' = [wrote EXCEPT ![s] = IF eventIndex[s] = Len(Group[s]) THEN "true" ELSE @]
ReturnFalse(s) == wrote' = [wrote EXCEPT ![s] = "idle"] /\ UNCHANGED eventIndex

CommitInsert(s) ==
  /\ inserting[s] # {}
  /\ rows' = rows \union inserting[s]
  /\ inserting' = [inserting EXCEPT ![s] = {}]
  /\ NextEvent(s)
  /\ UNCHANGED <<evtId, failed, pageVars>>

(* mysql_query returns an error, before or after the server committed; the *)
(* call returns false, and its caller may call again with the group.       *)
InsertFails(s, committed) ==
  /\ inserting[s] # {} /\ failed[s] < MaxFailures
  /\ rows' = IF committed THEN rows \union inserting[s] ELSE rows
  /\ inserting' = [inserting EXCEPT ![s] = {}]
  /\ ReturnFalse(s)
  /\ failed' = [failed EXCEPT ![s] = @ + 1]
  /\ UNCHANGED <<evtId, pageVars>>

(* A program reads the table from page 0 on, until a page is not full.     *)
BeginPages ==
  /\ reading = "idle"
  /\ reading' = "paging" /\ page' = 0 /\ seen' = {} /\ old' = rows
  /\ UNCHANGED storeVars

(* Mysql_ReadEvent fills m_event with every row it is given.               *)
ReadPage ==
  /\ reading = "paging"
  /\ reading' = CASE Len(Page(page)) > MAX_EVENT -> "overrun"
                  [] Len(Page(page)) < NUM_PERPAGE -> "done"
                  [] OTHER -> "paging"
  /\ seen' = seen \union Range(Page(page))
  /\ page' = page + 1
  /\ UNCHANGED <<old, storeVars>>

EventsInit ==
  /\ evtId = 1 /\ rows = {} /\ page = 0 /\ reading = "idle" /\ seen = {} /\ old = {}
  /\ inserting = [s \in Stores |-> {}] /\ eventIndex = [s \in Stores |-> 1]
  /\ wrote = [s \in Stores |-> "idle"] /\ failed = [s \in Stores |-> 0]

EventsNext ==
  \/ BeginPages \/ ReadPage
  \/ \E s \in Stores :
       \/ BeginStore(s) \/ StartInsert(s) \/ CommitInsert(s)
       \/ \E committed \in BOOLEAN : InsertFails(s, committed)

EventsSpec == EventsInit /\ [][EventsNext]_eventVars

------------------------------------------------------------------------------
Stored(e) == Cardinality({r \in rows : r.event = e})

(* Without a transaction around the group (line 420) and with a caller     *)
(* that repeats a call that failed, an event may be stored more than once, *)
(* but each at least once when a call has returned true, none more often   *)
(* than the calls made, and none before those ahead of it in the group.    *)
StoredAtLeastOnce ==
  \A s \in Stores : \A i \in DOMAIN Group[s] :
    /\ wrote[s] = "true" => Stored(Group[s][i]) >= 1
    /\ Stored(Group[s][i]) <= failed[s] + 1
    /\ i > 1 => Stored(Group[s][i]) <= Stored(Group[s][i - 1])

(* A pass over the pages misses no row that was there when it began, even  *)
(* though rows commit out of the order of their ids while it goes on, and  *)
(* though page k is asked for n*(k+1) rows instead of n (line 235); a page *)
(* is too long for its group only where that number is.                    *)
NoRowMissed ==
  /\ reading = "done" => old \subseteq seen
  /\ seen \subseteq rows
  /\ reading = "overrun" => NUM_PERPAGE * page > MAX_EVENT
==============================================================================
