------------------------------ MODULE VbsDaemon ------------------------------
(***************************************************************************)
(* src/vbs/test_start.vbs and test_stop.vbs on one Windows machine. A start *)
(* script stops the scripts that were launched before it, starts every     *)
(* program of strExePathSet and then watches them; a stop script stops the *)
(* scripts and the programs. Both stop things by launching TASKKILL        *)
(* without waiting for it (WshShell.Run with bWaitOnReturn left out).      *)
(*                                                                         *)
(* WScript.Sleep lasts as long as it likes; with Prompt, a TASKKILL that   *)
(* is under way when a script goes to sleep is over before it wakes.       *)
(***************************************************************************)
EXTENDS Integers, Sequences

CONSTANTS
  Starts, Stops,   (* the wscript.exe processes that run either script     *)
  strExePathSet,   (* the programs, each with a file name of its own       *)
  Outside,         (* who else has started a program                       *)
  CanFail,         (* the programs whose Run may raise an error            *)
  Prompt,          (* is TASKKILL faster than the sleep of a second?       *)
  MaxSecond        (* bound: the last second of the clock                  *)

Scripts == Starts \union Stops
Pos == 1 .. Len(strExePathSet)
Exes == {strExePathSet[j] : j \in Pos}
Owners == Starts \union {Outside}

ASSUME ScriptAssumption ==
  /\ Starts \intersect Stops = {} /\ Outside \notin Starts
  /\ Scripts \intersect Exes = {} /\ MaxSecond \in Nat /\ Prompt \in BOOLEAN
ASSUME PathAssumption ==
  /\ strExePathSet \in Seq(Exes) /\ strExePathSet # <<>>
  /\ \A j, k \in Pos : strExePathSet[j] = strExePathSet[k] => j = k

VARIABLES
  now,        (* the clock, in whole seconds as Now() and DateDiff("s")    *)
  pc,         (* where each script is; "new": not launched yet             *)
  created,    (* Win32_Process.CreationDate of each script                 *)
  vtNowDate,  (* what Now() returned to it                                 *)
  todo,       (* the scripts StopPrevious still has to kill                *)
  i,          (* its position in the For Each over the programs            *)
  copies,     (* running processes of each program, by who started them    *)
  kills,      (* the TASKKILLs under way: <<script, victim>>               *)
  before      (* those under way when each script last went to sleep       *)

clock == <<now, created, vtNowDate>>
vars == <<clock, pc, todo, i, copies, kills, before>>

Alive(s) == pc[s] \notin {"new", "dead"}
Exist(e) == \E o \in Owners : copies[e][o] > 0
Exe(s) == strExePathSet[i[s]]
None == [o \in Owners |-> 0]

Sleep(s) == before' = [before EXCEPT ![s] = IF Prompt THEN kills' ELSE {}]
Rested(s) == before[s] \intersect kills = {}

GoTo(s, place) == pc' = [pc EXCEPT ![s] = place]

(* The For Each takes one step more than there are programs.               *)
NextExeLate(s, same, after) ==
  IF i[s] <= Len(strExePathSet)
  THEN i' = [i EXCEPT ![s] = @ + 1] /\ GoTo(s, same)
  ELSE i' = [i EXCEPT ![s] = 1] /\ GoTo(s, after)

(* The For Each goes on in the same place, or ends and leads to another.   *)
NextExe(s, same, after) ==
  IF i[s] < Len(strExePathSet)
  THEN i' = [i EXCEPT ![s] = @ + 1] /\ GoTo(s, same)
  ELSE i' = [i EXCEPT ![s] = 1] /\ GoTo(s, after)

------------------------------------------------------------------------------
(* Both scripts, up to the end of StopPrevious *)

Launch(s) ==
  /\ pc[s] = "new"
  /\ created' = [created EXCEPT ![s] = now]
  /\ GoTo(s, "clock")
  /\ UNCHANGED <<now, vtNowDate, todo, i, copies, kills, before>>

ReadClock(s) ==
  /\ pc[s] = "clock"
  /\ vtNowDate' = [vtNowDate EXCEPT ![s] = now]
  /\ GoTo(s, "query")
  /\ UNCHANGED <<now, created, todo, i, copies, kills, before>>

(* A second of grace for the scripts found.                                *)
QueryLongAgo(s) ==
  /\ pc[s] = "query"
  /\ todo' = [todo EXCEPT ![s] = {t \in Scripts : Alive(t) /\ created[t] + 1 < vtNowDate[s]}]
  /\ GoTo(s, "previous")
  /\ UNCHANGED <<clock, i, copies, kills, before>>

(* ExecQuery finds every wscript.exe, the script itself included, and      *)
(* those created in an earlier second than vtNowDate are to be killed.     *)
QueryPrevious(s) ==
  /\ pc[s] = "query"
  /\ todo' = [todo EXCEPT ![s] = {t \in Scripts : Alive(t) /\ created[t] < vtNowDate[s]}]
  /\ GoTo(s, "previous")
  /\ UNCHANGED <<clock, i, copies, kills, before>>

(* With the Exit Sub of Stop: only the first one found is killed.          *)
KillFirst(s) ==
  /\ pc[s] = "previous"
  /\ \E t \in todo[s] :
       /\ kills' = kills \union {<<s, t>>}
       /\ todo' = [todo EXCEPT ![s] = {}]
  /\ UNCHANGED <<clock, pc, i, copies, before>>

KillPrevious(s) ==
  /\ pc[s] = "previous"
  /\ \E t \in todo[s] :
       /\ kills' = kills \union {<<s, t>>}
       /\ todo' = [todo EXCEPT ![s] = @ \ {t}]
  /\ UNCHANGED <<clock, pc, i, copies, before>>

EndPrevious(s) ==
  /\ pc[s] = "previous" /\ todo[s] = {}
  /\ GoTo(s, "stop")
  /\ UNCHANGED <<clock, todo, i, copies, kills, before>>

(* Process.Stop: nothing to do when no process has the name. A start       *)
(* script then sleeps a second, a stop script goes on to the next program. *)
ThenSettle(s) == s \in Starts /\ GoTo(s, "settle") /\ Sleep(s) /\ UNCHANGED i
ThenNext(s) == s \in Stops /\ NextExe(s, "stop", "done") /\ UNCHANGED before

StopExe(s) ==
  /\ pc[s] = "stop"
  /\ kills' = IF Exist(Exe(s)) THEN kills \union {<<s, Exe(s)>>} ELSE kills
  /\ ThenSettle(s) \/ ThenNext(s)
  /\ UNCHANGED <<clock, todo, copies>>

------------------------------------------------------------------------------
(* The start script *)

Started(s) == Rested(s) /\ copies' = [copies EXCEPT ![Exe(s)][s] = @ + 1]

FirstStart(s) ==
  /\ pc[s] = "settle"
  /\ Started(s)
  /\ NextExe(s, "stop", "box")
  /\ UNCHANGED <<clock, todo, kills, before>>

(* MsgBox waits for the user before the programs are watched. *)
Dismiss(s) ==
  /\ pc[s] = "box"
  /\ GoTo(s, "watch")
  /\ UNCHANGED <<clock, todo, i, copies, kills, before>>

(* Without the look at what is running, and without the outer Do.          *)
WatchBlindly(s) ==
  /\ pc[s] = "watch"
  /\ GoTo(s, "retry") /\ UNCHANGED <<clock, todo, copies, kills, i>> /\ Sleep(s)

WatchOnce(s) ==
  /\ pc[s] = "watch"
  /\ UNCHANGED <<clock, todo, copies, kills>>
  /\ IF Exist(Exe(s))
     THEN NextExe(s, "watch", "done") /\ UNCHANGED before
     ELSE GoTo(s, "retry") /\ Sleep(s) /\ UNCHANGED i

Watch(s) ==
  /\ pc[s] = "watch"
  /\ UNCHANGED <<clock, todo, copies, kills>>
  /\ IF Exist(Exe(s))
     THEN NextExe(s, "watch", "watch") /\ UNCHANGED before
     ELSE GoTo(s, "retry") /\ Sleep(s) /\ UNCHANGED i

(* A second after it was found missing. *)
Restart(s) ==
  /\ pc[s] = "retry"
  /\ Started(s)
  /\ NextExe(s, "watch", "watch")
  /\ UNCHANGED <<clock, todo, kills, before>>

(* The scripts catch no error: when Run raises one the script ends. *)
StartFails(s) ==
  /\ pc[s] \in {"settle", "retry"} /\ Exe(s) \in CanFail /\ Rested(s)
  /\ GoTo(s, "dead")
  /\ UNCHANGED <<clock, todo, i, copies, kills, before>>

------------------------------------------------------------------------------
(* Windows and the user *)

Tick ==
  /\ now < MaxSecond
  /\ now' = now + 1
  /\ UNCHANGED <<created, vtNowDate, pc, todo, i, copies, kills, before>>

KillScript(s, t) ==
  /\ <<s, t>> \in kills
  /\ kills' = kills \ {<<s, t>>}
  /\ GoTo(t, "dead")
  /\ UNCHANGED <<clock, todo, i, copies, before>>

KillExe(s, e) ==
  /\ <<s, e>> \in kills
  /\ kills' = kills \ {<<s, e>>}
  /\ copies' = [copies EXCEPT ![e] = None]
  /\ UNCHANGED <<clock, pc, todo, i, before>>

Taskkill(s, v) == IF v \in Scripts THEN KillScript(s, v) ELSE KillExe(s, v)

ExeEnds(e, o) ==
  /\ copies[e][o] > 0
  /\ copies' = [copies EXCEPT ![e][o] = @ - 1]
  /\ UNCHANGED <<clock, pc, todo, i, kills, before>>

------------------------------------------------------------------------------
Init ==
  /\ now = 0 /\ kills = {} /\ before = [s \in Scripts |-> {}]
  /\ pc = [s \in Scripts |-> "new"]
  /\ created = [s \in Scripts |-> 0] /\ vtNowDate = [s \in Scripts |-> 0]
  /\ todo = [s \in Scripts |-> {}] /\ i = [s \in Scripts |-> 1]
  /\ copies \in [Exes -> {None, [None EXCEPT ![Outside] = 1]}]

ScriptStep(s) ==
  \/ ReadClock(s) \/ QueryPrevious(s) \/ KillPrevious(s) \/ EndPrevious(s) \/ StopExe(s)
  \/ s \in Starts /\ (FirstStart(s) \/ Watch(s) \/ Restart(s))

Next ==
  \/ \E s \in Scripts : Launch(s) \/ ScriptStep(s)
  \/ \E s \in Starts : Dismiss(s) \/ StartFails(s)
  \/ \E s \in Scripts, v \in Scripts \union Exes : Taskkill(s, v)
  \/ \E e \in Exes, o \in Owners : ExeEnds(e, o)
  \/ Tick

Spec == Init /\ [][Next]_vars

(* Windows runs every script and every TASKKILL, and the user closes the   *)
(* message box.                                                            *)
FairSpec ==
  /\ Spec
  /\ \A s \in Scripts : WF_vars(ScriptStep(s))
  /\ \A s \in Starts : WF_vars(Dismiss(s))
  /\ \A s \in Scripts, v \in Scripts \union Exes : WF_vars(Taskkill(s, v))

------------------------------------------------------------------------------
(* Type correctness. *)
Places == {"new", "clock", "query", "previous", "stop", "settle", "box", "watch", "retry",
           "done", "dead"}
TypeOK ==
  /\ now \in Nat /\ pc \in [Scripts -> Places]
  /\ created \in [Scripts -> Nat] /\ vtNowDate \in [Scripts -> Nat]
  /\ todo \in [Scripts -> SUBSET Scripts] /\ i \in [Scripts -> Pos]
  /\ copies \in [Exes -> [Owners -> Nat]]
  /\ kills \subseteq Scripts \X (Scripts \union Exes)
  /\ before \in [Scripts -> SUBSET (Scripts \X (Scripts \union Exes))]

(* Once a script is past StopPrevious (test_start.vbs:18, test_stop.vbs:25) *)
(* and the TASKKILL it launched for a script of an earlier second is over, *)
(* that script is dead, whatever else was launched or killed meanwhile.    *)
Past(s) == pc[s] \in {"stop", "settle", "box", "watch", "retry", "done"}
PreviousAreStopped ==
  \A s, t \in Scripts :
    Past(s) /\ pc[t] # "new" /\ created[t] < vtNowDate[s] /\ <<s, t>> \notin kills
      => pc[t] = "dead"

(* Two start scripts can only go on side by side when they were launched   *)
(* in the same second and saw the same second.                             *)
SurvivorsSameSecond ==
  \A s, t \in Starts :
    Past(s) /\ Past(t) /\ <<s, t>> \notin kills /\ <<t, s>> \notin kills
      => created[s] = created[t] /\ vtNowDate[s] = vtNowDate[t]

(* A start script never starts a second copy of a program while the one it *)
(* started is running, for all the time between its look (line 38) and its *)
(* start (line 41), and however late its TASKKILLs are.                    *)
NoSecondCopy == \A e \in Exes, s \in Starts : copies[e][s] <= 1

(* "keep running all the time" (test_start.vbs:3): while a start script    *)
(* is alive, a program that is missing is started again.                   *)
KeepsRunning ==
  \A s \in Starts, e \in Exes : Alive(s) ~> (Exist(e) \/ ~Alive(s))

(* The same without the premise that the script is alive: once a start     *)
(* script has been launched, and no other script has, its programs run     *)
(* again and again.                                                        *)
Alone(s) == pc[s] # "new" /\ \A t \in Scripts \ {s} : pc[t] = "new"
KeepRunningAllTheTime ==
  \A s \in Starts, e \in Exes : Alone(s) ~> (Exist(e) \/ ~Alone(s))

(* "Stop *.exe running In strExeNameSet" (test_stop.vbs:3): when a stop    *)
(* script is through, its TASKKILLs too, and the start scripts launched    *)
(* before it are dead, no program is left running.                         *)
StopsForGood ==
  \A s \in Stops :
    /\ pc[s] = "done" /\ kills = {}
    /\ \A t \in Starts : pc[t] \in {"new", "dead"} /\ (pc[t] = "dead" => created[t] < vtNowDate[s])
    => \A e \in Exes : ~Exist(e)
==============================================================================
