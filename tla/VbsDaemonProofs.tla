--------------------------- MODULE VbsDaemonProofs ---------------------------
(***************************************************************************)
(* Proofs about VbsDaemon for any scripts, programs and times: it is type  *)
(* correct, the scripts of earlier seconds are stopped, two start scripts  *)
(* that go on side by side belong to the same second, and no start script  *)
(* starts a second copy of a program.                                      *)
(***************************************************************************)
EXTENDS VbsDaemon, TLAPS

LEMMA PosFacts ==
  /\ 1 \in Pos
  /\ \A s \in Scripts : i[s] \in Pos => Exe(s) \in Exes
  /\ \A k \in Pos : k < Len(strExePathSet) => k + 1 \in Pos
<1>1. Len(strExePathSet) \in Nat /\ Len(strExePathSet) # 0
  BY PathAssumption
<1>2. QED BY <1>1 DEF Pos, Exes, Exe

LEMMA NextExeType ==
  ASSUME TypeOK, NEW s \in Scripts, NEW a \in Places, NEW b \in Places, NextExe(s, a, b)
  PROVE  pc' \in [Scripts -> Places] /\ i' \in [Scripts -> Pos]
<1>1. i[s] \in Pos BY DEF TypeOK
<1>2. CASE i[s] < Len(strExePathSet)
  BY <1>1, <1>2, PosFacts DEF NextExe, TypeOK, GoTo
<1>3. CASE ~(i[s] < Len(strExePathSet))
  BY <1>3, PosFacts DEF NextExe, TypeOK, GoTo
<1>4. QED BY <1>2, <1>3

LEMMA InitType == Init => TypeOK
<1> SUFFICES ASSUME Init PROVE TypeOK
  OBVIOUS
<1>1. None \in [Owners -> Nat] /\ [None EXCEPT ![Outside] = 1] \in [Owners -> Nat]
  BY DEF None
<1>2. copies \in [Exes -> [Owners -> Nat]]
  BY <1>1 DEF Init
<1>3. QED BY <1>2, PosFacts DEF Init, TypeOK, Places

LEMMA StepType == TypeOK /\ [Next]_vars => TypeOK'
<1> SUFFICES ASSUME TypeOK, [Next]_vars PROVE TypeOK'
  OBVIOUS
<1> USE DEF Places
<1>a. \A s \in Scripts : Exe(s) \in Exes
  BY PosFacts DEF TypeOK
<1>b. \A s \in Scripts : Sleep(s) /\ kills' \subseteq Scripts \X (Scripts \union Exes) =>
        before' \in [Scripts -> SUBSET (Scripts \X (Scripts \union Exes))]
  BY DEF TypeOK, Sleep
<1>1. ASSUME NEW s \in Scripts, Launch(s) PROVE TypeOK'
  BY <1>1 DEF TypeOK, Launch, GoTo
<1>2. ASSUME NEW s \in Scripts, ReadClock(s) PROVE TypeOK'
  BY <1>2 DEF TypeOK, ReadClock, GoTo
<1>3. ASSUME NEW s \in Scripts, QueryPrevious(s) PROVE TypeOK'
  BY <1>3 DEF TypeOK, QueryPrevious, GoTo, clock
<1>4. ASSUME NEW s \in Scripts, KillPrevious(s) PROVE TypeOK'
  BY <1>4 DEF TypeOK, KillPrevious, clock
<1>5. ASSUME NEW s \in Scripts, EndPrevious(s) PROVE TypeOK'
  BY <1>5 DEF TypeOK, EndPrevious, GoTo, clock
<1>6. ASSUME NEW s \in Scripts, StopExe(s) PROVE TypeOK'
  <2>1. kills' \subseteq Scripts \X (Scripts \union Exes)
    BY <1>6, <1>a DEF StopExe, TypeOK
  <2>2. CASE s \in Starts
    BY <1>6, <1>b, <2>1, <2>2, ScriptAssumption DEF StopExe, ThenSettle, ThenNext, TypeOK, GoTo, clock
  <2>3. CASE s \notin Starts
    BY <1>6, <2>1, <2>3, NextExeType DEF StopExe, ThenSettle, ThenNext, TypeOK, clock
  <2>4. QED BY <2>2, <2>3
<1>7. ASSUME NEW s \in Starts, Started(s) PROVE copies' \in [Exes -> [Owners -> Nat]]
  <2>1. Exe(s) \in Exes /\ s \in Owners /\ copies \in [Exes -> [Owners -> Nat]]
    BY <1>a DEF Owners, Scripts, TypeOK
  <2>2. copies[Exe(s)] \in [Owners -> Nat] /\ copies[Exe(s)][s] + 1 \in Nat
    BY <2>1
  <2>3. copies' = [copies EXCEPT ![Exe(s)] = [copies[Exe(s)] EXCEPT ![s] = copies[Exe(s)][s] + 1]]
    BY <1>7 DEF Started
  <2>4. QED BY <2>1, <2>2, <2>3
<1>8. ASSUME NEW s \in Starts, FirstStart(s) PROVE TypeOK'
  BY <1>7, <1>8, NextExeType DEF FirstStart, TypeOK, clock, Scripts
<1>9. ASSUME NEW s \in Starts, Dismiss(s) PROVE TypeOK'
  BY <1>9 DEF TypeOK, Dismiss, GoTo, clock, Scripts
<1>10. ASSUME NEW s \in Starts, Watch(s) PROVE TypeOK'
  <2>1. CASE Exist(Exe(s))
    BY <1>10, <2>1, NextExeType DEF Watch, TypeOK, clock, Scripts
  <2>2. CASE ~Exist(Exe(s))
    BY <1>10, <1>b, <2>2 DEF Watch, TypeOK, GoTo, clock, Scripts
  <2>3. QED BY <2>1, <2>2
<1>11. ASSUME NEW s \in Starts, Restart(s) PROVE TypeOK'
  BY <1>7, <1>11, NextExeType DEF Restart, TypeOK, clock, Scripts
<1>12. ASSUME NEW s \in Starts, StartFails(s) PROVE TypeOK'
  BY <1>12 DEF TypeOK, StartFails, GoTo, clock, Scripts
<1>13. ASSUME Tick PROVE TypeOK'
  BY <1>13 DEF TypeOK, Tick
<1>14. ASSUME NEW s \in Scripts, NEW t \in Scripts, KillScript(s, t) PROVE TypeOK'
  BY <1>14 DEF TypeOK, KillScript, GoTo, clock
<1>15. ASSUME NEW s \in Scripts, NEW e \in Exes, KillExe(s, e) PROVE TypeOK'
  BY <1>15 DEF TypeOK, KillExe, clock, None
<1>16. ASSUME NEW e \in Exes, NEW o \in Owners, ExeEnds(e, o) PROVE TypeOK'
  BY <1>16 DEF TypeOK, ExeEnds, clock
<1>17. CASE UNCHANGED vars
  BY <1>17 DEF vars, clock, TypeOK
<1>18. QED
  BY <1>1, <1>2, <1>3, <1>4, <1>5, <1>6, <1>8, <1>9, <1>10, <1>11, <1>12, <1>13, <1>14, <1>15,
     <1>16, <1>17 DEF Next, ScriptStep, Taskkill

(* Every script, program and TASKKILL is always in a place the scripts can *)
(* be in.                                                                  *)
THEOREM TypeCorrect == Spec => []TypeOK
BY InitType, StepType, PTL DEF Spec

------------------------------------------------------------------------------
(* No script was created, and none has read the clock, in the future; and  *)
(* each that has, has read it after it was created.                        *)
HasRead(s) == pc[s] \in {"query", "previous"} \/ Past(s)
ClockInv ==
  \A s \in Scripts :
    created[s] <= now /\ vtNowDate[s] <= now /\ (HasRead(s) => created[s] <= vtNowDate[s])

(* A script of an earlier second than a script that is in or past          *)
(* StopPrevious is dead, or about to be killed, or still on its list.      *)
CaughtInv ==
  \A s, t \in Scripts :
    /\ pc[s] = "previous" \/ Past(s)
    /\ Alive(t) /\ created[t] < vtNowDate[s]
    => <<s, t>> \in kills \/ (pc[s] = "previous" /\ t \in todo[s])

PreviousInv == ClockInv /\ CaughtInv

(* A step that launches no script, reads no clock and takes no TASKKILL    *)
(* and nothing from a list away keeps PreviousInv when every script whose  *)
(* place it changes was past StopPrevious already or is dead.              *)
LEMMA Quiet ==
  ASSUME TypeOK, PreviousInv, UNCHANGED <<clock, todo>>,
         \A s, t \in Scripts : <<s, t>> \in kills => <<s, t>> \in kills' \/ ~Alive(t)',
         \A s \in Scripts : pc'[s] = pc[s] \/ (Past(s) /\ Past(s)') \/ pc'[s] = "dead"
  PROVE  PreviousInv'
<1>1. \A s \in Scripts : (HasRead(s)' => HasRead(s)) /\ (Past(s)' => Past(s)) /\ (Alive(s)' => Alive(s))
  BY DEF HasRead, Past, Alive
<1>2. \A s \in Scripts : pc'[s] = "previous" => pc[s] = "previous"
  BY DEF Past
<1>3. \A s \in Scripts : pc[s] = "previous" /\ (pc'[s] = "previous" \/ Past(s)') => pc'[s] = "previous"
  BY DEF Past
<1>4. ClockInv'
  BY <1>1 DEF PreviousInv, ClockInv, clock
<1>5. CaughtInv'
  <2> SUFFICES ASSUME NEW s \in Scripts, NEW t \in Scripts,
                      pc'[s] = "previous" \/ Past(s)', Alive(t)', created[t] < vtNowDate[s]
               PROVE  <<s, t>> \in kills' \/ (pc'[s] = "previous" /\ t \in todo[s])
    BY DEF CaughtInv, clock
  <2>1. <<s, t>> \in kills \/ (pc[s] = "previous" /\ t \in todo[s])
    BY <1>1, <1>2 DEF PreviousInv, CaughtInv
  <2>2. QED BY <2>1, <1>3
<1>6. QED BY <1>4, <1>5 DEF PreviousInv

LEMMA StepPrevious == TypeOK /\ PreviousInv /\ [Next]_vars => PreviousInv'
<1> SUFFICES ASSUME TypeOK, PreviousInv, [Next]_vars PROVE PreviousInv'
  OBVIOUS
<1> USE DEF PreviousInv
<1>1. ASSUME NEW s \in Scripts, Launch(s) PROVE PreviousInv'
  <2>1. pc[s] = "new" /\ pc'[s] = "clock" /\ created'[s] = now
        /\ \A t \in Scripts \ {s} : pc'[t] = pc[t] /\ created'[t] = created[t]
    BY <1>1 DEF Launch, GoTo, TypeOK
  <2>2. UNCHANGED <<now, vtNowDate, todo, kills>>
    BY <1>1 DEF Launch
  <2>3. ClockInv'
    BY <2>1, <2>2 DEF ClockInv, HasRead, Past, TypeOK
  <2>4. CaughtInv'
    <3> SUFFICES ASSUME NEW u \in Scripts, NEW t \in Scripts,
                        pc'[u] = "previous" \/ Past(u)', Alive(t)', created'[t] < vtNowDate[u]
                 PROVE  <<u, t>> \in kills \/ (pc'[u] = "previous" /\ t \in todo[u])
      BY <2>2 DEF CaughtInv
    <3>1. u # s BY <2>1 DEF Past
    <3>2. t # s BY <2>1 DEF ClockInv, TypeOK
    <3>3. QED BY <2>1, <3>1, <3>2 DEF CaughtInv, Past, Alive
  <2>5. QED BY <2>3, <2>4
<1>2. ASSUME NEW s \in Scripts, ReadClock(s) PROVE PreviousInv'
  <2>1. pc[s] = "clock" /\ pc'[s] = "query" /\ vtNowDate'[s] = now
        /\ \A t \in Scripts \ {s} : pc'[t] = pc[t] /\ vtNowDate'[t] = vtNowDate[t]
    BY <1>2 DEF ReadClock, GoTo, TypeOK
  <2>2. UNCHANGED <<now, created, todo, kills>>
    BY <1>2 DEF ReadClock
  <2>3. ClockInv'
    BY <2>1, <2>2 DEF ClockInv, HasRead, Past, TypeOK
  <2>4. CaughtInv'
    <3> SUFFICES ASSUME NEW u \in Scripts, NEW t \in Scripts,
                        pc'[u] = "previous" \/ Past(u)', Alive(t)', created[t] < vtNowDate'[u]
                 PROVE  <<u, t>> \in kills \/ (pc'[u] = "previous" /\ t \in todo[u])
      BY <2>2 DEF CaughtInv
    <3>1. u # s BY <2>1 DEF Past
    <3>2. Alive(t) BY <2>1 DEF Alive
    <3>3. QED BY <2>1, <3>1, <3>2 DEF CaughtInv, Past
  <2>5. QED BY <2>3, <2>4
<1>3. ASSUME NEW s \in Scripts, QueryPrevious(s) PROVE PreviousInv'
  <2>1. pc[s] = "query" /\ pc'[s] = "previous" /\ \A t \in Scripts \ {s} : pc'[t] = pc[t]
    BY <1>3 DEF QueryPrevious, GoTo, TypeOK
  <2>2. UNCHANGED <<now, created, vtNowDate, kills>>
        /\ todo'[s] = {t \in Scripts : Alive(t) /\ created[t] < vtNowDate[s]}
        /\ \A t \in Scripts \ {s} : todo'[t] = todo[t]
    BY <1>3 DEF QueryPrevious, clock, TypeOK
  <2>3. ClockInv'
    BY <2>1, <2>2 DEF ClockInv, HasRead, Past, TypeOK
  <2>4. CaughtInv'
    <3> SUFFICES ASSUME NEW u \in Scripts, NEW t \in Scripts,
                        pc'[u] = "previous" \/ Past(u)', Alive(t)', created[t] < vtNowDate[u]
                 PROVE  <<u, t>> \in kills \/ (pc'[u] = "previous" /\ t \in todo'[u])
      BY <2>2 DEF CaughtInv
    <3>1. Alive(t) BY <2>1 DEF Alive
    <3>2. CASE u = s BY <2>1, <2>2, <3>1, <3>2
    <3>3. CASE u # s BY <2>1, <2>2, <3>1, <3>3 DEF CaughtInv, Past
    <3>4. QED BY <3>2, <3>3
  <2>5. QED BY <2>3, <2>4
<1>4. ASSUME NEW s \in Scripts, KillPrevious(s) PROVE PreviousInv'
  <2>1. PICK v \in todo[s] :
          kills' = kills \union {<<s, v>>} /\ todo' = [todo EXCEPT ![s] = @ \ {v}]
    BY <1>4 DEF KillPrevious
  <2>2. UNCHANGED <<now, created, vtNowDate, pc>>
    BY <1>4 DEF KillPrevious, clock
  <2>3. ClockInv'
    BY <2>2 DEF ClockInv, HasRead, Past
  <2>4. CaughtInv'
    <3> SUFFICES ASSUME NEW u \in Scripts, NEW t \in Scripts,
                        pc[u] = "previous" \/ Past(u), Alive(t), created[t] < vtNowDate[u]
                 PROVE  <<u, t>> \in kills' \/ (pc[u] = "previous" /\ t \in todo'[u])
      BY <2>2 DEF CaughtInv, Past, Alive
    <3>1. <<u, t>> \in kills \/ (pc[u] = "previous" /\ t \in todo[u])
      BY DEF CaughtInv
    <3>2. t \in todo[u] => t \in todo'[u] \/ (u = s /\ t = v)
      BY <2>1 DEF TypeOK
    <3>3. QED BY <2>1, <3>1, <3>2
  <2>5. QED BY <2>3, <2>4
<1>5. ASSUME NEW s \in Scripts, EndPrevious(s) PROVE PreviousInv'
  <2>1. pc[s] = "previous" /\ pc'[s] = "stop" /\ todo[s] = {}
        /\ \A t \in Scripts \ {s} : pc'[t] = pc[t]
    BY <1>5 DEF EndPrevious, GoTo, TypeOK
  <2>2. UNCHANGED <<now, created, vtNowDate, todo, kills>>
    BY <1>5 DEF EndPrevious, clock
  <2>3. ClockInv'
    BY <2>1, <2>2 DEF ClockInv, HasRead, Past
  <2>4. CaughtInv'
    <3> SUFFICES ASSUME NEW u \in Scripts, NEW t \in Scripts,
                        pc'[u] = "previous" \/ Past(u)', Alive(t)', created[t] < vtNowDate[u]
                 PROVE  <<u, t>> \in kills \/ (pc'[u] = "previous" /\ t \in todo[u])
      BY <2>2 DEF CaughtInv
    <3>1. Alive(t) BY <2>1 DEF Alive
    <3>2. QED BY <2>1, <3>1 DEF CaughtInv, Past
  <2>5. QED BY <2>3, <2>4
<1>a. \A s \in Scripts : \A a, b :
        Past(s) /\ NextExe(s, a, b) /\ {a, b} \subseteq {"stop", "settle", "box", "watch", "retry", "done"}
          => \A t \in Scripts : pc'[t] = pc[t] \/ (Past(t) /\ Past(t)')
  BY DEF NextExe, GoTo, Past, TypeOK
<1>b. \A s \in Scripts : \A a :
        Past(s) /\ GoTo(s, a) /\ a \in {"stop", "settle", "box", "watch", "retry", "done"}
          => \A t \in Scripts : pc'[t] = pc[t] \/ (Past(t) /\ Past(t)')
  BY DEF GoTo, Past, TypeOK
<1>6. ASSUME NEW s \in Scripts, StopExe(s) PROVE PreviousInv'
  <2>1. \A t \in Scripts : pc'[t] = pc[t] \/ (Past(t) /\ Past(t)')
    BY <1>6, <1>a, <1>b DEF StopExe, ThenSettle, ThenNext, Past
  <2>2. QED BY <1>6, <2>1, Quiet DEF StopExe
<1>7. ASSUME NEW s \in Scripts, FirstStart(s) \/ Restart(s) \/ Watch(s) \/ Dismiss(s) PROVE PreviousInv'
  <2>1. \A t \in Scripts : pc'[t] = pc[t] \/ (Past(t) /\ Past(t)')
    BY <1>7, <1>a, <1>b DEF FirstStart, Restart, Watch, Dismiss, Past
  <2>2. QED BY <1>7, <2>1, Quiet DEF FirstStart, Restart, Watch, Dismiss
<1>8. ASSUME NEW s \in Scripts, StartFails(s) PROVE PreviousInv'
  <2>1. \A t \in Scripts : pc'[t] = pc[t] \/ pc'[t] = "dead"
    BY <1>8 DEF StartFails, GoTo, TypeOK
  <2>2. QED BY <1>8, <2>1, Quiet DEF StartFails
<1>9. ASSUME Tick PROVE PreviousInv'
  <2>1. now \in Nat /\ now' = now + 1 /\ UNCHANGED <<created, vtNowDate, pc, todo, kills>>
    BY <1>9 DEF Tick, TypeOK
  <2>2. ClockInv'
    BY <2>1 DEF ClockInv, HasRead, Past, TypeOK
  <2>3. CaughtInv'
    BY <2>1 DEF CaughtInv, Past, Alive
  <2>4. QED BY <2>2, <2>3
<1>10. ASSUME NEW s \in Scripts, NEW v \in Scripts, KillScript(s, v) PROVE PreviousInv'
  <2>1. pc'[v] = "dead" /\ \A t \in Scripts : pc'[t] = pc[t] \/ pc'[t] = "dead"
    BY <1>10 DEF KillScript, GoTo, TypeOK
  <2>2. \A u, t \in Scripts : <<u, t>> \in kills => <<u, t>> \in kills' \/ ~Alive(t)'
    BY <1>10, <2>1 DEF KillScript, Alive
  <2>3. QED BY <1>10, <2>1, <2>2, Quiet DEF KillScript
<1>11. ASSUME NEW s \in Scripts, NEW e \in Exes, KillExe(s, e) PROVE PreviousInv'
  <2>1. \A u, t \in Scripts : <<u, t>> \in kills => <<u, t>> \in kills'
    BY <1>11, ScriptAssumption DEF KillExe
  <2>2. QED BY <1>11, <2>1, Quiet DEF KillExe
<1>12. ASSUME NEW e, NEW o, ExeEnds(e, o) PROVE PreviousInv'
  BY <1>12, Quiet DEF ExeEnds
<1>13. CASE UNCHANGED vars
  BY <1>13, Quiet DEF vars
<1>14. QED
  BY <1>1, <1>2, <1>3, <1>4, <1>5, <1>6, <1>7, <1>8, <1>9, <1>10, <1>11, <1>12, <1>13
     DEF Next, ScriptStep, Taskkill, Scripts

LEMMA PreviousInvariant == Spec => []PreviousInv
<1>1. Init => PreviousInv
  BY DEF Init, PreviousInv, ClockInv, CaughtInv, HasRead, Past
<1>2. QED BY <1>1, StepPrevious, TypeCorrect, PTL DEF Spec

(* Past StopPrevious, with its TASKKILL over, a script has outlived every  *)
(* script that was created in a second before it read the clock.           *)
THEOREM PreviousStopped == Spec => []PreviousAreStopped
<1>1. PreviousInv => PreviousAreStopped
  BY DEF PreviousInv, CaughtInv, PreviousAreStopped, Past, Alive
<1>2. QED BY <1>1, PreviousInvariant, PTL

(* Two start scripts that go on side by side were launched in one second,  *)
(* and both read the clock in that second.                                 *)
THEOREM SurvivorsShareSecond == Spec => []SurvivorsSameSecond
<1>1. TypeOK /\ PreviousInv => SurvivorsSameSecond
  <2> SUFFICES ASSUME TypeOK, PreviousInv, NEW s \in Starts, NEW t \in Starts, Past(s), Past(t),
                      <<s, t>> \notin kills, <<t, s>> \notin kills
               PROVE  created[s] = created[t] /\ vtNowDate[s] = vtNowDate[t]
    BY DEF SurvivorsSameSecond
  <2>1. s \in Scripts /\ t \in Scripts BY DEF Scripts
  <2>2. ~(created[t] < vtNowDate[s]) /\ ~(created[s] < vtNowDate[t])
    BY <2>1 DEF PreviousInv, CaughtInv, Past, Alive
  <2>3. created[s] <= vtNowDate[s] /\ created[t] <= vtNowDate[t]
    BY <2>1 DEF PreviousInv, ClockInv, HasRead
  <2>4. created[s] \in Nat /\ created[t] \in Nat /\ vtNowDate[s] \in Nat /\ vtNowDate[t] \in Nat
    BY <2>1 DEF TypeOK
  <2>5. QED BY <2>2, <2>3, <2>4
<1>2. QED BY <1>1, PreviousInvariant, TypeCorrect, PTL

------------------------------------------------------------------------------
(* A start script runs no copy of a program it has yet to come to, and     *)
(* none of the program it has found missing.                               *)
Ahead(s) ==
  /\ pc[s] \in {"new", "clock", "query", "previous"} => \A e \in Exes : copies[e][s] = 0
  /\ pc[s] \in {"stop", "settle"} =>
       \A j \in Pos : j >= i[s] => copies[strExePathSet[j]][s] = 0
  /\ pc[s] = "retry" => copies[Exe(s)][s] = 0

CopyInv(s) == Ahead(s) /\ \A e \in Exes : copies[e][s] <= 1

(* What others do: they leave the script where it is or kill it, and start *)
(* no copy in its name.                                                    *)
LEMMA Others ==
  ASSUME TypeOK, TypeOK', NEW s \in Starts, CopyInv(s), i'[s] = i[s],
         pc'[s] = pc[s] \/ pc'[s] = "dead",
         \A e \in Exes : copies'[e][s] <= copies[e][s]
  PROVE  CopyInv(s)'
<1>1. \A e \in Exes : copies[e][s] \in Nat /\ copies'[e][s] \in Nat
  BY DEF TypeOK, Owners
<1>2. \A e \in Exes : copies[e][s] = 0 => copies'[e][s] = 0
  BY <1>1
<1>3. \A j \in Pos : strExePathSet[j] \in Exes
  BY DEF Exes
<1>4. Exe(s) \in Exes /\ Exe(s)' = Exe(s)
  BY PosFacts DEF TypeOK, Scripts, Exe
<1>5. Ahead(s)'
  BY <1>2, <1>3, <1>4 DEF CopyInv, Ahead
<1>6. \A e \in Exes : copies'[e][s] <= 1
  BY <1>1 DEF CopyInv
<1>7. QED BY <1>5, <1>6 DEF CopyInv

(* What a step of script r does to the place of another one.               *)
LEMMA Elsewhere ==
  ASSUME TypeOK, NEW r \in Scripts, NEW s \in Scripts, r # s
  PROVE  /\ \A a : GoTo(r, a) => pc'[s] = pc[s]
         /\ \A a, b : NextExe(r, a, b) => pc'[s] = pc[s] /\ i'[s] = i[s]
BY DEF TypeOK, GoTo, NextExe

(* A start by another script is not in its name; one by itself is one more *)
(* copy of the program it has come to.                                     *)
LEMMA StartedFacts ==
  ASSUME TypeOK, NEW r \in Starts, Started(r), NEW s \in Starts
  PROVE  /\ r # s => \A e \in Exes : copies'[e][s] = copies[e][s]
         /\ \A e \in Exes : e # Exe(r) => copies'[e][s] = copies[e][s]
         /\ r = s => copies'[Exe(s)][s] = copies[Exe(s)][s] + 1
<1>1. copies' = [copies EXCEPT ![Exe(r)] = [copies[Exe(r)] EXCEPT ![r] = copies[Exe(r)][r] + 1]]
  BY DEF Started
<1>2. Exe(r) \in Exes /\ r \in Owners /\ s \in Owners /\ copies \in [Exes -> [Owners -> Nat]]
  BY PosFacts DEF TypeOK, Scripts, Owners
<1>3. copies'[Exe(r)] = [copies[Exe(r)] EXCEPT ![r] = copies[Exe(r)][r] + 1]
      /\ \A e \in Exes : e # Exe(r) => copies'[e] = copies[e]
  BY <1>1, <1>2
<1>4. copies[Exe(r)] \in [Owners -> Nat]
  BY <1>2
<1>5. copies'[Exe(r)][r] = copies[Exe(r)][r] + 1 /\ (r # s => copies'[Exe(r)][s] = copies[Exe(r)][s])
  BY <1>2, <1>3, <1>4
<1>6. QED BY <1>3, <1>5

LEMMA StepCopies ==
  ASSUME TypeOK, TypeOK', [Next]_vars, NEW s \in Starts, CopyInv(s)
  PROVE  CopyInv(s)'
<1>a. s \in Scripts /\ \A e \in Exes : copies[e][s] \in Nat /\ copies'[e][s] \in Nat
  BY DEF Scripts, TypeOK, Owners
<1>b. ASSUME UNCHANGED copies, i'[s] = i[s], pc'[s] = pc[s] \/ pc'[s] = "dead" PROVE CopyInv(s)'
  BY <1>a, <1>b, Others
<1>c. ASSUME UNCHANGED copies, i'[s] = i[s],
             \/ pc[s] \in {"new", "clock", "query", "previous"}
                  /\ pc'[s] \in {"clock", "query", "previous", "stop"}
             \/ pc[s] = "stop" /\ pc'[s] = "settle"
             \/ pc'[s] \in {"box", "watch"}
      PROVE CopyInv(s)'
  <2>1. \A j \in Pos : strExePathSet[j] \in Exes
    BY DEF Exes
  <2>2. Ahead(s)'
    BY <1>c, <2>1 DEF CopyInv, Ahead
  <2>3. QED BY <1>c, <2>2 DEF CopyInv
<1>1. ASSUME NEW r \in Scripts, Launch(r) \/ ReadClock(r) \/ QueryPrevious(r) \/ EndPrevious(r)
      PROVE  CopyInv(s)'
  <2>1. UNCHANGED <<copies, i>>
    BY <1>1 DEF Launch, ReadClock, QueryPrevious, EndPrevious
  <2>2. CASE r = s
    <3>1. pc[s] \in {"new", "clock", "query", "previous"}
          /\ pc'[s] \in {"clock", "query", "previous", "stop"}
      BY <1>1, <2>2 DEF Launch, ReadClock, QueryPrevious, EndPrevious, GoTo, TypeOK
    <3>2. QED BY <1>c, <2>1, <3>1
  <2>3. CASE r # s
    <3>1. pc'[s] = pc[s]
      BY <1>1, <1>a, <2>3, Elsewhere DEF Launch, ReadClock, QueryPrevious, EndPrevious
    <3>2. QED BY <1>b, <2>1, <3>1
  <2>4. QED BY <2>2, <2>3
<1>2. ASSUME NEW r \in Scripts, KillPrevious(r) PROVE CopyInv(s)'
  BY <1>2, <1>b DEF KillPrevious
<1>3. ASSUME NEW r \in Scripts, StopExe(r) PROVE CopyInv(s)'
  <2>1. UNCHANGED copies
    BY <1>3 DEF StopExe
  <2>2. CASE r = s
    <3>1. pc[s] = "stop" /\ pc'[s] = "settle" /\ i'[s] = i[s]
      BY <1>3, <2>2, ScriptAssumption DEF StopExe, ThenSettle, ThenNext, GoTo, TypeOK
    <3>2. QED BY <1>c, <2>1, <3>1
  <2>3. CASE r # s
    <3>1. pc'[s] = pc[s] /\ i'[s] = i[s]
      BY <1>3, <1>a, <2>3, Elsewhere DEF StopExe, ThenSettle, ThenNext
    <3>2. QED BY <1>b, <2>1, <3>1
  <2>4. QED BY <2>2, <2>3
<1>4. ASSUME NEW r \in Starts, FirstStart(r) \/ Restart(r), r # s PROVE CopyInv(s)'
  <2>1. r \in Scripts /\ Started(r)
    BY <1>4 DEF Scripts, FirstStart, Restart
  <2>2. pc'[s] = pc[s] /\ i'[s] = i[s]
    BY <1>4, <1>a, <2>1, Elsewhere DEF FirstStart, Restart
  <2>3. \A e \in Exes : copies'[e][s] <= copies[e][s]
    BY <1>4, <1>a, <2>1, StartedFacts
  <2>4. QED BY <2>2, <2>3, Others
<1>5. ASSUME Started(s), copies[Exe(s)][s] = 0 PROVE \A e \in Exes : copies'[e][s] <= 1
  <2>1. Exe(s) \in Exes
    BY <1>a, PosFacts DEF TypeOK
  <2>2. \A e \in Exes : e # Exe(s) => copies'[e][s] = copies[e][s]
    BY <1>5, StartedFacts
  <2>3. copies'[Exe(s)][s] = 1
    BY <1>5, StartedFacts
  <2>4. QED BY <2>1, <2>2, <2>3 DEF CopyInv
<1>6. ASSUME FirstStart(s) PROVE CopyInv(s)'
  <2>1. i[s] \in Pos /\ pc[s] = "settle" /\ Started(s) /\ NextExe(s, "stop", "box")
    BY <1>6, <1>a DEF FirstStart, TypeOK
  <2>2. \A j \in Pos : j >= i[s] => copies[strExePathSet[j]][s] = 0
    BY <2>1 DEF CopyInv, Ahead
  <2>3. i[s] \in Nat /\ \A j \in Pos : j \in Nat
    BY <2>1 DEF Pos
  <2>4. copies[Exe(s)][s] = 0
    BY <2>1, <2>2, <2>3 DEF Exe
  <2>5. \A e \in Exes : copies'[e][s] <= 1
    BY <1>5, <2>1, <2>4
  <2>6. CASE pc'[s] = "stop" /\ i'[s] = i[s] + 1
    <3>1. ASSUME NEW j \in Pos, j >= i'[s] PROVE copies'[strExePathSet[j]][s] = 0
      <4>1. j >= i[s] /\ j # i[s]
        BY <2>3, <2>6, <3>1
      <4>2. strExePathSet[j] # Exe(s) /\ strExePathSet[j] \in Exes
        BY <2>1, <4>1, PathAssumption DEF Exe, Exes
      <4>3. copies'[strExePathSet[j]][s] = copies[strExePathSet[j]][s]
        BY <2>1, <4>2, StartedFacts
      <4>4. QED BY <2>2, <4>1, <4>3
    <3>2. QED BY <2>5, <2>6, <3>1 DEF CopyInv, Ahead
  <2>7. CASE pc'[s] = "box"
    BY <2>5, <2>7 DEF CopyInv, Ahead
  <2>8. (pc'[s] = "stop" /\ i'[s] = i[s] + 1) \/ pc'[s] = "box"
    BY <1>a, <2>1 DEF NextExe, GoTo, TypeOK
  <2>9. QED BY <2>6, <2>7, <2>8
<1>7. ASSUME Restart(s) PROVE CopyInv(s)'
  <2>1. pc[s] = "retry" /\ Started(s) /\ pc'[s] = "watch"
    BY <1>7, <1>a DEF Restart, NextExe, GoTo, TypeOK
  <2>2. \A e \in Exes : copies'[e][s] <= 1
    BY <1>5, <2>1 DEF CopyInv, Ahead
  <2>3. QED BY <2>1, <2>2 DEF CopyInv, Ahead
<1>8. ASSUME NEW r \in Starts, Watch(r) PROVE CopyInv(s)'
  <2>1. UNCHANGED copies
    BY <1>8 DEF Watch
  <2>2. CASE r = s /\ Exist(Exe(s))
    <3>1. pc'[s] = "watch"
      BY <1>8, <1>a, <2>2 DEF Watch, NextExe, GoTo, TypeOK
    <3>2. QED BY <2>1, <3>1 DEF CopyInv, Ahead
  <2>3. CASE r = s /\ ~Exist(Exe(s))
    <3>1. pc'[s] = "retry" /\ i'[s] = i[s] /\ Exe(s) \in Exes
      BY <1>8, <1>a, <2>3, PosFacts DEF Watch, GoTo, TypeOK
    <3>2. copies[Exe(s)][s] = 0
      BY <1>a, <2>3, <3>1 DEF Exist, Owners
    <3>3. QED BY <2>1, <3>1, <3>2 DEF CopyInv, Ahead, Exe
  <2>4. CASE r # s
    <3>1. r \in Scripts BY DEF Scripts
    <3>2. pc'[s] = pc[s] /\ i'[s] = i[s]
      BY <1>8, <1>a, <2>4, <3>1, Elsewhere DEF Watch
    <3>3. QED BY <1>b, <2>1, <3>2
  <2>5. QED BY <2>2, <2>3, <2>4
<1>9. ASSUME NEW r \in Starts, Dismiss(r) PROVE CopyInv(s)'
  <2>1. UNCHANGED <<copies, i>>
    BY <1>9 DEF Dismiss
  <2>2. pc'[s] = pc[s] \/ pc'[s] = "watch"
    BY <1>9, <1>a DEF Dismiss, GoTo, TypeOK
  <2>3. QED BY <1>b, <1>c, <2>1, <2>2
<1>10. ASSUME NEW r \in Starts, StartFails(r) PROVE CopyInv(s)'
  <2>1. UNCHANGED <<copies, i>>
    BY <1>10 DEF StartFails
  <2>2. pc'[s] = pc[s] \/ pc'[s] = "dead"
    BY <1>10, <1>a DEF StartFails, GoTo, TypeOK
  <2>3. QED BY <1>b, <2>1, <2>2
<1>11. ASSUME Tick PROVE CopyInv(s)'
  BY <1>11, <1>b DEF Tick
<1>12. ASSUME NEW r \in Scripts, NEW v \in Scripts, KillScript(r, v) PROVE CopyInv(s)'
  <2>1. UNCHANGED <<copies, i>>
    BY <1>12 DEF KillScript
  <2>2. pc'[s] = pc[s] \/ pc'[s] = "dead"
    BY <1>12, <1>a DEF KillScript, GoTo, TypeOK
  <2>3. QED BY <1>b, <2>1, <2>2
<1>13. ASSUME NEW r \in Scripts, NEW e \in Exes, KillExe(r, e) PROVE CopyInv(s)'
  <2>1. UNCHANGED <<pc, i>> /\ copies' = [copies EXCEPT ![e] = None]
    BY <1>13 DEF KillExe
  <2>2. None[s] = 0 BY DEF None, Owners
  <2>3. \A x \in Exes : copies'[x][s] <= copies[x][s]
    BY <1>a, <2>1, <2>2 DEF TypeOK
  <2>4. QED BY <2>1, <2>3, Others
<1>14. ASSUME NEW e \in Exes, NEW o \in Owners, ExeEnds(e, o) PROVE CopyInv(s)'
  <2>1. UNCHANGED <<pc, i>>
        /\ copies' = [copies EXCEPT ![e] = [copies[e] EXCEPT ![o] = copies[e][o] - 1]]
    BY <1>14 DEF ExeEnds
  <2>2. copies[e] \in [Owners -> Nat] /\ s \in Owners
    BY DEF TypeOK, Owners
  <2>3. \A x \in Exes : x # e => copies'[x] = copies[x]
    BY <2>1 DEF TypeOK
  <2>4. copies'[e] = [copies[e] EXCEPT ![o] = copies[e][o] - 1]
    BY <2>1 DEF TypeOK
  <2>5. copies'[e][s] <= copies[e][s]
    BY <1>a, <2>2, <2>4
  <2>6. \A x \in Exes : copies'[x][s] <= copies[x][s]
    BY <1>a, <2>3, <2>5
  <2>7. QED BY <2>1, <2>6, Others
<1>15. CASE UNCHANGED vars
  BY <1>15, <1>b DEF vars
<1>16. QED
  BY <1>1, <1>2, <1>3, <1>4, <1>6, <1>7, <1>8, <1>9, <1>10, <1>11, <1>12, <1>13, <1>14, <1>15
     DEF Next, ScriptStep, Taskkill

(* No start script ever has two copies of a program running, though others *)
(* start, stop and kill the same programs, and its own TASKKILLs are late. *)
THEOREM OneCopyEach == Spec => []NoSecondCopy
<1> DEFINE Inv == \A s \in Starts : CopyInv(s)
<1>1. Init => Inv
  <2> SUFFICES ASSUME Init, NEW s \in Starts PROVE CopyInv(s)
    OBVIOUS
  <2>1. s \in Owners /\ s # Outside /\ pc[s] = "new"
    BY ScriptAssumption DEF Init, Owners, Scripts
  <2>2. None[s] = 0 /\ [None EXCEPT ![Outside] = 1][s] = 0
    BY <2>1 DEF None
  <2>3. \A e \in Exes : copies[e][s] = 0
    BY <2>2 DEF Init
  <2>4. QED BY <2>1, <2>3 DEF CopyInv, Ahead
<1>2. TypeOK /\ TypeOK' /\ Inv /\ [Next]_vars => Inv'
  BY StepCopies
<1>3. Inv => NoSecondCopy
  BY DEF CopyInv, NoSecondCopy
<1> HIDE DEF Inv
<1>4. QED BY <1>1, <1>2, <1>3, TypeCorrect, PTL DEF Spec
==============================================================================
