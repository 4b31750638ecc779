------------------------------- MODULE SysVSem -------------------------------
(***************************************************************************)
(* What the kernel does for a System V semaphore set with two semaphores,  *)
(* as far as src/linux/semaphore/service_client.c uses it: semop with      *)
(* SEM_UNDO, SETVAL, IPC_RMID and the adjustments applied when a process   *)
(* ends.  External code: nothing of it is in the repository.               *)
(***************************************************************************)
EXTENDS Integers

CONSTANTS
  Procs,    (* the processes that may keep undo adjustments               *)
  SEMVMX,   (* the largest value of a semaphore (32767 on Linux)          *)
  SEMAEM    (* the largest undo adjustment of a process (32767 on Linux)  *)

VARIABLES
  cur,      (* the set registered under the program's key; 0: none        *)
  sem,      (* the values of its semaphores 0 and 1                       *)
  adj       (* per process and semaphore: what its end will add (semadj)  *)

SemNums == {0, 1}

KernelTypeOK ==
  /\ cur \in Nat
  /\ sem \in [SemNums -> 0 .. SEMVMX]
  /\ adj \in [Procs -> [SemNums -> (-SEMAEM - 1) .. SEMAEM]]

NoAdj == [k \in SemNums |-> 0]

(***************************************************************************)
(* One operation d (+1 or -1) on semaphore k.  It blocks (is not enabled)  *)
(* while the value would become negative; the other checks come after that *)
(* one, and a failing semop changes nothing.                               *)
(***************************************************************************)
Removed(set) == set # cur                            \* EIDRM, EINVAL
Passes(k, d) == sem[k] + d >= 0
InRange(p, k, d) ==                                  \* else ERANGE
  /\ sem[k] + d <= SEMVMX
  /\ adj[p][k] - d \in (-SEMAEM - 1) .. SEMAEM

SemopDone(p, set, k, d) ==
  /\ ~Removed(set) /\ Passes(k, d) /\ InRange(p, k, d)
  /\ sem' = [sem EXCEPT ![k] = @ + d]
  /\ adj' = [adj EXCEPT ![p][k] = @ - d]
  /\ UNCHANGED cur

SemopOutOfRange(p, set, k, d) ==
  /\ ~Removed(set) /\ Passes(k, d) /\ ~InRange(p, k, d)
  /\ UNCHANGED <<cur, sem, adj>>

SemopRemoved(set) ==
  /\ Removed(set)
  /\ UNCHANGED <<cur, sem, adj>>

(* EINTR: a sleeper that is stopped and continued (Ctrl+Z, fg) is woken. *)
SemopInterrupted(set, k, d) ==
  /\ ~Removed(set) /\ ~Passes(k, d)
  /\ UNCHANGED <<cur, sem, adj>>

(* SETVAL also forgets every process's adjustment of that semaphore. *)
SetVal(k, v) ==
  /\ sem' = [sem EXCEPT ![k] = v]
  /\ adj' = [p \in Procs |-> [adj[p] EXCEPT ![k] = 0]]
  /\ UNCHANGED cur

(* IPC_RMID of the set a process names; nothing happens when it is gone. *)
RemoveSet(set) ==
  IF set = cur
  THEN /\ cur' = 0
       /\ sem' = [k \in SemNums |-> 0]
       /\ adj' = [p \in Procs |-> NoAdj]
  ELSE UNCHANGED <<cur, sem, adj>>

Clamp(v) == IF v < 0 THEN 0 ELSE IF v > SEMVMX THEN SEMVMX ELSE v

(* The end of a process: its adjustments are added, each value clamped. *)
ExitUndo(p, set) ==
  /\ sem' = IF set = cur THEN [k \in SemNums |-> Clamp(sem[k] + adj[p][k])] ELSE sem
  /\ adj' = [adj EXCEPT ![p] = NoAdj]
  /\ UNCHANGED cur
==============================================================================
