------------------------- MODULE ServiceClientProofs -------------------------
(***************************************************************************)
(* Proofs about ServiceClient for any number of clients, any lines and any *)
(* limits of the kernel: it is type correct, the token of an intact        *)
(* channel is conserved, at most one process is in the segment, and every  *)
(* step is a step of OneSlotChannel or leaves it alone.                    *)
(***************************************************************************)
EXTENDS ServiceClient, TLAPS

Running(c) == cpc[c] # "off"
User(c) == Running(c) /\ csem[c] = cur

(* The server works on the registered set; the channel is not intact       *)
(* before SetFull.                                                         *)
ServerInv ==
  /\ spc # "down" => semid = cur
  /\ intact => spc \in {"shm"} \union Serving
  /\ \A c \in Clients : ~Running(c) => adj[c] = NoAdj

(* A client hears the newest segment iff it uses the newest set. *)
SegmentInv ==
  /\ \A c \in Clients : cshm[c] <= epoch
  /\ spc \in Serving => \A c \in Clients : Running(c) /\ cshm[c] = epoch => csem[c] = cur
  /\ intact /\ spc \in Serving => \A c \in Clients : User(c) => cshm[c] = epoch
  /\ intact /\ spc = "shm" => /\ sem[0] = 1 /\ sem[1] = 0
                              /\ \A c \in Clients : ~User(c)

(* Between the two SETVALs semaphore 0 and the undo adjustments of the     *)
(* clients that were left over add up to one.                              *)
SetUpInv ==
  spc = "setb" =>
    \/ sem[0] = 1 /\ \A c \in Clients : adj[c][0] = 0
    \/ /\ sem[0] = 0
       /\ \E c \in Clients : /\ User(c) /\ adj[c][0] = 1
                             /\ \A d \in Clients \ {c} : adj[d][0] = 0

(* What the end of a client would add to the two semaphores together is    *)
(* the token it holds.                                                     *)
LedgerInv ==
  intact => \A c \in Clients : User(c) =>
              adj[c][0] + adj[c][1] = IF cpc[c] \in Inside THEN 1 ELSE 0

TokenInv == TokenConserved /\ SlotExclusion

ContentInv ==
  intact /\ (\/ sem[1] = 1 \/ spc = "print"
             \/ \E c \in Clients : HasSlot(c) /\ cpc[c] = "post") => shmdata \in Msg

IInv == TypeOK /\ ServerInv /\ SegmentInv /\ SetUpInv /\ LedgerInv /\ TokenInv /\ ContentInv

------------------------------------------------------------------------------
(* The kernel's operations keep the kernel's state well typed. *)

LEMMA SemopType ==
  ASSUME KernelTypeOK, NEW p \in Procs, NEW s, NEW k \in SemNums, NEW d \in {-1, 1},
         intact \in BOOLEAN, Semop(p, s, k, d)
  PROVE  KernelTypeOK' /\ intact' \in BOOLEAN
<1>1. CASE SemopDone(p, s, k, d) /\ UNCHANGED intact
  BY <1>1, SemLimits DEF SemopDone, Passes, InRange, KernelTypeOK, SemNums
<1>2. CASE SemopOutOfRange(p, s, k, d) /\ intact' = FALSE
  BY <1>2 DEF SemopOutOfRange, KernelTypeOK
<1>3. CASE SemopRemoved(s) /\ UNCHANGED intact
  BY <1>3 DEF SemopRemoved, KernelTypeOK
<1>4. QED BY <1>1, <1>2, <1>3 DEF Semop

LEMMA ExitUndoType ==
  ASSUME KernelTypeOK, NEW p \in Procs, NEW s, ExitUndo(p, s)
  PROVE  KernelTypeOK'
<1>1. NoAdj \in [SemNums -> (-SEMAEM - 1) .. SEMAEM]
  BY SemLimits DEF NoAdj, SemNums
<1>2. \A v \in Int : Clamp(v) \in 0 .. SEMVMX
  BY SemLimits DEF Clamp
<1>3. \A k \in SemNums : sem[k] + adj[p][k] \in Int
  BY SemLimits DEF KernelTypeOK, SemNums
<1>4. sem' \in [SemNums -> 0 .. SEMVMX]
  BY <1>2, <1>3 DEF ExitUndo, KernelTypeOK
<1>5. QED BY <1>1, <1>4 DEF ExitUndo, KernelTypeOK

LEMMA RemoveSetType ==
  ASSUME KernelTypeOK, NEW s, RemoveSet(s)
  PROVE  KernelTypeOK'
BY SemLimits DEF RemoveSet, KernelTypeOK, NoAdj, SemNums

LEMMA SetValType ==
  ASSUME KernelTypeOK, NEW k \in SemNums, NEW v \in {0, 1}, SetVal(k, v)
  PROVE  KernelTypeOK'
BY SemLimits DEF SetVal, KernelTypeOK, SemNums

------------------------------------------------------------------------------
(* Type correctness. *)

LEMMA InitType == Init => TypeOK
<1> SUFFICES ASSUME Init PROVE TypeOK
  OBVIOUS
<1>1. sem \in [SemNums -> 0 .. SEMVMX]
  BY SemLimits DEF Init
<1>2. NoAdj \in [SemNums -> (-SEMAEM - 1) .. SEMAEM]
  BY SemLimits DEF NoAdj
<1>3. adj \in [Procs -> [SemNums -> (-SEMAEM - 1) .. SEMAEM]]
  BY <1>2 DEF Init
<1>4. QED BY <1>1, <1>3 DEF Init, TypeOK, KernelTypeOK, ServerPcs, ClientPcs

LEMMA StepType == TypeOK /\ [Next]_vars => TypeOK'
<1> SUFFICES ASSUME TypeOK, [Next]_vars PROVE TypeOK'
  OBVIOUS
<1> USE DEF TypeOK, ServerPcs, ClientPcs, Serving, Inside
<1>a. Server \in Procs /\ \A c \in Clients : c \in Procs
  BY DEF Procs
<1>b. 0 \in SemNums /\ 1 \in SemNums
  BY DEF SemNums
<1>1. CASE StartServer
  <2>1. sem' \in [SemNums -> 0 .. SEMVMX]
    BY <1>1, SemLimits DEF StartServer, KernelTypeOK
  <2>2. nset' \in Nat /\ cur' \in Nat
    BY <1>1 DEF StartServer, KernelTypeOK
  <2>3. QED BY <1>1, <2>1, <2>2 DEF StartServer, KernelTypeOK, client
<1>2. CASE SetEmpty
  BY <1>2, <1>b, SetValType DEF SetEmpty, client
<1>3. CASE SetFull
  <2>1. KernelTypeOK' BY <1>3, <1>b, SetValType DEF SetFull
  <2>2. QED BY <1>3, <2>1 DEF SetFull, client
<1>4. CASE MakeSegment
  BY <1>4 DEF MakeSegment, client, kernel, KernelTypeOK
<1>5. CASE ServerWait
  <2>1. KernelTypeOK' /\ intact' \in BOOLEAN
    BY <1>5, <1>a, <1>b, SemopType DEF ServerWait
  <2>2. QED BY <1>5, <2>1 DEF ServerWait, client
<1>6. CASE ServerPrint
  BY <1>6 DEF ServerPrint, client, kernel, KernelTypeOK
<1>7. CASE ServerPost
  <2>1. KernelTypeOK' /\ intact' \in BOOLEAN
    BY <1>7, <1>a, <1>b, SemopType DEF ServerPost
  <2>2. QED BY <1>7, <2>1 DEF ServerPost, client
<1>8. CASE ServerSigint
  BY <1>8, RemoveSetType DEF ServerSigint, client
<1>9. CASE ServerKilled
  BY <1>9, <1>a, ExitUndoType DEF ServerKilled, client
<1>10. ASSUME NEW c \in Clients, StartClient(c) PROVE TypeOK'
  BY <1>10 DEF StartClient, kernel, server, KernelTypeOK
<1>11. ASSUME NEW c \in Clients, ChooseSend(c) PROVE TypeOK'
  BY <1>11 DEF ChooseSend, kernel, server, KernelTypeOK
<1>12. ASSUME NEW c \in Clients, ClientLock(c) PROVE TypeOK'
  <2>1. KernelTypeOK' /\ intact' \in BOOLEAN
    BY <1>12, <1>a, <1>b, SemopType DEF ClientLock
  <2>2. QED BY <1>12, <2>1 DEF ClientLock, server
<1>13. ASSUME NEW c \in Clients, ClientEnter(c) PROVE TypeOK'
  BY <1>13 DEF ClientEnter, kernel, server, KernelTypeOK
<1>14. ASSUME NEW c \in Clients, ClientPost(c) PROVE TypeOK'
  <2>1. KernelTypeOK' /\ intact' \in BOOLEAN
    BY <1>14, <1>a, <1>b, SemopType DEF ClientPost
  <2>2. QED BY <1>14, <2>1 DEF ClientPost, server
<1>15. ASSUME NEW c \in Clients, Gone(c) PROVE TypeOK'
  <2>1. KernelTypeOK' BY <1>15, <1>a, ExitUndoType DEF Gone
  <2>2. QED BY <1>15, <2>1 DEF Gone, server
<1>16. CASE ServerInterrupted
  BY <1>16 DEF ServerInterrupted, SemopInterrupted, client, KernelTypeOK
<1>17. ASSUME NEW c \in Clients, ClientInterrupted(c) PROVE TypeOK'
  BY <1>17 DEF ClientInterrupted, SemopInterrupted, server, KernelTypeOK
<1>18. CASE UNCHANGED vars
  BY <1>18 DEF vars, kernel, server, client, KernelTypeOK
<1>19. QED
  BY <1>1, <1>2, <1>3, <1>4, <1>5, <1>6, <1>7, <1>8, <1>9, <1>10, <1>11, <1>12,
     <1>13, <1>14, <1>15, <1>16, <1>17, <1>18
     DEF Next, ServerStep, ServerLoop, ClientStep, ClientQuit, ClientKilled

(* Every variable always has a value the program can give it, whatever the *)
(* number of clients and the limits of the kernel.                         *)
THEOREM TypeCorrect == Spec => []TypeOK
BY InitType, StepType, PTL DEF Spec

------------------------------------------------------------------------------
(* The inductive invariant. *)

LEMMA InitInv == Init => IInv
<1> SUFFICES ASSUME Init PROVE IInv
  OBVIOUS
<1>1. TypeOK BY InitType
<1>2. ServerInv /\ SegmentInv
  BY DEF Init, ServerInv, SegmentInv, Running, User, Serving, Procs
<1>3. SetUpInv /\ LedgerInv /\ TokenInv /\ ContentInv
  BY DEF Init, SetUpInv, LedgerInv, TokenInv, TokenConserved, SlotExclusion, ContentInv
<1>4. QED BY <1>1, <1>2, <1>3 DEF IInv

(* The parts of the invariant other than type correctness. *)
Rest == ServerInv /\ SegmentInv /\ SetUpInv /\ LedgerInv /\ TokenInv /\ ContentInv

LEMMA StartServerInv == IInv /\ StartServer => Rest'
<1> SUFFICES ASSUME IInv, StartServer PROVE Rest'
  OBVIOUS
<1> USE DEF IInv, Serving
<1>1. ~intact /\ ~intact'
  BY DEF StartServer, ServerInv
<1>2. ServerInv' BY <1>1 DEF StartServer, ServerInv, Running, client
<1>3. SegmentInv' BY <1>1 DEF StartServer, SegmentInv, Running, client
<1>4. SetUpInv' BY DEF StartServer, SetUpInv
<1>5. QED
  BY <1>1, <1>2, <1>3, <1>4 DEF Rest, LedgerInv, TokenInv, TokenConserved, SlotExclusion, ContentInv

LEMMA SetEmptyInv == IInv /\ SetEmpty => Rest'
<1> SUFFICES ASSUME IInv, SetEmpty PROVE Rest'
  OBVIOUS
<1> USE DEF IInv, Serving
<1>1. ~intact /\ ~intact'
  BY DEF SetEmpty, ServerInv
<1>2. \A p \in Procs : adj'[p] = [adj[p] EXCEPT ![0] = 0]
  BY DEF SetEmpty, SetVal
<1>3. \A c \in Clients : adj'[c][0] = 0 /\ adj'[c][1] = adj[c][1]
  <2>1. SUFFICES ASSUME NEW c \in Clients
                 PROVE  adj'[c][0] = 0 /\ adj'[c][1] = adj[c][1]
    OBVIOUS
  <2>2. c \in Procs /\ adj[c] \in [{0, 1} -> Int]
    BY SemLimits DEF Procs, TypeOK, KernelTypeOK, SemNums
  <2>3. adj'[c] = [adj[c] EXCEPT ![0] = 0]
    BY <1>2, <2>2
  <2>4. QED BY <2>2, <2>3
<1>4. ServerInv'
  <2>1. \A c \in Clients : adj[c] = NoAdj => adj'[c] = NoAdj
    BY <1>2 DEF Procs, NoAdj, SemNums
  <2>2. QED BY <1>1, <2>1 DEF SetEmpty, SetVal, ServerInv, Running, client
<1>5. SegmentInv'
  BY <1>1 DEF SetEmpty, SetVal, SegmentInv, Running, client
<1>6. SetUpInv'
  BY <1>3 DEF SetEmpty, SetVal, SetUpInv, TypeOK, KernelTypeOK, SemNums
<1>7. QED
  BY <1>1, <1>4, <1>5, <1>6 DEF Rest, LedgerInv, TokenInv, TokenConserved, SlotExclusion, ContentInv

LEMMA SetFullInv == IInv /\ SetFull => Rest'
<1> SUFFICES ASSUME IInv, SetFull PROVE Rest'
  OBVIOUS
<1> USE DEF IInv, Serving
<1>1. spc' = "shm" /\ semid = cur /\ cur' = cur
  BY DEF SetFull, ServerInv, SetVal
<1>2. intact' => \A c \in Clients : ~User(c) /\ ~User(c)'
  BY <1>1 DEF SetFull, UsersOf, User, Running, client
<1>3. intact' => sem'[0] = 1 /\ sem'[1] = 0
  <2>1. intact' => sem[0] = 1
    BY <1>2 DEF SetFull, SetUpInv
  <2>2. QED BY <2>1 DEF SetFull, SetVal, TypeOK, KernelTypeOK, SemNums
<1>4. ServerInv'
  <2>1. \A c \in Clients : adj[c] = NoAdj => adj'[c] = NoAdj
    BY DEF SetFull, SetVal, Procs, NoAdj, SemNums
  <2>2. QED BY <1>1, <2>1 DEF SetFull, ServerInv, Running, client
<1>5. SegmentInv'
  BY <1>1, <1>2, <1>3 DEF SetFull, SegmentInv, Running, client
<1>6. SetUpInv' BY <1>1 DEF SetUpInv
<1>7. LedgerInv' BY <1>2 DEF LedgerInv
<1>8. intact' => \A c \in Clients : ~HasSlot(c)'
  BY <1>2 DEF HasSlot, User, Running, Inside
<1>9. TokenInv'
  BY <1>1, <1>3, <1>8 DEF TokenInv, TokenConserved, SlotExclusion, ServerHasSlot
<1>10. ContentInv' BY <1>1, <1>3, <1>8 DEF ContentInv
<1>11. QED BY <1>4, <1>5, <1>6, <1>7, <1>9, <1>10 DEF Rest

LEMMA MakeSegmentInv == IInv /\ MakeSegment => Rest'
<1> SUFFICES ASSUME IInv, MakeSegment PROVE Rest'
  OBVIOUS
<1> USE DEF IInv, Serving, MakeSegment, kernel, client
<1>1. ServerInv' BY DEF ServerInv, Running
<1>2. intact => \A c \in Clients : ~User(c)' /\ ~HasSlot(c)'
  BY DEF SegmentInv, User, HasSlot, Running, Inside
<1>3. \A c \in Clients : cshm'[c] < epoch'
  BY DEF SegmentInv, TypeOK
<1>4. SegmentInv' BY <1>2, <1>3 DEF SegmentInv, TypeOK
<1>5. SetUpInv' BY DEF SetUpInv
<1>6. LedgerInv' BY <1>2 DEF LedgerInv
<1>7. intact => \A c \in Clients : ~HasSlot(c)
  BY DEF SegmentInv, User, HasSlot, Running, Inside
<1>8. TokenInv'
  BY <1>2, <1>7 DEF TokenInv, TokenConserved, SlotExclusion, ServerHasSlot
<1>9. ContentInv'
  <2>1. intact => sem[1] # 1
    BY DEF SegmentInv
  <2>2. QED BY <1>2, <2>1 DEF ContentInv
<1>10. QED BY <1>1, <1>4, <1>5, <1>6, <1>8, <1>9 DEF Rest

(* A semop of one process leaves every other process's adjustments alone. *)
LEMMA SemopFrame ==
  ASSUME KernelTypeOK, NEW p \in Procs, NEW s, NEW k \in SemNums, NEW d \in {-1, 1},
         Semop(p, s, k, d)
  PROVE  /\ cur' = cur
         /\ \A q \in Procs \ {p} : adj'[q] = adj[q]
         /\ intact' => intact
BY DEF Semop, SemopDone, SemopOutOfRange, SemopRemoved, KernelTypeOK

(* On the registered set of a channel that stays intact it is done. *)
LEMMA SemopIntact ==
  ASSUME KernelTypeOK, NEW p \in Procs, NEW k \in SemNums, NEW d \in {-1, 1},
         Semop(p, cur, k, d), intact'
  PROVE  /\ sem[k] + d >= 0
         /\ sem' = [sem EXCEPT ![k] = @ + d]
         /\ adj' = [adj EXCEPT ![p][k] = @ - d]
BY DEF Semop, SemopDone, SemopOutOfRange, SemopRemoved, Removed, Passes, KernelTypeOK

LEMMA ServerWaitInv == IInv /\ ServerWait => Rest'
<1> SUFFICES ASSUME IInv, ServerWait PROVE Rest'
  OBVIOUS
<1> USE DEF IInv, Serving
<1>1. Server \in Procs /\ 1 \in SemNums /\ KernelTypeOK /\ semid = cur
  BY DEF ServerWait, ServerInv, Procs, SemNums, TypeOK
<1>2. /\ cur' = cur /\ (intact' => intact)
      /\ \A c \in Clients : adj'[c] = adj[c]
  BY <1>1, SemopFrame, ServerIsNoClient DEF ServerWait, Procs
<1>3. intact' => sem[0] = 0 /\ sem[1] = 1 /\ sem'[0] = 0 /\ sem'[1] = 0
  BY <1>1, <1>2, SemopIntact DEF ServerWait, TokenInv, TokenConserved, KernelTypeOK, SemNums
<1>4. ServerInv'
  BY <1>1, <1>2 DEF ServerWait, ServerInv, Running, client
<1>5. SegmentInv'
  BY <1>2 DEF ServerWait, SegmentInv, Running, User, client
<1>6. SetUpInv' BY DEF ServerWait, SetUpInv
<1>7. LedgerInv'
  BY <1>2 DEF ServerWait, LedgerInv, Running, User, client
<1>8. intact' => \A c \in Clients : ~HasSlot(c) /\ ~HasSlot(c)'
  BY <1>2, <1>3 DEF ServerWait, TokenInv, TokenConserved, HasSlot, client
<1>9. TokenInv'
  BY <1>3, <1>8 DEF ServerWait, TokenInv, TokenConserved, SlotExclusion, ServerHasSlot
<1>10. ContentInv'
  BY <1>2, <1>3 DEF ServerWait, ContentInv
<1>11. QED BY <1>4, <1>5, <1>6, <1>7, <1>9, <1>10 DEF Rest

LEMMA ServerPrintInv == IInv /\ ServerPrint => Rest'
<1> SUFFICES ASSUME IInv, ServerPrint PROVE Rest'
  OBVIOUS
<1> USE DEF IInv, Serving, ServerPrint, kernel, client
<1>1. ServerInv' /\ SegmentInv' /\ SetUpInv' /\ LedgerInv'
  BY DEF ServerInv, SegmentInv, SetUpInv, LedgerInv, Running, User
<1>2. TokenInv'
  BY DEF TokenInv, TokenConserved, SlotExclusion, ServerHasSlot, HasSlot
<1>3. ContentInv' BY DEF ContentInv, HasSlot
<1>4. QED BY <1>1, <1>2, <1>3 DEF Rest

LEMMA ServerPostInv == IInv /\ ServerPost => Rest'
<1> SUFFICES ASSUME IInv, ServerPost PROVE Rest'
  OBVIOUS
<1> USE DEF IInv, Serving
<1>1. Server \in Procs /\ 0 \in SemNums /\ KernelTypeOK /\ semid = cur
  BY DEF ServerPost, ServerInv, Procs, SemNums, TypeOK
<1>2. /\ cur' = cur /\ (intact' => intact)
      /\ \A c \in Clients : adj'[c] = adj[c]
  BY <1>1, SemopFrame, ServerIsNoClient DEF ServerPost, Procs
<1>3. intact' => sem'[0] = 1 /\ sem'[1] = 0
  <2>1. intact' => sem[0] = 0 /\ sem[1] = 0
    BY <1>2 DEF ServerPost, TokenInv, TokenConserved, ServerHasSlot, TypeOK, KernelTypeOK, SemNums
  <2>2. QED BY <1>1, <2>1, SemopIntact DEF ServerPost, KernelTypeOK, SemNums
<1>4. ServerInv'
  BY <1>1, <1>2 DEF ServerPost, ServerInv, Running, client
<1>5. SegmentInv'
  BY <1>2 DEF ServerPost, SegmentInv, Running, User, client
<1>6. SetUpInv' BY DEF ServerPost, SetUpInv
<1>7. LedgerInv'
  BY <1>2 DEF ServerPost, LedgerInv, Running, User, client
<1>8. intact' => \A c \in Clients : ~HasSlot(c) /\ ~HasSlot(c)'
  BY <1>2 DEF ServerPost, TokenInv, SlotExclusion, HasSlot, ServerHasSlot, client
<1>9. TokenInv'
  BY <1>3, <1>8 DEF ServerPost, TokenInv, TokenConserved, SlotExclusion, ServerHasSlot
<1>10. ContentInv'
  BY <1>3, <1>8 DEF ServerPost, ContentInv
<1>11. QED BY <1>4, <1>5, <1>6, <1>7, <1>9, <1>10 DEF Rest

LEMMA ServerStopInv == IInv /\ (ServerSigint \/ ServerKilled) => Rest'
<1> SUFFICES ASSUME IInv, ServerSigint \/ ServerKilled PROVE Rest'
  OBVIOUS
<1> USE DEF IInv, Serving, client
<1>1. ~intact' /\ spc' = "down"
  BY DEF ServerSigint, ServerKilled
<1>2. \A c \in Clients : adj[c] = NoAdj => adj'[c] = NoAdj
  BY ServerIsNoClient DEF ServerSigint, ServerKilled, RemoveSet, ExitUndo, Procs, NoAdj, SemNums, TypeOK, KernelTypeOK
<1>3. ServerInv'
  BY <1>1, <1>2 DEF ServerSigint, ServerKilled, ServerInv, Running
<1>4. SegmentInv'
  BY <1>1 DEF ServerSigint, ServerKilled, SegmentInv
<1>5. QED
  BY <1>1, <1>3, <1>4 DEF Rest, SetUpInv, LedgerInv, TokenInv, TokenConserved, SlotExclusion, ContentInv

LEMMA StartClientInv ==
  ASSUME IInv, NEW c \in Clients, StartClient(c)
  PROVE  Rest'
<1> USE DEF IInv, Serving, StartClient, kernel, server
<1>1. /\ cpc' = [cpc EXCEPT ![c] = "menu"] /\ cpc[c] = "off"
      /\ cur' = cur /\ adj' = adj /\ semid = cur
      /\ adj[c][0] = 0 /\ adj[c][1] = 0
  BY DEF ServerInv, Running, NoAdj, SemNums
<1>2. /\ csem'[c] = cur /\ cshm'[c] = epoch /\ cpc'[c] = "menu"
      /\ \A d \in Clients \ {c} : csem'[d] = csem[d] /\ cshm'[d] = cshm[d] /\ cpc'[d] = cpc[d]
  BY <1>1 DEF TypeOK
<1>3. ServerInv' BY <1>1, <1>2 DEF ServerInv, Running
<1>4. SegmentInv' BY <1>1, <1>2 DEF SegmentInv, Running, User, TypeOK
<1>5. SetUpInv' BY DEF SetUpInv
<1>6. LedgerInv' BY <1>1, <1>2 DEF LedgerInv, Running, User, Inside
<1>7. \A d \in Clients : HasSlot(d)' = HasSlot(d)
  BY <1>1, <1>2 DEF HasSlot, Inside
<1>8. TokenInv' BY <1>7 DEF TokenInv, TokenConserved, SlotExclusion, ServerHasSlot
<1>9. ContentInv' BY <1>2, <1>7 DEF ContentInv
<1>10. QED BY <1>3, <1>4, <1>5, <1>6, <1>8, <1>9 DEF Rest

LEMMA ChooseSendInv ==
  ASSUME IInv, NEW c \in Clients, ChooseSend(c)
  PROVE  Rest'
<1> USE DEF IInv, Serving, ChooseSend, kernel, server
<1>1. /\ cpc[c] = "menu" /\ cpc'[c] = "lock"
      /\ \A d \in Clients \ {c} : cpc'[d] = cpc[d]
  BY DEF TypeOK
<1>2. \A d \in Clients : /\ User(d)' = User(d) /\ Running(d)' = Running(d)
                         /\ HasSlot(d)' = HasSlot(d)
                         /\ (cpc'[d] \in Inside) = (cpc[d] \in Inside)
  BY <1>1 DEF User, Running, HasSlot, Inside
<1>3. ServerInv' /\ SegmentInv'
  BY <1>2 DEF ServerInv, SegmentInv
<1>4. SetUpInv' BY <1>2 DEF SetUpInv
<1>5. LedgerInv' BY <1>2 DEF LedgerInv
<1>6. TokenInv' BY <1>2 DEF TokenInv, TokenConserved, SlotExclusion, ServerHasSlot
<1>7. ContentInv' BY <1>1, <1>2 DEF ContentInv
<1>8. QED BY <1>3, <1>4, <1>5, <1>6, <1>7 DEF Rest

LEMMA ClientEnterInv ==
  ASSUME IInv, NEW c \in Clients, ClientEnter(c)
  PROVE  Rest'
<1> USE DEF IInv, Serving, ClientEnter, kernel, server
<1>1. /\ cpc[c] = "enter" /\ cpc'[c] = "post"
      /\ \A d \in Clients \ {c} : cpc'[d] = cpc[d]
  BY DEF TypeOK
<1>2. \A d \in Clients : /\ User(d)' = User(d) /\ Running(d)' = Running(d)
                         /\ HasSlot(d)' = HasSlot(d)
                         /\ (cpc'[d] \in Inside) = (cpc[d] \in Inside)
  BY <1>1 DEF User, Running, HasSlot, Inside
<1>3. ServerInv' /\ SegmentInv'
  BY <1>2 DEF ServerInv, SegmentInv
<1>4. SetUpInv' BY <1>2 DEF SetUpInv
<1>5. LedgerInv' BY <1>2 DEF LedgerInv
<1>6. TokenInv' BY <1>2 DEF TokenInv, TokenConserved, SlotExclusion, ServerHasSlot
<1>7. ContentInv'
  <2>1. SUFFICES ASSUME intact, \/ sem[1] = 1 \/ spc = "print"
                                \/ \E d \in Clients : HasSlot(d)' /\ cpc'[d] = "post"
                 PROVE  shmdata' \in Msg
    BY DEF ContentInv
  <2>2. CASE cshm[c] = epoch BY <2>2
  <2>3. CASE cshm[c] # epoch
    <3>1. ~User(c)
      BY <2>1, <2>3 DEF SegmentInv, ServerInv
    <3>2. ~HasSlot(c)' BY <1>2, <3>1 DEF User, Running, HasSlot, Inside
    <3>3. shmdata \in Msg BY <1>1, <1>2, <2>1, <3>2 DEF ContentInv
    <3>4. QED BY <2>3, <3>3
  <2>4. QED BY <2>2, <2>3
<1>8. QED BY <1>3, <1>4, <1>5, <1>6, <1>7 DEF Rest

LEMMA GoneInv ==
  ASSUME IInv, NEW c \in Clients, Gone(c), Running(c)
  PROVE  Rest'
<1> USE DEF IInv, Serving, Gone, server
<1>1. /\ cpc'[c] = "off" /\ csem'[c] = 0 /\ cshm'[c] = 0 /\ cur' = cur
      /\ \A d \in Clients \ {c} : csem'[d] = csem[d] /\ cshm'[d] = cshm[d] /\ cpc'[d] = cpc[d]
  BY DEF TypeOK, ExitUndo
<1>2. /\ adj'[c] = NoAdj /\ NoAdj[0] = 0 /\ NoAdj[1] = 0
      /\ \A d \in Clients \ {c} : adj'[d] = adj[d]
  BY DEF ExitUndo, TypeOK, KernelTypeOK, Procs, NoAdj, SemNums
<1>3. \A d \in Clients \ {c} : /\ User(d)' = User(d) /\ Running(d)' = Running(d)
                               /\ HasSlot(d)' = HasSlot(d)
  BY <1>1 DEF User, Running, HasSlot, Inside
<1>4. ~Running(c)' /\ ~User(c)' /\ ~HasSlot(c)'
  BY <1>1 DEF User, Running, HasSlot, Inside
<1>5. /\ ~User(c) => sem' = sem
      /\ User(c) => /\ sem'[0] = Clamp(sem[0] + adj[c][0])
                    /\ sem'[1] = Clamp(sem[1] + adj[c][1])
  BY DEF ExitUndo, User, SemNums
<1>6. /\ adj[c][0] \in Int /\ adj[c][1] \in Int
      /\ sem[0] \in 0 .. SEMVMX /\ sem[1] \in 0 .. SEMVMX
      /\ \A v \in 0 .. SEMVMX : Clamp(v) = v
  BY SemLimits DEF TypeOK, KernelTypeOK, Procs, SemNums, Clamp
<1>7. ServerInv' BY <1>1, <1>2, <1>3, <1>4 DEF ServerInv
<1>8. intact' /\ User(c) => /\ adj[c][1] = 0 /\ sem'[1] = sem[1]
                            /\ adj[c][0] = IF HasSlot(c) THEN 1 ELSE 0
  <2>1. SUFFICES ASSUME intact', User(c)
                 PROVE  /\ adj[c][1] = 0 /\ sem'[1] = sem[1]
                        /\ adj[c][0] = IF HasSlot(c) THEN 1 ELSE 0
    OBVIOUS
  <2>2. intact /\ adj[c][1] = 0 BY <2>1 DEF User
  <2>3. adj[c][0] + adj[c][1] = IF HasSlot(c) THEN 1 ELSE 0
    BY <2>1, <2>2 DEF LedgerInv, User, HasSlot
  <2>4. QED BY <1>5, <1>6, <2>1, <2>2, <2>3
<1>9. intact' => \/ sem' = sem /\ ~HasSlot(c)
                 \/ sem'[0] = sem[0] /\ sem'[1] = sem[1] /\ ~HasSlot(c)
                 \/ sem[0] = 0 /\ sem[1] = 0 /\ sem'[0] = 1 /\ sem'[1] = 0 /\ HasSlot(c)
  <2>1. CASE User(c) /\ HasSlot(c)
    <3>1. intact' => sem[0] = 0 /\ sem[1] = 0
      <4>1. intact' => sem[0] + sem[1] = 0
        BY <2>1 DEF TokenInv, TokenConserved
      <4>2. QED BY <1>6, <4>1
    <3>2. QED BY <1>5, <1>6, <1>8, <2>1, <3>1, SemLimits
  <2>2. CASE User(c) /\ ~HasSlot(c)
    BY <1>5, <1>6, <1>8, <2>2
  <2>3. CASE ~User(c)
    BY <1>5, <2>3 DEF HasSlot, User, Running, Inside
  <2>4. QED BY <2>1, <2>2, <2>3
<1>10. SegmentInv'
  <2>1. \A d \in Clients : cshm'[d] <= epoch'
    BY <1>1 DEF SegmentInv, TypeOK
  <2>2. intact /\ spc = "shm" => sem' = sem
    BY <1>5 DEF SegmentInv
  <2>3. QED BY <1>1, <1>3, <1>4, <2>1, <2>2 DEF SegmentInv
<1>11. SetUpInv'
  <2>1. SUFFICES ASSUME spc = "setb" PROVE SetUpInv'
    BY DEF SetUpInv
  <2>2. CASE sem[0] = 1 /\ \A d \in Clients : adj[d][0] = 0
    <3>1. sem'[0] = 1 BY <1>5, <1>6, <2>2
    <3>2. \A d \in Clients : adj'[d][0] = 0 BY <1>2, <2>2
    <3>3. QED BY <3>1, <3>2 DEF SetUpInv
  <2>3. ASSUME sem[0] = 0,
               NEW d \in Clients, User(d), adj[d][0] = 1, \A e \in Clients \ {d} : adj[e][0] = 0
        PROVE  SetUpInv'
    <3>1. CASE c = d
      <4>1. sem'[0] = 1 BY <1>5, <1>6, <2>3, <3>1, SemLimits
      <4>2. \A e \in Clients : adj'[e][0] = 0 BY <1>2, <2>3, <3>1
      <4>3. QED BY <4>1, <4>2 DEF SetUpInv
    <3>2. CASE c # d
      <4>1. sem'[0] = 0 BY <1>5, <1>6, <2>3, <3>2
      <4>2. User(d)' /\ adj'[d][0] = 1 /\ \A e \in Clients \ {d} : adj'[e][0] = 0
        BY <1>2, <1>3, <2>3, <3>2
      <4>3. QED BY <4>1, <4>2 DEF SetUpInv
    <3>3. QED BY <3>1, <3>2
  <2>4. QED BY <2>1, <2>2, <2>3 DEF SetUpInv
<1>12. LedgerInv' BY <1>1, <1>2, <1>3, <1>4 DEF LedgerInv
<1>13. TokenInv'
  <2>1. SUFFICES ASSUME intact' PROVE TokenInv'
    BY DEF TokenInv, TokenConserved, SlotExclusion
  <2>2. SlotExclusion'
    BY <1>3, <1>4, <2>1 DEF TokenInv, SlotExclusion, ServerHasSlot
  <2>3. CASE HasSlot(c)
    <3>1. sem'[0] = 1 /\ sem'[1] = 0 BY <1>9, <2>1, <2>3
    <3>2. ~ServerHasSlot' /\ \A d \in Clients : ~HasSlot(d)'
      BY <1>3, <1>4, <2>1, <2>3 DEF TokenInv, SlotExclusion, ServerHasSlot
    <3>3. QED BY <2>2, <3>1, <3>2 DEF TokenInv, TokenConserved
  <2>4. CASE ~HasSlot(c)
    <3>1. sem'[0] = sem[0] /\ sem'[1] = sem[1] BY <1>9, <2>1, <2>4
    <3>2. \A d \in Clients : HasSlot(d)' <=> HasSlot(d) BY <1>3, <1>4, <2>4
    <3>3. QED BY <2>1, <2>2, <3>1, <3>2 DEF TokenInv, TokenConserved, ServerHasSlot
  <2>5. QED BY <2>3, <2>4
<1>14. ContentInv'
  <2>1. intact' /\ sem'[1] = 1 => sem[1] = 1 BY <1>9
  <2>2. QED BY <1>1, <1>3, <1>4, <2>1 DEF ContentInv
<1>15. QED BY <1>7, <1>10, <1>11, <1>12, <1>13, <1>14 DEF Rest

LEMMA ClientLockInv ==
  ASSUME IInv, NEW c \in Clients, ClientLock(c)
  PROVE  Rest'
<1> USE DEF IInv, Serving, server
<1>1. /\ c \in Procs /\ c # Server /\ 0 \in SemNums /\ KernelTypeOK
      /\ \A d \in Clients : d \in Procs
  BY ServerIsNoClient DEF Procs, SemNums, TypeOK
<1>2. /\ cpc[c] = "lock" /\ cpc'[c] = "enter"
      /\ \A d \in Clients \ {c} : cpc'[d] = cpc[d]
  BY DEF ClientLock, TypeOK
<1>3. /\ cur' = cur /\ (intact' => intact)
      /\ \A d \in Clients \ {c} : adj'[d] = adj[d]
  BY <1>1, SemopFrame DEF ClientLock
<1>4. \A d \in Clients : User(d)' = User(d) /\ Running(d)' = Running(d)
  BY <1>2, <1>3 DEF ClientLock, User, Running
<1>5. /\ HasSlot(c)' <=> User(c)
      /\ ~HasSlot(c)
      /\ \A d \in Clients \ {c} : HasSlot(d)' = HasSlot(d)
  BY <1>2, <1>3 DEF ClientLock, HasSlot, User, Running, Inside
<1>6. ~User(c) => /\ sem' = sem /\ adj' = adj /\ intact' = intact
  BY <1>2 DEF ClientLock, Semop, SemopDone, SemopOutOfRange, SemopRemoved, Removed, User, Running
<1>7. intact' /\ User(c) => /\ sem[0] = 1 /\ sem[1] = 0 /\ sem'[0] = 0 /\ sem'[1] = 0
                            /\ adj'[c][0] = adj[c][0] + 1 /\ adj'[c][1] = adj[c][1]
  <2>1. SUFFICES ASSUME intact', User(c)
                 PROVE  /\ sem[0] = 1 /\ sem[1] = 0 /\ sem'[0] = 0 /\ sem'[1] = 0
                        /\ adj'[c][0] = adj[c][0] + 1 /\ adj'[c][1] = adj[c][1]
    OBVIOUS
  <2>2. Semop(c, cur, 0, -1) BY <2>1 DEF ClientLock, User
  <2>3. /\ sem[0] - 1 >= 0 /\ sem' = [sem EXCEPT ![0] = @ - 1]
        /\ adj' = [adj EXCEPT ![c][0] = @ + 1]
    BY <1>1, <2>1, <2>2, SemopIntact DEF KernelTypeOK, SemNums
  <2>4. sem[0] = 1 /\ sem[1] = 0
    BY <1>3, <2>1, <2>3 DEF TokenInv, TokenConserved, KernelTypeOK, SemNums, TypeOK
  <2>5. QED BY <1>1, <2>3, <2>4 DEF KernelTypeOK, SemNums
<1>8. ServerInv'
  BY <1>2, <1>3, <1>4 DEF ClientLock, ServerInv, Running
<1>9. SegmentInv'
  <2>1. intact' /\ spc = "shm" => sem' = sem
    BY <1>3, <1>6 DEF SegmentInv
  <2>2. QED BY <1>3, <1>4, <2>1 DEF ClientLock, SegmentInv
<1>10. SetUpInv'
  <2>1. SUFFICES ASSUME spc = "setb" PROVE SetUpInv'
    BY DEF SetUpInv, ClientLock
  <2>2. CASE ~User(c) BY <1>4, <1>6, <2>1, <2>2 DEF SetUpInv
  <2>3. CASE User(c)
    <3>1. Semop(c, cur, 0, -1) BY <2>3 DEF ClientLock, User
    <3>2. CASE sem' = sem /\ adj' = adj
      BY <1>4, <2>1, <3>2 DEF SetUpInv
    <3>3. CASE /\ sem[0] + -1 >= 0
               /\ sem' = [sem EXCEPT ![0] = @ + -1]
               /\ adj' = [adj EXCEPT ![c][0] = @ - -1]
      <4>1. sem[0] = 1 /\ \A d \in Clients : adj[d][0] = 0
        BY <2>1, <3>3 DEF SetUpInv
      <4>2. sem'[0] = 0 /\ adj'[c][0] = 1
        BY <1>1, <3>3, <4>1 DEF KernelTypeOK, SemNums
      <4>3. \A d \in Clients \ {c} : adj'[d][0] = 0
        BY <1>3, <4>1
      <4>4. User(c)' BY <1>4, <2>3
      <4>5. QED BY <4>2, <4>3, <4>4 DEF SetUpInv
    <3>4. QED
      BY <3>1, <3>2, <3>3 DEF Semop, SemopDone, SemopOutOfRange, SemopRemoved, Passes
  <2>4. QED BY <2>2, <2>3
<1>11. LedgerInv'
  <2>1. SUFFICES ASSUME intact', NEW d \in Clients, User(d)'
                 PROVE  adj'[d][0] + adj'[d][1] = IF cpc'[d] \in Inside THEN 1 ELSE 0
    BY DEF LedgerInv
  <2>2. User(d) /\ intact BY <1>3, <1>4, <2>1
  <2>3. CASE d = c
    <3>1. adj[c][0] + adj[c][1] = 0
      BY <1>2, <2>2, <2>3 DEF LedgerInv, Inside
    <3>2. adj[c][0] \in Int /\ adj[c][1] \in Int
      BY <1>1, SemLimits DEF KernelTypeOK, SemNums
    <3>3. QED BY <1>2, <1>7, <2>1, <2>2, <2>3, <3>1, <3>2 DEF Inside
  <2>4. CASE d # c BY <1>2, <1>3, <2>2, <2>4 DEF LedgerInv
  <2>5. QED BY <2>3, <2>4
<1>12. TokenInv'
  <2>1. SUFFICES ASSUME intact' PROVE TokenInv'
    BY DEF TokenInv, TokenConserved, SlotExclusion
  <2>2. CASE ~User(c)
    <3>1. \A d \in Clients : HasSlot(d)' <=> HasSlot(d) BY <1>5, <2>2
    <3>2. QED
      BY <1>6, <2>1, <2>2, <3>1 DEF ClientLock, TokenInv, TokenConserved, SlotExclusion, ServerHasSlot
  <2>3. CASE User(c)
    <3>1. ~ServerHasSlot /\ \A d \in Clients : ~HasSlot(d)
      BY <1>3, <1>7, <2>1, <2>3 DEF TokenInv, TokenConserved
    <3>2. ~ServerHasSlot' /\ HasSlot(c)' /\ \A d \in Clients \ {c} : ~HasSlot(d)'
      BY <1>5, <2>3, <3>1 DEF ClientLock, ServerHasSlot
    <3>3. QED BY <1>7, <2>1, <2>3, <3>2 DEF TokenInv, TokenConserved, SlotExclusion
  <2>4. QED BY <2>2, <2>3
<1>13. ContentInv'
  <2>1. intact' /\ sem'[1] = 1 => sem[1] = 1 BY <1>6, <1>7
  <2>2. QED BY <1>2, <1>3, <1>5, <2>1 DEF ClientLock, ContentInv
<1>14. QED BY <1>8, <1>9, <1>10, <1>11, <1>12, <1>13 DEF Rest

LEMMA ClientPostInv ==
  ASSUME IInv, NEW c \in Clients, ClientPost(c)
  PROVE  Rest'
<1> USE DEF IInv, Serving, server
<1>1. /\ c \in Procs /\ c # Server /\ 1 \in SemNums /\ KernelTypeOK
      /\ \A d \in Clients : d \in Procs
  BY ServerIsNoClient DEF Procs, SemNums, TypeOK
<1>2. /\ cpc[c] = "post" /\ cpc'[c] = "menu"
      /\ \A d \in Clients \ {c} : cpc'[d] = cpc[d]
  BY DEF ClientPost, TypeOK
<1>3. /\ cur' = cur /\ (intact' => intact)
      /\ \A d \in Clients \ {c} : adj'[d] = adj[d]
  BY <1>1, SemopFrame DEF ClientPost
<1>4. \A d \in Clients : User(d)' = User(d) /\ Running(d)' = Running(d)
  BY <1>2, <1>3 DEF ClientPost, User, Running
<1>5. /\ HasSlot(c) <=> User(c)
      /\ ~HasSlot(c)'
      /\ \A d \in Clients \ {c} : HasSlot(d)' = HasSlot(d)
  BY <1>2, <1>3 DEF ClientPost, HasSlot, User, Running, Inside
<1>6. ~User(c) => /\ sem' = sem /\ adj' = adj /\ intact' = intact
  BY <1>2 DEF ClientPost, Semop, SemopDone, SemopOutOfRange, SemopRemoved, Removed, User, Running
<1>7. intact' /\ User(c) => /\ sem[0] = 0 /\ sem[1] = 0 /\ sem'[0] = 0 /\ sem'[1] = 1
                            /\ adj'[c][0] = adj[c][0] /\ adj'[c][1] = adj[c][1] - 1
  <2>1. SUFFICES ASSUME intact', User(c)
                 PROVE  /\ sem[0] = 0 /\ sem[1] = 0 /\ sem'[0] = 0 /\ sem'[1] = 1
                        /\ adj'[c][0] = adj[c][0] /\ adj'[c][1] = adj[c][1] - 1
    OBVIOUS
  <2>2. Semop(c, cur, 1, 1) BY <2>1 DEF ClientPost, User
  <2>3. /\ sem' = [sem EXCEPT ![1] = @ + 1]
        /\ adj' = [adj EXCEPT ![c][1] = @ - 1]
    BY <1>1, <2>1, <2>2, SemopIntact DEF KernelTypeOK, SemNums
  <2>4. sem[0] + sem[1] = 0
    BY <1>3, <1>5, <2>1 DEF TokenInv, TokenConserved
  <2>5. sem[0] = 0 /\ sem[1] = 0
    BY <2>4 DEF KernelTypeOK, SemNums, TypeOK
  <2>6. QED BY <1>1, <2>3, <2>5 DEF KernelTypeOK, SemNums
<1>8. ServerInv'
  BY <1>2, <1>3, <1>4 DEF ClientPost, ServerInv, Running
<1>9. SegmentInv'
  <2>1. intact' /\ spc = "shm" => sem' = sem
    BY <1>3, <1>6 DEF SegmentInv
  <2>2. QED BY <1>3, <1>4, <2>1 DEF ClientPost, SegmentInv
<1>10. SetUpInv'
  <2>1. sem'[0] = sem[0] /\ \A d \in Clients : adj'[d][0] = adj[d][0]
    BY <1>1 DEF ClientPost, Semop, SemopDone, SemopOutOfRange, SemopRemoved, KernelTypeOK, SemNums
  <2>2. QED BY <1>4, <2>1 DEF ClientPost, SetUpInv
<1>11. LedgerInv'
  <2>1. SUFFICES ASSUME intact', NEW d \in Clients, User(d)'
                 PROVE  adj'[d][0] + adj'[d][1] = IF cpc'[d] \in Inside THEN 1 ELSE 0
    BY DEF LedgerInv
  <2>2. User(d) /\ intact BY <1>3, <1>4, <2>1
  <2>3. CASE d = c
    <3>1. adj[c][0] + adj[c][1] = 1
      BY <1>2, <2>2, <2>3 DEF LedgerInv, Inside
    <3>2. adj[c][0] \in Int /\ adj[c][1] \in Int
      BY <1>1, SemLimits DEF KernelTypeOK, SemNums
    <3>3. QED BY <1>2, <1>7, <2>1, <2>2, <2>3, <3>1, <3>2 DEF Inside
  <2>4. CASE d # c BY <1>2, <1>3, <2>2, <2>4 DEF LedgerInv
  <2>5. QED BY <2>3, <2>4
<1>12. TokenInv'
  <2>1. SUFFICES ASSUME intact' PROVE TokenInv'
    BY DEF TokenInv, TokenConserved, SlotExclusion
  <2>2. CASE ~User(c)
    <3>1. \A d \in Clients : HasSlot(d)' <=> HasSlot(d) BY <1>5, <2>2
    <3>2. QED
      BY <1>6, <2>1, <2>2, <3>1 DEF ClientPost, TokenInv, TokenConserved, SlotExclusion, ServerHasSlot
  <2>3. CASE User(c)
    <3>1. ~ServerHasSlot' /\ \A d \in Clients : ~HasSlot(d)'
      BY <1>3, <1>5, <2>1, <2>3 DEF ClientPost, TokenInv, SlotExclusion, ServerHasSlot
    <3>2. QED BY <1>7, <2>1, <2>3, <3>1 DEF TokenInv, TokenConserved, SlotExclusion
  <2>4. QED BY <2>2, <2>3
<1>13. ContentInv'
  <2>1. SUFFICES ASSUME intact', \/ sem'[1] = 1 \/ spc' = "print"
                                 \/ \E d \in Clients : HasSlot(d)' /\ cpc'[d] = "post"
                 PROVE  shmdata' \in Msg
    BY DEF ContentInv
  <2>2. CASE User(c)
    BY <1>2, <1>3, <1>5, <2>1, <2>2 DEF ClientPost, ContentInv
  <2>3. CASE ~User(c)
    BY <1>2, <1>5, <1>6, <2>1, <2>3 DEF ClientPost, ContentInv
  <2>4. QED BY <2>2, <2>3
<1>14. QED BY <1>8, <1>9, <1>10, <1>11, <1>12, <1>13 DEF Rest

LEMMA ServerInterruptedInv == IInv /\ ServerInterrupted => Rest'
<1> SUFFICES ASSUME IInv, ServerInterrupted PROVE Rest'
  OBVIOUS
<1> USE DEF IInv, Serving, ServerInterrupted, SemopInterrupted, client
<1>1. ServerInv' /\ SegmentInv' BY DEF ServerInv, SegmentInv, Running
<1>2. QED
  BY <1>1 DEF Rest, SetUpInv, LedgerInv, TokenInv, TokenConserved, SlotExclusion, ContentInv

LEMMA ClientInterruptedInv ==
  ASSUME IInv, NEW c \in Clients, ClientInterrupted(c)
  PROVE  Rest'
<1> USE DEF IInv, Serving, ClientInterrupted, SemopInterrupted, server
<1>1. \A d \in Clients : User(d)' = User(d) /\ Running(d)' = Running(d)
  BY DEF User, Running, TypeOK
<1>2. ServerInv' /\ SegmentInv' BY <1>1 DEF ServerInv, SegmentInv
<1>3. SetUpInv' BY <1>1 DEF SetUpInv
<1>4. QED
  BY <1>2, <1>3 DEF Rest, LedgerInv, TokenInv, TokenConserved, SlotExclusion, ContentInv

LEMMA StepInv == IInv /\ [Next]_vars => IInv'
<1> SUFFICES ASSUME IInv, [Next]_vars PROVE IInv'
  OBVIOUS
<1>1. TypeOK' BY StepType DEF IInv
<1>2. ASSUME ServerStep PROVE Rest'
  BY <1>2, StartServerInv, SetEmptyInv, SetFullInv, MakeSegmentInv, ServerWaitInv, ServerPrintInv,
     ServerPostInv, ServerStopInv, ServerInterruptedInv
     DEF ServerStep, ServerLoop, Rest
<1>3. ASSUME NEW c \in Clients, ClientStep(c) PROVE Rest'
  <2>1. CASE ClientQuit(c) \/ ClientKilled(c)
    <3>1. Gone(c) /\ Running(c) BY <2>1 DEF ClientQuit, ClientKilled, Running
    <3>2. QED BY <3>1, GoneInv
  <2>2. QED
    BY <1>3, <2>1, StartClientInv, ChooseSendInv, ClientLockInv, ClientEnterInv, ClientPostInv,
       ClientInterruptedInv
       DEF ClientStep
<1>4. ASSUME UNCHANGED vars PROVE Rest'
  BY <1>4 DEF vars, kernel, server, client, Rest, IInv, ServerInv, SegmentInv, SetUpInv, LedgerInv, TokenInv,
     TokenConserved, SlotExclusion, ContentInv, Running, User, HasSlot, ServerHasSlot
<1>5. Rest' BY <1>2, <1>3, <1>4 DEF Next, Rest
<1>6. QED BY <1>1, <1>5 DEF IInv, Rest

LEMMA Inductive == Spec => []IInv
BY InitInv, StepInv, PTL DEF Spec

(* The two semaphores and the processes between their P and their V always *)
(* add up to one, as long as the channel is intact.                        *)
THEOREM TokenIsConserved == Spec => []TokenConserved
<1>1. IInv => TokenConserved BY DEF IInv, TokenInv
<1>2. QED BY <1>1, Inductive, PTL

(* At most one process is in the segment, as long as the channel is        *)
(* intact: the semaphores protect the line from its first character typed  *)
(* until it is printed.                                                    *)
THEOREM SlotIsExclusive == Spec => []SlotExclusion
<1>1. IInv => SlotExclusion BY DEF IInv, TokenInv
<1>2. QED BY <1>1, Inductive, PTL

------------------------------------------------------------------------------
(* Refinement: which step of the two programs is which step of the channel. *)

(* The channel's view, in which a step that changes none of the three is a *)
(* stutter.                                                                *)
View == <<intact, Writer, Box, out>>

LEMMA BoxContent == IInv /\ Box # Blank => Box \in Msg
BY DEF IInv, Box, ContentInv

LEMMA SemStays ==
  ASSUME IInv, IInv', intact, intact', sem'[1] = sem[1], shmdata' = shmdata, out' = out,
         spc # "print", spc' # "print", \A c \in Clients : HasSlot(c)' <=> HasSlot(c)
  PROVE  UNCHANGED View
BY DEF View, Box, Writer

LEMMA StepRefines == IInv /\ IInv' /\ [Next]_vars => [Channel!Next]_View
<1> SUFFICES ASSUME IInv, IInv', [Next]_vars PROVE [Channel!Next]_View
  OBVIOUS
<1> USE DEF Channel!Next
<1>a. intact \in BOOLEAN /\ intact' \in BOOLEAN /\ out' \in Msg \union {Blank}
  BY DEF IInv, TypeOK
<1>b. ~intact => Box = Blank /\ Writer = {}
  BY DEF Box, Writer
<1>c. ~intact' => Box' = Blank /\ Writer' = {}
  BY DEF Box, Writer
<1>1. CASE ~intact /\ ~intact'
  BY <1>1, <1>a, <1>b, <1>c DEF Channel!Lawless
<1>2. CASE intact /\ ~intact' /\ out' = out
  BY <1>2, <1>a, <1>c DEF Channel!Close
<1>3. CASE UNCHANGED vars
  BY <1>3 DEF View, Box, Writer, HasSlot, vars, kernel, server, client
<1>4. CASE StartServer \/ SetEmpty
  <2>1. ~intact /\ ~intact'
    BY <1>4 DEF IInv, ServerInv, StartServer, SetEmpty, Serving
  <2>2. QED BY <1>1, <2>1
<1>5. CASE SetFull
  <2>1. ~intact /\ out' = out
    BY <1>5 DEF IInv, ServerInv, SetFull, Serving
  <2>2. intact' => sem'[1] = 0 /\ spc' # "print"
    BY <1>5 DEF SetFull, IInv, SegmentInv
  <2>3. Box' = Blank BY <2>2 DEF Box
  <2>4. Writer' = {}
    <3>1. intact' => \A c \in Clients : ~HasSlot(c)'
      BY <1>5 DEF SetFull, IInv, SegmentInv, User, HasSlot, Running, Inside
    <3>2. QED BY <3>1 DEF Writer
  <2>5. QED BY <1>1, <1>a, <1>b, <2>1, <2>3, <2>4 DEF Channel!Open
<1>6. CASE MakeSegment
  <2>1. intact => sem[1] = 0 BY <1>6 DEF MakeSegment, IInv, SegmentInv
  <2>2. QED BY <1>6, <2>1 DEF MakeSegment, kernel, client, View, Box, Writer, HasSlot
<1>7. CASE ServerWait
  <2>1. CASE ~intact' BY <1>1, <1>2, <1>7, <1>a, <2>1 DEF ServerWait
  <2>2. CASE intact'
    <3>1. intact /\ semid = cur /\ Server \in Procs /\ 1 \in SemNums /\ KernelTypeOK
      BY <1>7, <2>2, SemopFrame DEF ServerWait, IInv, ServerInv, Procs, SemNums, TypeOK
    <3>2. sem[1] - 1 >= 0
      BY <1>7, <2>2, <3>1, SemopIntact DEF ServerWait
    <3>3. sem[1] = 1
      BY <3>1, <3>2 DEF IInv, TokenInv, TokenConserved, KernelTypeOK, SemNums
    <3>4. Box = shmdata /\ Box' = shmdata'
      BY <1>7, <2>2, <3>1, <3>3 DEF ServerWait, Box
    <3>5. Writer' = Writer
      BY <1>7, <2>2, <3>1, SemopFrame DEF ServerWait, client, Writer, HasSlot
    <3>6. QED BY <1>7, <1>a, <2>2, <3>1, <3>4, <3>5 DEF ServerWait, View
  <2>3. QED BY <1>a, <2>1, <2>2
<1>8. CASE ServerPrint
  <2>1. CASE intact
    <3>1. intact' /\ Box = shmdata BY <1>8, <2>1 DEF ServerPrint, Box
    <3>2. shmdata \in Msg
      BY <1>8, <2>1 DEF ServerPrint, IInv, ContentInv
    <3>3. sem'[1] # 1
      BY <1>8, <2>1 DEF ServerPrint, kernel, IInv, TokenInv, TokenConserved, ServerHasSlot, TypeOK, KernelTypeOK, SemNums
    <3>4. Box' = Blank BY <1>8, <3>3 DEF ServerPrint, Box
    <3>5. Writer = {} /\ Writer' = {}
      BY <1>8 DEF ServerPrint, kernel, client, IInv, TokenInv, SlotExclusion, ServerHasSlot, Writer, HasSlot
    <3>6. QED BY <1>8, <1>a, <2>1, <3>1, <3>2, <3>4, <3>5, BlankIsNoLine DEF ServerPrint, Channel!Take
  <2>2. QED BY <1>1, <1>8, <2>1 DEF ServerPrint
<1>9. CASE ServerPost
  <2>1. CASE ~intact' BY <1>1, <1>2, <1>9, <1>a, <2>1 DEF ServerPost
  <2>2. CASE intact'
    <3>1. intact /\ semid = cur /\ Server \in Procs /\ 0 \in SemNums /\ KernelTypeOK
      BY <1>9, <2>2, SemopFrame DEF ServerPost, IInv, ServerInv, Procs, SemNums, TypeOK
    <3>2. sem' = [sem EXCEPT ![0] = @ + 1]
      BY <1>9, <2>2, <3>1, SemopIntact DEF ServerPost
    <3>3. sem'[1] = sem[1] BY <3>1, <3>2 DEF KernelTypeOK, SemNums
    <3>4. \A c \in Clients : HasSlot(c)' <=> HasSlot(c)
      BY <1>9, <3>1, SemopFrame DEF ServerPost, client, HasSlot
    <3>5. QED BY <1>9, <2>2, <3>1, <3>3, <3>4, SemStays DEF ServerPost
  <2>3. QED BY <1>a, <2>1, <2>2
<1>10. CASE ServerSigint \/ ServerKilled
  BY <1>1, <1>2, <1>10, <1>a DEF ServerSigint, ServerKilled
<1>11. ASSUME NEW c \in Clients, StartClient(c) \/ ChooseSend(c) PROVE [Channel!Next]_View
  <2>1. \A d \in Clients : HasSlot(d)' <=> HasSlot(d)
    BY <1>11 DEF StartClient, ChooseSend, kernel, HasSlot, Inside, IInv, TypeOK
  <2>2. QED BY <1>11, <2>1 DEF StartClient, ChooseSend, kernel, server, View, Box, Writer
<1>12. ASSUME NEW c \in Clients, ClientLock(c) PROVE [Channel!Next]_View
  <2>1. CASE ~intact' BY <1>1, <1>2, <1>12, <1>a, <2>1 DEF ClientLock
  <2>2. CASE intact'
    <3>1. intact /\ c \in Procs /\ 0 \in SemNums /\ KernelTypeOK
      BY <1>12, <2>2, SemopFrame DEF ClientLock, IInv, Procs, SemNums, TypeOK
    <3>2. sem'[1] = sem[1]
      <4>1. sem' = sem \/ sem' = [sem EXCEPT ![0] = @ + -1]
        BY <1>12 DEF ClientLock, Semop, SemopDone, SemopOutOfRange, SemopRemoved
      <4>2. QED BY <3>1, <4>1 DEF KernelTypeOK, SemNums
    <3>3. Box' = Box /\ cur' = cur
      BY <1>12, <2>2, <3>1, <3>2, SemopFrame DEF ClientLock, server, Box
    <3>4. \A d \in Clients \ {c} : HasSlot(d)' <=> HasSlot(d)
      BY <1>12, <3>3 DEF ClientLock, HasSlot, IInv, TypeOK
    <3>5. ~HasSlot(c) /\ (HasSlot(c)' <=> csem[c] = cur)
      BY <1>12, <3>3 DEF ClientLock, HasSlot, Inside, IInv, TypeOK
    <3>6. CASE csem[c] # cur
      <4>1. Writer' = Writer BY <2>2, <3>1, <3>4, <3>5, <3>6 DEF Writer
      <4>2. QED BY <1>12, <2>2, <3>1, <3>3, <4>1 DEF ClientLock, View
    <3>7. CASE csem[c] = cur
      <4>1. sem[0] - 1 >= 0
        BY <1>12, <2>2, <3>1, <3>7, SemopIntact DEF ClientLock
      <4>2. sem[1] # 1 /\ ~ServerHasSlot /\ \A d \in Clients : ~HasSlot(d)
        BY <3>1, <4>1 DEF IInv, TokenInv, TokenConserved, KernelTypeOK, SemNums
      <4>3. Box = Blank /\ Writer = {}
        BY <4>2 DEF Box, Writer, ServerHasSlot
      <4>4. Writer' = {c}
        BY <2>2, <3>4, <3>5, <3>7, <4>2 DEF Writer
      <4>5. QED BY <1>12, <2>2, <3>1, <3>3, <4>3, <4>4 DEF ClientLock, Channel!Enter
    <3>8. QED BY <3>6, <3>7
  <2>3. QED BY <1>a, <2>1, <2>2
<1>13. ASSUME NEW c \in Clients, ClientEnter(c) PROVE [Channel!Next]_View
  <2>1. CASE ~intact BY <1>1, <1>13, <2>1 DEF ClientEnter
  <2>a. Writer' = Writer
    BY <1>13 DEF ClientEnter, kernel, Writer, HasSlot, Inside, IInv, TypeOK
  <2>2. CASE shmdata' = shmdata
    BY <1>13, <2>2, <2>a DEF ClientEnter, kernel, server, View, Box
  <2>3. CASE intact /\ cshm[c] = epoch
    <3>1. CASE spc = "shm"
      <4>1. sem[1] # 1 BY <2>3, <3>1 DEF IInv, SegmentInv
      <4>2. QED BY <1>13, <2>a, <3>1, <4>1 DEF ClientEnter, kernel, server, View, Box
    <3>2. CASE spc \in Serving
      <4>1. HasSlot(c)
        BY <1>13, <2>3, <3>2 DEF ClientEnter, HasSlot, Inside, IInv, SegmentInv, Running
      <4>2. sem[1] # 1 /\ spc # "print"
        BY <2>3, <4>1 DEF IInv, TokenInv, TokenConserved, SlotExclusion, ServerHasSlot, TypeOK, KernelTypeOK, SemNums
      <4>3. QED BY <1>13, <2>a, <4>2 DEF ClientEnter, kernel, server, View, Box
    <3>3. QED BY <2>3, <3>1, <3>2 DEF IInv, ServerInv
  <2>4. QED BY <1>13, <2>1, <2>2, <2>3 DEF ClientEnter
<1>14. ASSUME NEW c \in Clients, ClientPost(c) PROVE [Channel!Next]_View
  <2>a. /\ cur' = cur /\ ~HasSlot(c)'
        /\ \A d \in Clients \ {c} : HasSlot(d)' <=> HasSlot(d)
    BY <1>14 DEF ClientPost, Semop, SemopDone, SemopOutOfRange, SemopRemoved, HasSlot, Inside, IInv, TypeOK
  <2>1. CASE ~intact' BY <1>1, <1>2, <1>14, <1>a, <2>1 DEF ClientPost
  <2>2. CASE intact' /\ csem[c] # cur
    <3>1. sem' = sem /\ intact
      BY <1>14, <2>2 DEF ClientPost, Semop, SemopDone, SemopOutOfRange, SemopRemoved, Removed
    <3>2. Writer' = Writer
      BY <1>14, <2>2, <3>1, <2>a DEF Writer, HasSlot
    <3>3. QED BY <1>14, <2>2, <3>1, <3>2 DEF ClientPost, server, View, Box
  <2>3. CASE intact' /\ csem[c] = cur
    <3>1. intact /\ c \in Procs /\ 1 \in SemNums /\ KernelTypeOK /\ HasSlot(c)
      BY <1>14, <2>3, SemopFrame DEF ClientPost, HasSlot, Inside, IInv, Procs, SemNums, TypeOK
    <3>2. sem' = [sem EXCEPT ![1] = @ + 1]
      BY <1>14, <2>3, <3>1, SemopIntact DEF ClientPost
    <3>3. sem[1] = 0 /\ spc # "print"
      BY <3>1 DEF IInv, TokenInv, TokenConserved, SlotExclusion, ServerHasSlot, KernelTypeOK, SemNums
    <3>4. sem'[1] = 1 BY <3>1, <3>2, <3>3 DEF KernelTypeOK, SemNums
    <3>5. shmdata \in Msg
      BY <1>14, <3>1 DEF ClientPost, IInv, ContentInv
    <3>6. Box = Blank /\ Box' = shmdata
      BY <1>14, <2>3, <3>3, <3>4 DEF ClientPost, Box
    <3>7. Writer = {c} /\ Writer' = {}
      BY <2>3, <2>a, <3>1 DEF IInv, TokenInv, SlotExclusion, Writer
    <3>8. QED BY <1>14, <2>3, <3>1, <3>5, <3>6, <3>7 DEF ClientPost, Channel!Put
  <2>4. QED BY <1>a, <2>1, <2>2, <2>3
<1>15. ASSUME NEW c \in Clients, Gone(c), Running(c) PROVE [Channel!Next]_View
  <2>1. CASE ~intact' BY <1>1, <1>2, <1>15, <1>a, <2>1 DEF Gone
  <2>2. CASE intact'
    <3>1. intact /\ (csem[c] = cur => adj[c][1] = 0)
      BY <1>15, <2>2 DEF Gone
    <3>2. sem[1] \in 0 .. SEMVMX /\ Clamp(sem[1] + 0) = sem[1]
      BY SemLimits DEF IInv, TypeOK, KernelTypeOK, SemNums, Clamp
    <3>3. sem'[1] = sem[1]
      BY <1>15, <3>1, <3>2 DEF Gone, ExitUndo, SemNums
    <3>4. Box' = Box BY <1>15, <2>2, <3>1, <3>3 DEF Gone, server, Box
    <3>5. /\ ~HasSlot(c)'
          /\ \A d \in Clients \ {c} : HasSlot(d)' <=> HasSlot(d)
      BY <1>15 DEF Gone, ExitUndo, HasSlot, Inside, IInv, TypeOK
    <3>6. CASE HasSlot(c)
      <4>1. Writer = {c} /\ Writer' = {}
        BY <2>2, <3>1, <3>5, <3>6 DEF IInv, TokenInv, SlotExclusion, Writer
      <4>2. QED BY <1>15, <2>2, <3>1, <3>4, <4>1 DEF Gone, Channel!Abandon
    <3>7. CASE ~HasSlot(c)
      <4>1. Writer' = Writer BY <2>2, <3>1, <3>5, <3>7 DEF Writer
      <4>2. QED BY <1>15, <2>2, <3>1, <3>4, <4>1 DEF Gone, View
    <3>8. QED BY <3>6, <3>7
  <2>3. QED BY <1>a, <2>1, <2>2
<1>16. CASE ServerInterrupted
  BY <1>1, <1>2, <1>16, <1>a DEF ServerInterrupted
<1>17. ASSUME NEW c \in Clients, ClientInterrupted(c) PROVE [Channel!Next]_View
  BY <1>1, <1>2, <1>17, <1>a DEF ClientInterrupted
<1>18. QED
  BY <1>3, <1>4, <1>5, <1>6, <1>7, <1>8, <1>9, <1>10, <1>11, <1>12, <1>13, <1>14, <1>15, <1>16, <1>17
     DEF Next, ServerStep, ServerLoop, ClientStep, ClientQuit, ClientKilled, Running

(* Every behaviour of the two programs is one of the one-slot channel: a   *)
(* line that was posted is printed once and before the next is posted, for *)
(* as long as the channel is intact.                                       *)
THEOREM IsChannel == Spec => IsOneSlotChannel
<1>1. Init => Channel!Init
  BY DEF Init, Channel!Init, Box, Writer
<1>2. IInv /\ IInv' /\ [Next]_vars => [Channel!Next]_View
  BY StepRefines
<1>3. QED BY <1>1, <1>2, Inductive, PTL DEF Spec, IsOneSlotChannel, Channel!Spec, View
==============================================================================
