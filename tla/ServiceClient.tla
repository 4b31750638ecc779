---------------------------- MODULE ServiceClient ----------------------------
(***************************************************************************)
(* src/linux/semaphore/service_client.c: one server, started and stopped   *)
(* any number of times, and clients that hand it lines of text through one *)
(* shared memory segment.  Semaphore 0 says "the segment is free",         *)
(* semaphore 1 "the segment holds a line"; every semop carries SEM_UNDO    *)
(* and no result is looked at.                                             *)
(***************************************************************************)
EXTENDS Integers

CONSTANTS
  Clients,   (* the client processes                                       *)
  Server,    (* the server process                                         *)
  Msg,       (* the lines a user may type                                  *)
  Blank,     (* what a fresh segment holds                                 *)
  SEMVMX, SEMAEM,
  MaxStarts, (* bound: how often the server creates a segment              *)
  MaxSets    (* bound: how often it creates a semaphore set                *)

ASSUME ServerIsNoClient == Server \notin Clients
ASSUME BlankIsNoLine == Blank \notin Msg
ASSUME SemLimits == SEMVMX \in Nat \ {0} /\ SEMAEM \in Nat \ {0}
ASSUME StartsBound == MaxStarts \in Nat /\ MaxSets \in Nat

VARIABLES
  cur, sem, adj,   (* the kernel's semaphore set, see SysVSem              *)
  nset,            (* semaphore sets created so far                        *)
  spc,             (* where the server is                                  *)
  semid,           (* the server's semid, which is also its g_semid        *)
  epoch,           (* shared memory segments created so far                *)
  shmdata,         (* the content of the newest segment                    *)
  cpc,             (* where each client is                                 *)
  csem, cshm,      (* the semid and shmid each client was started with     *)
  out,             (* the last line the server printed                     *)
  intact           (* history: see Intact below                            *)

kernel == <<cur, sem, adj>>
server == <<nset, spc, semid, epoch>>
client == <<cpc, csem, cshm>>
vars == <<kernel, server, client, shmdata, out, intact>>

Procs == Clients \union {Server}

INSTANCE SysVSem

Serving == {"wait", "print", "post"}
ServerPcs == {"down", "seta", "setb", "shm"} \union Serving
Inside == {"enter", "post"}
ClientPcs == {"off", "menu", "lock"} \union Inside

(* The clients that run and use set s. *)
UsersOf(s) == {c \in Clients : cpc[c] # "off" /\ csem[c] = s}

------------------------------------------------------------------------------
(* The server *)

(* mutant: semget with IPC_EXCL, its -1 used as the semid *)
StartServerExcl ==
  /\ spc = "down" /\ epoch < MaxStarts /\ (cur = 0 => nset < MaxSets)
  /\ spc' = "seta"
  /\ IF cur = 0
     THEN /\ nset' = nset + 1 /\ cur' = nset + 1
          /\ sem' = [k \in SemNums |-> 0]
          /\ semid' = cur'
     ELSE UNCHANGED <<nset, cur, sem>> /\ semid' = -1
  /\ UNCHANGED <<adj, epoch, shmdata, client, out, intact>>

(* semget(IPC_CREAT): the set a killed server left, or a new one. *)
StartServer ==
  /\ spc = "down" /\ epoch < MaxStarts /\ (cur = 0 => nset < MaxSets)
  /\ spc' = "seta"
  /\ IF cur = 0
     THEN /\ nset' = nset + 1 /\ cur' = nset + 1
          /\ sem' = [k \in SemNums |-> 0]
     ELSE UNCHANGED <<nset, cur, sem>>
  /\ semid' = cur'
  /\ UNCHANGED <<adj, epoch, shmdata, client, out, intact>>

(* mutant: semaphore 0 starts with 2 *)
SetEmptyTwice ==
  /\ spc = "seta" /\ spc' = "setb"
  /\ SetVal(0, 2)
  /\ UNCHANGED <<nset, semid, epoch, shmdata, client, out, intact>>

SetEmpty ==
  /\ spc = "seta" /\ spc' = "setb"
  /\ SetVal(0, 1)
  /\ UNCHANGED <<nset, semid, epoch, shmdata, client, out, intact>>

SetFull ==
  /\ spc = "setb" /\ spc' = "shm"
  /\ SetVal(1, 0)
  /\ intact' = (UsersOf(semid) = {})
  /\ UNCHANGED <<nset, semid, epoch, shmdata, client, out>>

(* shmget, shmat and the IPC_RMID that hides the segment from the next     *)
(* shmget: every start works on a segment of its own.                      *)
MakeSegment ==
  /\ spc = "shm" /\ spc' = "wait"
  /\ epoch' = epoch + 1
  /\ shmdata' = Blank
  /\ UNCHANGED <<kernel, nset, semid, client, out, intact>>

(* A semop of process p, its result ignored. *)
Semop(p, set, k, d) ==
  \/ SemopDone(p, set, k, d) /\ UNCHANGED intact
  \/ SemopOutOfRange(p, set, k, d) /\ intact' = FALSE
  \/ SemopRemoved(set) /\ UNCHANGED intact

(* mutant: the server waits for the free segment *)
ServerWaitFree ==
  /\ spc = "wait" /\ spc' = "print"
  /\ Semop(Server, semid, 0, -1)
  /\ UNCHANGED <<nset, semid, epoch, shmdata, client, out>>

ServerWait ==
  /\ spc = "wait" /\ spc' = "print"
  /\ Semop(Server, semid, 1, -1)
  /\ UNCHANGED <<nset, semid, epoch, shmdata, client, out>>

ServerInterrupted ==
  /\ spc = "wait" /\ spc' = "print"
  /\ SemopInterrupted(semid, 1, -1)
  /\ intact' = FALSE
  /\ UNCHANGED <<nset, semid, epoch, shmdata, client, out>>

ServerPrint ==
  /\ spc = "print" /\ spc' = "post"
  /\ out' = shmdata
  /\ UNCHANGED <<kernel, nset, semid, epoch, shmdata, client, intact>>

(* mutant: the server signals the semaphore it waits on *)
ServerPostFull ==
  /\ spc = "post" /\ spc' = "wait"
  /\ Semop(Server, semid, 1, 1)
  /\ UNCHANGED <<nset, semid, epoch, shmdata, client, out>>

ServerPost ==
  /\ spc = "post" /\ spc' = "wait"
  /\ Semop(Server, semid, 0, 1)
  /\ UNCHANGED <<nset, semid, epoch, shmdata, client, out>>

(* SIGINT: sigintfunc calls exit(0), which runs atexitfunc. *)
ServerSigint ==
  /\ spc # "down" /\ spc' = "down"
  /\ semid' = 0
  /\ RemoveSet(semid)
  /\ intact' = FALSE
  /\ UNCHANGED <<nset, epoch, shmdata, client, out>>

(* Any other signal: the set stays, the kernel undoes the semops. *)
ServerKilled ==
  /\ spc # "down" /\ spc' = "down"
  /\ semid' = 0
  /\ ExitUndo(Server, semid)
  /\ intact' = FALSE
  /\ UNCHANGED <<nset, epoch, shmdata, client, out>>

------------------------------------------------------------------------------
(* The clients *)

(* main with the semid and shmid the running server has printed. *)
StartClient(c) ==
  /\ cpc[c] = "off" /\ spc \in Serving
  /\ cpc' = [cpc EXCEPT ![c] = "menu"]
  /\ csem' = [csem EXCEPT ![c] = semid]
  /\ cshm' = [cshm EXCEPT ![c] = epoch]
  /\ UNCHANGED <<kernel, server, shmdata, out, intact>>

ChooseSend(c) ==
  /\ cpc[c] = "menu"
  /\ cpc' = [cpc EXCEPT ![c] = "lock"]
  /\ UNCHANGED <<kernel, server, csem, cshm, shmdata, out, intact>>

ClientLock(c) ==
  /\ cpc[c] = "lock"
  /\ cpc' = [cpc EXCEPT ![c] = "enter"]
  /\ Semop(c, csem[c], 0, -1)
  /\ UNCHANGED <<server, csem, cshm, shmdata, out>>

ClientInterrupted(c) ==
  /\ cpc[c] = "lock"
  /\ cpc' = [cpc EXCEPT ![c] = "enter"]
  /\ SemopInterrupted(csem[c], 0, -1)
  /\ intact' = FALSE
  /\ UNCHANGED <<server, csem, cshm, shmdata, out>>

(* gets(shmdata): only a client of the newest segment is heard. *)
ClientEnter(c) ==
  /\ cpc[c] = "enter"
  /\ cpc' = [cpc EXCEPT ![c] = "post"]
  /\ IF cshm[c] = epoch THEN shmdata' \in Msg ELSE UNCHANGED shmdata
  /\ UNCHANGED <<kernel, server, csem, cshm, out, intact>>

ClientPost(c) ==
  /\ cpc[c] = "post"
  /\ cpc' = [cpc EXCEPT ![c] = "menu"]
  /\ Semop(c, csem[c], 1, 1)
  /\ UNCHANGED <<server, csem, cshm, shmdata, out>>

(* mutant: the semops of a client without SEM_UNDO *)
GoneNoUndo(c) ==
  /\ cpc' = [cpc EXCEPT ![c] = "off"]
  /\ csem' = [csem EXCEPT ![c] = 0]
  /\ cshm' = [cshm EXCEPT ![c] = 0]
  /\ adj' = [adj EXCEPT ![c] = NoAdj] /\ UNCHANGED <<cur, sem>>
  /\ intact' = (intact /\ (csem[c] = cur => adj[c][1] = 0))
  /\ UNCHANGED <<server, shmdata, out>>

(* The end of a client.  What it leaves is intact only if it never posted: *)
(* then the undo gives back at most the token it was holding.              *)
Gone(c) ==
  /\ cpc' = [cpc EXCEPT ![c] = "off"]
  /\ csem' = [csem EXCEPT ![c] = 0]
  /\ cshm' = [cshm EXCEPT ![c] = 0]
  /\ ExitUndo(c, csem[c])
  /\ intact' = (intact /\ (csem[c] = cur => adj[c][1] = 0))
  /\ UNCHANGED <<server, shmdata, out>>

ClientQuit(c) == cpc[c] = "menu" /\ Gone(c)      \* menu item 2

ClientKilled(c) == cpc[c] # "off" /\ Gone(c)     \* any signal, Ctrl+C too

------------------------------------------------------------------------------
Init ==
  /\ cur = 0 /\ nset = 0
  /\ sem = [k \in SemNums |-> 0]
  /\ adj = [p \in Procs |-> NoAdj]
  /\ spc = "down" /\ semid = 0 /\ epoch = 0
  /\ shmdata = Blank /\ out = Blank
  /\ cpc = [c \in Clients |-> "off"]
  /\ csem = [c \in Clients |-> 0]
  /\ cshm = [c \in Clients |-> 0]
  /\ intact = FALSE

ServerLoop == ServerWait \/ ServerPrint \/ ServerPost
ServerStep == StartServer \/ SetEmpty \/ SetFull \/ MakeSegment \/ ServerLoop
              \/ ServerInterrupted \/ ServerSigint \/ ServerKilled

ClientStep(c) ==
  \/ StartClient(c) \/ ChooseSend(c)
  \/ ClientLock(c) \/ ClientEnter(c) \/ ClientPost(c)
  \/ ClientInterrupted(c) \/ ClientQuit(c) \/ ClientKilled(c)

Next == ServerStep \/ \E c \in Clients : ClientStep(c)

Spec == Init /\ [][Next]_vars

(***************************************************************************)
(* Fairness: the server's loop waits for nothing but its semops, and a     *)
(* client that has typed a line runs on to its V.  A user who was let in   *)
(* finishes the line; the kernel serves the sleepers of a semaphore in     *)
(* their order of arrival, so a client is not passed over for ever.        *)
(***************************************************************************)
ServerFairness == WF_vars(ServerLoop)
ClientFairness == \A c \in Clients : /\ WF_vars(ClientEnter(c))
                                     /\ WF_vars(ClientPost(c))
                                     /\ SF_vars(ClientLock(c))
LoopSpec == Spec /\ ServerFairness
FairSpec == LoopSpec /\ ClientFairness

------------------------------------------------------------------------------
(* Type correctness: every variable has a value the program can give it.   *)
TypeOK ==
  /\ KernelTypeOK
  /\ nset \in Nat /\ spc \in ServerPcs /\ semid \in Nat /\ epoch \in Nat
  /\ shmdata \in Msg \union {Blank} /\ out \in Msg \union {Blank}
  /\ cpc \in [Clients -> ClientPcs]
  /\ csem \in [Clients -> Nat] /\ cshm \in [Clients -> Nat]
  /\ intact \in BOOLEAN

(***************************************************************************)
(* intact: the server set both semaphores up while nobody used them, still *)
(* runs, no semop has left the range of the undo adjustments (one process  *)
(* gets there after SEMAEM messages), none was interrupted asleep, and no  *)
(* client has ended after posting.                                         *)
(* A client that ends after n messages adds n to semaphore 0 and takes n   *)
(* from semaphore 1 (SEM_UNDO on lines 90 and 98): nothing below holds     *)
(* after that.                                                             *)
(***************************************************************************)
HasSlot(c) == cpc[c] \in Inside /\ csem[c] = cur
ServerHasSlot == spc \in {"print", "post"}

(* At most one process is between its P and its V: no client overwrites    *)
(* the line the server is printing, and no two clients type into the       *)
(* segment together (lines 62-69 and 91-99).                               *)
SlotExclusion ==
  intact => /\ \A c, d \in Clients : HasSlot(c) /\ HasSlot(d) => c = d
            /\ \A c \in Clients : HasSlot(c) => ~ServerHasSlot

(* The token is never lost or doubled: the two semaphores and the          *)
(* processes inside always add up to one, also across a client that is     *)
(* killed while typing its first line. Without it either everybody sleeps  *)
(* or two processes are inside.                                            *)
TokenConserved ==
  intact =>
    /\ sem[0] + sem[1] \in {0, 1}
    /\ (sem[0] + sem[1] = 0) <=> (ServerHasSlot \/ \E c \in Clients : HasSlot(c))

(* The promise of the two programs, see OneSlotChannel: one client at a    *)
(* time types its line (line 95), into a segment the server has done with; *)
(* a line that was posted (line 99) is printed once (line 64), and before  *)
(* the next client is let in.                                              *)
Writer == IF intact THEN {c \in Clients : HasSlot(c)} ELSE {}
Box == IF intact /\ (sem[1] = 1 \/ spc = "print") THEN shmdata ELSE Blank
Channel == INSTANCE OneSlotChannel WITH open <- intact, writer <- Writer, box <- Box
IsOneSlotChannel == Channel!Spec

(* A line that was posted leaves the segment, which by IsOneSlotChannel    *)
(* means printed, unless the channel breaks first: the server loop (lines  *)
(* 56-71) needs nobody's help for it.                                      *)
PostedIsPrinted == (Box # Blank) ~> (Box = Blank)

(* A client asleep in its P (line 91) is let in unless the channel breaks. *)
WaitingClientGetsIn ==
  \A c \in Clients :
    (cpc[c] = "lock" /\ intact) ~> (cpc[c] # "lock" \/ ~intact)
==============================================================================
