------------------------------ MODULE MemoryPool ------------------------------
(***************************************************************************)
(* src/memorypool/memorypool.cpp: a ring of data_count slots from which    *)
(* threads take the next one under a lock and copy their string into it    *)
(* outside the lock. The pool is made by whoever comes first, unguarded.   *)
(*                                                                         *)
(* Where the code uses a lock that is not initialised yet or a pool that   *)
(* is freed, the outcome is either a crash or that it goes on as it was.   *)
(***************************************************************************)
EXTENDS Integers, Sequences

CONSTANTS
  Threads,
  Sizes,       (* the values of data_size; no string is longer than that   *)
  COUNT,       (* data_count: 32 for RetStrFromMemoryPool                  *)
  SLACK,       (* 512: what is allocated beyond the last slot              *)
  MallocFails, (* may malloc return NULL?                                  *)
  MaxCalls     (* bound: the calls made                                    *)

ASSUME PoolAssumption ==
  /\ COUNT \in Nat \ {0} /\ SLACK \in Nat /\ MaxCalls \in Nat
  /\ Sizes \subseteq Nat /\ MallocFails \in BOOLEAN
  /\ Threads \cap {"raw", "free", "stuck"} = {}

VARIABLES
  g_p_mem_pool,  (* the pool in use, an index of pools; 0: NULL            *)
  pools,         (* the pools that were made                               *)
  pc,            (* where each thread is                                   *)
  call,          (* its call: which function, data_size, strlen(data) + 1  *)
  pool, pos,     (* the pool it advances, and the position it has read     *)
  slot, ticket,  (* the slot it was given, and its place in the order      *)
  calls,         (* calls made so far                                      *)
  tickets,       (* history: slots handed out so far                       *)
  holder,        (* history: who holds each slot of the pool in use        *)
  done,          (* history: the tickets whose string was copied           *)
  crashed,       (* the process is gone                                    *)
  intact,        (* history: one pool, made once, its lock never missing   *)
  roomy          (* history: no string longer than its slot, none late     *)

local == <<pc, call, pool, pos, slot, ticket>>
history == <<tickets, holder, done, roomy>>
vars == <<g_p_mem_pool, pools, local, calls, history, crashed, intact>>

Slots == 0 .. COUNT - 1
NoCall == [fun |-> "none", size |-> 0, len |-> 0]
Nobody == [ticket |-> 0, len |-> 0]
Cells(size) == 0 .. COUNT * size + SLACK - 1
At(t, place) == ~crashed /\ pc[t] = place
GoTo(t, place) == pc' = [pc EXCEPT ![t] = place]
(* The call is over and its locals are gone. *)
Return(t) ==
  /\ GoTo(t, "idle")
  /\ call' = [call EXCEPT ![t] = NoCall] /\ pool' = [pool EXCEPT ![t] = 0]
  /\ pos' = [pos EXCEPT ![t] = -1] /\ slot' = [slot EXCEPT ![t] = 0]
  /\ ticket' = [ticket EXCEPT ![t] = 0]

Locks(l) == pools' = [pools EXCEPT ![g_p_mem_pool].lock = l]

------------------------------------------------------------------------------
Call(t, fun, size, len) ==
  /\ At(t, "idle") /\ calls < MaxCalls
  /\ calls' = calls + 1
  /\ call' = [call EXCEPT ![t] = [fun |-> fun, size |-> size, len |-> len]]
  /\ GoTo(t, IF fun = "Work" THEN "enter" ELSE "init")
  /\ UNCHANGED <<g_p_mem_pool, pools, pool, pos, slot, ticket, history, crashed, intact>>

AfterInit(t) ==
  IF call[t].fun = "Init"
  THEN Return(t)
  ELSE GoTo(t, "enter") /\ UNCHANGED <<call, pool, pos, slot, ticket>>

InitCheck(t) ==
  /\ At(t, "init")
  /\ IF g_p_mem_pool = 0
     THEN GoTo(t, "malloc") /\ UNCHANGED <<call, pool, pos, slot, ticket>>
     ELSE AfterInit(t)
  /\ UNCHANGED <<g_p_mem_pool, pools, calls, history, crashed, intact>>

(* MallocMemoryPool; its result is stored whatever it is.                  *)
NewPool(size) ==
  [size |-> size, pos |-> -1, lock |-> "raw", live |-> TRUE, mem |-> [c \in Cells(size) |-> 0]]

InitMalloc(t) ==
  /\ At(t, "malloc")
  /\ \/ /\ call[t].size > 0
        /\ pools' = Append(pools, NewPool(call[t].size)) /\ g_p_mem_pool' = Len(pools) + 1
     \/ /\ MallocFails \/ call[t].size = 0
        /\ g_p_mem_pool' = 0 /\ UNCHANGED pools
  /\ intact' = (intact /\ g_p_mem_pool = 0)
  /\ holder' = [j \in Slots |-> Nobody]
  /\ GoTo(t, "test")
  /\ UNCHANGED <<call, pool, pos, slot, ticket, calls, tickets, done, roomy, crashed>>

(* The pointer is read again; by now it may be another thread's.           *)
InitTest(t) ==
  /\ At(t, "test")
  /\ IF g_p_mem_pool = 0
     THEN AfterInit(t)
     ELSE GoTo(t, "lock") /\ UNCHANGED <<call, pool, pos, slot, ticket>>
  /\ UNCHANGED <<g_p_mem_pool, pools, calls, history, crashed, intact>>

(* The process is gone: a NULL pool is used, or one that is freed.         *)
Crash(t) ==
  /\ pc[t] \in {"lock", "enter", "read", "leave"} /\ ~crashed
  /\ g_p_mem_pool # 0 =>
       \/ ~pools[g_p_mem_pool].live
       \/ pools[g_p_mem_pool].lock = "raw" /\ pc[t] # "lock"
  /\ crashed' = TRUE
  /\ UNCHANGED <<g_p_mem_pool, pools, local, calls, history, intact>>

InitLock(t) ==
  /\ At(t, "lock") /\ g_p_mem_pool # 0
  /\ Locks("free")
  /\ intact' = (intact /\ pools[g_p_mem_pool].lock = "raw")
  /\ AfterInit(t)
  /\ UNCHANGED <<g_p_mem_pool, calls, history, crashed>>

------------------------------------------------------------------------------
(* WorkMemoryPool *)

(* The lock taken from whoever holds it.                                   *)
EnterAnyway(t) ==
  /\ At(t, "enter") /\ g_p_mem_pool # 0
  /\ LET lock == pools[g_p_mem_pool].lock IN
     /\ IF lock # "raw" THEN Locks(t) ELSE UNCHANGED pools
     /\ intact' = (intact /\ lock # "raw" /\ pools[g_p_mem_pool].live)
  /\ GoTo(t, "read")
  /\ UNCHANGED <<g_p_mem_pool, call, pool, pos, slot, ticket, calls, history, crashed>>

Enter(t) ==
  /\ At(t, "enter") /\ g_p_mem_pool # 0
  /\ LET lock == pools[g_p_mem_pool].lock IN
     /\ lock \in {"free", "raw"}
     /\ IF lock = "free" THEN Locks(t) ELSE UNCHANGED pools
     /\ intact' = (intact /\ lock = "free" /\ pools[g_p_mem_pool].live)
  /\ GoTo(t, "read")
  /\ UNCHANGED <<g_p_mem_pool, call, pool, pos, slot, ticket, calls, history, crashed>>

ReadPos(t) ==
  /\ At(t, "read") /\ g_p_mem_pool # 0
  /\ pool' = [pool EXCEPT ![t] = g_p_mem_pool]
  /\ pos' = [pos EXCEPT ![t] = pools[g_p_mem_pool].pos]
  /\ GoTo(t, "write")
  /\ UNCHANGED <<g_p_mem_pool, pools, call, slot, ticket, calls, history, crashed, intact>>

(* One slot more than there are.                                           *)
NextPosLate(p) == IF p >= COUNT THEN 0 ELSE p + 1

NextPos(p) == IF p >= COUNT - 1 THEN 0 ELSE p + 1

WritePos(t) ==
  /\ At(t, "write")
  /\ pools' = [pools EXCEPT ![pool[t]].pos = NextPos(pos[t])]
  /\ GoTo(t, "slot")
  /\ UNCHANGED <<g_p_mem_pool, call, pool, pos, slot, ticket, calls, history, crashed, intact>>

(* The position is read again for the address. The slot is late for its    *)
(* last holder when that one has not copied yet.                           *)
TakeSlot(t) ==
  /\ At(t, "slot")
  /\ LET j == pools[pool[t]].pos IN
     /\ slot' = [slot EXCEPT ![t] = j]
     /\ tickets' = tickets + 1
     /\ ticket' = [ticket EXCEPT ![t] = tickets + 1]
     /\ holder' = [holder EXCEPT ![j] = [ticket |-> tickets + 1, len |-> call[t].len]]
     /\ roomy' = (roomy /\ holder[j].ticket \in done \union {0})
  /\ GoTo(t, "leave")
  /\ UNCHANGED <<g_p_mem_pool, pools, call, pool, pos, calls, done, crashed, intact>>

(* A return before LeaveCriticalSection.                                   *)
LeaveLocked(t) ==
  /\ At(t, "leave") /\ g_p_mem_pool # 0
  /\ intact' = (intact /\ pools[g_p_mem_pool].lock = t)
  /\ GoTo(t, "copy")
  /\ UNCHANGED <<g_p_mem_pool, pools, call, pool, pos, slot, ticket, calls, history, crashed>>

(* The lock that is left is that of the pool in use by now. When this      *)
(* thread does not own it, it may come free or keep everyone out for good. *)
Leave(t) ==
  /\ At(t, "leave") /\ g_p_mem_pool # 0
  /\ \/ pools[g_p_mem_pool].lock # "raw" /\ Locks("free")
     \/ pools[g_p_mem_pool].lock # t /\ Locks("stuck")
     \/ pools[g_p_mem_pool].lock = "raw" /\ UNCHANGED pools
  /\ intact' = (intact /\ pools[g_p_mem_pool].lock = t)
  /\ GoTo(t, "copy")
  /\ UNCHANGED <<g_p_mem_pool, call, pool, pos, slot, ticket, calls, history, crashed>>

(* The slot's position without the size of a slot.                         *)
CopyUnscaled(t) ==
  /\ At(t, "copy")
  /\ LET cells == slot[t] .. slot[t] + call[t].len - 1 IN
     pools' = [pools EXCEPT ![pool[t]].mem =
                 [c \in DOMAIN @ |-> IF c \in cells THEN ticket[t] ELSE @[c]]]
  /\ done' = done \union {ticket[t]}
  /\ roomy' = (roomy /\ call[t].len <= pools[pool[t]].size)
  /\ Return(t)
  /\ UNCHANGED <<g_p_mem_pool, calls, tickets, holder, crashed, intact>>

(* memcpy: the string's cells from the start of the slot on, as far as the *)
(* allocation goes. A caller of WorkMemoryPool copies by itself.           *)
Copy(t) ==
  /\ At(t, "copy")
  /\ LET first == slot[t] * pools[pool[t]].size
         cells == (first .. first + call[t].len - 1) IN
     pools' = [pools EXCEPT ![pool[t]].mem =
                 [c \in DOMAIN @ |-> IF c \in cells THEN ticket[t] ELSE @[c]]]
  /\ done' = done \union {ticket[t]}
  /\ roomy' = (roomy /\ call[t].len <= pools[pool[t]].size)
  /\ Return(t)
  /\ UNCHANGED <<g_p_mem_pool, calls, tickets, holder, crashed, intact>>

------------------------------------------------------------------------------
(* FreeMemoryPool forgets its own copy of the pointer only.                *)
Freed == pools' = [pools EXCEPT ![g_p_mem_pool].live = FALSE]

(* DeleteMemoryPool frees the pool, then deletes the lock inside it, and   *)
(* keeps the pointer.                                                      *)
Delete(t) ==
  /\ At(t, "idle") /\ calls < MaxCalls /\ g_p_mem_pool # 0
  /\ calls' = calls + 1
  /\ Freed
  /\ intact' = FALSE
  /\ crashed' \in BOOLEAN
  /\ UNCHANGED <<g_p_mem_pool, local, history>>

Init ==
  /\ g_p_mem_pool = 0 /\ pools = <<>> /\ calls = 0 /\ tickets = 0 /\ done = {}
  /\ pc = [t \in Threads |-> "idle"] /\ call = [t \in Threads |-> NoCall]
  /\ pool = [t \in Threads |-> 0] /\ pos = [t \in Threads |-> -1]
  /\ slot = [t \in Threads |-> 0] /\ ticket = [t \in Threads |-> 0]
  /\ holder = [j \in Slots |-> Nobody]
  /\ crashed = FALSE /\ intact = TRUE /\ roomy = TRUE

Step(t) ==
  \/ InitCheck(t) \/ InitMalloc(t) \/ InitTest(t) \/ InitLock(t) \/ Crash(t)
  \/ Enter(t) \/ ReadPos(t) \/ WritePos(t) \/ TakeSlot(t) \/ Leave(t) \/ Copy(t)

Next ==
  \E t \in Threads :
    \/ \E fun \in {"Ret", "Init", "Work"}, size \in Sizes : \E len \in 1 .. size :
         Call(t, fun, size, len)
    \/ Step(t) \/ Delete(t)

Spec == Init /\ [][Next]_vars

(* Windows runs every thread. *)
FairSpec == Spec /\ \A t \in Threads : WF_vars(Step(t))

------------------------------------------------------------------------------
(* Type correctness. *)
Places ==
  {"idle", "init", "malloc", "test", "lock", "enter", "read", "write", "slot", "leave", "copy"}
PoolType(p) ==
  /\ p.size \in Nat /\ p.pos \in -1 .. COUNT - 1
  /\ p.lock \in {"raw", "free", "stuck"} \union Threads /\ p.live \in BOOLEAN
  /\ p.mem \in [Cells(p.size) -> Nat]
TypeOK ==
  /\ g_p_mem_pool \in 0 .. Len(pools) /\ \A k \in DOMAIN pools : PoolType(pools[k])
  /\ pc \in [Threads -> Places]
  /\ pool \in [Threads -> 0 .. Len(pools)] /\ pos \in [Threads -> -1 .. COUNT - 1]
  /\ slot \in [Threads -> Slots] /\ ticket \in [Threads -> Nat]
  /\ calls \in 0 .. MaxCalls /\ tickets \in Nat /\ done \subseteq Nat
  /\ crashed \in BOOLEAN /\ intact \in BOOLEAN /\ roomy \in BOOLEAN

(* While one pool was made once and is not deleted, the k-th call gets     *)
(* slot k - 1 modulo data_count, so that data_count calls in a row hold    *)
(* slots of their own, whichever threads make them and however they        *)
(* interleave (lines 62-98).                                               *)
InTurn ==
  intact => \A t \in Threads : pc[t] \in {"leave", "copy"} => slot[t] = (ticket[t] - 1) % COUNT

(* The string that RetStrFromMemoryPool has copied stands in its slot      *)
(* until the slot is handed out again, if no string is longer than the     *)
(* slots and no call is still copying when its slot comes round.           *)
StringStands ==
  intact /\ roomy =>
    \A j \in Slots :
      holder[j].ticket \in done /\ g_p_mem_pool # 0 =>
        LET p == pools[g_p_mem_pool] IN
        \A c \in 0 .. holder[j].len - 1 : p.mem[j * p.size + c] = holder[j].ticket

(* While one pool was made once, and is not deleted, no thread waits for   *)
(* ever for the lock or leaves without a result: every call returns.       *)
CallReturns ==
  \A t \in Threads : pc[t] # "idle" ~> (pc[t] = "idle" \/ ~intact \/ crashed)
==============================================================================
