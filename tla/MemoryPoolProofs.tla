--------------------------- MODULE MemoryPoolProofs ---------------------------
(***************************************************************************)
(* Proofs about MemoryPool for any threads, sizes and number of slots: it  *)
(* is type correct, the slots are handed out in turn, and the string of    *)
(* the last holder of a slot stands in it.                                 *)
(***************************************************************************)
EXTENDS MemoryPool, SequenceTheorems, TLAPS

------------------------------------------------------------------------------
(* Counting round the ring. *)
LEMMA Remainder ==
  ASSUME NEW n \in Nat, NEW q \in Nat, NEW r \in Nat, NEW c \in Nat \ {0},
         n = c * q + r, r < c
  PROVE  n % c = r
<1> DEFINE a == n \div c
           b == n % c
<1>1. a \in Nat /\ b \in Nat /\ b < c /\ n = c * a + b
  OBVIOUS
<1> HIDE DEF a, b
<1>2. ASSUME NEW x \in Nat, NEW y \in Nat, x < y PROVE c * x + c <= c * y
  <2>1. c * y = c * x + c * (y - x) /\ y - x >= 1
    BY <1>2
  <2>2. c * (y - x) >= c
    BY <1>2
  <2>3. QED BY <1>2, <2>1, <2>2
<1>3. ~(a < q)
  BY <1>1, <1>2
<1>4. ~(q < a)
  BY <1>1, <1>2
<1>5. a = q
  BY <1>1, <1>3, <1>4
<1>6. b = r
  BY <1>1, <1>5
<1>7. QED BY <1>6 DEF b

LEMMA NextInTurn ==
  ASSUME NEW k \in Nat
  PROVE  /\ k % COUNT \in Slots
         /\ NextPos(k % COUNT) = (k + 1) % COUNT
         /\ NextPos(-1) = 0 % COUNT
<1>1. COUNT \in Nat \ {0}
  BY PoolAssumption
<1> DEFINE q == k \div COUNT
           r == k % COUNT
<1>2. q \in Nat /\ r \in Nat /\ r < COUNT /\ k = COUNT * q + r
  BY <1>1
<1>3. 0 % COUNT = 0
  BY <1>1, Remainder, 0 = COUNT * 0 + 0
<1> HIDE DEF q, r
<1>4. CASE r < COUNT - 1
  <2>1. k + 1 = COUNT * q + (r + 1) /\ r + 1 \in Nat /\ r + 1 < COUNT
    BY <1>1, <1>2, <1>4
  <2>2. (k + 1) % COUNT = r + 1
    BY <1>1, <1>2, <2>1, Remainder
  <2>3. NextPos(r) = r + 1
    BY <1>1, <1>2, <1>4 DEF NextPos
  <2>4. QED BY <1>1, <1>2, <1>3, <2>2, <2>3 DEF r, Slots, NextPos
<1>5. CASE r = COUNT - 1
  <2>1. COUNT * (q + 1) = COUNT * q + COUNT
    BY <1>1, <1>2
  <2>2. k + 1 = COUNT * (q + 1) + 0
    BY <1>1, <1>2, <1>5, <2>1
  <2>3. (k + 1) % COUNT = 0
    BY <1>1, <1>2, <2>2, Remainder
  <2>4. NextPos(r) = 0
    BY <1>1, <1>5 DEF NextPos
  <2>5. QED BY <1>1, <1>2, <1>3, <2>3, <2>4 DEF r, Slots, NextPos
<1>6. QED BY <1>1, <1>2, <1>4, <1>5
------------------------------------------------------------------------------
(* Types. A pool has all the cells of its slots; a thread that has read    *)
(* the position works on a pool there is, and takes a slot of it.          *)
LockStates == {"raw", "free", "stuck"} \union Threads
Memory == UNION {[S -> Nat] : S \in SUBSET Int}
Pool ==
  [size : Nat, pos : -1 .. COUNT - 1, lock : LockStates, live : BOOLEAN, mem : Memory]
CallSet == [fun : {"none", "Ret", "Init", "Work"}, size : Nat, len : Nat]

TypeInv ==
  /\ TypeOK /\ pools \in Seq(Pool)
  /\ call \in [Threads -> CallSet] /\ holder \in [Slots -> [ticket : Nat, len : Nat]]
  /\ \A t \in Threads : pc[t] \in {"write", "slot", "leave", "copy"} => pool[t] \in 1 .. Len(pools)
  /\ \A t \in Threads : pc[t] = "slot" => pools[pool[t]].pos \in Slots

LEMMA Constants ==
  /\ COUNT \in Nat \ {0} /\ SLACK \in Nat /\ 0 \in Slots /\ -1 \in -1 .. COUNT - 1
  /\ \A j \in Slots : j \in -1 .. COUNT - 1 /\ j \in Nat
  /\ \A t \in Threads : t # "raw" /\ t # "free" /\ t # "stuck"
BY PoolAssumption DEF Slots

LEMMA NextPosType == ASSUME NEW p \in -1 .. COUNT - 1 PROVE NextPos(p) \in Slots
BY Constants DEF NextPos, Slots

(* One pool replaced by another one.                                       *)
LEMMA PoolReplaced ==
  ASSUME TypeInv, NEW k \in 1 .. Len(pools), NEW p \in Pool, PoolType(p),
         pools' = [pools EXCEPT ![k] = p]
  PROVE  /\ pools' \in Seq(Pool) /\ Len(pools') = Len(pools)
         /\ pools'[k] = p /\ \A i \in 1 .. Len(pools) : i # k => pools'[i] = pools[i]
         /\ \A i \in DOMAIN pools' : PoolType(pools'[i])
<1>1. pools \in Seq(Pool) /\ \A i \in DOMAIN pools : PoolType(pools[i])
  BY DEF TypeInv, TypeOK
<1>2. /\ pools' \in Seq(Pool) /\ Len(pools') = Len(pools)
      /\ \A i \in 1 .. Len(pools) : pools'[i] = IF i = k THEN p ELSE pools[i]
  BY <1>1, ExceptSeq
<1>3. DOMAIN pools' = 1 .. Len(pools) /\ DOMAIN pools = 1 .. Len(pools)
  BY <1>1, <1>2
<1>4. \A i \in DOMAIN pools' : PoolType(pools'[i])
  BY <1>1, <1>2, <1>3
<1>5. QED BY <1>2, <1>4

LEMMA PoolFields ==
  ASSUME TypeInv, NEW k \in 1 .. Len(pools)
  PROVE  pools[k] \in Pool /\ PoolType(pools[k])
BY DEF TypeInv, TypeOK

(* Locks, and the freed pool of Delete.                                    *)
LEMMA LocksPool ==
  ASSUME TypeInv, g_p_mem_pool # 0, NEW l \in LockStates, Locks(l)
  PROVE  /\ g_p_mem_pool \in 1 .. Len(pools)
         /\ pools' \in Seq(Pool) /\ Len(pools') = Len(pools)
         /\ pools'[g_p_mem_pool] = [pools[g_p_mem_pool] EXCEPT !.lock = l]
         /\ \A i \in 1 .. Len(pools) : i # g_p_mem_pool => pools'[i] = pools[i]
         /\ \A i \in DOMAIN pools' : PoolType(pools'[i])
<1> DEFINE g == g_p_mem_pool
           p == [pools[g] EXCEPT !.lock = l]
<1>1. g \in 1 .. Len(pools)
  BY DEF TypeInv, TypeOK
<1>2. p \in Pool /\ PoolType(p)
  BY <1>1, PoolFields DEF Pool, PoolType, LockStates
<1>3. pools' = [pools EXCEPT ![g] = p]
  BY DEF Locks
<1> HIDE DEF p
<1>4. QED BY <1>1, <1>2, <1>3, PoolReplaced DEF p

LEMMA ReturnType ==
  ASSUME TypeInv, NEW t \in Threads, Return(t)
  PROVE  /\ pc' \in [Threads -> Places] /\ call' \in [Threads -> CallSet]
         /\ pool' \in [Threads -> 0 .. Len(pools)] /\ pos' \in [Threads -> -1 .. COUNT - 1]
         /\ slot' \in [Threads -> Slots] /\ ticket' \in [Threads -> Nat]
         /\ pc'[t] = "idle"
         /\ \A u \in Threads \ {t} :
              /\ pc'[u] = pc[u] /\ call'[u] = call[u] /\ pool'[u] = pool[u]
              /\ pos'[u] = pos[u] /\ slot'[u] = slot[u] /\ ticket'[u] = ticket[u]
<1>1. /\ pc \in [Threads -> Places] /\ call \in [Threads -> CallSet]
      /\ pool \in [Threads -> 0 .. Len(pools)] /\ pos \in [Threads -> -1 .. COUNT - 1]
      /\ slot \in [Threads -> Slots] /\ ticket \in [Threads -> Nat]
  BY DEF TypeInv, TypeOK
<1>2. "idle" \in Places /\ NoCall \in CallSet /\ 0 \in 0 .. Len(pools) /\ 0 \in Slots
      /\ -1 \in -1 .. COUNT - 1
  <2>1. Len(pools) \in Nat
    BY DEF TypeInv
  <2>2. QED BY <2>1, Constants DEF Places, NoCall, CallSet
<1>3. /\ pc' = [pc EXCEPT ![t] = "idle"] /\ call' = [call EXCEPT ![t] = NoCall]
      /\ pool' = [pool EXCEPT ![t] = 0] /\ pos' = [pos EXCEPT ![t] = -1]
      /\ slot' = [slot EXCEPT ![t] = 0] /\ ticket' = [ticket EXCEPT ![t] = 0]
  BY DEF Return, GoTo
<1>4. QED BY <1>1, <1>2, <1>3

LEMMA GoToType ==
  ASSUME TypeInv, NEW t \in Threads, NEW place \in Places, GoTo(t, place)
  PROVE  /\ pc' \in [Threads -> Places]
         /\ pc'[t] = place /\ \A u \in Threads \ {t} : pc'[u] = pc[u]
BY DEF TypeInv, TypeOK, GoTo

LEMMA PlacesAre ==
  \A place \in {"idle", "init", "malloc", "test", "lock", "enter", "read", "write", "slot", "leave", "copy"} :
    place \in Places
BY DEF Places

LEMMA InitType == Init => TypeInv
<1> SUFFICES ASSUME Init PROVE TypeInv
  OBVIOUS
<1>1. <<>> \in Seq(Pool) /\ Len(pools) = 0 /\ pools \in Seq(Pool)
  BY EmptySeq DEF Init
<1>d. DOMAIN pools = {}
  BY <1>1, LenProperties
<1>2. MaxCalls \in Nat
  BY PoolAssumption
<1>3. TypeOK
  <2>1. g_p_mem_pool \in 0 .. Len(pools) /\ 0 \in 0 .. Len(pools)
    BY <1>1 DEF Init
  <2>2. \A k \in DOMAIN pools : PoolType(pools[k])
    BY <1>d
  <2>3. calls \in 0 .. MaxCalls
    BY <1>2 DEF Init
  <2>4. QED BY <2>1, <2>2, <2>3, Constants DEF Init, TypeOK, Places
<1>4. QED BY <1>1, <1>3 DEF Init, TypeInv, NoCall, CallSet, Nobody
LEMMA NewPoolType ==
  ASSUME NEW n \in Nat
  PROVE  NewPool(n) \in Pool /\ PoolType(NewPool(n))
<1>1. Cells(n) \in SUBSET Int
  BY DEF Cells
<1>2. [c \in Cells(n) |-> 0] \in [Cells(n) -> Nat]
  OBVIOUS
<1>3. [c \in Cells(n) |-> 0] \in Memory
  BY <1>1, <1>2 DEF Memory
<1>4. QED BY <1>2, <1>3, Constants DEF NewPool, Pool, PoolType, LockStates

(* What Copy makes of the memory. *)
Copied(mem, first, len, mark) ==
  [c \in DOMAIN mem |-> IF c \in first .. first + len - 1 THEN mark ELSE mem[c]]

LEMMA CopiedPool ==
  ASSUME NEW p \in Pool, PoolType(p), NEW first, NEW len, NEW mark \in Nat
  PROVE  LET q == [p EXCEPT !.mem = Copied(p.mem, first, len, mark)] IN
         /\ q \in Pool /\ PoolType(q) /\ q.size = p.size /\ q.pos = p.pos
         /\ q.lock = p.lock /\ q.live = p.live /\ q.mem = Copied(p.mem, first, len, mark)
<1>1. p.mem \in [Cells(p.size) -> Nat] /\ p.size \in Nat
  BY DEF PoolType
<1>2. DOMAIN p.mem = Cells(p.size) /\ \A c \in Cells(p.size) : p.mem[c] \in Nat
  BY <1>1
<1>3. Copied(p.mem, first, len, mark) \in [Cells(p.size) -> Nat]
  BY <1>2 DEF Copied
<1>4. Cells(p.size) \in SUBSET Int
  BY DEF Cells
<1>5. Copied(p.mem, first, len, mark) \in Memory
  BY <1>3, <1>4 DEF Memory
<1> DEFINE m == Copied(p.mem, first, len, mark)
<1>6. m \in [Cells(p.size) -> Nat] /\ m \in Memory
  BY <1>3, <1>5
<1> HIDE DEF m
<1>7. LET q == [p EXCEPT !.mem = m] IN
      /\ q \in Pool /\ PoolType(q) /\ q.size = p.size /\ q.pos = p.pos
      /\ q.lock = p.lock /\ q.live = p.live /\ q.mem = m
  BY <1>6 DEF Pool, PoolType
<1>8. QED BY <1>7 DEF m

(* What is unchanged when the pools are not touched, and only thread t     *)
(* moves to a place where it holds nothing.                                *)
LEMMA TypeRest ==
  ASSUME TypeInv, TypeOK', pools' \in Seq(Pool),
         call' \in [Threads -> CallSet], holder' \in [Slots -> [ticket : Nat, len : Nat]],
         Len(pools) <= Len(pools'),
         \A i \in 1 .. Len(pools) : pools[i].pos \in Slots => pools'[i].pos \in Slots,
         \A t \in Threads : pc'[t] \in {"write", "slot", "leave", "copy"} =>
           \/ pool'[t] = pool[t] /\ pc[t] \in {"write", "slot", "leave", "copy"}
           \/ pool'[t] \in 1 .. Len(pools'),
         \A t \in Threads : pc'[t] = "slot" =>
           \/ pool'[t] = pool[t] /\ pc[t] = "slot"
           \/ pools'[pool'[t]].pos \in Slots
  PROVE  TypeInv'
<1>1. Len(pools) \in Nat /\ Len(pools') \in Nat
  BY DEF TypeInv
<1>2. \A t \in Threads : pc'[t] \in {"write", "slot", "leave", "copy"} => pool'[t] \in 1 .. Len(pools')
  BY <1>1 DEF TypeInv
<1>3. \A t \in Threads : pc'[t] = "slot" => pools'[pool'[t]].pos \in Slots
  BY DEF TypeInv
<1>4. QED BY <1>2, <1>3 DEF TypeInv

LEMMA CallType ==
  ASSUME TypeInv, NEW t \in Threads, NEW fun \in {"Ret", "Init", "Work"},
         NEW size \in Sizes, NEW len \in 1 .. size, Call(t, fun, size, len)
  PROVE  TypeInv'
<1>1. size \in Nat /\ len \in Nat
  BY PoolAssumption
<1>2. call' \in [Threads -> CallSet]
  BY <1>1 DEF Call, TypeInv, CallSet
<1>3. \E place \in {"enter", "init"} : GoTo(t, place)
  BY DEF Call
<1>4. /\ pc' \in [Threads -> Places] /\ pc'[t] \in {"enter", "init"}
      /\ \A u \in Threads \ {t} : pc'[u] = pc[u]
  BY <1>3, GoToType, PlacesAre
<1>5. calls' \in 0 .. MaxCalls
  BY PoolAssumption DEF Call, TypeInv, TypeOK
<1>6. TypeOK'
  BY <1>4, <1>5 DEF Call, TypeInv, TypeOK, history
<1>7. QED BY <1>2, <1>4, <1>6 DEF Call, TypeInv, history

LEMMA AfterInitType ==
  ASSUME TypeInv, NEW t \in Threads, AfterInit(t)
  PROVE  /\ pc' \in [Threads -> Places] /\ call' \in [Threads -> CallSet]
         /\ pool' \in [Threads -> 0 .. Len(pools)] /\ pos' \in [Threads -> -1 .. COUNT - 1]
         /\ slot' \in [Threads -> Slots] /\ ticket' \in [Threads -> Nat]
         /\ pc'[t] \in {"idle", "enter"}
         /\ \A u \in Threads \ {t} :
              /\ pc'[u] = pc[u] /\ call'[u] = call[u] /\ pool'[u] = pool[u]
              /\ pos'[u] = pos[u] /\ slot'[u] = slot[u] /\ ticket'[u] = ticket[u]
<1>1. CASE call[t].fun = "Init"
  <2>1. Return(t) BY <1>1 DEF AfterInit
  <2>2. QED BY <2>1, ReturnType
<1>2. CASE call[t].fun # "Init"
  <2>1. GoTo(t, "enter") /\ UNCHANGED <<call, pool, pos, slot, ticket>>
    BY <1>2 DEF AfterInit
  <2>2. QED BY <2>1, GoToType, PlacesAre DEF TypeInv, TypeOK
<1>3. QED BY <1>1, <1>2

LEMMA InitCheckType ==
  ASSUME TypeInv, NEW t \in Threads, InitCheck(t)
  PROVE  /\ TypeInv' /\ pc'[t] \in {"idle", "enter", "malloc"}
         /\ \A u \in Threads \ {t} :
              /\ pc'[u] = pc[u] /\ call'[u] = call[u] /\ pool'[u] = pool[u]
              /\ pos'[u] = pos[u] /\ slot'[u] = slot[u] /\ ticket'[u] = ticket[u]
<1>1. /\ pc' \in [Threads -> Places] /\ call' \in [Threads -> CallSet]
      /\ pool' \in [Threads -> 0 .. Len(pools)] /\ pos' \in [Threads -> -1 .. COUNT - 1]
      /\ slot' \in [Threads -> Slots] /\ ticket' \in [Threads -> Nat]
      /\ pc'[t] \in {"idle", "enter", "malloc"}
      /\ \A u \in Threads \ {t} :
           /\ pc'[u] = pc[u] /\ call'[u] = call[u] /\ pool'[u] = pool[u]
           /\ pos'[u] = pos[u] /\ slot'[u] = slot[u] /\ ticket'[u] = ticket[u]
  <2>1. CASE g_p_mem_pool = 0
    <3>1. GoTo(t, "malloc") /\ UNCHANGED <<call, pool, pos, slot, ticket>>
      BY <2>1 DEF InitCheck
    <3>2. QED BY <3>1, GoToType, PlacesAre DEF TypeInv, TypeOK
  <2>2. CASE g_p_mem_pool # 0
    <3>1. AfterInit(t) BY <2>2 DEF InitCheck
    <3>2. QED BY <3>1, AfterInitType
  <2>3. QED BY <2>1, <2>2
<1>2. TypeOK'
  BY <1>1 DEF InitCheck, history, TypeInv, TypeOK
<1>3. QED BY <1>1, <1>2 DEF InitCheck, history, TypeInv
LEMMA InitMallocType ==
  ASSUME TypeInv, NEW t \in Threads, InitMalloc(t)
  PROVE  TypeInv'
<1>1. holder' \in [Slots -> [ticket : Nat, len : Nat]]
  BY DEF InitMalloc, Nobody
<1>2. intact' \in BOOLEAN
  BY DEF InitMalloc
<1>3. pools \in Seq(Pool) /\ Len(pools) \in Nat
  BY DEF TypeInv
<1>4. /\ pc' \in [Threads -> Places]
      /\ pc'[t] = "test" /\ \A u \in Threads \ {t} : pc'[u] = pc[u]
  BY GoToType, PlacesAre DEF InitMalloc
<1>5. /\ pools' \in Seq(Pool) /\ Len(pools) <= Len(pools')
      /\ \A i \in 1 .. Len(pools) : pools'[i] = pools[i]
      /\ \A i \in DOMAIN pools' : PoolType(pools'[i])
      /\ g_p_mem_pool' \in 0 .. Len(pools')
  <2>1. CASE pools' = pools /\ g_p_mem_pool' = 0
    BY <1>3, <2>1 DEF TypeInv, TypeOK
  <2>2. CASE pools' = Append(pools, NewPool(call[t].size)) /\ g_p_mem_pool' = Len(pools) + 1
    <3> DEFINE p == NewPool(call[t].size)
    <3>1. p \in Pool /\ PoolType(p)
      BY NewPoolType DEF TypeInv, CallSet
    <3> HIDE DEF p
    <3>2. /\ pools' \in Seq(Pool) /\ Len(pools') = Len(pools) + 1
          /\ \A i \in 1 .. Len(pools) : pools'[i] = pools[i]
          /\ pools'[Len(pools) + 1] = p
      BY <1>3, <2>2, <3>1, AppendProperties DEF p
    <3>3. DOMAIN pools' = 1 .. Len(pools) + 1 /\ DOMAIN pools = 1 .. Len(pools)
      BY <1>3, <3>2
    <3>4. \A i \in 1 .. Len(pools) : PoolType(pools[i])
      BY <3>3 DEF TypeInv, TypeOK
    <3>5. QED BY <1>3, <2>2, <3>1, <3>2, <3>3, <3>4
  <2>3. QED BY <2>1, <2>2 DEF InitMalloc
<1>6. pool' \in [Threads -> 0 .. Len(pools')]
  BY <1>3, <1>5 DEF InitMalloc, TypeInv, TypeOK
<1>7. TypeOK'
  BY <1>2, <1>4, <1>5, <1>6 DEF InitMalloc, TypeInv, TypeOK
<1>8. QED BY <1>1, <1>4, <1>5, <1>7, TypeRest DEF InitMalloc, TypeInv

LEMMA InitTestType ==
  ASSUME TypeInv, NEW t \in Threads, InitTest(t)
  PROVE  /\ TypeInv' /\ pc'[t] \in {"idle", "enter", "lock"}
         /\ \A u \in Threads \ {t} :
              /\ pc'[u] = pc[u] /\ call'[u] = call[u] /\ pool'[u] = pool[u]
              /\ pos'[u] = pos[u] /\ slot'[u] = slot[u] /\ ticket'[u] = ticket[u]
<1>1. /\ pc' \in [Threads -> Places] /\ call' \in [Threads -> CallSet]
      /\ pool' \in [Threads -> 0 .. Len(pools)] /\ pos' \in [Threads -> -1 .. COUNT - 1]
      /\ slot' \in [Threads -> Slots] /\ ticket' \in [Threads -> Nat]
      /\ pc'[t] \in {"idle", "enter", "lock"}
      /\ \A u \in Threads \ {t} :
           /\ pc'[u] = pc[u] /\ call'[u] = call[u] /\ pool'[u] = pool[u]
           /\ pos'[u] = pos[u] /\ slot'[u] = slot[u] /\ ticket'[u] = ticket[u]
  <2>1. CASE g_p_mem_pool # 0
    <3>1. GoTo(t, "lock") /\ UNCHANGED <<call, pool, pos, slot, ticket>>
      BY <2>1 DEF InitTest
    <3>2. QED BY <3>1, GoToType, PlacesAre DEF TypeInv, TypeOK
  <2>2. CASE g_p_mem_pool = 0
    <3>1. AfterInit(t) BY <2>2 DEF InitTest
    <3>2. QED BY <3>1, AfterInitType
  <2>3. QED BY <2>1, <2>2
<1>2. TypeOK'
  BY <1>1 DEF InitTest, history, TypeInv, TypeOK
<1>3. QED BY <1>1, <1>2 DEF InitTest, history, TypeInv
LEMMA InitLockType ==
  ASSUME TypeInv, NEW t \in Threads, InitLock(t)
  PROVE  TypeInv'
<1>1. "free" \in LockStates
  BY DEF LockStates
<1>2. /\ pools' \in Seq(Pool) /\ Len(pools') = Len(pools) /\ g_p_mem_pool \in 1 .. Len(pools)
      /\ pools'[g_p_mem_pool] = [pools[g_p_mem_pool] EXCEPT !.lock = "free"]
      /\ \A i \in 1 .. Len(pools) : i # g_p_mem_pool => pools'[i] = pools[i]
      /\ \A i \in DOMAIN pools' : PoolType(pools'[i])
  BY <1>1, LocksPool DEF InitLock
<1>3. \A i \in 1 .. Len(pools) : pools'[i].pos = pools[i].pos
  BY <1>2, PoolFields DEF Pool
<1>4. intact' \in BOOLEAN
  BY DEF InitLock
<1>5. AfterInit(t)
  BY DEF InitLock
<1>6. /\ pc' \in [Threads -> Places] /\ call' \in [Threads -> CallSet]
      /\ pool' \in [Threads -> 0 .. Len(pools)] /\ pos' \in [Threads -> -1 .. COUNT - 1]
      /\ slot' \in [Threads -> Slots] /\ ticket' \in [Threads -> Nat]
      /\ pc'[t] \in {"idle", "enter"}
      /\ \A u \in Threads \ {t} : pc'[u] = pc[u] /\ pool'[u] = pool[u]
  BY <1>5, AfterInitType
<1>7. TypeOK'
  BY <1>2, <1>4, <1>6 DEF InitLock, history, TypeInv, TypeOK
<1>8. holder' = holder
  BY DEF InitLock, history
<1>9. Len(pools) \in Nat
  BY DEF TypeInv
<1>10. \A u \in Threads : pc'[u] \in {"write", "slot", "leave", "copy"} =>
        pool'[u] = pool[u] /\ pc'[u] = pc[u]
  BY <1>6
<1>11. Len(pools) <= Len(pools') /\ \A i \in 1 .. Len(pools) : pools[i].pos \in Slots => pools'[i].pos \in Slots
  BY <1>2, <1>3, <1>9
<1>12. QED BY <1>2, <1>6, <1>7, <1>8, <1>10, <1>11, TypeRest DEF TypeInv

LEMMA EnterType ==
  ASSUME TypeInv, NEW t \in Threads, Enter(t)
  PROVE  TypeInv'
<1>1. t \in LockStates
  BY DEF LockStates
<1>2. /\ pools' \in Seq(Pool) /\ Len(pools') = Len(pools)
      /\ \A i \in 1 .. Len(pools) : pools'[i].pos = pools[i].pos
      /\ \A i \in DOMAIN pools' : PoolType(pools'[i])
  <2>1. CASE Locks(t)
    <3>1. /\ pools' \in Seq(Pool) /\ Len(pools') = Len(pools) /\ g_p_mem_pool \in 1 .. Len(pools)
          /\ pools'[g_p_mem_pool] = [pools[g_p_mem_pool] EXCEPT !.lock = t]
          /\ \A i \in 1 .. Len(pools) : i # g_p_mem_pool => pools'[i] = pools[i]
          /\ \A i \in DOMAIN pools' : PoolType(pools'[i])
      BY <1>1, <2>1, LocksPool DEF Enter
    <3>2. pools[g_p_mem_pool] \in Pool
      BY <3>1, PoolFields
    <3>3. QED BY <3>1, <3>2 DEF Pool
  <2>2. CASE pools' = pools
    BY <2>2 DEF TypeInv, TypeOK
  <2>3. QED BY <2>1, <2>2 DEF Enter
<1>3. /\ pc' \in [Threads -> Places]
      /\ pc'[t] = "read" /\ \A u \in Threads \ {t} : pc'[u] = pc[u]
  BY GoToType, PlacesAre DEF Enter
<1>4. intact' \in BOOLEAN
  BY DEF Enter
<1>5. TypeOK'
  BY <1>2, <1>3, <1>4 DEF Enter, history, TypeInv, TypeOK
<1>6. QED BY <1>2, <1>3, <1>5, TypeRest DEF Enter, history, TypeInv

LEMMA ReadPosType ==
  ASSUME TypeInv, NEW t \in Threads, ReadPos(t)
  PROVE  TypeInv'
<1>1. g_p_mem_pool \in 1 .. Len(pools) /\ Len(pools) \in Nat
  BY DEF ReadPos, TypeInv, TypeOK
<1>2. pools[g_p_mem_pool].pos \in -1 .. COUNT - 1
  BY <1>1, PoolFields DEF PoolType
<1>3. /\ pc' \in [Threads -> Places]
      /\ pc'[t] = "write" /\ \A u \in Threads \ {t} : pc'[u] = pc[u]
  BY GoToType, PlacesAre DEF ReadPos
<1>4. /\ pool' \in [Threads -> 0 .. Len(pools)] /\ pool'[t] = g_p_mem_pool
      /\ \A u \in Threads \ {t} : pool'[u] = pool[u]
  BY <1>1 DEF ReadPos, TypeInv, TypeOK
<1>5. pos' \in [Threads -> -1 .. COUNT - 1]
  BY <1>2 DEF ReadPos, TypeInv, TypeOK
<1>6. TypeOK'
  BY <1>3, <1>4, <1>5 DEF ReadPos, history, TypeInv, TypeOK
<1>7. QED BY <1>1, <1>3, <1>4, <1>6, TypeRest DEF ReadPos, history, TypeInv

LEMMA WritePosPool ==
  ASSUME TypeInv, NEW t \in Threads, WritePos(t)
  PROVE  /\ TypeInv' /\ pool[t] \in 1 .. Len(pools) /\ NextPos(pos[t]) \in Slots
         /\ Len(pools') = Len(pools)
         /\ pools'[pool[t]] = [pools[pool[t]] EXCEPT !.pos = NextPos(pos[t])]
         /\ \A i \in 1 .. Len(pools) : i # pool[t] => pools'[i] = pools[i]
         /\ pc'[t] = "slot" /\ \A u \in Threads \ {t} : pc'[u] = pc[u]
<1> DEFINE k == pool[t]
           p == [pools[k] EXCEPT !.pos = NextPos(pos[t])]
<1>1. k \in 1 .. Len(pools) /\ pos[t] \in -1 .. COUNT - 1
  BY DEF WritePos, At, TypeInv, TypeOK
<1>2. NextPos(pos[t]) \in Slots /\ NextPos(pos[t]) \in -1 .. COUNT - 1
  BY <1>1, NextPosType, Constants
<1>3. p \in Pool /\ PoolType(p) /\ p.pos \in Slots
  BY <1>1, <1>2, PoolFields DEF Pool, PoolType
<1>4. pools' = [pools EXCEPT ![k] = p]
  BY DEF WritePos
<1> HIDE DEF p
<1> HIDE DEF k
<1>5. /\ pools' \in Seq(Pool) /\ Len(pools') = Len(pools)
      /\ pools'[k] = p /\ \A i \in 1 .. Len(pools) : i # k => pools'[i] = pools[i]
      /\ \A i \in DOMAIN pools' : PoolType(pools'[i])
  BY <1>1, <1>3, <1>4, PoolReplaced
<1>6. /\ pc' \in [Threads -> Places]
      /\ pc'[t] = "slot" /\ \A u \in Threads \ {t} : pc'[u] = pc[u]
  BY GoToType, PlacesAre DEF WritePos
<1>7. TypeOK'
  BY <1>5, <1>6 DEF WritePos, history, TypeInv, TypeOK
<1>8. \A i \in 1 .. Len(pools) : pools[i].pos \in Slots => pools'[i].pos \in Slots
  BY <1>3, <1>5
<1>9. TypeInv'
  BY <1>1, <1>3, <1>5, <1>6, <1>7, <1>8, TypeRest DEF WritePos, history, TypeInv, k
<1>10. QED BY <1>1, <1>2, <1>5, <1>6, <1>9 DEF p, k

LEMMA TakeSlotType ==
  ASSUME TypeInv, NEW t \in Threads, TakeSlot(t)
  PROVE  /\ TypeInv' /\ pool[t] \in 1 .. Len(pools) /\ pools[pool[t]].pos \in Slots
         /\ slot'[t] = pools[pool[t]].pos /\ ticket'[t] = tickets + 1
         /\ holder'[pools[pool[t]].pos] = [ticket |-> tickets + 1, len |-> call[t].len]
         /\ \A j \in Slots : j # pools[pool[t]].pos => holder'[j] = holder[j]
         /\ pc'[t] = "leave"
         /\ \A u \in Threads \ {t} : pc'[u] = pc[u] /\ slot'[u] = slot[u] /\ ticket'[u] = ticket[u]
<1> DEFINE j == pools[pool[t]].pos
           h == [ticket |-> tickets + 1, len |-> call[t].len]
<1>1. pool[t] \in 1 .. Len(pools) /\ j \in Slots /\ tickets \in Nat
  BY DEF TakeSlot, At, TypeInv, TypeOK
<1>2. h \in [ticket : Nat, len : Nat]
  BY <1>1 DEF TypeInv, CallSet
<1>3. slot' = [slot EXCEPT ![t] = j] /\ holder' = [holder EXCEPT ![j] = h] /\ tickets' = tickets + 1
      /\ ticket' = [ticket EXCEPT ![t] = tickets + 1]
  BY DEF TakeSlot
<1> HIDE DEF j, h
<1>4. /\ slot' \in [Threads -> Slots] /\ holder' \in [Slots -> [ticket : Nat, len : Nat]]
      /\ ticket' \in [Threads -> Nat] /\ tickets' \in Nat
      /\ slot'[t] = j /\ ticket'[t] = tickets + 1 /\ holder'[j] = h
      /\ \A i \in Slots : i # j => holder'[i] = holder[i]
      /\ \A u \in Threads \ {t} : slot'[u] = slot[u] /\ ticket'[u] = ticket[u]
  BY <1>1, <1>2, <1>3 DEF TypeInv, TypeOK
<1>5. /\ pc' \in [Threads -> Places]
      /\ pc'[t] = "leave" /\ \A u \in Threads \ {t} : pc'[u] = pc[u]
  BY GoToType, PlacesAre DEF TakeSlot
<1>6. roomy' \in BOOLEAN
  BY DEF TakeSlot, TypeInv, TypeOK
<1>7. TypeOK'
  BY <1>4, <1>5, <1>6 DEF TakeSlot, TypeInv, TypeOK
<1>8. TypeInv'
  <2>1. pools' = pools /\ call' = call /\ pool' = pool
    BY DEF TakeSlot
  <2>2. \A u \in Threads : pc'[u] \in {"write", "slot", "leave", "copy"} => pool'[u] \in 1 .. Len(pools')
    BY <1>1, <1>5, <2>1 DEF TypeInv
  <2>3. \A u \in Threads : pc'[u] = "slot" => pools'[pool'[u]].pos \in Slots
    BY <1>5, <2>1 DEF TypeInv
  <2>4. QED BY <1>4, <1>7, <2>1, <2>2, <2>3 DEF TypeInv
<1>9. QED BY <1>1, <1>4, <1>5, <1>8 DEF j, h
LEMMA LeavePool ==
  ASSUME TypeInv, NEW t \in Threads, Leave(t)
  PROVE  /\ TypeInv' /\ Len(pools') = Len(pools)
         /\ \A i \in 1 .. Len(pools) : /\ pools'[i].pos = pools[i].pos /\ pools'[i].live = pools[i].live
                                     /\ pools'[i].size = pools[i].size /\ pools'[i].mem = pools[i].mem
         /\ pc'[t] = "copy" /\ \A u \in Threads \ {t} : pc'[u] = pc[u]
<1>1. "free" \in LockStates /\ "stuck" \in LockStates
  BY DEF LockStates
<1>2. /\ pools' \in Seq(Pool) /\ Len(pools') = Len(pools)
      /\ \A i \in 1 .. Len(pools) : /\ pools'[i].pos = pools[i].pos /\ pools'[i].live = pools[i].live
                                  /\ pools'[i].size = pools[i].size /\ pools'[i].mem = pools[i].mem
      /\ \A i \in DOMAIN pools' : PoolType(pools'[i])
  <2>1. ASSUME NEW l \in {"free", "stuck"}, Locks(l)
        PROVE  /\ pools' \in Seq(Pool) /\ Len(pools') = Len(pools)
               /\ \A i \in 1 .. Len(pools) :
                    /\ pools'[i].pos = pools[i].pos /\ pools'[i].live = pools[i].live
                    /\ pools'[i].size = pools[i].size /\ pools'[i].mem = pools[i].mem
               /\ \A i \in DOMAIN pools' : PoolType(pools'[i])
    <3>1. /\ g_p_mem_pool \in 1 .. Len(pools)
          /\ pools' \in Seq(Pool) /\ Len(pools') = Len(pools)
          /\ pools'[g_p_mem_pool] = [pools[g_p_mem_pool] EXCEPT !.lock = l]
          /\ \A i \in 1 .. Len(pools) : i # g_p_mem_pool => pools'[i] = pools[i]
          /\ \A i \in DOMAIN pools' : PoolType(pools'[i])
      BY <1>1, <2>1, LocksPool DEF Leave
    <3>2. pools[g_p_mem_pool] \in Pool
      BY <3>1, PoolFields
    <3>3. QED BY <3>1, <3>2 DEF Pool
  <2>2. CASE pools' = pools
    BY <2>2 DEF TypeInv, TypeOK
  <2>3. QED BY <2>1, <2>2 DEF Leave
<1>3. /\ pc' \in [Threads -> Places]
      /\ pc'[t] = "copy" /\ \A u \in Threads \ {t} : pc'[u] = pc[u]
  BY GoToType, PlacesAre DEF Leave
<1>4. intact' \in BOOLEAN
  BY DEF Leave
<1>5. TypeOK'
  BY <1>2, <1>3, <1>4 DEF Leave, history, TypeInv, TypeOK
<1>6. /\ Len(pools) <= Len(pools')
      /\ \A i \in 1 .. Len(pools) : pools[i].pos \in Slots => pools'[i].pos \in Slots
  <2>1. Len(pools) \in Nat BY DEF TypeInv
  <2>2. QED BY <1>2, <2>1
<1>7. pool' = pool /\ pc[t] = "leave" /\ call' = call /\ holder' = holder
  BY DEF Leave, At, history
<1>8. TypeInv'
  BY <1>2, <1>3, <1>5, <1>6, <1>7, TypeRest DEF TypeInv
<1>9. QED BY <1>2, <1>3, <1>8

LEMMA CopyPool ==
  ASSUME TypeInv, NEW t \in Threads, Copy(t)
  PROVE  LET p == pools[pool[t]]
             q == pools'[pool[t]] IN
         /\ TypeInv' /\ Len(pools') = Len(pools) /\ pool[t] \in 1 .. Len(pools)
         /\ q.size = p.size /\ q.pos = p.pos /\ q.lock = p.lock /\ q.live = p.live
         /\ q.mem = Copied(p.mem, slot[t] * p.size, call[t].len, ticket[t])
         /\ \A i \in 1 .. Len(pools) : i # pool[t] => pools'[i] = pools[i]
         /\ pc'[t] = "idle"
         /\ \A u \in Threads \ {t} :
              /\ pc'[u] = pc[u] /\ call'[u] = call[u] /\ pool'[u] = pool[u]
              /\ pos'[u] = pos[u] /\ slot'[u] = slot[u] /\ ticket'[u] = ticket[u]
<1> DEFINE k == pool[t]
           p == pools[k]
           q == [p EXCEPT !.mem = Copied(p.mem, slot[t] * p.size, call[t].len, ticket[t])]
<1>1. k \in 1 .. Len(pools) /\ ticket[t] \in Nat
  BY DEF Copy, At, TypeInv, TypeOK
<1>2. p \in Pool /\ PoolType(p)
  BY <1>1, PoolFields
<1>3. pools' = [pools EXCEPT ![k] = q]
  BY DEF Copy, Copied
<1> HIDE DEF p
<1>4. /\ q \in Pool /\ PoolType(q) /\ q.size = p.size /\ q.pos = p.pos
      /\ q.lock = p.lock /\ q.live = p.live
      /\ q.mem = Copied(p.mem, slot[t] * p.size, call[t].len, ticket[t])
  <2> DEFINE f == slot[t] * p.size
             n == call[t].len
             m == ticket[t]
  <2> HIDE DEF f, n, m
  <2>1. p \in Pool /\ PoolType(p) /\ m \in Nat
    BY <1>1, <1>2 DEF m
  <2>2. LET r == [p EXCEPT !.mem = Copied(p.mem, f, n, m)] IN
        /\ r \in Pool /\ PoolType(r) /\ r.size = p.size /\ r.pos = p.pos
        /\ r.lock = p.lock /\ r.live = p.live /\ r.mem = Copied(p.mem, f, n, m)
    BY <2>1, CopiedPool
  <2>3. QED BY <2>2 DEF f, n, m
<1> HIDE DEF q, k
<1>5. /\ pools' \in Seq(Pool) /\ Len(pools') = Len(pools)
      /\ pools'[k] = q /\ \A i \in 1 .. Len(pools) : i # k => pools'[i] = pools[i]
      /\ \A i \in DOMAIN pools' : PoolType(pools'[i])
  BY <1>1, <1>3, <1>4, PoolReplaced
<1>6. /\ pc' \in [Threads -> Places] /\ call' \in [Threads -> CallSet]
      /\ pool' \in [Threads -> 0 .. Len(pools)] /\ pos' \in [Threads -> -1 .. COUNT - 1]
      /\ slot' \in [Threads -> Slots] /\ ticket' \in [Threads -> Nat]
      /\ pc'[t] = "idle"
      /\ \A u \in Threads \ {t} :
           /\ pc'[u] = pc[u] /\ call'[u] = call[u] /\ pool'[u] = pool[u]
           /\ pos'[u] = pos[u] /\ slot'[u] = slot[u] /\ ticket'[u] = ticket[u]
  BY ReturnType DEF Copy
<1>7. roomy' \in BOOLEAN /\ done' \subseteq Nat /\ holder' = holder
  BY <1>1 DEF Copy, TypeInv, TypeOK
<1>8. TypeOK'
  BY <1>5, <1>6, <1>7 DEF Copy, TypeInv, TypeOK
<1>9. /\ Len(pools) <= Len(pools')
      /\ \A i \in 1 .. Len(pools) : pools[i].pos \in Slots => pools'[i].pos \in Slots
  <2>1. Len(pools) \in Nat BY DEF TypeInv
  <2>2. QED BY <1>4, <1>5, <2>1 DEF p
<1>10. TypeInv'
  BY <1>5, <1>6, <1>7, <1>8, <1>9, TypeRest DEF TypeInv
<1>11. QED BY <1>1, <1>4, <1>5, <1>6, <1>10 DEF p, k

LEMMA DeleteType ==
  ASSUME TypeInv, NEW t \in Threads, Delete(t)
  PROVE  TypeInv'
<1> DEFINE g == g_p_mem_pool
           p == [pools[g] EXCEPT !.live = FALSE]
<1>1. g \in 1 .. Len(pools)
  BY DEF Delete, TypeInv, TypeOK
<1>2. p \in Pool /\ PoolType(p) /\ p.pos = pools[g].pos
  BY <1>1, PoolFields DEF Pool, PoolType
<1>3. pools' = [pools EXCEPT ![g] = p]
  BY DEF Delete, Freed
<1> HIDE DEF p
<1>4. /\ pools' \in Seq(Pool) /\ Len(pools') = Len(pools)
      /\ pools'[g] = p /\ \A i \in 1 .. Len(pools) : i # g => pools'[i] = pools[i]
      /\ \A i \in DOMAIN pools' : PoolType(pools'[i])
  BY <1>1, <1>2, <1>3, PoolReplaced
<1>5. calls' \in 0 .. MaxCalls
  BY PoolAssumption DEF Delete, TypeInv, TypeOK
<1>6. TypeOK'
  BY <1>4, <1>5 DEF Delete, local, history, TypeInv, TypeOK
<1>7. /\ Len(pools) <= Len(pools')
      /\ \A i \in 1 .. Len(pools) : pools[i].pos \in Slots => pools'[i].pos \in Slots
  <2>1. Len(pools) \in Nat BY DEF TypeInv
  <2>2. QED BY <1>2, <1>4, <2>1
<1>8. QED BY <1>4, <1>6, <1>7, TypeRest DEF Delete, local, history, TypeInv

LEMMA StepType == TypeInv /\ [Next]_vars => TypeInv'
<1> SUFFICES ASSUME TypeInv, [Next]_vars PROVE TypeInv'
  OBVIOUS
<1>1. ASSUME NEW t \in Threads, Crash(t) PROVE TypeInv'
  BY <1>1 DEF Crash, local, history, TypeInv, TypeOK
<1>2. CASE UNCHANGED vars
  BY <1>2 DEF vars, local, history, TypeInv, TypeOK
<1>3. QED
  BY <1>1, <1>2, CallType, InitCheckType, InitMallocType, InitTestType, InitLockType, EnterType, ReadPosType,
     WritePosPool, TakeSlotType, LeavePool, CopyPool, DeleteType DEF Next, Step

(* Every state has its type (InitMemoryPool to DeleteMemoryPool).          *)
THEOREM TypeCorrect == Spec => []TypeOK
<1>1. TypeInv => TypeOK
  BY DEF TypeInv
<1>2. QED BY <1>1, InitType, StepType, PTL DEF Spec

------------------------------------------------------------------------------
(* Turns. As long as the pool was made once, a thread between Enter and    *)
(* Leave owns its lock; the position is that of the last slot handed out,  *)
(* or, between the write of the position and its second read, of the next. *)
Inside == {"read", "write", "slot", "leave"}
LastPos == IF tickets = 0 THEN -1 ELSE (tickets - 1) % COUNT

OnePool == g_p_mem_pool = Len(pools) /\ Len(pools) \in {0, 1}
NoneYet == g_p_mem_pool = 0 => tickets = 0
Owned(t) == pc[t] \in Inside => g_p_mem_pool = 1 /\ pools[1].lock = t
ReadRight(t) == pc[t] = "write" => pos[t] = pools[1].pos
PosIsLast == g_p_mem_pool = 1 /\ (\A t \in Threads : pc[t] # "slot") => pools[1].pos = LastPos
PosIsNext(t) == pc[t] = "slot" => pools[1].pos = tickets % COUNT
Turn(t) == pc[t] \in {"leave", "copy"} => ticket[t] >= 1 /\ slot[t] = (ticket[t] - 1) % COUNT

TurnInv ==
  intact => /\ OnePool /\ NoneYet /\ PosIsLast
            /\ \A t \in Threads : Owned(t) /\ ReadRight(t) /\ PosIsNext(t) /\ Turn(t)

LEMMA TurnInit == Init => TurnInv
<1> SUFFICES ASSUME Init PROVE TurnInv
  OBVIOUS
<1>1. Len(pools) = 0
  BY EmptySeq DEF Init
<1>2. QED
  BY <1>1 DEF Init, TurnInv, OnePool, NoneYet, PosIsLast, Owned, ReadRight, PosIsNext, Turn, Inside

(* After LastPos comes the next position.                                  *)
LEMMA AfterLast == ASSUME TypeInv PROVE NextPos(LastPos) = tickets % COUNT
<1>1. tickets \in Nat
  BY DEF TypeInv, TypeOK
<1>2. CASE tickets = 0
  BY <1>1, <1>2, NextInTurn DEF LastPos
<1>3. CASE tickets # 0
  <2>1. tickets - 1 \in Nat /\ (tickets - 1) + 1 = tickets
    BY <1>1, <1>3
  <2>2. NextPos((tickets - 1) % COUNT) = ((tickets - 1) + 1) % COUNT
    BY <2>1, NextInTurn
  <2>3. QED BY <1>3, <2>1, <2>2 DEF LastPos
<1>4. QED BY <1>2, <1>3

(* A thread that owns the lock is the only one inside.                     *)
LEMMA Alone ==
  ASSUME TurnInv, intact, NEW t \in Threads, pc[t] \in Inside
  PROVE  /\ g_p_mem_pool = 1 /\ Len(pools) = 1 /\ pools[1].lock = t
         /\ \A u \in Threads \ {t} : pc[u] \notin Inside
BY DEF TurnInv, OnePool, Owned

(* A step outside that leaves the position and the lock of the pool alone. *)
LEMMA TurnOutside ==
  ASSUME TypeInv, TurnInv, NEW t \in Threads, intact' => intact,
         g_p_mem_pool' = g_p_mem_pool, tickets' = tickets, Len(pools') = Len(pools),
         \A i \in 1 .. Len(pools) : pools'[i].pos = pools[i].pos /\ pools'[i].lock = pools[i].lock,
         pc[t] # "slot", pc'[t] \notin Inside \union {"copy"},
         \A u \in Threads \ {t} :
           pc'[u] = pc[u] /\ pos'[u] = pos[u] /\ slot'[u] = slot[u] /\ ticket'[u] = ticket[u]
  PROVE  TurnInv'
<1> SUFFICES ASSUME intact' PROVE TurnInv'
  BY DEF TurnInv
<1>1. /\ OnePool /\ NoneYet /\ PosIsLast
      /\ \A u \in Threads : Owned(u) /\ ReadRight(u) /\ PosIsNext(u) /\ Turn(u)
  BY DEF TurnInv
<1>2. OnePool' /\ NoneYet'
  BY <1>1 DEF OnePool, NoneYet
<1>3. g_p_mem_pool = 1 => pools'[1].pos = pools[1].pos /\ pools'[1].lock = pools[1].lock
  BY <1>1 DEF OnePool
<1>4. PosIsLast'
  BY <1>1, <1>3 DEF PosIsLast, LastPos
<1>5. ASSUME NEW u \in Threads PROVE (Owned(u) /\ ReadRight(u) /\ PosIsNext(u) /\ Turn(u))'
  <2>1. CASE u = t
    BY <2>1 DEF Owned, ReadRight, PosIsNext, Turn, Inside
  <2>2. CASE u # t
    BY <1>1, <1>3, <2>2 DEF Owned, ReadRight, PosIsNext, Turn, Inside
  <2>3. QED BY <2>1, <2>2
<1>6. QED BY <1>2, <1>4, <1>5 DEF TurnInv

LEMMA TurnMalloc ==
  ASSUME TypeInv, TurnInv, NEW t \in Threads, InitMalloc(t)
  PROVE  TurnInv'
<1> SUFFICES ASSUME intact' PROVE TurnInv'
  BY DEF TurnInv
<1>1. intact /\ g_p_mem_pool = 0 /\ Len(pools) = 0 /\ tickets = 0 /\ tickets' = tickets
  BY DEF InitMalloc, TurnInv, OnePool, NoneYet
<1>2. \A u \in Threads : pc[u] \notin Inside
  BY <1>1 DEF TurnInv, Owned
<1>3. pc'[t] = "test" /\ \A u \in Threads \ {t} : pc'[u] = pc[u]
  BY GoToType, PlacesAre DEF InitMalloc
<1>4. CASE g_p_mem_pool' = 0 /\ pools' = pools
  <2>1. pc[t] = "malloc"
    BY DEF InitMalloc, At
  <2>2. QED BY <1>1, <1>3, <1>4, <2>1, TurnOutside DEF Inside, InitMalloc
<1>5. CASE pools' = Append(pools, NewPool(call[t].size)) /\ g_p_mem_pool' = Len(pools) + 1
  <2> DEFINE p == NewPool(call[t].size)
  <2>1. p \in Pool
    BY NewPoolType DEF TypeInv, CallSet
  <2>2. p.pos = -1
    BY DEF NewPool
  <2>3. pools \in Seq(Pool) /\ pools' = Append(pools, p)
    BY <1>5 DEF TypeInv
  <2> HIDE DEF p
  <2>4. Len(pools') = 1 /\ pools'[1] = p
    BY <1>1, <2>1, <2>3, AppendProperties
  <2>5. g_p_mem_pool' = 1
    BY <1>1, <1>5
  <2>6. \A u \in Threads : pc'[u] \notin Inside
    BY <1>2, <1>3 DEF Inside
  <2>7. OnePool' /\ NoneYet' /\ PosIsLast'
    BY <1>1, <2>2, <2>4, <2>5 DEF OnePool, NoneYet, PosIsLast, LastPos
  <2>8. ASSUME NEW u \in Threads PROVE (Owned(u) /\ ReadRight(u) /\ PosIsNext(u) /\ Turn(u))'
    <3>1. pc'[u] = "copy" => pc[u] = "copy" /\ slot'[u] = slot[u] /\ ticket'[u] = ticket[u]
      BY <1>3 DEF InitMalloc
    <3>2. Turn(u)
      BY <1>1 DEF TurnInv
    <3>3. QED BY <2>6, <3>1, <3>2 DEF Owned, ReadRight, PosIsNext, Turn, Inside
  <2>9. QED BY <2>7, <2>8 DEF TurnInv
<1>6. QED BY <1>4, <1>5 DEF InitMalloc

(* The lock of the one pool is replaced; the thread that does so is the    *)
(* only one inside, before or after.                                       *)
LEMMA TurnLocks ==
  ASSUME TypeInv, TurnInv, intact, NEW t \in Threads, NEW l \in LockStates, Locks(l),
         g_p_mem_pool = 1, g_p_mem_pool' = g_p_mem_pool, tickets' = tickets,
         \A u \in Threads \ {t} : pc[u] \notin Inside,
         pc[t] # "slot", pc'[t] \notin {"write", "slot", "leave"},
         pc'[t] = "read" => l = t,
         pc'[t] = "copy" => pc[t] = "leave" /\ slot'[t] = slot[t] /\ ticket'[t] = ticket[t],
         \A u \in Threads \ {t} :
           pc'[u] = pc[u] /\ pos'[u] = pos[u] /\ slot'[u] = slot[u] /\ ticket'[u] = ticket[u]
  PROVE  TurnInv'
<1>1. /\ OnePool /\ NoneYet /\ PosIsLast
      /\ \A u \in Threads : Owned(u) /\ ReadRight(u) /\ PosIsNext(u) /\ Turn(u)
  BY DEF TurnInv
<1>2. /\ Len(pools') = Len(pools) /\ 1 \in 1 .. Len(pools)
      /\ pools'[1] = [pools[1] EXCEPT !.lock = l]
  BY LocksPool
<1>3. pools'[1].pos = pools[1].pos /\ pools'[1].lock = l
  BY <1>2, PoolFields DEF Pool
<1>4. OnePool' /\ NoneYet'
  BY <1>1, <1>2 DEF OnePool, NoneYet
<1>5. PosIsLast'
  <2>1. \A u \in Threads : pc[u] # "slot"
    BY DEF Inside
  <2>2. QED BY <1>1, <1>3, <2>1 DEF PosIsLast, LastPos
<1>6. ASSUME NEW u \in Threads PROVE (Owned(u) /\ ReadRight(u) /\ PosIsNext(u) /\ Turn(u))'
  <2>1. CASE u = t
    <3>1. Turn(u)'
      BY <1>1, <2>1 DEF Turn
    <3>2. QED BY <1>3, <2>1, <3>1 DEF Owned, ReadRight, PosIsNext, Inside
  <2>2. CASE u # t
    <3>1. pc'[u] \notin Inside
      BY <2>2
    <3>2. Turn(u)'
      BY <1>1, <2>2 DEF Turn
    <3>3. QED BY <3>1, <3>2 DEF Owned, ReadRight, PosIsNext, Inside
  <2>3. QED BY <2>1, <2>2
<1>7. QED BY <1>4, <1>5, <1>6 DEF TurnInv

LEMMA TurnInitLock ==
  ASSUME TypeInv, TurnInv, NEW t \in Threads, InitLock(t)
  PROVE  TurnInv'
<1> SUFFICES ASSUME intact' PROVE TurnInv'
  BY DEF TurnInv
<1>1. intact /\ g_p_mem_pool = 1 /\ pools[1].lock = "raw" /\ Locks("free") /\ pc[t] = "lock"
  BY DEF InitLock, At, TurnInv, OnePool
<1>2. \A u \in Threads : pc[u] \notin Inside
  BY <1>1, Constants DEF TurnInv, Owned
<1>3. /\ pc'[t] \in {"idle", "enter"}
      /\ \A u \in Threads \ {t} :
           pc'[u] = pc[u] /\ pos'[u] = pos[u] /\ slot'[u] = slot[u] /\ ticket'[u] = ticket[u]
  BY AfterInitType DEF InitLock
<1>4. g_p_mem_pool' = g_p_mem_pool /\ tickets' = tickets /\ "free" \in LockStates
  BY DEF InitLock, history, LockStates
<1>5. QED BY <1>1, <1>2, <1>3, <1>4, TurnLocks

LEMMA TurnEnter ==
  ASSUME TypeInv, TurnInv, NEW t \in Threads, Enter(t)
  PROVE  TurnInv'
<1> SUFFICES ASSUME intact' PROVE TurnInv'
  BY DEF TurnInv
<1>1. intact /\ g_p_mem_pool = 1 /\ pools[1].lock = "free" /\ Locks(t) /\ pc[t] = "enter"
  BY DEF Enter, At, TurnInv, OnePool
<1>2. \A u \in Threads : pc[u] \notin Inside
  BY <1>1, Constants DEF TurnInv, Owned
<1>3. pc'[t] = "read" /\ \A u \in Threads \ {t} : pc'[u] = pc[u]
  BY GoToType, PlacesAre DEF Enter
<1>4. g_p_mem_pool' = g_p_mem_pool /\ tickets' = tickets /\ t \in LockStates
      /\ pos' = pos /\ slot' = slot /\ ticket' = ticket
  BY DEF Enter, history, LockStates
<1>5. QED BY <1>1, <1>2, <1>3, <1>4, TurnLocks

LEMMA TurnLeave ==
  ASSUME TypeInv, TurnInv, NEW t \in Threads, Leave(t)
  PROVE  TurnInv'
<1> SUFFICES ASSUME intact' PROVE TurnInv'
  BY DEF TurnInv
<1>1. intact /\ pc[t] = "leave"
  BY DEF Leave, At
<1>2. g_p_mem_pool = 1 /\ pools[1].lock = t /\ \A u \in Threads \ {t} : pc[u] \notin Inside
  BY <1>1, Alone DEF Inside
<1>3. Locks("free")
  BY <1>2, Constants DEF Leave
<1>4. pc'[t] = "copy" /\ \A u \in Threads \ {t} : pc'[u] = pc[u]
  BY GoToType, PlacesAre DEF Leave
<1>5. g_p_mem_pool' = g_p_mem_pool /\ tickets' = tickets /\ "free" \in LockStates
      /\ pos' = pos /\ slot' = slot /\ ticket' = ticket
  BY DEF Leave, history, LockStates
<1>6. QED BY <1>1, <1>2, <1>3, <1>4, <1>5, TurnLocks

LEMMA TurnReadPos ==
  ASSUME TypeInv, TurnInv, NEW t \in Threads, ReadPos(t)
  PROVE  TurnInv'
<1> SUFFICES ASSUME intact' PROVE TurnInv'
  BY DEF TurnInv
<1>1. intact /\ pc[t] = "read"
  BY DEF ReadPos, At
<1>2. g_p_mem_pool = 1 /\ pools[1].lock = t /\ \A u \in Threads \ {t} : pc[u] \notin Inside
  BY <1>1, Alone DEF Inside
<1>3. pc'[t] = "write" /\ \A u \in Threads \ {t} : pc'[u] = pc[u]
  BY GoToType, PlacesAre DEF ReadPos
<1>4. pos'[t] = pools[1].pos
  BY <1>2 DEF ReadPos, TypeInv, TypeOK
<1>5. /\ g_p_mem_pool' = g_p_mem_pool /\ pools' = pools /\ tickets' = tickets
      /\ slot' = slot /\ ticket' = ticket
  BY DEF ReadPos, history
<1>6. /\ OnePool /\ NoneYet /\ PosIsLast /\ \A u \in Threads : Turn(u)
  BY <1>1 DEF TurnInv
<1>7. OnePool' /\ NoneYet'
  BY <1>5, <1>6 DEF OnePool, NoneYet
<1>8. PosIsLast'
  <2>1. \A u \in Threads : pc[u] # "slot"
    BY <1>1, <1>2 DEF Inside
  <2>2. QED BY <1>5, <1>6, <2>1 DEF PosIsLast, LastPos
<1>9. ASSUME NEW u \in Threads PROVE (Owned(u) /\ ReadRight(u) /\ PosIsNext(u) /\ Turn(u))'
  <2>1. CASE u = t
    BY <1>2, <1>3, <1>4, <1>5, <2>1 DEF Owned, ReadRight, PosIsNext, Turn, Inside
  <2>2. CASE u # t
    BY <1>2, <1>3, <1>5, <1>6, <2>2 DEF Owned, ReadRight, PosIsNext, Turn, Inside
  <2>3. QED BY <2>1, <2>2
<1>10. QED BY <1>7, <1>8, <1>9 DEF TurnInv

LEMMA TurnWritePos ==
  ASSUME TypeInv, TurnInv, NEW t \in Threads, WritePos(t)
  PROVE  TurnInv'
<1> SUFFICES ASSUME intact' PROVE TurnInv'
  BY DEF TurnInv
<1>1. intact /\ pc[t] = "write"
  BY DEF WritePos, At
<1>2. /\ g_p_mem_pool = 1 /\ Len(pools) = 1 /\ pools[1].lock = t
      /\ \A u \in Threads \ {t} : pc[u] \notin Inside
  BY <1>1, Alone DEF Inside
<1>3. /\ OnePool /\ NoneYet /\ PosIsLast /\ ReadRight(t) /\ \A u \in Threads : Turn(u)
  BY <1>1 DEF TurnInv
<1>4. /\ pool[t] \in 1 .. Len(pools) /\ Len(pools') = Len(pools)
      /\ pools'[pool[t]] = [pools[pool[t]] EXCEPT !.pos = NextPos(pos[t])]
      /\ pc'[t] = "slot" /\ \A u \in Threads \ {t} : pc'[u] = pc[u]
  BY WritePosPool
<1>5. pool[t] = 1
  BY <1>2, <1>4
<1>6. pools'[1].pos = NextPos(pos[t]) /\ pools'[1].lock = t
  BY <1>2, <1>4, <1>5, PoolFields DEF Pool
<1>7. pos[t] = LastPos
  <2>1. \A u \in Threads : pc[u] # "slot"
    BY <1>1, <1>2 DEF Inside
  <2>2. QED BY <1>1, <1>2, <1>3, <2>1 DEF PosIsLast, ReadRight
<1>8. /\ g_p_mem_pool' = g_p_mem_pool /\ tickets' = tickets /\ slot' = slot /\ ticket' = ticket
  BY DEF WritePos, history
<1>9. pools'[1].pos = tickets' % COUNT
  BY <1>6, <1>7, <1>8, AfterLast
<1>10. OnePool' /\ NoneYet' /\ PosIsLast'
  BY <1>3, <1>4, <1>8 DEF OnePool, NoneYet, PosIsLast
<1>11. ASSUME NEW u \in Threads PROVE (Owned(u) /\ ReadRight(u) /\ PosIsNext(u) /\ Turn(u))'
  <2>1. CASE u = t
    BY <1>2, <1>4, <1>6, <1>8, <1>9, <2>1 DEF Owned, ReadRight, PosIsNext, Turn, Inside
  <2>2. CASE u # t
    BY <1>2, <1>3, <1>4, <1>8, <2>2 DEF Owned, ReadRight, PosIsNext, Turn, Inside
  <2>3. QED BY <2>1, <2>2
<1>12. QED BY <1>10, <1>11 DEF TurnInv

(* The position is one of the pool in use: the one the thread has read.    *)
LEMMA SamePool ==
  ASSUME TypeInv, TurnInv, intact, NEW t \in Threads, pc[t] \in {"write", "slot", "leave", "copy"}
  PROVE  pool[t] = 1 /\ g_p_mem_pool = 1 /\ Len(pools) = 1
<1>1. pool[t] \in 1 .. Len(pools) /\ Len(pools) \in {0, 1} /\ g_p_mem_pool = Len(pools)
  BY DEF TypeInv, TurnInv, OnePool
<1>2. QED BY <1>1

LEMMA TurnTakeSlot ==
  ASSUME TypeInv, TurnInv, NEW t \in Threads, TakeSlot(t)
  PROVE  TurnInv'
<1> SUFFICES ASSUME intact' PROVE TurnInv'
  BY DEF TurnInv
<1>1. intact /\ pc[t] = "slot"
  BY DEF TakeSlot, At
<1>2. /\ g_p_mem_pool = 1 /\ Len(pools) = 1 /\ pools[1].lock = t /\ pool[t] = 1
      /\ \A u \in Threads \ {t} : pc[u] \notin Inside
  BY <1>1, Alone, SamePool DEF Inside
<1>3. /\ OnePool /\ NoneYet /\ PosIsNext(t) /\ \A u \in Threads : Turn(u)
  BY <1>1 DEF TurnInv
<1>4. /\ slot'[t] = pools[pool[t]].pos /\ ticket'[t] = tickets + 1 /\ pc'[t] = "leave"
      /\ \A u \in Threads \ {t} : pc'[u] = pc[u] /\ slot'[u] = slot[u] /\ ticket'[u] = ticket[u]
  BY TakeSlotType
<1>5. /\ g_p_mem_pool' = g_p_mem_pool /\ pools' = pools /\ pos' = pos /\ tickets' = tickets + 1
  BY DEF TakeSlot
<1>6. tickets \in Nat /\ (tickets + 1) - 1 = tickets /\ tickets + 1 >= 1 /\ tickets + 1 # 0
  BY DEF TypeInv, TypeOK
<1>7. pools[1].pos = tickets % COUNT
  BY <1>1, <1>3 DEF PosIsNext
<1>8. OnePool' /\ NoneYet' /\ PosIsLast'
  BY <1>2, <1>3, <1>5, <1>6, <1>7 DEF OnePool, NoneYet, PosIsLast, LastPos
<1>9. ASSUME NEW u \in Threads PROVE (Owned(u) /\ ReadRight(u) /\ PosIsNext(u) /\ Turn(u))'
  <2>1. CASE u = t
    BY <1>2, <1>4, <1>5, <1>6, <1>7, <2>1 DEF Owned, ReadRight, PosIsNext, Turn, Inside
  <2>2. CASE u # t
    BY <1>2, <1>3, <1>4, <1>5, <2>2 DEF Owned, ReadRight, PosIsNext, Turn, Inside
  <2>3. QED BY <2>1, <2>2
<1>10. QED BY <1>8, <1>9 DEF TurnInv

LEMMA TurnStep == TypeInv /\ TurnInv /\ [Next]_vars => TurnInv'
<1> SUFFICES ASSUME TypeInv, TurnInv, [Next]_vars PROVE TurnInv'
  OBVIOUS
<1>1. ASSUME NEW t \in Threads, NEW fun \in {"Ret", "Init", "Work"}, NEW size \in Sizes,
             NEW len \in 1 .. size, Call(t, fun, size, len)
      PROVE  TurnInv'
  <2>1. \E place \in {"enter", "init"} : GoTo(t, place)
    BY <1>1 DEF Call
  <2>2. pc[t] = "idle" /\ pc'[t] \in {"enter", "init"} /\ \A u \in Threads \ {t} : pc'[u] = pc[u]
    BY <1>1, <2>1, GoToType, PlacesAre DEF Call, At
  <2>3. QED BY <1>1, <2>2, TurnOutside DEF Call, history, Inside
<1>2. ASSUME NEW t \in Threads, InitCheck(t) PROVE TurnInv'
  <2>1. /\ pc'[t] \in {"idle", "enter", "malloc"}
        /\ \A u \in Threads \ {t} :
             pc'[u] = pc[u] /\ pos'[u] = pos[u] /\ slot'[u] = slot[u] /\ ticket'[u] = ticket[u]
    BY <1>2, InitCheckType
  <2>2. /\ g_p_mem_pool' = g_p_mem_pool /\ pools' = pools /\ tickets' = tickets
        /\ intact' = intact /\ pc[t] = "init"
    BY <1>2 DEF InitCheck, At, history
  <2>3. QED BY <2>1, <2>2, TurnOutside DEF Inside
<1>3. ASSUME NEW t \in Threads, Copy(t) PROVE TurnInv'
  <2>1. /\ Len(pools') = Len(pools) /\ pool[t] \in 1 .. Len(pools)
        /\ pools'[pool[t]].pos = pools[pool[t]].pos /\ pools'[pool[t]].lock = pools[pool[t]].lock
        /\ \A i \in 1 .. Len(pools) : i # pool[t] => pools'[i] = pools[i]
        /\ pc'[t] = "idle"
        /\ \A u \in Threads \ {t} :
             pc'[u] = pc[u] /\ pos'[u] = pos[u] /\ slot'[u] = slot[u] /\ ticket'[u] = ticket[u]
    BY <1>3, CopyPool
  <2>2. \A i \in 1 .. Len(pools) : pools'[i].pos = pools[i].pos /\ pools'[i].lock = pools[i].lock
    BY <2>1
  <2>3. g_p_mem_pool' = g_p_mem_pool /\ tickets' = tickets /\ intact' = intact /\ pc[t] = "copy"
    BY <1>3 DEF Copy, At
  <2>4. QED BY <2>1, <2>2, <2>3, TurnOutside DEF Inside
<1>4. ASSUME NEW t \in Threads, Delete(t) PROVE TurnInv'
  BY <1>4 DEF Delete, TurnInv
<1>5. CASE UNCHANGED <<g_p_mem_pool, pools, pc, pos, slot, ticket, tickets, intact>>
  BY <1>5 DEF TurnInv, OnePool, NoneYet, PosIsLast, LastPos, Owned, ReadRight, PosIsNext, Turn
<1>6. ASSUME NEW t \in Threads, Crash(t) PROVE TurnInv'
  BY <1>5, <1>6 DEF Crash, local, history
<1>7. CASE UNCHANGED vars
  BY <1>5, <1>7 DEF vars, local, history
<1>8. ASSUME NEW t \in Threads, InitTest(t) PROVE TurnInv'
  <2>1. /\ pc'[t] \in {"idle", "enter", "lock"}
        /\ \A u \in Threads \ {t} :
             pc'[u] = pc[u] /\ pos'[u] = pos[u] /\ slot'[u] = slot[u] /\ ticket'[u] = ticket[u]
    BY <1>8, InitTestType
  <2>2. /\ g_p_mem_pool' = g_p_mem_pool /\ pools' = pools /\ tickets' = tickets
        /\ intact' = intact /\ pc[t] = "test"
    BY <1>8 DEF InitTest, At, history
  <2>3. QED BY <2>1, <2>2, TurnOutside DEF Inside
<1>9. QED
  BY <1>1, <1>2, <1>3, <1>4, <1>6, <1>7, <1>8, TurnMalloc, TurnInitLock, TurnEnter, TurnReadPos,
     TurnWritePos, TurnTakeSlot, TurnLeave DEF Next, Step

(* The slots go out in turn, whichever threads ask for them (the position  *)
(* advanced under the lock, WorkMemoryPool).                               *)
THEOREM SlotsInTurn == Spec => []InTurn
<1>1. TurnInv => InTurn
  BY DEF TurnInv, InTurn, Turn
<1>2. QED BY <1>1, InitType, StepType, TurnInit, TurnStep, PTL DEF Spec

------------------------------------------------------------------------------
(* Strings. A thread between TakeSlot and Copy is the holder of its slot,  *)
(* with a ticket nobody else has and that is not done yet; the string of a *)
(* done ticket fits its slot, so that no other slot's copy reaches it.     *)
Pending(t) == pc[t] \in {"leave", "copy"}

DoneGiven == \A d \in done : d >= 1 /\ d <= tickets
HeldInTurn(j) ==
  holder[j].ticket # 0 => holder[j].ticket <= tickets /\ (holder[j].ticket - 1) % COUNT = j
Holds(t) ==
  Pending(t) => /\ ticket[t] \notin done /\ ticket[t] <= tickets
                /\ holder[slot[t]] = [ticket |-> ticket[t], len |-> call[t].len]
OwnTickets == \A t, u \in Threads : Pending(t) /\ Pending(u) /\ t # u => ticket[t] # ticket[u]
Stands(j) ==
  holder[j].ticket \in done /\ g_p_mem_pool # 0 =>
    LET p == pools[g_p_mem_pool] IN
    /\ holder[j].len <= p.size
    /\ \A c \in 0 .. holder[j].len - 1 : p.mem[j * p.size + c] = holder[j].ticket

StandInv ==
  intact /\ roomy =>
    /\ DoneGiven /\ OwnTickets
    /\ \A j \in Slots : HeldInTurn(j) /\ Stands(j)
    /\ \A t \in Threads : Holds(t)

LEMMA StandInit == Init => StandInv
BY DEF Init, StandInv, DoneGiven, OwnTickets, HeldInTurn, Stands, Holds, Pending, Nobody

(* A step that hands out no slot and copies nothing.                       *)
LEMMA StandKept ==
  ASSUME TypeInv, TurnInv, StandInv, intact' => intact, roomy' => roomy,
         tickets' = tickets, done' = done, holder' = holder,
         g_p_mem_pool' = g_p_mem_pool,
         g_p_mem_pool = 1 => pools'[1].mem = pools[1].mem /\ pools'[1].size = pools[1].size,
         \A u \in Threads : pc'[u] \in {"leave", "copy"} =>
           pc[u] \in {"leave", "copy"}
           /\ slot'[u] = slot[u] /\ ticket'[u] = ticket[u] /\ call'[u] = call[u]
  PROVE  StandInv'
<1> SUFFICES ASSUME intact', roomy' PROVE StandInv'
  BY DEF StandInv
<1>1. /\ DoneGiven /\ OwnTickets /\ \A j \in Slots : HeldInTurn(j) /\ Stands(j)
      /\ \A u \in Threads : Holds(u)
  BY DEF StandInv
<1>2. g_p_mem_pool \in {0, 1}
  BY DEF TurnInv, OnePool
<1>3. DoneGiven'
  BY <1>1 DEF DoneGiven
<1>4. OwnTickets'
  BY <1>1 DEF OwnTickets, Pending
<1>5. ASSUME NEW j \in Slots PROVE HeldInTurn(j)'
  BY <1>1 DEF HeldInTurn
<1>6. ASSUME NEW j \in Slots PROVE Stands(j)'
  BY <1>1, <1>2 DEF Stands
<1>7. ASSUME NEW u \in Threads PROVE Holds(u)'
  BY <1>1 DEF Holds, Pending
<1>8. QED BY <1>3, <1>4, <1>5, <1>6, <1>7 DEF StandInv

LEMMA StandMalloc ==
  ASSUME TypeInv, TurnInv, StandInv, NEW t \in Threads, InitMalloc(t)
  PROVE  StandInv'
<1> SUFFICES ASSUME intact', roomy' PROVE StandInv'
  BY DEF StandInv
<1>1. intact /\ roomy /\ g_p_mem_pool = 0 /\ tickets = 0 /\ tickets' = tickets /\ done' = done
      /\ holder' = [j \in Slots |-> Nobody]
  BY DEF InitMalloc, TurnInv, NoneYet
<1>2. done = {}
  <2>1. \A d \in done : d \in Nat
    BY DEF TypeInv, TypeOK
  <2>2. DoneGiven
    BY <1>1 DEF StandInv
  <2>3. QED BY <1>1, <2>1, <2>2 DEF DoneGiven
<1>3. \A u \in Threads : pc[u] \notin {"leave", "copy"}
  BY <1>1, SamePool
<1>4. \A u \in Threads : ~Pending(u)'
  BY <1>3, GoToType, PlacesAre DEF InitMalloc, Pending
<1>5. DoneGiven' /\ OwnTickets' /\ \A u \in Threads : Holds(u)'
  BY <1>1, <1>2, <1>4 DEF DoneGiven, OwnTickets, Holds
<1>6. ASSUME NEW j \in Slots PROVE HeldInTurn(j)' /\ Stands(j)'
  BY <1>1, <1>2 DEF HeldInTurn, Stands, Nobody
<1>7. QED BY <1>5, <1>6 DEF StandInv

LEMMA StandTakeSlot ==
  ASSUME TypeInv, TurnInv, StandInv, NEW t \in Threads, TakeSlot(t)
  PROVE  StandInv'
<1> SUFFICES ASSUME intact', roomy' PROVE StandInv'
  BY DEF StandInv
<1> DEFINE j == pools[pool[t]].pos
<1>1. /\ intact /\ roomy /\ pc[t] = "slot" /\ holder[j].ticket \in done \union {0}
      /\ g_p_mem_pool' = g_p_mem_pool /\ pools' = pools /\ call' = call
      /\ done' = done /\ tickets' = tickets + 1
  BY DEF TakeSlot, At
<1>2. /\ j \in Slots /\ slot'[t] = j /\ ticket'[t] = tickets + 1
      /\ holder'[j] = [ticket |-> tickets + 1, len |-> call[t].len]
      /\ \A i \in Slots : i # j => holder'[i] = holder[i]
      /\ pc'[t] = "leave"
      /\ \A u \in Threads \ {t} : pc'[u] = pc[u] /\ slot'[u] = slot[u] /\ ticket'[u] = ticket[u]
  BY TakeSlotType
<1>3. j = tickets % COUNT
  <2>1. pool[t] = 1
    BY <1>1, SamePool
  <2>2. PosIsNext(t)
    BY <1>1 DEF TurnInv
  <2>3. QED BY <1>1, <2>1, <2>2 DEF PosIsNext
<1> HIDE DEF j
<1>4. /\ DoneGiven /\ OwnTickets /\ \A i \in Slots : HeldInTurn(i) /\ Stands(i)
      /\ \A u \in Threads : Holds(u)
  BY <1>1 DEF StandInv
<1>5. /\ tickets \in Nat /\ (tickets + 1) - 1 = tickets /\ \A d \in done : d \in Nat
      /\ \A u \in Threads : ticket[u] \in Nat
      /\ \A i \in Slots : holder[i].ticket \in Nat
  BY DEF TypeInv, TypeOK
<1>6. DoneGiven' /\ tickets + 1 \notin done
  BY <1>1, <1>4, <1>5 DEF DoneGiven
<1>7. ASSUME NEW u \in Threads, Pending(u), u # t
      PROVE  ticket[u] # tickets + 1 /\ slot[u] # j
  <2>1. Holds(u) /\ Turn(u)
    BY <1>1, <1>4 DEF TurnInv
  <2>2. /\ ticket[u] \notin done /\ ticket[u] <= tickets /\ ticket[u] >= 1
        /\ holder[slot[u]].ticket = ticket[u]
    BY <1>7, <2>1 DEF Holds, Turn, Pending
  <2>3. QED BY <1>1, <1>5, <2>2
<1>8. OwnTickets'
  <2> SUFFICES ASSUME NEW u \in Threads, NEW w \in Threads, Pending(u)', Pending(w)', u # w
               PROVE  ticket'[u] # ticket'[w]
    BY DEF OwnTickets
  <2>1. CASE u = t
    BY <1>2, <1>7, <2>1 DEF Pending
  <2>2. CASE w = t
    BY <1>2, <1>7, <2>2 DEF Pending
  <2>3. CASE u # t /\ w # t
    BY <1>2, <1>4, <2>3 DEF Pending, OwnTickets
  <2>4. QED BY <2>1, <2>2, <2>3
<1>9. ASSUME NEW i \in Slots PROVE HeldInTurn(i)' /\ Stands(i)'
  <2>1. CASE i = j
    BY <1>1, <1>2, <1>3, <1>5, <1>6, <2>1 DEF HeldInTurn, Stands
  <2>2. CASE i # j
    BY <1>1, <1>2, <1>4, <1>5, <2>2 DEF HeldInTurn, Stands
  <2>3. QED BY <2>1, <2>2
<1>10. ASSUME NEW u \in Threads PROVE Holds(u)'
  <2>1. CASE u = t
    BY <1>1, <1>2, <1>5, <1>6, <2>1 DEF Holds
  <2>2. CASE u # t
    <3> SUFFICES ASSUME Pending(u)' PROVE Holds(u)'
      BY DEF Holds
    <3>1. Pending(u)
      BY <1>2, <2>2 DEF Pending
    <3>2. slot[u] # j /\ slot[u] \in Slots
      BY <1>7, <2>2, <3>1 DEF TypeInv, TypeOK
    <3>3. holder'[slot'[u]] = holder[slot[u]] /\ ticket'[u] = ticket[u] /\ call'[u] = call[u]
      BY <1>1, <1>2, <2>2, <3>2
    <3>4. QED BY <1>1, <1>4, <1>5, <3>1, <3>3 DEF Holds
  <2>3. QED BY <2>1, <2>2
<1>11. QED BY <1>6, <1>8, <1>9, <1>10 DEF StandInv

(* Slots of the same size do not overlap, and lie in the allocation.       *)
LEMMA SlotCells ==
  ASSUME NEW size \in Nat, NEW i \in Slots, NEW j \in Slots, NEW c \in Nat, c < size
  PROVE  /\ j * size + c \in Cells(size)
         /\ \A len \in Nat : len <= size /\ i # j => j * size + c \notin i * size .. i * size + len - 1
<1>1. COUNT \in Nat /\ SLACK \in Nat /\ i \in Nat /\ j \in Nat /\ i < COUNT /\ j < COUNT
  BY Constants DEF Slots
<1>2. ASSUME NEW a \in Nat, NEW b \in Nat, a < b PROVE a * size + size <= b * size
  <2>1. b * size = a * size + (b - a) * size /\ b - a >= 1
    BY <1>2
  <2>2. (b - a) * size >= size
    BY <1>2
  <2>3. QED BY <1>2, <2>1, <2>2
<1>3. j * size \in Nat /\ i * size \in Nat /\ COUNT * size \in Nat
  BY <1>1
<1>4. j * size + size <= COUNT * size
  BY <1>1, <1>2
<1>5. i < j => i * size + size <= j * size
  BY <1>1, <1>2
<1>6. j < i => j * size + size <= i * size
  BY <1>1, <1>2
<1> DEFINE first == j * size
           other == i * size
           all == COUNT * size
<1>7. first \in Nat /\ other \in Nat /\ all \in Nat /\ first + size <= all
      /\ (i < j => other + size <= first) /\ (j < i => first + size <= other)
  BY <1>3, <1>4, <1>5, <1>6
<1> HIDE DEF first, other, all
<1>8. first + c \in 0 .. all + SLACK - 1
  BY <1>1, <1>7
<1>9. \A len \in Nat : len <= size /\ i # j => first + c \notin other .. other + len - 1
  BY <1>1, <1>7
<1>10. QED BY <1>8, <1>9 DEF first, other, all, Cells

LEMMA StandCopy ==
  ASSUME TypeInv, TurnInv, StandInv, NEW t \in Threads, Copy(t)
  PROVE  StandInv'
<1> SUFFICES ASSUME intact', roomy' PROVE StandInv'
  BY DEF StandInv
<1> DEFINE p == pools[1]
           q == pools'[1]
<1>1. /\ intact /\ roomy /\ pc[t] = "copy"
      /\ g_p_mem_pool' = g_p_mem_pool /\ tickets' = tickets /\ holder' = holder
      /\ done' = done \union {ticket[t]} /\ call[t].len <= pools[pool[t]].size
  BY DEF Copy, At
<1>2. pool[t] = 1 /\ g_p_mem_pool = 1 /\ Len(pools) = 1
  BY <1>1, SamePool
<1>3. /\ q.size = p.size /\ q.mem = Copied(p.mem, slot[t] * p.size, call[t].len, ticket[t])
      /\ pc'[t] = "idle"
      /\ \A u \in Threads \ {t} :
           pc'[u] = pc[u] /\ call'[u] = call[u] /\ slot'[u] = slot[u] /\ ticket'[u] = ticket[u]
  BY <1>2, CopyPool
<1>4. /\ DoneGiven /\ OwnTickets /\ \A i \in Slots : HeldInTurn(i) /\ Stands(i)
      /\ \A u \in Threads : Holds(u)
  BY <1>1 DEF StandInv
<1>5. /\ slot[t] \in Slots /\ ticket[t] \in Nat /\ call[t].len \in Nat /\ tickets \in Nat
      /\ \A i \in Slots : holder[i].ticket \in Nat /\ holder[i].len \in Nat
  BY DEF TypeInv, TypeOK, CallSet
<1>6. /\ ticket[t] >= 1 /\ slot[t] = (ticket[t] - 1) % COUNT
      /\ ticket[t] <= tickets /\ holder[slot[t]] = [ticket |-> ticket[t], len |-> call[t].len]
  <2>1. Turn(t) /\ Holds(t)
    BY <1>1, <1>4 DEF TurnInv
  <2>2. QED BY <1>1, <2>1 DEF Turn, Holds, Pending
<1>7. p.size \in Nat /\ p.mem \in [Cells(p.size) -> Nat] /\ call[t].len <= p.size
  BY <1>1, <1>2, PoolFields DEF PoolType
<1>8. DoneGiven'
  BY <1>1, <1>4, <1>6 DEF DoneGiven
<1>9. OwnTickets'
  BY <1>3, <1>4 DEF OwnTickets, Pending
<1>10. ASSUME NEW u \in Threads PROVE Holds(u)'
  BY <1>1, <1>3, <1>4, <1>10 DEF Holds, Pending, OwnTickets
<1>11. ASSUME NEW i \in Slots PROVE HeldInTurn(i)'
  BY <1>1, <1>4 DEF HeldInTurn
<1> DEFINE first == slot[t] * p.size
           n == call[t].len
<1>12. \A c \in Cells(p.size) :
         q.mem[c] = IF c \in first .. first + n - 1 THEN ticket[t] ELSE p.mem[c]
  BY <1>3, <1>7 DEF Copied
<1>13. ASSUME NEW i \in Slots PROVE Stands(i)'
  <2> SUFFICES ASSUME holder[i].ticket \in done \union {ticket[t]}
               PROVE  /\ holder[i].len <= p.size
                      /\ \A c \in 0 .. holder[i].len - 1 : q.mem[i * p.size + c] = holder[i].ticket
    BY <1>1, <1>2, <1>3 DEF Stands
  <2>1. CASE i = slot[t]
    <3>1. holder[i].len = n /\ holder[i].ticket = ticket[t] /\ n <= p.size
      BY <1>6, <1>7, <2>1
    <3>2. ASSUME NEW c \in 0 .. n - 1 PROVE q.mem[i * p.size + c] = ticket[t]
      <4>1. c \in Nat /\ c < n /\ c < p.size
        BY <1>5, <1>7
      <4>2. first + c \in Cells(p.size)
        BY <1>5, <1>7, <4>1, SlotCells
      <4>3. first \in Nat
        BY <1>5, <1>7, Constants
      <4> HIDE DEF first, n
      <4>4. first + c \in first .. first + n - 1
        BY <1>5, <4>1, <4>3 DEF n
      <4>5. q.mem[first + c] = ticket[t]
        BY <1>12, <4>2, <4>4
      <4>6. QED BY <2>1, <4>5 DEF first
    <3>3. QED BY <3>1, <3>2
  <2>2. CASE i # slot[t]
    <3>1. holder[i].ticket # ticket[t]
      BY <1>4, <1>5, <1>6, <2>2 DEF HeldInTurn
    <3>2. /\ holder[i].len <= p.size
          /\ \A c \in 0 .. holder[i].len - 1 : p.mem[i * p.size + c] = holder[i].ticket
      BY <1>2, <1>4, <3>1 DEF Stands
    <3>3. ASSUME NEW c \in 0 .. holder[i].len - 1
          PROVE  q.mem[i * p.size + c] = p.mem[i * p.size + c]
      <4>1. c \in Nat /\ c < p.size
        BY <1>5, <1>7, <3>2
      <4>2. i * p.size + c \in Cells(p.size) /\ i * p.size + c \notin first .. first + n - 1
        BY <1>5, <1>7, <2>2, <4>1, SlotCells
      <4>3. QED BY <1>12, <4>2
    <3>4. QED BY <3>2, <3>3
  <2>3. QED BY <2>1, <2>2
<1>14. QED BY <1>8, <1>9, <1>10, <1>11, <1>13 DEF StandInv

LEMMA LocksContents ==
  ASSUME TypeInv, NEW l \in LockStates, Locks(l), g_p_mem_pool = 1
  PROVE  pools'[1].mem = pools[1].mem /\ pools'[1].size = pools[1].size
<1>1. 1 \in 1 .. Len(pools) /\ pools'[1] = [pools[1] EXCEPT !.lock = l]
  BY LocksPool
<1>2. pools[1] \in Pool
  BY <1>1, PoolFields
<1>3. QED BY <1>1, <1>2 DEF Pool

LEMMA StandStep == TypeInv /\ TurnInv /\ StandInv /\ [Next]_vars => StandInv'
<1> SUFFICES ASSUME TypeInv, TurnInv, StandInv, [Next]_vars PROVE StandInv'
  OBVIOUS
<1>1. ASSUME NEW t \in Threads, NEW fun \in {"Ret", "Init", "Work"}, NEW size \in Sizes,
             NEW len \in 1 .. size, Call(t, fun, size, len)
      PROVE  StandInv'
  <2>1. \E place \in {"enter", "init"} : GoTo(t, place)
    BY <1>1 DEF Call
  <2>2. pc'[t] \in {"enter", "init"} /\ \A u \in Threads \ {t} : pc'[u] = pc[u] /\ call'[u] = call[u]
    BY <1>1, <2>1, GoToType, PlacesAre DEF Call, TypeInv
  <2>3. QED BY <1>1, <2>2, StandKept DEF Call, history
<1>2. ASSUME NEW t \in Threads, InitCheck(t) PROVE StandInv'
  BY <1>2, InitCheckType, StandKept DEF InitCheck, history
<1>3. ASSUME NEW t \in Threads, InitLock(t) PROVE StandInv'
  <2>1. "free" \in LockStates
    BY DEF LockStates
  <2>2. g_p_mem_pool = 1 => pools'[1].mem = pools[1].mem /\ pools'[1].size = pools[1].size
    BY <1>3, <2>1, LocksContents DEF InitLock
  <2>3. QED BY <1>3, <2>2, AfterInitType, StandKept DEF InitLock, history
<1>4. ASSUME NEW t \in Threads, Enter(t) PROVE StandInv'
  <2>1. t \in LockStates
    BY DEF LockStates
  <2>2. g_p_mem_pool = 1 => pools'[1].mem = pools[1].mem /\ pools'[1].size = pools[1].size
    BY <1>4, <2>1, LocksContents DEF Enter
  <2>3. \A u \in Threads : pc'[u] \in {"leave", "copy"} => pc[u] \in {"leave", "copy"}
    BY <1>4, GoToType, PlacesAre DEF Enter
  <2>4. QED BY <1>4, <2>2, <2>3, StandKept DEF Enter, history
<1>5. ASSUME NEW t \in Threads, ReadPos(t) PROVE StandInv'
  <2>1. \A u \in Threads : pc'[u] \in {"leave", "copy"} => pc[u] \in {"leave", "copy"}
    BY <1>5, GoToType, PlacesAre DEF ReadPos
  <2>2. QED BY <1>5, <2>1, StandKept DEF ReadPos, history
<1>6. ASSUME NEW t \in Threads, WritePos(t) PROVE StandInv'
  <2>1. /\ pool[t] \in 1 .. Len(pools)
        /\ pools'[pool[t]] = [pools[pool[t]] EXCEPT !.pos = NextPos(pos[t])]
        /\ \A i \in 1 .. Len(pools) : i # pool[t] => pools'[i] = pools[i]
        /\ pc'[t] = "slot" /\ \A u \in Threads \ {t} : pc'[u] = pc[u]
    BY <1>6, WritePosPool
  <2>2. \A i \in 1 .. Len(pools) : pools'[i].mem = pools[i].mem /\ pools'[i].size = pools[i].size
    BY <2>1, PoolFields DEF Pool
  <2>3. g_p_mem_pool \in 0 .. Len(pools)
    BY DEF TypeInv, TypeOK
  <2>4. g_p_mem_pool = 1 => pools'[1].mem = pools[1].mem /\ pools'[1].size = pools[1].size
    BY <2>2, <2>3 DEF TypeInv
  <2>5. QED BY <1>6, <2>1, <2>4, StandKept DEF WritePos, history
<1>7. ASSUME NEW t \in Threads, Leave(t) PROVE StandInv'
  <2>1. /\ \A i \in 1 .. Len(pools) : pools'[i].size = pools[i].size /\ pools'[i].mem = pools[i].mem
        /\ pc'[t] = "copy" /\ \A u \in Threads \ {t} : pc'[u] = pc[u]
    BY <1>7, LeavePool
  <2>2. g_p_mem_pool \in 0 .. Len(pools) /\ Len(pools) \in Nat
    BY DEF TypeInv, TypeOK
  <2>3. g_p_mem_pool = 1 => pools'[1].mem = pools[1].mem /\ pools'[1].size = pools[1].size
    BY <2>1, <2>2
  <2>4. pc[t] = "leave"
    BY <1>7 DEF Leave, At
  <2>5. QED BY <1>7, <2>1, <2>3, <2>4, StandKept DEF Leave, history
<1>8. ASSUME NEW t \in Threads, Delete(t) PROVE StandInv'
  BY <1>8 DEF Delete, StandInv
<1>9. ASSUME NEW t \in Threads, Crash(t) PROVE StandInv'
  BY <1>9, StandKept DEF Crash, local, history
<1>10. CASE UNCHANGED vars
  BY <1>10, StandKept DEF vars, local, history
<1>11. ASSUME NEW t \in Threads, InitTest(t) PROVE StandInv'
  BY <1>11, InitTestType, StandKept DEF InitTest, history
<1>12. QED
  BY <1>1, <1>2, <1>11, <1>3, <1>4, <1>5, <1>6, <1>7, <1>8, <1>9, <1>10, StandMalloc, StandTakeSlot,
     StandCopy DEF Next, Step

(* While no string is longer than the slots and none comes late, the       *)
(* string of a slot's last holder stands in it (memcpy of                  *)
(* RetStrFromMemoryPool, outside the lock).                                *)
THEOREM StringsStand == Spec => []StringStands
<1>1. StandInv => StringStands
  BY DEF StandInv, Stands, StringStands
<1>2. QED BY <1>1, InitType, StepType, TurnInit, TurnStep, StandInit, StandStep, PTL DEF Spec
==============================================================================
