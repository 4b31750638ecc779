---------------------------- MODULE MsgQueueProofs ----------------------------
(***************************************************************************)
(* Proofs about MsgQueue for any processes, users, counts and sizes: it is *)
(* type correct, no push exceeds the number of messages asked for, and the *)
(* queue is first in, first out.                                           *)
(***************************************************************************)
EXTENDS MsgQueue, TLAPS

LEMMA InitType == Init => TypeOK
BY DEF Init, TypeOK, NoTmp, Default, OK

LEMMA ReturnType ==
  ASSUME TypeOK, NEW p \in Procs, NEW r \in Int, NEW s \in Nat, Return(p, r, s)
  PROVE  /\ ret' \in [Procs -> [value : Int, size : Nat]]
         /\ pc' \in [Procs -> {"idle", "stat", "set"}]
         /\ tmp' \in [Procs -> [id : Nat, n : Nat]]
BY DEF TypeOK, Return, NoTmp

LEMMA MsgGetType ==
  ASSUME TypeOK, NEW p \in Procs, MsgGet(p)
  PROVE  /\ qid' \in Nat /\ nq' \in Nat /\ owner' \in {User[q] : q \in Procs} \union {None}
         /\ qbytes' \in Nat /\ msgs' \in Seq(Message) /\ asked' \in Nat \union {Default}
<1>1. CASE qid = 0
  <2>1. owner' = User[p] /\ msgs' = <<>> /\ qbytes' = MSGMNB /\ asked' = Default
        /\ nq' = nq + 1 /\ qid' = nq + 1
    BY <1>1 DEF MsgGet
  <2>2. <<>> \in Seq(Message) OBVIOUS
  <2>3. QED BY <2>1, <2>2, SizeAssumption DEF TypeOK
<1>2. CASE qid # 0
  BY <1>2 DEF TypeOK, MsgGet, queue
<1>3. QED BY <1>1, <1>2

LEMMA StepType == TypeOK /\ [Next]_vars => TypeOK'
<1> SUFFICES ASSUME TypeOK, [Next]_vars PROVE TypeOK'
  OBVIOUS
<1>a. OK \in Int /\ Failure \in Int /\ 0 \in Nat
  BY DEF OK, Failure
<1>1. ASSUME NEW p \in Procs, NEW n \in Counts, CreateGet(p, n) PROVE TypeOK'
  <2>1. n \in Nat BY CallAssumption
  <2>2. QED BY <1>1, <2>1, MsgGetType DEF CreateGet, TypeOK
<1>2. ASSUME NEW p \in Procs, CreateStat(p) PROVE TypeOK'
  <2>1. CASE tmp[p].id = qid
    BY <1>2, <2>1 DEF CreateStat, TypeOK, queue
  <2>2. CASE tmp[p].id # qid
    <3>1. Return(p, Failure, 0) BY <1>2, <2>2 DEF CreateStat
    <3>2. QED BY <1>2, <1>a, <3>1, ReturnType DEF CreateStat, TypeOK, queue
  <2>3. QED BY <2>1, <2>2
<1>3. ASSUME NEW p \in Procs, CreateSet(p) PROVE TypeOK'
  <2>1. CASE tmp[p].id = qid /\ MaySet(p, SizeofMsg * tmp[p].n)
    <3>1. /\ Return(p, OK, 0)
          /\ qbytes' = SizeofMsg * tmp[p].n /\ asked' = tmp[p].n
          /\ handle' = [handle EXCEPT ![p] = tmp[p].id]
      BY <1>3, <2>1 DEF CreateSet
    <3>2. tmp[p].n \in Nat /\ tmp[p].id \in Nat
      BY DEF TypeOK
    <3>3. SizeofMsg * tmp[p].n \in Nat
      BY <3>2, SizeAssumption
    <3>4. QED BY <1>3, <1>a, <3>1, <3>2, <3>3, ReturnType DEF CreateSet, TypeOK
  <2>2. CASE ~(tmp[p].id = qid /\ MaySet(p, SizeofMsg * tmp[p].n))
    <3>1. Return(p, Failure, 0) /\ UNCHANGED <<qbytes, asked, handle>>
      BY <1>3, <2>2 DEF CreateSet
    <3>2. QED BY <1>3, <1>a, <3>1, ReturnType DEF CreateSet, TypeOK
  <2>3. QED BY <2>1, <2>2
<1>4. ASSUME NEW p \in Procs, GetMsgQueue(p) PROVE TypeOK'
  <2>1. Return(p, OK, 0) BY <1>4 DEF GetMsgQueue
  <2>2. QED BY <1>4, <1>a, <2>1, ReturnType, MsgGetType DEF GetMsgQueue, TypeOK
<1>5. ASSUME NEW p \in Procs, DeleteMsgQueue(p) PROVE TypeOK'
  <2>1. CASE handle[p] = qid /\ Owns(p)
    <3>1. <<>> \in Seq(Message) OBVIOUS
    <3>2. Return(p, OK, 0) BY <1>5, <2>1 DEF DeleteMsgQueue
    <3>3. QED BY <1>5, <1>a, <2>1, <3>1, <3>2, ReturnType DEF DeleteMsgQueue, TypeOK
  <2>2. CASE ~(handle[p] = qid /\ Owns(p))
    <3>1. Return(p, Failure, 0) BY <1>5, <2>2 DEF DeleteMsgQueue
    <3>2. QED BY <1>5, <1>a, <2>2, <3>1, ReturnType DEF DeleteMsgQueue, TypeOK, queue
  <2>3. QED BY <2>1, <2>2
<1>6. ASSUME NEW p \in Procs, GetMsgNumInQueue(p) PROVE TypeOK'
  <2>1. \E r \in Int : Return(p, r, 0)
    BY <1>6, <1>a DEF GetMsgNumInQueue, TypeOK
  <2>2. QED BY <1>6, <2>1, <1>a, ReturnType DEF GetMsgNumInQueue, TypeOK, queue
<1>7. ASSUME NEW p \in Procs, NEW d \in Data, NEW s \in PushSizes, PushMsgQueue(p, d, s)
      PROVE TypeOK'
  <2>1. s \in Nat /\ s \in Int BY CallAssumption
  <2>2. \E r \in {s, Failure} : Return(p, r, 0)
    BY <1>7 DEF PushMsgQueue
  <2>3. msgs' \in Seq(Message)
    <3>1. [data |-> d, size |-> s] \in Message BY DEF Message
    <3>2. msgs' = msgs \/ msgs' = Append(msgs, [data |-> d, size |-> s])
      BY <1>7 DEF PushMsgQueue
    <3>3. msgs \in Seq(Message) BY DEF TypeOK
    <3>4. QED BY <3>1, <3>2, <3>3
  <2>4. QED BY <1>7, <1>a, <2>1, <2>2, <2>3, ReturnType DEF PushMsgQueue, TypeOK
<1>8. ASSUME NEW p \in Procs, NEW s \in PopSizes, PopMsgQueue(p, s) PROVE TypeOK'
  <2>1. s \in Nat /\ s \in Int BY CallAssumption
  <2>2. \E r \in {s, Failure} : Return(p, r, s)
    BY <1>8 DEF PopMsgQueue
  <2>3. UNCHANGED msgs \/ (msgs # <<>> /\ msgs' = Tail(msgs))
    BY <1>8 DEF PopMsgQueue
  <2>4. msgs' \in Seq(Message)
    <3>1. msgs \in Seq(Message) BY DEF TypeOK
    <3>2. QED BY <2>3, <3>1
  <2>5. got' = got \/ (msgs # <<>> /\ got' = [got EXCEPT ![p] = Head(msgs)])
    BY <1>8 DEF PopMsgQueue
  <2>6. got' \in [Procs -> Message \union {None}]
    <3>1. msgs \in Seq(Message) /\ got \in [Procs -> Message \union {None}]
      BY DEF TypeOK
    <3>2. msgs # <<>> => Head(msgs) \in Message
      BY <3>1
    <3>3. QED BY <2>5, <3>1, <3>2
  <2>7. QED BY <1>8, <1>a, <2>1, <2>2, <2>4, <2>6, ReturnType DEF PopMsgQueue, TypeOK
<1>9. CASE UNCHANGED vars
  BY <1>9 DEF vars, queue, procs, TypeOK
<1>10. QED
  BY <1>1, <1>2, <1>3, <1>4, <1>5, <1>6, <1>7, <1>8, <1>9 DEF Next, ProcStep

(* Every variable always has a value the program and the kernel can give   *)
(* it.                                                                     *)
THEOREM TypeCorrect == Spec => []TypeOK
BY InitType, StepType, PTL DEF Spec

------------------------------------------------------------------------------
(* The limit of the queue is what the last Create asked for, or the        *)
(* kernel's.                                                               *)
LimitInv == qbytes <= IF asked = Default THEN MSGMNB ELSE SizeofMsg * asked

LEMMA LimitStep == TypeOK /\ LimitInv /\ [Next]_vars => LimitInv'
<1> SUFFICES ASSUME TypeOK, LimitInv, [Next]_vars PROVE LimitInv'
  OBVIOUS
<1>1. CASE UNCHANGED <<qbytes, asked>>
  BY <1>1 DEF LimitInv
<1>2. ASSUME NEW p \in Procs, MsgGet(p) PROVE LimitInv'
  BY <1>2, SizeAssumption DEF MsgGet, LimitInv, queue
<1>3. ASSUME NEW p \in Procs, CreateSet(p) PROVE LimitInv'
  <2>1. CASE UNCHANGED <<qbytes, asked>> BY <1>1, <2>1
  <2>2. CASE qbytes' = SizeofMsg * tmp[p].n /\ asked' = tmp[p].n /\ pc[p] = "set"
    <3>1. tmp[p].n \in Nat
      BY DEF TypeOK
    <3>2. SizeofMsg * tmp[p].n \in Nat /\ tmp[p].n # Default
      BY <3>1, SizeAssumption DEF Default
    <3>3. QED BY <2>2, <3>2 DEF LimitInv
  <2>3. QED BY <1>3, <2>1, <2>2 DEF CreateSet
<1>4. ASSUME NEW p \in Procs, DeleteMsgQueue(p) PROVE LimitInv'
  BY <1>1, <1>4, SizeAssumption DEF DeleteMsgQueue, LimitInv, queue
<1>5. QED
  BY <1>1, <1>2, <1>3, <1>4
     DEF Next, ProcStep, CreateGet, CreateStat, GetMsgQueue, GetMsgNumInQueue, PushMsgQueue, PopMsgQueue,
         vars, queue

LEMMA Limit == Spec => []LimitInv
<1>1. Init => LimitInv BY SizeAssumption DEF Init, LimitInv
<1>2. QED BY <1>1, LimitStep, TypeCorrect, PTL DEF Spec

(* k messages of MSG_BUFF_MAX bytes fit into n times SizeofMsg: k <= n     *)
(* when the excess of n messages is less than one message.                 *)
LEMMA FitsCount ==
  ASSUME NEW k \in Nat, NEW n \in Nat, k * MSG_BUFF_MAX <= SizeofMsg * n,
         (SizeofMsg - MSG_BUFF_MAX) * n < MSG_BUFF_MAX
  PROVE  k <= n
<1>1. SizeofMsg * n = (SizeofMsg - MSG_BUFF_MAX) * n + MSG_BUFF_MAX * n
  BY SizeAssumption
<1>2. k * MSG_BUFF_MAX < (n + 1) * MSG_BUFF_MAX
  BY <1>1, SizeAssumption
<1>3. QED BY <1>2, SizeAssumption

LEMMA FitsDefault ==
  ASSUME NEW k \in Nat, k * MSG_BUFF_MAX <= MSGMNB
  PROVE  k <= MSGMNB \div MSG_BUFF_MAX
BY SizeAssumption

LEMMA StepCapacity ==
  TypeOK /\ LimitInv /\ [Next]_vars =>
    [Len(msgs') > Len(msgs) /\ (asked # Default => PreciseCount) => Len(msgs') <= Capacity]_vars
<1> SUFFICES ASSUME TypeOK, LimitInv, [Next]_vars,
                    Len(msgs') > Len(msgs), asked # Default => PreciseCount
             PROVE  Len(msgs') <= Capacity
  OBVIOUS
<1>1. PICK p \in Procs, d \in Data, s \in PushSizes :
        PushMsgQueue(p, d, s) /\ msgs' # msgs
  <2>1. \A m \in Seq(Message) : m # <<>> => Len(Tail(m)) <= Len(m)
    OBVIOUS
  <2>2. msgs \in Seq(Message) /\ Len(msgs) \in Nat /\ Len(<<>>) = 0 /\ msgs' # msgs
    BY DEF TypeOK
  <2>3. msgs' # <<>> /\ ~(msgs # <<>> /\ msgs' = Tail(msgs))
    BY <2>1, <2>2
  <2>4. QED
    BY <2>2, <2>3
       DEF Next, ProcStep, CreateGet, MsgGet, CreateStat, CreateSet, GetMsgQueue, DeleteMsgQueue,
           GetMsgNumInQueue, PopMsgQueue, vars, queue
<1>2. HasRoom /\ msgs' = Append(msgs, [data |-> d, size |-> s])
  BY <1>1 DEF PushMsgQueue
<1>3. Len(msgs') = Len(msgs) + 1 /\ Len(msgs) \in Nat
  BY <1>1, <1>2 DEF TypeOK, Message
<1>4. Len(msgs') * MSG_BUFF_MAX <= qbytes
  BY <1>2, <1>3 DEF HasRoom
<1>5. CASE asked = Default
  <2>1. Len(msgs') * MSG_BUFF_MAX <= MSGMNB
    BY <1>3, <1>4, <1>5, SizeAssumption DEF LimitInv, TypeOK
  <2>2. QED BY <1>3, <1>5, <2>1, FitsDefault DEF Capacity
<1>6. CASE asked # Default
  <2>1. asked \in Nat BY <1>6, CallAssumption DEF TypeOK
  <2>2. Len(msgs') * MSG_BUFF_MAX <= SizeofMsg * asked
    BY <1>3, <1>4, <1>6, <2>1, SizeAssumption DEF LimitInv, TypeOK
  <2>3. QED BY <1>3, <1>6, <2>1, <2>2, FitsCount DEF Capacity, PreciseCount
<1>7. QED BY <1>5, <1>6

(* No push exceeds the number of messages the last Create asked for, as    *)
(* long as that number is precise in the kernel's unit.                    *)
THEOREM CapacityHolds == Spec => PushWithinCapacity
BY StepCapacity, TypeCorrect, Limit, PTL DEF Spec, PushWithinCapacity

------------------------------------------------------------------------------
(* A queue that does not exist has no messages. *)
NoQueue == qid = 0 => msgs = <<>>

LEMMA StepNoQueue == TypeOK /\ NoQueue /\ [Next]_vars => NoQueue'
<1> SUFFICES ASSUME TypeOK, NoQueue, [Next]_vars PROVE NoQueue'
  OBVIOUS
<1>1. ASSUME NEW p \in Procs, MsgGet(p) PROVE NoQueue'
  BY <1>1 DEF MsgGet, NoQueue, queue, TypeOK
<1>2. ASSUME NEW p \in Procs, CreateStat(p) \/ CreateSet(p) \/ DeleteMsgQueue(p) \/ GetMsgNumInQueue(p)
      PROVE  NoQueue'
  BY <1>2 DEF CreateStat, CreateSet, DeleteMsgQueue, GetMsgNumInQueue, NoQueue, queue
<1>3. ASSUME NEW p \in Procs, NEW d \in Data, NEW s \in PushSizes, PushMsgQueue(p, d, s) PROVE NoQueue'
  <2>1. CASE msgs' = msgs
    BY <1>3, <2>1 DEF PushMsgQueue, NoQueue
  <2>2. CASE msgs' # msgs
    BY <1>3, <2>2 DEF PushMsgQueue, NoQueue
  <2>3. QED BY <2>1, <2>2
<1>4. ASSUME NEW p \in Procs, NEW s \in PopSizes, PopMsgQueue(p, s) PROVE NoQueue'
  BY <1>4 DEF PopMsgQueue, NoQueue
<1>5. QED
  BY <1>1, <1>2, <1>3, <1>4 DEF Next, ProcStep, CreateGet, GetMsgQueue, vars, queue, NoQueue

LEMMA ReturnSays ==
  ASSUME TypeOK, NEW p \in Procs, NEW r, NEW s, Return(p, r, s)
  PROVE  ret'[p].value = r
BY DEF TypeOK, Return

LEMMA StepFifo == TypeOK /\ NoQueue /\ [Next]_vars => [Fifo!Next]_<<msgs, got>>
<1> SUFFICES ASSUME TypeOK, NoQueue, [Next]_vars PROVE [Fifo!Next]_<<msgs, got>>
  OBVIOUS
<1> USE DEF Fifo!Next
<1>1. CASE UNCHANGED <<msgs, got>>
  BY <1>1
<1>2. OK # Failure
  BY DEF OK, Failure
<1>3. ASSUME NEW p \in Procs, MsgGet(p), got' = got PROVE [Fifo!Next]_<<msgs, got>>
  BY <1>1, <1>3 DEF MsgGet, NoQueue, queue
<1>4. ASSUME NEW p \in Procs, DeleteMsgQueue(p) PROVE [Fifo!Next]_<<msgs, got>>
  <2>1. CASE msgs' = <<>> /\ Return(p, OK, 0)
    <3>1. [q \in Procs |-> ret'[q].value # Failure][p]
      BY <1>2, <2>1, ReturnSays
    <3>2. Fifo!Delete(p)
      BY <1>4, <2>1, <3>1 DEF DeleteMsgQueue, Fifo!Delete
    <3>3. QED BY <3>2
  <2>2. QED BY <1>1, <1>4, <2>1 DEF DeleteMsgQueue, queue
<1>5. ASSUME NEW p \in Procs, NEW d \in Data, NEW s \in PushSizes, PushMsgQueue(p, d, s)
      PROVE  [Fifo!Next]_<<msgs, got>>
  <2>1. [data |-> d, size |-> s] \in Message BY DEF Message
  <2>2. CASE msgs' = Append(msgs, [data |-> d, size |-> s]) /\ Return(p, s, 0)
    <3>1. s # Failure
      BY CallAssumption DEF Failure
    <3>2. [q \in Procs |-> ret'[q].value # Failure][p]
      BY <2>2, <3>1, ReturnSays
    <3>3. Fifo!Push(p, [data |-> d, size |-> s])
      BY <1>5, <2>2, <3>2 DEF PushMsgQueue, Fifo!Push
    <3>4. QED BY <2>1, <3>3
  <2>3. QED BY <1>1, <1>5, <2>2 DEF PushMsgQueue
<1>6. ASSUME NEW p \in Procs, NEW s \in PopSizes, PopMsgQueue(p, s)
      PROVE  [Fifo!Next]_<<msgs, got>>
  <2>1. CASE msgs' = Tail(msgs) /\ msgs # <<>> /\ s > MSG_BUFF_MAX /\ Return(p, Failure, s) /\ got' = got
    <3>1. ~[q \in Procs |-> ret'[q].value # Failure][p]
      BY <2>1, ReturnSays
    <3>2. Fifo!Drop(p)
      BY <2>1, <3>1 DEF Fifo!Drop, Lossy
    <3>3. QED BY <3>2
  <2>2. CASE msgs' = Tail(msgs) /\ msgs # <<>> /\ Return(p, s, s) /\ got' = [got EXCEPT ![p] = Head(msgs)]
    <3>1. s # Failure
      BY CallAssumption DEF Failure
    <3>2. [q \in Procs |-> ret'[q].value # Failure][p]
      BY <2>2, <3>1, ReturnSays
    <3>3. Fifo!Pop(p)
      BY <2>2, <3>2 DEF Fifo!Pop
    <3>4. QED BY <3>3
  <2>3. QED BY <1>1, <1>6, <2>1, <2>2 DEF PopMsgQueue
<1>7. QED
  BY <1>1, <1>3, <1>4, <1>5, <1>6
     DEF Next, ProcStep, CreateGet, CreateStat, CreateSet, GetMsgQueue, GetMsgNumInQueue, vars, queue, procs

(* Every accepted message reaches one caller, in order, who is told so.    *)
THEOREM QueueIsFifo == Spec => IsFifo
<1>1. Init => Fifo!Init BY DEF Init, Fifo!Init
<1>2. Init => NoQueue BY DEF Init, NoQueue
<1>3. TypeOK /\ NoQueue /\ [Next]_vars => [Fifo!Next]_<<msgs, got>> BY StepFifo
<1>4. QED BY <1>1, <1>2, <1>3, StepNoQueue, TypeCorrect, PTL DEF Spec, IsFifo, Fifo!Spec
==============================================================================
