------------------------------- MODULE MsgQueue -------------------------------
(***************************************************************************)
(* src/linux/msg_queue/linux_msg.c: processes of several users that share  *)
(* one System V message queue (the key is 51002 whatever path they name).  *)
(* Every message is accounted with MSG_BUFF_MAX bytes, whatever was        *)
(* pushed; the limit is set in units of sizeof(t_Msg), which is larger.    *)
(***************************************************************************)
EXTENDS Integers, Sequences

CONSTANTS
  Procs,         (* the processes                                          *)
  User,          (* the user each of them runs as                          *)
  Root,          (* the users that may raise a queue above MSGMNB          *)
  Data,          (* what may be pushed                                     *)
  None,          (* nothing received yet                                   *)
  MSG_BUFF_MAX,  (* bytes of m_text (512)                                  *)
  SizeofMsg,     (* sizeof(t_Msg): 520, or 516 with a 32 bit long          *)
  MSGMNB,        (* the kernel's default limit of a queue, in bytes        *)
  Counts,        (* the values of msgnmb_max                               *)
  PushSizes, PopSizes,  (* the values of buff_size                         *)
  MaxQueues      (* bound: how often a queue is created                    *)

ASSUME SizeAssumption ==
  /\ MSG_BUFF_MAX \in Nat \ {0} /\ SizeofMsg \in Nat /\ SizeofMsg >= MSG_BUFF_MAX
  /\ MSGMNB \in Nat /\ MSG_BUFF_MAX <= MSGMNB
ASSUME CallAssumption ==
  /\ Counts \subseteq Nat /\ PushSizes \subseteq Nat /\ PopSizes \subseteq Nat
  /\ MaxQueues \in Nat /\ None \notin [data : Data, size : PushSizes]

VARIABLES
  qid,      (* the queue registered under the key; 0: none                 *)
  nq,       (* queues created so far                                       *)
  owner,    (* the user that created it                                    *)
  qbytes,   (* msg_qbytes                                                  *)
  msgs,     (* its messages: data and how many of its bytes were pushed    *)
  asked,    (* history: the msgnmb_max of the last Create that succeeded;  *)
            (*   Default: the limit is the kernel's                        *)
  pc,       (* where each process is: "idle" or inside CreateMsgQueue      *)
  tmp,      (* its queue_id and msgnmb_max there                           *)
  handle,   (* the id each process has got from Create or Get; 0: none     *)
  ret,      (* the result of its last call; the size a Pop asked for       *)
  got       (* history: the last message it received                       *)

queue == <<qid, nq, owner, qbytes, msgs, asked>>
procs == <<pc, tmp, handle, ret, got>>
vars == <<queue, procs>>

Message == [data : Data, size : PushSizes]
Default == -1
NoTmp == [id |-> 0, n |-> 0]
Idle(p) == pc[p] = "idle"

(* A call that returns r (to a buffer of s bytes) and is over. *)
Return(p, r, s) == /\ ret' = [ret EXCEPT ![p] = [value |-> r, size |-> s]]
                   /\ pc' = [pc EXCEPT ![p] = "idle"]
                   /\ tmp' = [tmp EXCEPT ![p] = NoTmp]

OK == 1
Failure == -1

------------------------------------------------------------------------------
(* The kernel, as far as this file calls it *)

(* msgget(51002, IPC_CREAT | 0666): the id is qid' afterwards. *)
MsgGet(p) ==
  IF qid = 0
  THEN /\ nq < MaxQueues
       /\ nq' = nq + 1 /\ qid' = nq + 1
       /\ owner' = User[p] /\ qbytes' = MSGMNB /\ msgs' = <<>> /\ asked' = Default
  ELSE UNCHANGED queue

Owns(p) == User[p] = owner \/ User[p] \in Root
MaySet(p, bytes) == Owns(p) /\ (bytes <= MSGMNB \/ User[p] \in Root)
HasRoom == (Len(msgs) + 1) * MSG_BUFF_MAX <= qbytes /\ Len(msgs) + 1 <= qbytes

------------------------------------------------------------------------------
(* CreateMsgQueue and SetMsgQueue: three system calls *)

CreateGet(p, n) ==
  /\ Idle(p)
  /\ MsgGet(p)
  /\ pc' = [pc EXCEPT ![p] = "stat"]
  /\ tmp' = [tmp EXCEPT ![p] = [id |-> qid', n |-> n]]
  /\ UNCHANGED <<handle, ret, got>>

CreateStat(p) ==
  /\ pc[p] = "stat"
  /\ IF tmp[p].id = qid
     THEN pc' = [pc EXCEPT ![p] = "set"] /\ UNCHANGED <<tmp, ret>>
     ELSE Return(p, Failure, 0)
  /\ UNCHANGED <<queue, handle, got>>

(* The limit for one message more, and an id of -1 for the caller of a     *)
(* Create that fails.                                                      *)
CreateSetOneMore(p) ==
  /\ pc[p] = "set"
  /\ LET bytes == SizeofMsg * (tmp[p].n + 1) IN
     IF tmp[p].id = qid /\ MaySet(p, bytes)
     THEN /\ qbytes' = bytes /\ asked' = tmp[p].n
          /\ handle' = [handle EXCEPT ![p] = tmp[p].id]
          /\ Return(p, OK, 0)
     ELSE Return(p, Failure, 0) /\ UNCHANGED <<qbytes, asked, handle>>
  /\ UNCHANGED <<qid, nq, owner, msgs, got>>

CreateSetMinusOne(p) ==
  /\ pc[p] = "set"
  /\ LET bytes == SizeofMsg * tmp[p].n IN
     IF tmp[p].id = qid /\ MaySet(p, bytes)
     THEN /\ qbytes' = bytes /\ asked' = tmp[p].n
          /\ handle' = [handle EXCEPT ![p] = tmp[p].id]
          /\ Return(p, OK, 0)
     ELSE /\ Return(p, Failure, 0) /\ UNCHANGED <<qbytes, asked>>
          /\ handle' = [handle EXCEPT ![p] = -1]
  /\ UNCHANGED <<qid, nq, owner, msgs, got>>

CreateSet(p) ==
  /\ pc[p] = "set"
  /\ LET bytes == SizeofMsg * tmp[p].n IN
     IF tmp[p].id = qid /\ MaySet(p, bytes)
     THEN /\ qbytes' = bytes /\ asked' = tmp[p].n
          /\ handle' = [handle EXCEPT ![p] = tmp[p].id]
          /\ Return(p, OK, 0)
     ELSE Return(p, Failure, 0) /\ UNCHANGED <<qbytes, asked, handle>>
  /\ UNCHANGED <<qid, nq, owner, msgs, got>>

GetMsgQueue(p) ==
  /\ Idle(p)
  /\ MsgGet(p)
  /\ handle' = [handle EXCEPT ![p] = qid']
  /\ Return(p, OK, 0)
  /\ UNCHANGED got

DeleteMsgQueue(p) ==
  /\ Idle(p) /\ handle[p] # 0
  /\ IF handle[p] = qid /\ Owns(p)
     THEN /\ qid' = 0 /\ msgs' = <<>> /\ qbytes' = 0 /\ asked' = Default
          /\ Return(p, OK, 0) /\ UNCHANGED <<nq, owner>>
     ELSE Return(p, Failure, 0) /\ UNCHANGED queue
  /\ UNCHANGED <<handle, got>>

------------------------------------------------------------------------------
(* A full queue makes room by losing its first message. *)
PushOverwrite(p, d, size) ==
  /\ Idle(p) /\ handle[p] # 0
  /\ IF size < MSG_BUFF_MAX /\ handle[p] = qid /\ (HasRoom \/ msgs # <<>>)
     THEN /\ msgs' = Append(IF HasRoom THEN msgs ELSE Tail(msgs), [data |-> d, size |-> size])
          /\ Return(p, size, 0)
     ELSE Return(p, Failure, 0) /\ UNCHANGED msgs
  /\ UNCHANGED <<qid, nq, owner, qbytes, asked, handle, got>>

PushMsgQueue(p, d, size) ==
  /\ Idle(p) /\ handle[p] # 0
  /\ IF size < MSG_BUFF_MAX /\ handle[p] = qid /\ HasRoom
     THEN /\ msgs' = Append(msgs, [data |-> d, size |-> size])
          /\ Return(p, size, 0)
     ELSE Return(p, Failure, 0) /\ UNCHANGED msgs
  /\ UNCHANGED <<qid, nq, owner, qbytes, asked, handle, got>>

(* msgrcv takes the first message, and only then is buff_size looked at:   *)
(* every message is MSG_BUFF_MAX bytes long.                               *)
PopMsgQueue(p, size) ==
  /\ Idle(p) /\ handle[p] # 0
  /\ IF handle[p] = qid /\ msgs # <<>>
     THEN /\ msgs' = Tail(msgs)
          /\ IF size > MSG_BUFF_MAX
             THEN Return(p, Failure, size) /\ UNCHANGED got
             ELSE Return(p, size, size) /\ got' = [got EXCEPT ![p] = Head(msgs)]
     ELSE Return(p, Failure, size) /\ UNCHANGED <<msgs, got>>
  /\ UNCHANGED <<qid, nq, owner, qbytes, asked, handle>>

GetMsgNumInQueue(p) ==
  /\ Idle(p) /\ handle[p] # 0
  /\ Return(p, IF handle[p] = qid THEN Len(msgs) ELSE Failure, 0)
  /\ UNCHANGED <<queue, handle, got>>

------------------------------------------------------------------------------
Init ==
  /\ qid = 0 /\ nq = 0 /\ owner = None /\ qbytes = 0 /\ msgs = <<>> /\ asked = Default
  /\ pc = [p \in Procs |-> "idle"]
  /\ tmp = [p \in Procs |-> NoTmp]
  /\ handle = [p \in Procs |-> 0]
  /\ ret = [p \in Procs |-> [value |-> OK, size |-> 0]]
  /\ got = [p \in Procs |-> None]

ProcStep(p) ==
  \/ \E n \in Counts : CreateGet(p, n)
  \/ CreateStat(p) \/ CreateSet(p)
  \/ GetMsgQueue(p) \/ DeleteMsgQueue(p) \/ GetMsgNumInQueue(p)
  \/ \E d \in Data, s \in PushSizes : PushMsgQueue(p, d, s)
  \/ \E s \in PopSizes : PopMsgQueue(p, s)

Next == \E p \in Procs : ProcStep(p)

Spec == Init /\ [][Next]_vars

------------------------------------------------------------------------------
(* Type correctness. *)
TypeOK ==
  /\ qid \in Nat /\ nq \in Nat /\ owner \in {User[p] : p \in Procs} \union {None}
  /\ qbytes \in Nat /\ msgs \in Seq(Message) /\ asked \in Nat \union {Default}
  /\ pc \in [Procs -> {"idle", "stat", "set"}]
  /\ tmp \in [Procs -> [id : Nat, n : Nat]]
  /\ handle \in [Procs -> Nat]
  /\ ret \in [Procs -> [value : Int, size : Nat]]
  /\ got \in [Procs -> Message \union {None}]

(* No message is pushed beyond the number CreateMsgQueue was asked for,    *)
(* whoever created the queue, changed its limit or deleted it in between:  *)
(* the limit is set in units of sizeof(t_Msg) (line 27) and used up in     *)
(* units of MSG_BUFF_MAX (line 129), so this needs a count small enough    *)
(* for the difference not to make room for one more message.               *)
Capacity == IF asked = Default THEN MSGMNB \div MSG_BUFF_MAX ELSE asked
PreciseCount == (SizeofMsg - MSG_BUFF_MAX) * asked < MSG_BUFF_MAX
PushWithinCapacity ==
  [][Len(msgs') > Len(msgs) /\ (asked # Default => PreciseCount)
       => Len(msgs') <= Capacity]_vars

(* First in, first out (line 149): every message that was accepted reaches *)
(* one caller, in order, who is told so, unless the queue is deleted by    *)
(* someone who is told so, or a caller asks for more than MSG_BUFF_MAX     *)
(* bytes (line 155): the message is gone, and it is told that it failed.   *)
Lossy == \E s \in PopSizes : s > MSG_BUFF_MAX
Fifo == INSTANCE BoundedFifo
          WITH Data <- Message, fifo <- msgs, ok <- [p \in Procs |-> ret[p].value # Failure]
IsFifo == Fifo!Spec

(* Line 156 tells a caller whose message has been taken that its buffer    *)
(* "is small", that is smaller than the message.                           *)
RefusedBufferIsSmall ==
  [][\A p \in Procs :
       /\ Len(msgs') < Len(msgs) /\ qid' = qid
       /\ ret'[p] # ret[p] /\ ret'[p].value = Failure
       => ret'[p].size < Head(msgs).size]_vars
==============================================================================
