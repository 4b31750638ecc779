----------------------------- MODULE BoundedFifo -----------------------------
(***************************************************************************)
(* What src/linux/msg_queue/linux_msg.c promises its callers while a queue *)
(* exists: a message that was accepted is handed out once, in the order of *)
(* acceptance ("first in first out", linux_msg.c:149), to the process that *)
(* asked for it.                                                           *)
(***************************************************************************)
EXTENDS Sequences

CONSTANTS
  Procs,    (* the processes that use the queue                            *)
  Data,     (* what may be pushed                                          *)
  Lossy,    (* may a pop throw the message away?                           *)
  None      (* nothing received yet                                        *)

VARIABLES
  fifo,     (* the messages in the queue                                   *)
  got,      (* per process: the last message it received                   *)
  ok        (* per process: has its last call succeeded, as it was told?   *)

Init == fifo = <<>> /\ got = [p \in Procs |-> None]

Push(p, d) == /\ fifo' = Append(fifo, d) /\ UNCHANGED got
              /\ ok'[p]

Pop(p) == /\ fifo # <<>>
          /\ fifo' = Tail(fifo)
          /\ got' = [got EXCEPT ![p] = Head(fifo)]
          /\ ok'[p]

(* A message is lost, and who asked for it is told that it failed.         *)
Drop(p) == /\ Lossy /\ fifo # <<>>
           /\ fifo' = Tail(fifo) /\ UNCHANGED got
           /\ ~ok'[p]

(* The queue is deleted with whatever is in it. *)
Delete(p) == /\ fifo' = <<>> /\ UNCHANGED got
             /\ ok'[p]

Next == \E p \in Procs : \/ \E d \in Data : Push(p, d)
                         \/ Pop(p) \/ Drop(p) \/ Delete(p)

Spec == Init /\ [][Next]_<<fifo, got>>
==============================================================================
