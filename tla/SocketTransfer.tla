---------------------------- MODULE SocketTransfer ----------------------------
(***************************************************************************)
(* The transfer loops of src/linux/socket/linux_socket.c (SendSocket,      *)
(* RecvSocket) and src/windows/windows_socket.cpp (Socket_Send,            *)
(* Socket_Recv): two programs on one TCP connection that send and receive  *)
(* messages of Size units through streams that take and give them in       *)
(* pieces, are interrupted, and end when a program closes or is killed.    *)
(***************************************************************************)
EXTENDS Integers, Sequences, FiniteSets

CONSTANTS
  Ends, Peer,   (* the two ends, and the other one of each                 *)
  Size,         (* units of a message                                      *)
  PER_SIZE,     (* most units a Windows loop asks for at once              *)
  Capacity,     (* units a stream holds                                    *)
  MaxMessages   (* bound: messages each end sends                          *)

ASSUME TransferAssumption ==
  /\ Peer \in [Ends -> Ends] /\ \A e \in Ends : Peer[e] # e /\ Peer[Peer[e]] = e
  /\ Size \in Nat \ {0} /\ PER_SIZE \in Nat \ {0} /\ Capacity \in Nat \ {0}
  /\ MaxMessages \in [Ends -> Nat]

VARIABLES
  kind,       (* "windows", or the Linux "server" or "client"              *)
  up,         (* "open", "closed" or "killed"                              *)
  stream,     (* per end: the units on their way to it                     *)
  call,       (* per end: the call it is in                                *)
  done,       (* per end: retSum or all_len of a send                      *)
  buffer,     (* per end: the units a receive has put into its data        *)
  sent,       (* per end: messages sent whole                              *)
  torn,       (* history, per end: has a message to it been cut in two by  *)
              (* a call that failed?                                       *)
  received    (* history, per end: what receives that returned size have   *)
              (* read until then                                           *)
xferVars == <<kind, up, stream, call, done, buffer, sent, torn, received>>

(* A unit of data: which message it is of, and where in it.                *)
Message(k) == [i \in 1 .. Size |-> [msg |-> k, at |-> i]]

Most(e) == IF kind[e] = "windows" THEN PER_SIZE ELSE Size

(* The call of e returns. *)
Return(e) ==
  /\ call' = [call EXCEPT ![e] = "none"]
  /\ done' = [done EXCEPT ![e] = 0]
  /\ buffer' = [buffer EXCEPT ![e] = <<>>]

(* A call fails in the middle of a message on its way to e.                *)
Tear(e, middle) == torn' = [torn EXCEPT ![e] = @ \/ middle]

------------------------------------------------------------------------------
BeginSend(e) ==
  /\ up[e] = "open" /\ call[e] = "none" /\ sent[e] < MaxMessages[e]
  /\ call' = [call EXCEPT ![e] = "send"]
  /\ UNCHANGED <<kind, up, stream, done, buffer, sent, received, torn>>

(* The next n units that e has to send. *)
(* mutant: the position in the data not moved on                           *)
UnitsAgain(e, n) == SubSeq(Message(sent[e] + 1), 1, n)
Units(e, n) == SubSeq(Message(sent[e] + 1), done[e] + 1, done[e] + n)

(* send() takes n of the units that remain, also, for a while, when the    *)
(* other end is gone.                                                      *)
SendPiece(e, n) ==
  /\ call[e] = "send"
  /\ n <= Size - done[e] /\ n <= Most(e) /\ Len(stream[Peer[e]]) + n <= Capacity
  /\ stream' = [stream EXCEPT ![Peer[e]] = @ \o Units(e, n)]
  /\ IF done[e] + n = Size
     THEN Return(e) /\ sent' = [sent EXCEPT ![e] = @ + 1]
     ELSE done' = [done EXCEPT ![e] = @ + n] /\ UNCHANGED <<call, buffer, sent>>
  /\ UNCHANGED <<kind, up, received, torn>>

(* send() is interrupted or times out: -1, however much was sent before.   *)
SendFails(e) ==
  /\ call[e] = "send"
  /\ Return(e) /\ Tear(Peer[e], done[e] > 0)
  /\ UNCHANGED <<kind, up, stream, sent, received>>

(* The other end is gone: -1, or SIGPIPE, which only a program that has    *)
(* been through InitSocketServer ignores.                                  *)
SendToNobody(e) ==
  /\ call[e] = "send" /\ up[Peer[e]] # "open"
  /\ up' = [up EXCEPT ![e] = IF kind[e] = "client" THEN "killed" ELSE @]
  /\ Return(e) /\ Tear(Peer[e], done[e] > 0)
  /\ UNCHANGED <<kind, stream, sent, received>>

BeginRecv(e) ==
  /\ up[e] = "open" /\ call[e] = "none"
  /\ call' = [call EXCEPT ![e] = "recv"]
  /\ UNCHANGED <<kind, up, stream, done, buffer, sent, received, torn>>

(* recv() gives n units. *)
RecvPiece(e, n) ==
  /\ call[e] = "recv"
  /\ n <= Size - Len(buffer[e]) /\ n <= Most(e) /\ n <= Len(stream[e])
  /\ stream' = [stream EXCEPT ![e] = SubSeq(@, n + 1, Len(@))]
  /\ LET data == buffer[e] \o SubSeq(stream[e], 1, n) IN
     IF Len(data) = Size
     THEN /\ Return(e)
          /\ received' = IF torn[e] THEN received ELSE [received EXCEPT ![e] = Append(@, data)]
     ELSE buffer' = [buffer EXCEPT ![e] = data] /\ UNCHANGED <<call, done, received>>
  /\ UNCHANGED <<kind, up, sent, torn>>

(* recv() is interrupted or times out: -1, and what was read is lost.      *)
RecvFails(e) ==
  /\ call[e] = "recv"
  /\ Return(e) /\ Tear(e, buffer[e] # <<>>)
  /\ UNCHANGED <<kind, up, stream, sent, received>>

(* mutant: a 0 of recv() added to the sum and asked for again              *)
RecvEndLoops(e) ==
  /\ call[e] = "recv" /\ stream[e] = <<>> /\ up[Peer[e]] # "open"
  /\ UNCHANGED xferVars

(* recv() gives 0 at the end of the stream: Linux returns -1, Windows      *)
(* leaves the loop and returns what it has, less than size.                *)
RecvEnd(e) ==
  /\ call[e] = "recv" /\ stream[e] = <<>> /\ up[Peer[e]] # "open"
  /\ Return(e) /\ Tear(e, buffer[e] # <<>>)
  /\ UNCHANGED <<kind, up, stream, sent, received>>

(* CloseSocket or Socket_Uninit, and the end of a program in any call.     *)
Close(e) ==
  /\ up[e] = "open"
  /\ up' = [up EXCEPT ![e] = "closed"]
  /\ Return(e) /\ Tear(Peer[e], done[e] > 0)
  /\ UNCHANGED <<kind, stream, sent, received>>

XferInit ==
  /\ \E e \in Ends : kind \in [Ends -> {"windows", "server", "client"}]
                     /\ kind[e] # "client" /\ kind[Peer[e]] # "server"
  /\ up = [e \in Ends |-> "open"] /\ call = [e \in Ends |-> "none"]
  /\ stream = [e \in Ends |-> <<>>] /\ buffer = stream /\ received = stream
  /\ done = [e \in Ends |-> 0] /\ sent = done
  /\ torn = [e \in Ends |-> FALSE]

Returns(e) ==
  \/ \E n \in 1 .. Size : SendPiece(e, n) \/ RecvPiece(e, n)
  \/ SendToNobody(e) \/ RecvEnd(e)

XferNext ==
  \E e \in Ends : BeginSend(e) \/ BeginRecv(e) \/ Returns(e) \/ SendFails(e) \/ RecvFails(e) \/ Close(e)

(* The kernel completes a send or recv that it can complete.               *)
XferFairness == \A e \in Ends : WF_xferVars(Returns(e))
XferSpec == XferInit /\ [][XferNext]_xferVars /\ XferFairness

------------------------------------------------------------------------------
(* However the streams cut them, and whatever calls fail between them,     *)
(* messages arrive whole, in order and once: every receive that returned   *)
(* size has one message, up to the first call that failed in the middle of *)
(* a message and did not say how far it had come (lines 184-187, 201-209;  *)
(* windows 167-170, 195-198).                                              *)
WholeMessages ==
  \A e \in Ends :
    /\ Len(received[e]) <= sent[Peer[e]]
    /\ \A k \in DOMAIN received[e] : received[e][k] = Message(k)

(* A program is not left in a call when the other end has gone (lines      *)
(* 205-208; windows 193-194).                                              *)
TransferEnds ==
  \A e \in Ends : call[e] # "none" /\ up[Peer[e]] # "open" ~> call[e] = "none"
==============================================================================
