------------------------------- MODULE MCLinks -------------------------------
(***************************************************************************)
(* Four libraries that share nothing, checked in one run: a behaviour      *)
(* exercises the one that `part` says, and leaves the others as they are.  *)
(*   winsocket  three threads of a process and three socket values         *)
(*   transfer   messages of two units, in pieces; one end sends two of     *)
(*              them, the other one                                        *)
(*   com        two frames and a bit fit into one call of ReadComport      *)
(*   memory     two pointers and three addresses, so that a block can grow *)
(***************************************************************************)
EXTENDS WinSocket, SocketTransfer, ComPort, DebugMemory

VARIABLE part
vars == <<part, sockVars, xferVars, comVars, memVars>>

MCPeer == <<2, 1>>
MCMaxMessages == <<1, 2>>

Init ==
  /\ part \in {"winsocket", "transfer", "com", "memory"}
  /\ SockInit /\ XferInit /\ ComInit /\ MemInit
  /\ part = "transfer" \/ kind = <<"windows", "windows">>

Next ==
  \/ part = "winsocket" /\ SockNext /\ UNCHANGED <<part, xferVars, comVars, memVars>>
  \/ part = "transfer" /\ XferNext /\ UNCHANGED <<part, sockVars, comVars, memVars>>
  \/ part = "com" /\ ComNext /\ UNCHANGED <<part, sockVars, xferVars, memVars>>
  \/ part = "memory" /\ MemNext /\ UNCHANGED <<part, sockVars, xferVars, comVars>>

Spec == Init /\ [][Next]_vars /\ XferFairness
==============================================================================
