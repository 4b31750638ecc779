------------------------------ MODULE MCMsgQueue ------------------------------
(* An ordinary user and root share the queue. A message counts 4 bytes, the *)
(* limit is set in units of 6: one message asked for makes room for one,    *)
(* two make room for three. Of the sizes pushed 4 is refused; of the sizes  *)
(* received 5 is, with the loss of the message.                             *)
EXTENDS MsgQueue, TLC

CONSTANTS p1, p2, alice, root, d1, none

MCUser == p1 :> alice @@ p2 :> root
MCRoot == {root}
MCProcs == {p1, p2}
MCData == {d1}
MCCounts == {1, 2}
MCPushSizes == {2, 3, 4}
MCPopSizes == {3, 5}
==============================================================================
