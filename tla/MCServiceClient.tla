---------------------------- MODULE MCServiceClient ----------------------------
(* Two clients, one server, two lines: small enough for the undo range and  *)
(* the largest semaphore value to be reached.                               *)
EXTENDS ServiceClient, TLC

CONSTANTS c1, c2, srv, m1, m2, blank

MCClients == {c1, c2}
MCMsg == {m1, m2}
ClientsAlike == Permutations(MCClients) \union Permutations(MCMsg)
==============================================================================
