----------------------------- MODULE MCMemoryPool -----------------------------
(* Two threads and three calls on a ring of two slots of one or two cells:  *)
(* the third call comes round to the first slot.                            *)
EXTENDS MemoryPool, TLC

CONSTANTS t1, t2
MCThreads == {t1, t2}
MCSizes == {1, 2}
==============================================================================
