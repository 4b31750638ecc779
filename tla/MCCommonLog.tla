----------------------------- MODULE MCCommonLog ------------------------------
(* A process with two threads; a file of more than one entry is trimmed, by *)
(* two entries at most; one trim of each file may fail, and one death       *)
(* occur. BoundedSize allows four entries in a file, so that five can       *)
(* exceed it; with a trim that has failed it allows the five, which         *)
(* only the proof speaks about. What a process shares with another one, the *)
(* file, its threads share too.                                             *)
EXTENDS CommonLog, TLC

CONSTANTS t1, t2, a, garbage
MCThreads == {t1, t2}
MCProcs == {a}
MCProc == t1 :> a @@ t2 :> a
ThreadsAlike == Permutations({t1, t2})
==============================================================================
