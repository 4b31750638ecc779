--------------------------- MODULE SearchBuffers ---------------------------
(***************************************************************************)
(* Searching a buffer for a pattern, as strstr, strchr and the loops       *)
(* written by hand in com_port.c do.                                       *)
(***************************************************************************)
EXTENDS Integers, Sequences, SequencesExt

Occurs(pattern, data, at) == IsPrefix(pattern, SubSeq(data, at, Len(data)))

(* Where `pattern` first starts in data from `from` on, or 0.              *)
FirstAt(pattern, data, from) ==
  LET places == {i \in from .. Len(data) : Occurs(pattern, data, i)}
  IN IF places = {} THEN 0 ELSE CHOOSE i \in places : \A j \in places : i <= j

From(data, at) == SubSeq(data, at, Len(data))
Before(data, at) == SubSeq(data, 1, at - 1)
=============================================================================
