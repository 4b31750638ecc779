----------------------------- MODULE DebugMemory -----------------------------
(***************************************************************************)
(* src/debug_memory/debug_memory.c: every block a program allocates has a  *)
(* record of its size in a list, which FreeMemory, ResizeMemory and        *)
(* FillUpMemory look it up in. malloc may fail, also for the record.       *)
(***************************************************************************)
EXTENDS Integers, Sequences

CONSTANTS
  Pointers,  (* pointers of the program, each to a block of its own        *)
  Blocks,    (* addresses malloc may return                                *)
  Sizes,     (* sizes asked for                                            *)
  Bytes,     (* what FillUpMemory fills with                               *)
  Garbage,   (* GARBAGE_FLAG                                               *)
  Null

ASSUME MemoryAssumption ==
  /\ Sizes \subseteq Nat \ {0} /\ Garbage \notin Bytes /\ Null \notin Blocks

VARIABLES
  heap,       (* per address: the bytes of the block allocated there, or   *)
              (* <<>>                                                      *)
  records,    (* the list g_head, as a set                                 *)
  pointer,    (* per user: its block                                       *)
  text,       (* history, per user: what it should find in its block       *)
  norecord,   (* history: blocks whose record could not be allocated       *)
  crashed
memVars == <<heap, records, pointer, text, norecord, crashed>>

(* GetBlockInfo: the record in whose range the address lies, if any.       *)
Recorded(b) == \E r \in records : r.begin = b
GetSizeOfBlock(b) == (CHOOSE r \in records : r.begin = b).size

Fill(s, from, to, byte) == [i \in DOMAIN s |-> IF i \in from .. to THEN byte ELSE s[i]]
NewBlock(n) == [i \in 1 .. n |-> Garbage]
Grown(s, n) == [i \in 1 .. n |-> IF i <= Len(s) THEN s[i] ELSE Garbage]

Free(b) == heap[b] = <<>>

(* CreateBlockInfo, whose result is not looked at; FreeBlockInfo.          *)
WithRecord(old, b, n, ok) == IF ok THEN old \union {[begin |-> b, size |-> n]} ELSE old
(* mutant: a FreeMemory that leaves the record                             *)
WithoutRecordNot(b) == records
WithoutRecord(b) == {r \in records : r.begin # b}

------------------------------------------------------------------------------
(* NewMemory. When malloc fails for the block nothing changes.             *)
NewMemory(u, n, b, ok) ==
  /\ ~crashed /\ pointer[u] = Null /\ Free(b)
  /\ heap' = [heap EXCEPT ![b] = NewBlock(n)]
  /\ pointer' = [pointer EXCEPT ![u] = b]
  /\ text' = [text EXCEPT ![u] = NewBlock(n)]
  /\ records' = WithRecord(records, b, n, ok)
  /\ norecord' = IF ok THEN norecord ELSE norecord \union {b}
  /\ UNCHANGED crashed

FreeMemory(u) ==
  /\ ~crashed /\ pointer[u] # Null /\ Recorded(pointer[u])
  /\ heap' = [heap EXCEPT ![pointer[u]] = <<>>]
  /\ records' = WithoutRecord(pointer[u])
  /\ pointer' = [pointer EXCEPT ![u] = Null]
  /\ text' = [text EXCEPT ![u] = <<>>]
  /\ UNCHANGED <<norecord, crashed>>

(* mutant: a shrinking block filled from its beginning                     *)
ShrunkAll(s, n) == Fill(s, 1, Len(s) - n, Garbage)
Shrunk(s, n) == Fill(s, n + 1, Len(s), Garbage)

(* ResizeMemory: a block that shrinks stays where it is, with its record   *)
(* as it was (and the call returns no value).                              *)
Shrink(u, n) ==
  /\ ~crashed /\ pointer[u] # Null /\ Recorded(pointer[u])
  /\ n <= GetSizeOfBlock(pointer[u])
  /\ heap' = [heap EXCEPT ![pointer[u]] = Shrunk(@, n)]
  /\ text' = [text EXCEPT ![u] = Grown(SubSeq(@, 1, IF n < Len(@) THEN n ELSE Len(@)), n)]
  /\ UNCHANGED <<records, pointer, norecord, crashed>>

(* One that grows is copied to a new block, and freed.                     *)
Grow(u, n, b, ok) ==
  /\ ~crashed /\ pointer[u] # Null /\ Recorded(pointer[u]) /\ Free(b)
  /\ n > GetSizeOfBlock(pointer[u])
  /\ heap' = [heap EXCEPT ![b] = Grown(heap[pointer[u]], n), ![pointer[u]] = <<>>]
  /\ records' = WithRecord(WithoutRecord(pointer[u]), b, n, ok)
  /\ norecord' = IF ok THEN norecord ELSE norecord \union {b}
  /\ pointer' = [pointer EXCEPT ![u] = b]
  /\ text' = [text EXCEPT ![u] = Grown(@, n)]
  /\ UNCHANGED crashed

(* FillUpMemory from the byte after `off`. Beyond the recorded size it is  *)
(* refused and changes nothing; a program stays within what it asked for.  *)
FillUpMemory(u, off, n, byte) ==
  /\ ~crashed /\ pointer[u] # Null /\ Recorded(pointer[u])
  /\ off + n <= Len(text[u]) /\ off + n <= GetSizeOfBlock(pointer[u])
  /\ heap' = [heap EXCEPT ![pointer[u]] = Fill(@, off + 1, off + n, byte)]
  /\ text' = [text EXCEPT ![u] = Fill(@, off + 1, off + n, byte)]
  /\ UNCHANGED <<records, pointer, norecord, crashed>>

(* Each of the three takes m_size from the NULL that GetBlockInfo returns  *)
(* for a block without a record.                                           *)
UseUnrecorded(u) ==
  /\ ~crashed /\ pointer[u] # Null /\ ~Recorded(pointer[u])
  /\ crashed' = TRUE
  /\ UNCHANGED <<heap, records, pointer, text, norecord>>

MemInit ==
  /\ heap = [b \in Blocks |-> <<>>] /\ records = {}
  /\ pointer = [u \in Pointers |-> Null] /\ text = [u \in Pointers |-> <<>>]
  /\ norecord = {} /\ crashed = FALSE

MemNext ==
  \E u \in Pointers :
    \/ FreeMemory(u) \/ UseUnrecorded(u)
    \/ \E n \in Sizes :
         \/ Shrink(u, n)
         \/ \E b \in Blocks, ok \in BOOLEAN : NewMemory(u, n, b, ok) \/ Grow(u, n, b, ok)
         \/ \E off \in 0 .. n - 1, byte \in Bytes : FillUpMemory(u, off, n - off, byte)

MemSpec == MemInit /\ [][MemNext]_memVars

------------------------------------------------------------------------------
(* Type correctness. *)
Byte == Bytes \union {Garbage}
MemTypeOK ==
  /\ heap \in [Blocks -> Seq(Byte)]
  /\ records \subseteq [begin : Blocks, size : Sizes]
  /\ pointer \in [Pointers -> Blocks \union {Null}]
  /\ text \in [Pointers -> Seq(Byte)]
  /\ norecord \subseteq Blocks /\ crashed \in BOOLEAN

(* Every allocated block is held by one user and has a record of its size, *)
(* and every record is that of a block; only a block whose record could    *)
(* not be allocated (line 175, where the result is ignored) has none, and  *)
(* only such a block can bring the program down (line 121).                *)
RecordsMatch ==
  /\ records \subseteq {[begin |-> b, size |-> Len(heap[b])] : b \in {c \in Blocks : heap[c] # <<>>}}
  /\ \A b \in Blocks : heap[b] # <<>> => Recorded(b) \/ b \in norecord
  /\ \A b \in Blocks : heap[b] # <<>> => \E u \in Pointers : pointer[u] = b
  /\ \A u, v \in Pointers : pointer[u] = pointer[v] /\ pointer[u] # Null => u = v /\ heap[pointer[u]] # <<>>
  /\ crashed => norecord # {}

(* What a user has put into its block stays there, whoever else allocates, *)
(* resizes or frees, and through its own ResizeMemory as far as the new    *)
(* size goes (lines 202-214).                                              *)
ContentsKept ==
  \A u \in Pointers : pointer[u] # Null =>
    /\ Len(text[u]) <= Len(heap[pointer[u]])
    /\ text[u] = SubSeq(heap[pointer[u]], 1, Len(text[u]))
==============================================================================
