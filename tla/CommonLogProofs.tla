--------------------------- MODULE CommonLogProofs ---------------------------
(***************************************************************************)
(* Proofs about CommonLog for any threads, processes and sizes: it is type *)
(* correct, no file outgrows its limit but for what failed trims leave,    *)
(* entries are only added at the end of a file and taken away from its     *)
(* start, and a thread whose configuration is loaded obeys it.             *)
(***************************************************************************)
EXTENDS CommonLog, FiniteSetTheorems, SequenceTheorems, TLAPS

------------------------------------------------------------------------------
(* What a write may leave of a text is no longer than the text.            *)
LEMMA WrittenIs ==
  ASSUME NEW S, Garbage \in S, NEW s \in Seq(S), NEW part \in Written(s)
  PROVE  part \in Seq(S) /\ Len(part) \in Nat /\ Len(part) <= Len(s)
<1>1. Len(s) \in Nat
  OBVIOUS
<1>2. ASSUME NEW n \in 0 .. Len(s)
      PROVE  SubSeq(s, 1, n) \in Seq(S) /\ Len(SubSeq(s, 1, n)) = n
  <2>1. \A i \in 1 .. n : s[i] \in S
    BY <1>1, <1>2
  <2>2. /\ SubSeq(s, 1, n) \in Seq(S)
        /\ Len(SubSeq(s, 1, n)) = IF 1 <= n THEN n - 1 + 1 ELSE 0
    BY <1>1, <2>1, SubSeqProperties
  <2>3. QED BY <1>1, <2>2
<1>3. CASE part \in {SubSeq(s, 1, n) : n \in 0 .. Len(s)}
  BY <1>1, <1>2, <1>3
<1>4. CASE part \in {Append(SubSeq(s, 1, n), Garbage) : n \in 0 .. Len(s) - 1}
  <2>1. PICK n \in 0 .. Len(s) - 1 : part = Append(SubSeq(s, 1, n), Garbage)
    BY <1>4
  <2>2. n \in 0 .. Len(s) /\ n \in Nat /\ n + 1 <= Len(s)
    BY <1>1
  <2>3. SubSeq(s, 1, n) \in Seq(S) /\ Len(SubSeq(s, 1, n)) = n
    BY <1>2, <2>2
  <2>4. part \in Seq(S) /\ Len(part) = n + 1
    BY <2>1, <2>3, AppendProperties
  <2>5. QED BY <1>1, <2>2, <2>4
<1>5. QED BY <1>3, <1>4 DEF Written

LEMMA EntryIs ==
  ASSUME TypeOK, entries < MaxEntries
  PROVE  entries + 1 \in Unit /\ <<entries + 1>> \in Seq(Unit) /\ Len(<<entries + 1>>) = 1
<1>1. entries + 1 \in Unit
  BY LogAssumption DEF TypeOK, Unit
<1>2. QED BY <1>1

------------------------------------------------------------------------------
(* Sizes. *)
LEMMA Sizes ==
  /\ Cardinality(Threads) \in Nat /\ Limit \in Nat
  /\ DefaultSize <= Limit /\ ConfSize <= Limit /\ Cardinality(Threads) <= Limit
<1> DEFINE S == {DefaultSize, ConfSize, Cardinality(Threads)}
<1>1. Cardinality(Threads) \in Nat
  BY DeleteAssumption, FS_CardinalityType
<1>2. DefaultSize \in Nat /\ ConfSize \in Nat
  BY LogAssumption
<1>3. \E x \in S : \A y \in S : y <= x
  BY <1>1, <1>2
<1>4. Largest(S) \in S /\ \A y \in S : y <= Largest(S)
  BY <1>3 DEF Largest
<1>5. QED BY <1>1, <1>2, <1>4 DEF Limit

Bound == Limit + Cardinality(Threads)

(* A trim brings what is within the bound, but for m entries, back within  *)
(* the limit, but for them.                                                *)
LEMMA TrimEnough ==
  ASSUME NEW n \in Nat, NEW m \in Nat
  PROVE  /\ DelSize(n) \in 0 .. n
         /\ n <= Bound + m => n - DelSize(n) <= Limit + m
BY Sizes, DeleteAssumption, LogAssumption DEF DelSize, Bound

------------------------------------------------------------------------------
(* The buffer is as long as the file was found to be; that is within the   *)
(* bound; and the file has room for an entry of each thread that is going  *)
(* to append.                                                              *)
BufferFilled == \A t \in Threads : pc[t] \in {"truncate", "write"} => Len(buffer[t]) = actsize[t]
FoundInBound ==
  \A t \in Threads : pc[t] \in Trimming => actsize[t] <= Bound + untrimmed[path[t]] /\ actsize[t] # 0
Coming(d) == {t \in Threads : path[t] = d /\ pc[t] \in {"append", "write"}}
RoomForAll == \A d \in Dirs : Len(file[d]) + Cardinality(Coming(d)) <= Bound + untrimmed[d]

SizeInv == TypeOK /\ BufferFilled /\ FoundInBound /\ RoomForAll

(* What a thread has found and read is what the file holds, if it is not   *)
(* stale; and two threads do not both have all of it.                      *)
FoundStands ==
  \A t \in Threads : ~stale[t] =>
    /\ pc[t] = "read" => Len(file[path[t]]) = actsize[t]
    /\ pc[t] = "truncate" => file[path[t]] = buffer[t]
OneSaver == \A d \in Dirs : \A t, u \in Savers(d) : t = u

TextInv == FoundStands /\ OneSaver /\ KeepsNewest
LogInv == SizeInv /\ TextInv

LEMMA ComingIsFinite ==
  ASSUME NEW d
  PROVE  /\ Coming(d) \subseteq Threads /\ IsFiniteSet(Coming(d))
         /\ Cardinality(Coming(d)) \in 0 .. Cardinality(Threads)
<1>1. Coming(d) \in SUBSET Threads
  BY DEF Coming
<1>2. QED BY <1>1, DeleteAssumption, FS_Subset, FS_CardinalityType

(* What keeps room for all: a file within the limit, but for the trims     *)
(* that have failed; one that has not grown, and that nobody new is going  *)
(* to append to; an entry of one who was coming; a trim that fails.        *)
LEMMA RoomStays ==
  ASSUME SizeInv, TypeOK', NEW d \in Dirs, NEW t \in Threads,
         \/ Len(file'[d]) <= Limit + untrimmed'[d]
         \/ /\ Coming(d)' \subseteq Coming(d)
            /\ Len(file'[d]) <= Len(file[d]) /\ untrimmed'[d] = untrimmed[d]
         \/ /\ t \in Coming(d) /\ Coming(d)' \subseteq Coming(d) \ {t}
            /\ Len(file'[d]) <= Len(file[d]) + 1 /\ untrimmed'[d] = untrimmed[d]
         \/ /\ Coming(d)' \subseteq Coming(d) \union {t}
            /\ Len(file'[d]) <= Len(file[d]) /\ untrimmed'[d] = untrimmed[d] + 1
  PROVE  Len(file'[d]) + Cardinality(Coming(d)') <= Bound + untrimmed'[d]
<1> DEFINE n == Cardinality(Coming(d))
           m == Cardinality(Coming(d)')
           a == Len(file[d])
           b == Len(file'[d])
           x == untrimmed[d]
           y == untrimmed'[d]
<1> SUFFICES b + m <= Bound + y
  OBVIOUS
<1>1. a \in Nat /\ b \in Nat /\ x \in Nat /\ y \in Nat
  <2>1. /\ file \in [Dirs -> Seq(Unit)] /\ file' \in [Dirs -> Seq(Unit)]
        /\ untrimmed \in [Dirs -> 0 .. MaxUntrimmed] /\ untrimmed' \in [Dirs -> 0 .. MaxUntrimmed]
    BY DEF SizeInv, TypeOK, Unit, Dirs
  <2>2. untrimmed[d] \in 0 .. MaxUntrimmed /\ untrimmed'[d] \in 0 .. MaxUntrimmed
    BY <2>1
  <2>3. Len(file[d]) \in Nat /\ Len(file'[d]) \in Nat
    BY <2>1
  <2>4. QED BY <2>2, <2>3, LogAssumption
<1>2. /\ Limit \in Nat /\ Cardinality(Threads) \in Nat /\ Bound = Limit + Cardinality(Threads)
      /\ IsFiniteSet(Coming(d)) /\ n \in Nat
  BY Sizes, ComingIsFinite DEF Bound
<1>3. a + n <= Bound + x
  BY DEF SizeInv, RoomForAll
<1>4. Coming(d)' \in SUBSET Threads
  BY DEF Coming
<1>5. m \in Nat /\ m <= Cardinality(Threads)
  BY <1>4, DeleteAssumption, FS_Subset, FS_CardinalityType
<1> HIDE DEF n, m, a, b, x, y
<1>6. CASE Len(file'[d]) <= Limit + untrimmed'[d]
  <2>1. b <= Limit + y
    BY <1>6 DEF b, y
  <2>2. QED BY <1>1, <1>2, <1>5, <2>1
<1>7. CASE /\ Coming(d)' \subseteq Coming(d)
           /\ Len(file'[d]) <= Len(file[d]) /\ untrimmed'[d] = untrimmed[d]
  <2>1. m <= n
    BY <1>2, <1>7, FS_Subset DEF m, n
  <2>2. b <= a /\ y = x
    BY <1>7 DEF a, b, x, y
  <2>3. QED BY <1>1, <1>2, <1>3, <1>5, <2>1, <2>2
<1>8. CASE /\ t \in Coming(d) /\ Coming(d)' \subseteq Coming(d) \ {t}
           /\ Len(file'[d]) <= Len(file[d]) + 1 /\ untrimmed'[d] = untrimmed[d]
  <2>1. Cardinality(Coming(d) \ {t}) = n - 1 /\ IsFiniteSet(Coming(d) \ {t})
    BY <1>2, <1>8, FS_RemoveElement DEF n
  <2>2. m <= n - 1
    BY <1>8, <2>1, FS_Subset DEF m
  <2>3. b <= a + 1 /\ y = x
    BY <1>8 DEF a, b, x, y
  <2>4. QED BY <1>1, <1>2, <1>3, <1>5, <2>2, <2>3
<1>9. CASE /\ Coming(d)' \subseteq Coming(d) \union {t}
           /\ Len(file'[d]) <= Len(file[d]) /\ untrimmed'[d] = untrimmed[d] + 1
  <2>1. IsFiniteSet(Coming(d) \union {t}) /\ Cardinality(Coming(d) \union {t}) <= n + 1
    <3>1. /\ IsFiniteSet(Coming(d) \union {t})
          /\ Cardinality(Coming(d) \union {t}) =
               IF t \in Coming(d) THEN Cardinality(Coming(d)) ELSE Cardinality(Coming(d)) + 1
      BY <1>2, FS_AddElement
    <3>2. QED BY <1>2, <3>1 DEF n
  <2>2. Cardinality(Coming(d) \union {t}) \in Nat
    BY <2>1, FS_CardinalityType
  <2>3. m <= Cardinality(Coming(d) \union {t})
    BY <1>9, <2>1, FS_Subset DEF m
  <2>4. m \in Nat /\ n \in Nat
    BY <1>2, <1>5 DEF m, n
  <2>5. m <= n + 1
    BY <2>1, <2>2, <2>3, <2>4
  <2>6. b <= a /\ y = x + 1
    BY <1>9 DEF a, b, x, y
  <2>7. QED BY <1>1, <1>2, <1>3, <2>4, <2>5, <2>6
<1>10. QED BY <1>6, <1>7, <1>8, <1>9

LEMMA InitLog == Init => LogInv
<1> SUFFICES ASSUME Init PROVE LogInv
  OBVIOUS
<1>1. \A S : <<>> \in Seq(S) /\ Len(<<>>) = 0
  BY EmptySeq
<1>2. TypeOK
  BY <1>1, LogAssumption DEF Init, TypeOK, Dirs, Default, Places
<1>3. BufferFilled /\ FoundInBound
  BY DEF Init, BufferFilled, FoundInBound, Trimming
<1>4. RoomForAll
  <2>1. \A d \in Dirs : Len(file[d]) = 0 /\ untrimmed[d] = 0
    BY <1>1 DEF Init
  <2>2. QED BY <2>1, Sizes, ComingIsFinite DEF RoomForAll, Bound
<1>5. \A d \in Dirs : Savers(d) = {}
  BY DEF Init, Savers
<1>6. FoundStands /\ OneSaver /\ KeepsNewest
  BY <1>5 DEF Init, FoundStands, OneSaver, KeepsNewest
<1>7. QED BY <1>2, <1>3, <1>4, <1>6 DEF LogInv, SizeInv, TextInv
------------------------------------------------------------------------------
(* Types. *)
LEMMA OverType ==
  ASSUME TypeOK, NEW ts, Over(ts)
  PROVE  /\ pc' \in [Threads -> Places] /\ path' \in [Threads -> Dirs]
         /\ actsize' \in [Threads -> Nat] /\ early' \in [Threads -> BOOLEAN]
BY DEF TypeOK, Over, Places, Dirs

LEMMA GoToType ==
  ASSUME TypeOK, NEW t \in Threads, NEW place \in Places, GoTo(t, place)
  PROVE  /\ pc' \in [Threads -> Places]
         /\ pc'[t] = place /\ \A u \in Threads \ {t} : pc'[u] = pc[u]
BY DEF TypeOK, GoTo

(* What WriteFile writes.                                                  *)
LEMMA KeptType ==
  ASSUME TypeOK, BufferFilled, NEW t \in Threads, At(t, "write")
  PROVE  /\ Kept(t) \in Seq(Unit)
         /\ Len(Kept(t)) = actsize[t] - DelSize(actsize[t])
         /\ Kept(t) = SubSeq(buffer[t], DelSize(actsize[t]) + 1, Len(buffer[t]))
<1> DEFINE n == actsize[t]
<1>1. n \in Nat /\ buffer[t] \in Seq(Unit) /\ Len(buffer[t]) = n
  BY DEF TypeOK, BufferFilled, At
<1>2. DelSize(n) \in 0 .. n
  BY <1>1, TrimEnough
<1>3. \A i \in DelSize(n) + 1 .. n : buffer[t][i] \in Unit
  BY <1>1, <1>2
<1>4. /\ Kept(t) \in Seq(Unit)
      /\ Len(Kept(t)) = IF DelSize(n) + 1 <= n THEN n - (DelSize(n) + 1) + 1 ELSE 0
  BY <1>1, <1>2, <1>3, SubSeqProperties DEF Kept
<1>5. QED BY <1>1, <1>2, <1>4 DEF Kept

(* A text written over a file from its start.                              *)
LEMMA OverwriteType ==
  ASSUME NEW S, NEW s \in Seq(S), NEW f \in Seq(S)
  PROVE  LET g == s \o SubSeq(f, Len(s) + 1, Len(f)) IN
         /\ g \in Seq(S)
         /\ Len(g) = IF Len(f) > Len(s) THEN Len(f) ELSE Len(s)
<1>1. Len(s) \in Nat /\ Len(f) \in Nat /\ \A i \in Len(s) + 1 .. Len(f) : f[i] \in S
  OBVIOUS
<1>2. /\ SubSeq(f, Len(s) + 1, Len(f)) \in Seq(S)
      /\ Len(SubSeq(f, Len(s) + 1, Len(f))) =
           IF Len(s) + 1 <= Len(f) THEN Len(f) - (Len(s) + 1) + 1 ELSE 0
  BY <1>1, SubSeqProperties
<1>3. QED BY <1>1, <1>2, ConcatProperties

(* What ReadFile reads, when n entries of the file can be read.            *)
ReadOf(t, n) ==
  [k \in 1 .. actsize[t] |->
     IF Len(file[path[t]]) <= actsize[t] /\ k <= n THEN file[path[t]][k] ELSE Garbage]

LEMMA ReadIs ==
  ASSUME TypeOK, NEW t \in Threads, NEW n \in 0 .. Len(file[path[t]])
  PROVE  /\ ReadOf(t, n) \in Seq(Unit) /\ Len(ReadOf(t, n)) = actsize[t]
         /\ n = Len(file[path[t]]) /\ n = actsize[t] => ReadOf(t, n) = file[path[t]]
<1> DEFINE f == file[path[t]]
<1>1. f \in Seq(Unit) /\ actsize[t] \in Nat /\ Garbage \in Unit /\ Len(f) \in Nat
  BY DEF TypeOK, Unit
<1>2. \A k \in 1 .. actsize[t] : ReadOf(t, n)[k] \in Unit
  BY <1>1 DEF ReadOf
<1>3. DOMAIN ReadOf(t, n) = 1 .. actsize[t]
  BY DEF ReadOf
<1>4. ReadOf(t, n) \in Seq(Unit) /\ Len(ReadOf(t, n)) = actsize[t]
  BY <1>1, <1>2, <1>3 DEF ReadOf
<1>5. ASSUME n = Len(f), n = actsize[t] PROVE ReadOf(t, n) = f
  <2>1. ReadOf(t, n) = [k \in 1 .. Len(f) |-> f[k]]
    BY <1>1, <1>5 DEF ReadOf
  <2>2. f = [k \in 1 .. Len(f) |-> f[k]]
    BY <1>1
  <2>3. QED BY <2>1, <2>2
<1>6. QED BY <1>4, <1>5

LEMMA ChangesType ==
  ASSUME TypeOK, NEW t \in Threads, NEW text \in Seq(Unit), NEW whole \in Seq(Unit), NEW damage,
         Changes(t, text, whole, damage)
  PROVE  /\ file' \in [Dirs -> Seq(Unit)] /\ log' \in [Dirs -> Seq(Unit)]
         /\ stale' \in [Threads -> BOOLEAN] /\ UNCHANGED <<bprint, untrimmed>>
<1>1. file' \in [Dirs -> Seq(Unit)]
  BY DEF Changes, TypeOK
<1>2. log' \in [Dirs -> Seq(Unit)]
  BY DEF Changes, TypeOK
<1>3. stale' \in [Threads -> BOOLEAN]
  BY DEF Changes
<1>4. QED BY <1>1, <1>2, <1>3 DEF Changes

LEMMA StepType == TypeOK /\ BufferFilled /\ [Next]_vars => TypeOK'
<1> SUFFICES ASSUME TypeOK, BufferFilled, [Next]_vars PROVE TypeOK'
  OBVIOUS
<1>p. \A place \in {"idle", "first", "set", "dir", "size", "bprint", "print", "path", "stat", "read",
                    "truncate", "write", "append"} : place \in Places
  BY DEF Places
<1>q. \A t \in Threads : Proc[t] \in Procs
  BY LogAssumption
<1>1. ASSUME NEW t \in Threads, Begin(t) PROVE TypeOK'
  BY <1>1, <1>p, GoToType DEF Begin, TypeOK, disk, count, history
<1>2. ASSUME NEW t \in Threads, TestFirst(t) PROVE TypeOK'
  <2>1. pc' \in [Threads -> Places]
    BY <1>2, <1>p, GoToType DEF TestFirst
  <2>2. early' \in [Threads -> BOOLEAN]
    BY <1>2, <1>q DEF TestFirst, TypeOK
  <2>3. QED BY <1>2, <2>1, <2>2 DEF TestFirst, TypeOK, disk, count, history
<1>3. ASSUME NEW t \in Threads, SetFirst(t) PROVE TypeOK'
  BY <1>3, <1>p, <1>q, GoToType DEF SetFirst, TypeOK, disk, count, history
<1>4. ASSUME NEW t \in Threads, LoadDir(t) PROVE TypeOK'
  <2>1. conf' = [conf EXCEPT ![Proc[t]] = [conf[Proc[t]] EXCEPT !.dir = ConfDir]]
    BY <1>4 DEF LoadDir, Store
  <2>2. conf' \in [Procs -> [dir : Dirs, size : {DefaultSize, ConfSize}, print : BOOLEAN]]
    <3>1. conf[Proc[t]] \in [dir : Dirs, size : {DefaultSize, ConfSize}, print : BOOLEAN]
      BY <1>q DEF TypeOK
    <3>2. QED BY <1>q, <2>1, <3>1 DEF TypeOK, Dirs
  <2>3. pc' \in [Threads -> Places]
    BY <1>4, <1>p, GoToType DEF LoadDir, Store
  <2>4. QED BY <1>4, <2>2, <2>3 DEF LoadDir, Store, TypeOK, disk, count, history
<1>5. ASSUME NEW t \in Threads, LoadSize(t) PROVE TypeOK'
  <2>1. conf' = [conf EXCEPT ![Proc[t]] = [conf[Proc[t]] EXCEPT !.size = ConfSize]]
    BY <1>5 DEF LoadSize, Store
  <2>2. conf' \in [Procs -> [dir : Dirs, size : {DefaultSize, ConfSize}, print : BOOLEAN]]
    <3>1. conf[Proc[t]] \in [dir : Dirs, size : {DefaultSize, ConfSize}, print : BOOLEAN]
      BY <1>q DEF TypeOK
    <3>2. QED BY <1>q, <2>1, <3>1 DEF TypeOK, Dirs
  <2>3. pc' \in [Threads -> Places]
    BY <1>5, <1>p, GoToType DEF LoadSize, Store
  <2>4. QED BY <1>5, <2>2, <2>3 DEF LoadSize, Store, TypeOK, disk, count, history
<1>6. ASSUME NEW t \in Threads, LoadPrint(t) PROVE TypeOK'
  <2>1. conf' = [conf EXCEPT ![Proc[t]] = [conf[Proc[t]] EXCEPT !.print = bprint]]
    BY <1>6 DEF LoadPrint, Store
  <2>2. conf' \in [Procs -> [dir : Dirs, size : {DefaultSize, ConfSize}, print : BOOLEAN]]
    <3>1. conf[Proc[t]] \in [dir : Dirs, size : {DefaultSize, ConfSize}, print : BOOLEAN]
      BY <1>q DEF TypeOK
    <3>2. QED BY <1>q, <2>1, <3>1 DEF TypeOK, Dirs
  <2>3. pc' \in [Threads -> Places]
    BY <1>6, <1>p, GoToType DEF LoadPrint, Store
  <2>4. QED BY <1>6, <2>2, <2>3 DEF LoadPrint, Store, TypeOK, disk, count, history
<1>7. ASSUME NEW t \in Threads, TestPrint(t) PROVE TypeOK'
  <2>1. CASE Conf(t).print
    BY <1>7, <1>p, <2>1, GoToType DEF TestPrint, TypeOK, disk, count, history
  <2>2. CASE ~Conf(t).print
    BY <1>7, <2>2, OverType DEF TestPrint, TypeOK, disk, count, history
  <2>3. QED BY <2>1, <2>2
<1>8. ASSUME NEW t \in Threads, GetLogPath(t) PROVE TypeOK'
  BY <1>8, <1>p, <1>q, GoToType DEF GetLogPath, Conf, TypeOK, disk, count, history
<1>9. ASSUME NEW t \in Threads, GetFileSize(t) PROVE TypeOK'
  <2>1. pc' \in [Threads -> Places]
    BY <1>9, <1>p, GoToType DEF GetFileSize
  <2>2. actsize' \in [Threads -> Nat]
    <3>1. Len(file[path[t]]) \in Nat BY DEF TypeOK
    <3>2. QED BY <1>9, <3>1 DEF GetFileSize, TypeOK
  <2>3. QED BY <1>9, <2>1, <2>2 DEF GetFileSize, TypeOK, disk, count, history
<1>10. ASSUME NEW t \in Threads, ReadFile(t) PROVE TypeOK'
  <2>1. PICK n \in 0 .. Len(file[path[t]]) :
          /\ buffer' = [buffer EXCEPT ![t] = ReadOf(t, n)]
          /\ stale' = [stale EXCEPT ![t] = @ \/ n < Len(file[path[t]])]
    BY <1>10 DEF ReadFile, ReadOf
  <2>2. ReadOf(t, n) \in Seq(Unit)
    BY ReadIs
  <2>3. buffer' \in [Threads -> Seq(Unit)]
    BY <2>1, <2>2 DEF TypeOK
  <2>4. stale' \in [Threads -> BOOLEAN]
    BY <2>1 DEF TypeOK
  <2>5. pc' \in [Threads -> Places]
    BY <1>10, <1>p, GoToType DEF ReadFile
  <2>6. QED BY <1>10, <2>3, <2>4, <2>5 DEF ReadFile, TypeOK, disk, count
<1>11. ASSUME NEW t \in Threads, Truncate(t) PROVE TypeOK'
  <2>1. pc' \in [Threads -> Places]
    BY <1>11, <1>p, GoToType DEF Truncate
  <2>2. <<>> \in Seq(Unit) /\ log[path[t]] \in Seq(Unit)
    BY EmptySeq DEF TypeOK
  <2>3. /\ file' \in [Dirs -> Seq(Unit)] /\ log' \in [Dirs -> Seq(Unit)]
        /\ stale' \in [Threads -> BOOLEAN] /\ UNCHANGED <<bprint, untrimmed>>
    BY <1>11, <2>2, ChangesType DEF Truncate
  <2>4. QED BY <1>11, <2>1, <2>3 DEF Truncate, TypeOK, count
<1>12. ASSUME NEW t \in Threads, WriteFile(t) PROVE TypeOK'
  <2> DEFINE f == file[path[t]]
             whole == log[path[t]]
  <2>1. PICK part \in Written(Kept(t)) :
          Changes(t, part \o SubSeq(f, Len(part) + 1, Len(f)),
                     SubSeq(whole, DelSize(Len(whole)) + 1, Len(whole)),
                     stale[t] \/ part # Kept(t))
    BY <1>12 DEF WriteFile
  <2>2. /\ f \in Seq(Unit) /\ Kept(t) \in Seq(Unit) /\ whole \in Seq(Unit) /\ Garbage \in Unit
        /\ Len(whole) \in Nat
    <3>1. Kept(t) \in Seq(Unit)
      BY <1>12, KeptType DEF WriteFile
    <3>2. Garbage \in Unit
      BY DEF Unit
    <3>3. QED BY <3>1, <3>2 DEF TypeOK
  <2>3. part \o SubSeq(f, Len(part) + 1, Len(f)) \in Seq(Unit)
    BY <2>2, WrittenIs, OverwriteType
  <2>4. SubSeq(whole, DelSize(Len(whole)) + 1, Len(whole)) \in Seq(Unit)
    <3>1. DelSize(Len(whole)) \in 0 .. Len(whole)
      BY <2>2, TrimEnough, LogAssumption
    <3>2. \A i \in DelSize(Len(whole)) + 1 .. Len(whole) : whole[i] \in Unit
      BY <2>2, <3>1
    <3>3. QED BY <2>2, <3>1, <3>2, SubSeqProperties
  <2>5. /\ file' \in [Dirs -> Seq(Unit)] /\ log' \in [Dirs -> Seq(Unit)]
        /\ stale' \in [Threads -> BOOLEAN] /\ UNCHANGED <<bprint, untrimmed>>
    BY <2>1, <2>3, <2>4, ChangesType
  <2>6. buffer' \in [Threads -> Seq(Unit)]
    BY <1>12, EmptySeq DEF WriteFile, TypeOK
  <2>7. pc' \in [Threads -> Places]
    BY <1>12, <1>p, GoToType DEF WriteFile
  <2>8. QED BY <1>12, <2>5, <2>6, <2>7 DEF WriteFile, TypeOK, count
<1>13. ASSUME NEW t \in Threads, AppendEntry(t) PROVE TypeOK'
  <2> DEFINE entry == <<entries + 1>>
  <2>1. entry \in Seq(Unit) /\ entries' \in 0 .. MaxEntries /\ Garbage \in Unit
    BY <1>13, EntryIs, LogAssumption DEF AppendEntry, TypeOK, Unit
  <2>2. PICK part \in Written(entry) :
          Changes(t, file[path[t]] \o part, log[path[t]] \o entry, part # entry)
    BY <1>13 DEF AppendEntry
  <2>3. part \in Seq(Unit)
    BY <2>1, WrittenIs
  <2> HIDE DEF entry
  <2>4. file[path[t]] \o part \in Seq(Unit) /\ log[path[t]] \o entry \in Seq(Unit)
    BY <2>1, <2>3, ConcatProperties DEF TypeOK
  <2>5. /\ file' \in [Dirs -> Seq(Unit)] /\ log' \in [Dirs -> Seq(Unit)]
        /\ stale' \in [Threads -> BOOLEAN] /\ UNCHANGED <<bprint, untrimmed>>
    BY <2>2, <2>4, ChangesType
  <2>6. QED BY <1>13, <2>1, <2>5, OverType DEF AppendEntry, TypeOK
<1>14. ASSUME NEW p \in Procs, Crash(p) PROVE TypeOK'
  <2>1. buffer' \in [Threads -> Seq(Unit)]
    BY <1>14, EmptySeq DEF Crash, TypeOK
  <2>2. /\ conf' \in [Procs -> [dir : Dirs, size : {DefaultSize, ConfSize}, print : BOOLEAN]]
        /\ bFirst' \in [Procs -> BOOLEAN]
    BY <1>14 DEF Crash, TypeOK, Default, Dirs
  <2>3. crashes' \in 0 .. MaxCrashes
    BY <1>14, LogAssumption DEF Crash, TypeOK
  <2>4. log' \in [Dirs -> Seq(Unit)] /\ stale' \in [Threads -> BOOLEAN]
    BY <1>14 DEF Crash, TypeOK
  <2>5. QED BY <1>14, <2>1, <2>2, <2>3, <2>4, OverType DEF Crash, TypeOK, disk
<1>15. CASE UNCHANGED vars
  BY <1>15 DEF vars, disk, local, count, history, TypeOK
<1>16. ASSUME NEW t \in Threads, LoadNothing(t) PROVE TypeOK'
  <2>1. bFirst' \in [Procs -> BOOLEAN] /\ early' \in [Threads -> BOOLEAN]
    BY <1>16, <1>q DEF LoadNothing, TypeOK
  <2>2. pc' \in [Threads -> Places]
    BY <1>16, <1>p, GoToType DEF LoadNothing
  <2>3. QED BY <1>16, <2>1, <2>2 DEF LoadNothing, TypeOK, disk, count, history
<1>17. ASSUME NEW t \in Threads, TrimFails(t) PROVE TypeOK'
  <2>1. untrimmed' \in [Dirs -> 0 .. MaxUntrimmed] /\ stale' \in [Threads -> BOOLEAN]
    BY <1>17, LogAssumption DEF TrimFails, TypeOK
  <2>2. buffer' \in [Threads -> Seq(Unit)]
    BY <1>17, EmptySeq DEF TrimFails, TypeOK
  <2>3. pc' \in [Threads -> Places]
    BY <1>17, <1>p, GoToType DEF TrimFails
  <2>4. QED BY <1>17, <2>1, <2>2, <2>3 DEF TrimFails, TypeOK, disk, count
<1>18. ASSUME NEW t \in Threads, AppendFails(t) PROVE TypeOK'
  BY <1>18, OverType DEF AppendFails, TypeOK, disk, count, history
<1>19. QED
  BY <1>1, <1>2, <1>3, <1>4, <1>5, <1>6, <1>7, <1>8, <1>9, <1>10, <1>11, <1>12, <1>13, <1>14, <1>15,
     <1>16, <1>17, <1>18 DEF Next

------------------------------------------------------------------------------
(* The sizes. A thread on its way to a trim or an append.                  *)
LEMMA Lengths ==
  ASSUME SizeInv
  PROVE  /\ \A d \in Dirs : Len(file[d]) \in Nat /\ untrimmed[d] \in Nat
         /\ \A t \in Threads : path[t] \in Dirs /\ actsize[t] \in Nat /\ Len(buffer[t]) \in Nat
BY LogAssumption DEF SizeInv, TypeOK

(* No thread comes to where a file is read, rewritten or appended to.      *)
LEMMA SizeQuiet ==
  ASSUME SizeInv, TypeOK', UNCHANGED <<file, untrimmed>>, NEW ts \in SUBSET Threads,
         \A u \in ts : pc'[u] \notin Trimming \union {"append"},
         \A u \in Threads \ ts :
           pc'[u] = pc[u] /\ path'[u] = path[u] /\ actsize'[u] = actsize[u] /\ buffer'[u] = buffer[u]
  PROVE  SizeInv'
<1>1. BufferFilled' /\ FoundInBound'
  BY DEF SizeInv, BufferFilled, FoundInBound, Trimming, Bound, Limit
<1>2. \A d \in Dirs : Coming(d)' \subseteq Coming(d)
  BY DEF Coming, Trimming
<1>3. RoomForAll'
  <2> SUFFICES ASSUME NEW d \in Dirs
               PROVE  Len(file'[d]) + Cardinality(Coming(d)') <= Bound + untrimmed'[d]
    BY DEF RoomForAll, Bound, Limit
  <2>1. CASE Threads = {}
    <3>1. Coming(d)' = Coming(d)
      BY <2>1 DEF Coming
    <3>2. QED BY <3>1 DEF SizeInv, RoomForAll
  <2>2. CASE Threads # {}
    <3>1. PICK t \in Threads : TRUE
      BY <2>2
    <3>2. Len(file'[d]) <= Len(file[d]) /\ untrimmed'[d] = untrimmed[d]
      BY Lengths
    <3>3. QED BY <1>2, <3>1, <3>2, RoomStays
  <2>3. QED BY <2>1, <2>2
<1>4. QED BY <1>1, <1>3 DEF SizeInv

LEMMA SizeQuietOne ==
  ASSUME SizeInv, TypeOK', UNCHANGED <<file, untrimmed>>, NEW t \in Threads,
         pc'[t] \notin Trimming \union {"append"},
         \A u \in Threads \ {t} :
           pc'[u] = pc[u] /\ path'[u] = path[u] /\ actsize'[u] = actsize[u] /\ buffer'[u] = buffer[u]
  PROVE  SizeInv'
<1>1. {t} \in SUBSET Threads /\ \A u \in {t} : pc'[u] \notin Trimming \union {"append"}
  OBVIOUS
<1>2. QED BY <1>1, SizeQuiet

LEMMA SizeStep == SizeInv /\ [Next]_vars => SizeInv'
<1> SUFFICES ASSUME SizeInv, [Next]_vars PROVE SizeInv'
  OBVIOUS
<1>t. TypeOK'
  BY StepType DEF SizeInv
<1>d. \A t \in Threads : path[t] \in Dirs
  BY Lengths
<1>1. ASSUME NEW t \in Threads,
             \/ Begin(t) \/ TestFirst(t) \/ SetFirst(t) \/ LoadDir(t) \/ LoadSize(t) \/ LoadPrint(t)
             \/ LoadNothing(t)
      PROVE  SizeInv'
  <2>1. /\ \E place \in {"first", "set", "dir", "size", "bprint", "print"} : GoTo(t, place)
        /\ UNCHANGED <<file, untrimmed, actsize, buffer, path>>
    BY <1>1 DEF Begin, TestFirst, SetFirst, LoadDir, LoadSize, LoadPrint, LoadNothing, Store, disk, history
  <2>2. pc'[t] \notin Trimming \union {"append"} /\ \A u \in Threads \ {t} : pc'[u] = pc[u]
    BY <2>1 DEF GoTo, Trimming, SizeInv, TypeOK
  <2>3. QED BY <1>t, <2>1, <2>2, SizeQuietOne
<1>2. ASSUME NEW t \in Threads, TestPrint(t) PROVE SizeInv'
  <2>1. UNCHANGED <<file, untrimmed, buffer>>
    BY <1>2 DEF TestPrint, disk, history
  <2>2. \/ GoTo(t, "path") /\ UNCHANGED <<path, actsize>>
        \/ Over({t})
    BY <1>2 DEF TestPrint
  <2>3. /\ pc'[t] \notin Trimming \union {"append"}
        /\ \A u \in Threads \ {t} : pc'[u] = pc[u] /\ path'[u] = path[u] /\ actsize'[u] = actsize[u]
    BY <2>2 DEF GoTo, Over, Trimming, SizeInv, TypeOK
  <2>4. QED BY <1>t, <2>1, <2>3, SizeQuietOne
<1>3. ASSUME NEW t \in Threads, GetLogPath(t) PROVE SizeInv'
  <2>1. /\ GoTo(t, "stat") /\ path' = [path EXCEPT ![t] = Conf(t).dir]
        /\ UNCHANGED <<file, untrimmed, actsize, buffer>>
    BY <1>3 DEF GetLogPath, disk, history
  <2>2. /\ pc'[t] \notin Trimming \union {"append"}
        /\ \A u \in Threads \ {t} : pc'[u] = pc[u] /\ path'[u] = path[u]
    BY <2>1 DEF GoTo, Trimming, SizeInv, TypeOK
  <2>3. QED BY <1>t, <2>1, <2>2, SizeQuietOne
<1>4. ASSUME NEW t \in Threads, GetFileSize(t) PROVE SizeInv'
  <2> DEFINE d == path[t]
  <2>1. /\ d \in Dirs /\ Len(file[d]) \in Nat
        /\ actsize' = [actsize EXCEPT ![t] = Len(file[d])]
        /\ UNCHANGED <<file, untrimmed, path, buffer>>
    BY <1>4, Lengths DEF GetFileSize, disk, history
  <2>2. /\ pc'[t] = IF Conf(t).size < Len(file[d]) THEN "read" ELSE "append"
        /\ \A u \in Threads \ {t} : pc'[u] = pc[u]
    BY <1>4 DEF GetFileSize, GoTo, SizeInv, TypeOK
  <2>3. actsize'[t] = Len(file[d]) /\ \A u \in Threads \ {t} : actsize'[u] = actsize[u]
    BY <2>1 DEF SizeInv, TypeOK
  <2>4. Conf(t).size \in Nat /\ Conf(t).size <= Limit /\ Limit \in Nat
    BY Sizes, LogAssumption DEF Conf, SizeInv, TypeOK
  <2>5. BufferFilled'
    BY <2>1, <2>2, <2>3 DEF SizeInv, BufferFilled
  <2>6. FoundInBound'
    <3>1. Len(file[d]) <= Bound + untrimmed[d]
      BY <2>1, Sizes, ComingIsFinite, Lengths DEF SizeInv, RoomForAll, Bound
    <3>2. Conf(t).size < Len(file[d]) => Len(file[d]) # 0
      BY <2>1, <2>4
    <3>3. ASSUME NEW u \in Threads, pc'[u] \in Trimming
          PROVE  actsize'[u] <= Bound + untrimmed'[path'[u]] /\ actsize'[u] # 0
      <4>1. CASE u = t
        BY <2>1, <2>2, <2>3, <3>1, <3>2, <3>3, <4>1 DEF Trimming
      <4>2. CASE u # t
        BY <2>1, <2>2, <2>3, <3>3, <4>2 DEF SizeInv, FoundInBound
      <4>3. QED BY <4>1, <4>2
    <3>4. QED BY <3>3 DEF FoundInBound, Bound, Limit
  <2>7. RoomForAll'
    <3> SUFFICES ASSUME NEW e \in Dirs
                 PROVE  Len(file'[e]) + Cardinality(Coming(e)') <= Bound + untrimmed'[e]
      BY DEF RoomForAll, Bound, Limit
    <3>1. CASE e = d /\ ~(Conf(t).size < Len(file[d]))
      <4>1. Len(file'[e]) <= Limit + untrimmed'[e]
        BY <2>1, <2>4, <3>1, Lengths
      <4>2. QED BY <1>t, <4>1, RoomStays
    <3>2. CASE ~(e = d /\ ~(Conf(t).size < Len(file[d])))
      <4>1. Coming(e)' \subseteq Coming(e)
        BY <2>1, <2>2, <3>2 DEF Coming
      <4>2. QED BY <1>t, <2>1, <4>1, Lengths, RoomStays
    <3>3. QED BY <3>1, <3>2
  <2>8. QED BY <1>t, <2>5, <2>6, <2>7 DEF SizeInv
<1>5. ASSUME NEW t \in Threads, TrimFails(t) PROVE SizeInv'
  <2> DEFINE d == path[t]
  <2>1. /\ d \in Dirs /\ UNCHANGED <<file, path, actsize>>
        /\ untrimmed' = [untrimmed EXCEPT ![d] = @ + 1]
        /\ pc[t] \notin {"append", "write"}
    BY <1>5, <1>d DEF TrimFails, At, disk
  <2>2. pc'[t] = "append" /\ \A u \in Threads \ {t} : pc'[u] = pc[u] /\ buffer'[u] = buffer[u]
    BY <1>5 DEF TrimFails, GoTo, SizeInv, TypeOK
  <2>3. untrimmed'[d] = untrimmed[d] + 1 /\ \A e \in Dirs \ {d} : untrimmed'[e] = untrimmed[e]
    BY <2>1 DEF SizeInv, TypeOK
  <2>4. BufferFilled'
    BY <2>1, <2>2 DEF SizeInv, BufferFilled
  <2>5. FoundInBound'
    <3>1. ASSUME NEW u \in Threads, pc'[u] \in Trimming
          PROVE  actsize'[u] <= Bound + untrimmed'[path'[u]] /\ actsize'[u] # 0
      <4>1. /\ actsize'[u] = actsize[u] /\ path'[u] = path[u] /\ path[u] \in Dirs
            /\ actsize[u] <= Bound + untrimmed[path[u]] /\ actsize[u] # 0
        BY <1>d, <2>1, <2>2, <3>1 DEF SizeInv, FoundInBound, Trimming
      <4>2. untrimmed[path[u]] <= untrimmed'[path[u]] /\ untrimmed'[path[u]] \in Nat
        BY <2>3, <4>1, Lengths
      <4>3. QED BY <4>1, <4>2, Lengths, Sizes DEF Bound
    <3>2. QED BY <3>1 DEF FoundInBound, Bound, Limit
  <2>6. RoomForAll'
    <3> SUFFICES ASSUME NEW e \in Dirs
                 PROVE  Len(file'[e]) + Cardinality(Coming(e)') <= Bound + untrimmed'[e]
      BY DEF RoomForAll, Bound, Limit
    <3>1. Len(file'[e]) <= Len(file[e])
      BY <2>1, Lengths
    <3>2. CASE e = d
      <4>1. Coming(e)' \subseteq Coming(e) \union {t}
        BY <2>1, <2>2 DEF Coming
      <4>2. QED BY <1>t, <2>3, <3>1, <3>2, <4>1, RoomStays
    <3>3. CASE e # d
      <4>1. Coming(e)' \subseteq Coming(e)
        BY <2>1, <2>2, <3>3 DEF Coming
      <4>2. QED BY <1>t, <2>3, <3>1, <3>3, <4>1, RoomStays
    <3>4. QED BY <3>2, <3>3
  <2>7. QED BY <1>t, <2>4, <2>5, <2>6 DEF SizeInv
<1>6. ASSUME NEW t \in Threads, ReadFile(t) PROVE SizeInv'
  <2>1. PICK n \in 0 .. Len(file[path[t]]) : buffer' = [buffer EXCEPT ![t] = ReadOf(t, n)]
    BY <1>6 DEF ReadFile, ReadOf
  <2>2. pc[t] = "read" /\ UNCHANGED <<file, untrimmed, path, actsize>>
    BY <1>6 DEF ReadFile, At, disk
  <2>3. pc'[t] = "truncate" /\ \A u \in Threads \ {t} : pc'[u] = pc[u]
    BY <1>6 DEF ReadFile, GoTo, SizeInv, TypeOK
  <2>4. /\ Len(buffer'[t]) = actsize[t]
        /\ \A u \in Threads \ {t} : buffer'[u] = buffer[u]
    BY <2>1, ReadIs DEF SizeInv, TypeOK
  <2>5. BufferFilled' /\ FoundInBound'
    BY <2>2, <2>3, <2>4 DEF SizeInv, BufferFilled, FoundInBound, Trimming, Bound, Limit
  <2>6. \A e \in Dirs : Coming(e)' \subseteq Coming(e)
    BY <2>2, <2>3 DEF Coming
  <2>7. RoomForAll'
    <3> SUFFICES ASSUME NEW e \in Dirs
                 PROVE  Len(file'[e]) + Cardinality(Coming(e)') <= Bound + untrimmed'[e]
      BY DEF RoomForAll, Bound, Limit
    <3>1. Len(file'[e]) <= Len(file[e]) /\ untrimmed'[e] = untrimmed[e]
      BY <2>2, Lengths
    <3>2. QED BY <1>t, <2>6, <3>1, RoomStays
  <2>8. QED BY <1>t, <2>5, <2>7 DEF SizeInv
<1>7. ASSUME NEW t \in Threads, Truncate(t) PROVE SizeInv'
  <2>1. /\ pc[t] = "truncate" /\ path[t] \in Dirs
        /\ file' = [file EXCEPT ![path[t]] = <<>>] /\ UNCHANGED <<untrimmed, path, actsize, buffer>>
    BY <1>7, <1>d DEF Truncate, Changes, At
  <2>2. pc'[t] = "write" /\ \A u \in Threads \ {t} : pc'[u] = pc[u]
    BY <1>7 DEF Truncate, GoTo, SizeInv, TypeOK
  <2>3. file'[path[t]] = <<>> /\ \A e \in Dirs \ {path[t]} : file'[e] = file[e]
    BY <2>1 DEF SizeInv, TypeOK
  <2>4. BufferFilled' /\ FoundInBound'
    BY <2>1, <2>2 DEF SizeInv, BufferFilled, FoundInBound, Trimming, Bound, Limit
  <2>5. RoomForAll'
    <3> SUFFICES ASSUME NEW e \in Dirs
                 PROVE  Len(file'[e]) + Cardinality(Coming(e)') <= Bound + untrimmed'[e]
      BY DEF RoomForAll, Bound, Limit
    <3>1. CASE e = path[t]
      <4>1. Len(file'[e]) = 0
        BY <2>3, <3>1, EmptySeq
      <4>2. Len(file'[e]) <= Limit + untrimmed'[e]
        BY <2>1, <4>1, Sizes, Lengths
      <4>3. QED BY <1>t, <4>2, RoomStays
    <3>2. CASE e # path[t]
      <4>1. Coming(e)' \subseteq Coming(e)
        BY <2>1, <2>2, <3>2 DEF Coming
      <4>2. QED BY <1>t, <2>1, <2>3, <3>2, <4>1, Lengths, RoomStays
    <3>3. QED BY <3>1, <3>2
  <2>6. QED BY <1>t, <2>4, <2>5 DEF SizeInv
<1>8. ASSUME NEW t \in Threads, WriteFile(t) PROVE SizeInv'
  <2> DEFINE d == path[t]
             f == file[d]
             g(part) == part \o SubSeq(f, Len(part) + 1, Len(f))
  <2>1. PICK part \in Written(Kept(t)) : file' = [file EXCEPT ![d] = g(part)]
    BY <1>8 DEF WriteFile, Changes
  <2>2. /\ At(t, "write") /\ pc[t] = "write" /\ d \in Dirs /\ f \in Seq(Unit)
        /\ Garbage \in Unit /\ UNCHANGED <<untrimmed, path, actsize>>
    BY <1>8, <1>d DEF WriteFile, Changes, At, SizeInv, TypeOK, Unit
  <2>3. pc'[t] = "append" /\ \A u \in Threads \ {t} : pc'[u] = pc[u] /\ buffer'[u] = buffer[u]
    BY <1>8 DEF WriteFile, GoTo, SizeInv, TypeOK
  <2>4. Kept(t) \in Seq(Unit) /\ Len(Kept(t)) = actsize[t] - DelSize(actsize[t])
    BY <2>2, KeptType DEF SizeInv
  <2>5. Len(Kept(t)) <= Limit + untrimmed[d]
    <3>1. actsize[t] \in Nat /\ untrimmed[d] \in Nat /\ actsize[t] <= Bound + untrimmed[d]
      BY <2>2, Lengths DEF SizeInv, FoundInBound, Trimming
    <3>2. QED BY <2>4, <3>1, TrimEnough
  <2>6. part \in Seq(Unit) /\ Len(part) \in Nat /\ Len(part) <= Len(Kept(t))
    BY <2>2, <2>4, WrittenIs
  <2>7. Len(g(part)) = IF Len(f) > Len(part) THEN Len(f) ELSE Len(part)
    BY <2>2, <2>6, OverwriteType
  <2> HIDE DEF g
  <2>8. file'[d] = g(part) /\ \A e \in Dirs \ {d} : file'[e] = file[e]
    BY <2>1, <2>2 DEF SizeInv, TypeOK
  <2>9. BufferFilled' /\ FoundInBound'
    BY <2>2, <2>3 DEF SizeInv, BufferFilled, FoundInBound, Trimming, Bound, Limit
  <2>10. RoomForAll'
    <3> SUFFICES ASSUME NEW e \in Dirs
                 PROVE  Len(file'[e]) + Cardinality(Coming(e)') <= Bound + untrimmed'[e]
      BY DEF RoomForAll, Bound, Limit
    <3>1. Coming(e)' \subseteq Coming(e)
      BY <2>2, <2>3 DEF Coming
    <3>2. CASE e = d /\ ~(Len(f) > Len(part))
      <4>1. Len(Kept(t)) \in Nat /\ Limit \in Nat /\ untrimmed[d] \in Nat
        BY <2>2, <2>4, Lengths, Sizes
      <4>2. Len(file'[e]) <= Limit + untrimmed'[e]
        BY <2>2, <2>5, <2>6, <2>7, <2>8, <3>2, <4>1
      <4>3. QED BY <1>t, <4>2, RoomStays
    <3>3. CASE ~(e = d /\ ~(Len(f) > Len(part)))
      <4>1. Len(file'[e]) <= Len(file[e])
        BY <2>7, <2>8, <3>3, Lengths
      <4>2. QED BY <1>t, <2>2, <3>1, <4>1, RoomStays
    <3>4. QED BY <3>2, <3>3
  <2>11. QED BY <1>t, <2>9, <2>10 DEF SizeInv
<1>9. ASSUME NEW t \in Threads, AppendEntry(t) PROVE SizeInv'
  <2> DEFINE d == path[t]
             entry == <<entries + 1>>
  <2>1. PICK part \in Written(entry) : file' = [file EXCEPT ![d] = file[d] \o part]
    BY <1>9 DEF AppendEntry, Changes
  <2>2. /\ pc[t] = "append" /\ d \in Dirs /\ Over({t})
        /\ UNCHANGED <<untrimmed, buffer>> /\ Garbage \in Unit
    BY <1>9, <1>d DEF AppendEntry, Changes, At, Unit
  <2>3. /\ pc'[t] = "idle"
        /\ \A u \in Threads \ {t} : pc'[u] = pc[u] /\ path'[u] = path[u] /\ actsize'[u] = actsize[u]
    BY <2>2 DEF Over
  <2>4. part \in Seq(Unit) /\ Len(part) \in Nat /\ Len(part) <= 1
    <3>1. entry \in Seq(Unit) /\ Len(entry) = 1
      BY <1>9, EntryIs DEF AppendEntry, SizeInv
    <3> HIDE DEF entry
    <3>2. QED BY <2>2, <3>1, WrittenIs
  <2>5. /\ file'[d] = file[d] \o part /\ Len(file'[d]) <= Len(file[d]) + 1
        /\ \A e \in Dirs \ {d} : file'[e] = file[e]
    <3>1. file[d] \in Seq(Unit)
      BY <2>2 DEF SizeInv, TypeOK
    <3>2. Len(file[d] \o part) = Len(file[d]) + Len(part)
      BY <2>4, <3>1, ConcatProperties
    <3>3. QED BY <2>1, <2>2, <2>4, <3>2, Lengths DEF SizeInv, TypeOK
  <2>6. BufferFilled' /\ FoundInBound'
    BY <2>2, <2>3 DEF SizeInv, BufferFilled, FoundInBound, Trimming, Bound, Limit
  <2>7. RoomForAll'
    <3> SUFFICES ASSUME NEW e \in Dirs
                 PROVE  Len(file'[e]) + Cardinality(Coming(e)') <= Bound + untrimmed'[e]
      BY DEF RoomForAll, Bound, Limit
    <3>1. CASE e = d
      <4>1. t \in Coming(e) /\ Coming(e)' \subseteq Coming(e) \ {t}
        BY <2>2, <2>3, <3>1 DEF Coming
      <4>2. QED BY <1>t, <2>2, <2>5, <3>1, <4>1, RoomStays
    <3>2. CASE e # d
      <4>1. Coming(e)' \subseteq Coming(e)
        BY <2>2, <2>3, <3>2 DEF Coming
      <4>2. QED BY <1>t, <2>2, <2>5, <3>2, <4>1, Lengths, RoomStays
    <3>3. QED BY <3>1, <3>2
  <2>8. QED BY <1>t, <2>6, <2>7 DEF SizeInv
<1>10. ASSUME NEW t \in Threads, AppendFails(t) PROVE SizeInv'
  <2>1. Over({t}) /\ UNCHANGED <<file, untrimmed, buffer>>
    BY <1>10 DEF AppendFails, disk, history
  <2>2. /\ pc'[t] \notin Trimming \union {"append"}
        /\ \A u \in Threads \ {t} : pc'[u] = pc[u] /\ path'[u] = path[u] /\ actsize'[u] = actsize[u]
    BY <2>1 DEF Over, Trimming
  <2>3. QED BY <1>t, <2>1, <2>2, SizeQuietOne
<1>11. ASSUME NEW p \in Procs, Crash(p) PROVE SizeInv'
  <2> DEFINE killed == {t \in Threads : Proc[t] = p}
  <2>1. Over(killed) /\ UNCHANGED <<file, untrimmed>>
    BY <1>11 DEF Crash, disk
  <2>2. \A u \in Threads \ killed : buffer'[u] = buffer[u]
    BY <1>11 DEF Crash
  <2>3. killed \in SUBSET Threads
    OBVIOUS
  <2> HIDE DEF killed
  <2>4. /\ \A u \in killed : pc'[u] \notin Trimming \union {"append"}
        /\ \A u \in Threads \ killed : pc'[u] = pc[u] /\ path'[u] = path[u] /\ actsize'[u] = actsize[u]
    BY <2>1, <2>3 DEF Over, Trimming
  <2>5. QED BY <1>t, <2>1, <2>2, <2>3, <2>4, SizeQuiet
<1>12. CASE UNCHANGED vars
  <2>1. UNCHANGED <<file, untrimmed, pc, path, actsize, buffer>>
    BY <1>12 DEF vars, disk, local, history
  <2>2. {} \in SUBSET Threads
    OBVIOUS
  <2>3. QED BY <1>t, <2>1, <2>2, SizeQuiet
<1>13. QED
  BY <1>1, <1>2, <1>3, <1>4, <1>5, <1>6, <1>7, <1>8, <1>9, <1>10, <1>11, <1>12 DEF Next

------------------------------------------------------------------------------
(* The texts. A step that leaves the files alone, and those that have      *)
(* emptied one.                                                            *)
LEMMA SaversStay ==
  ASSUME TextInv, UNCHANGED <<file, log>>,
         \A u \in Threads : pc'[u] = "write" <=> pc[u] = "write",
         \A u \in Threads : pc[u] = "write" =>
           path'[u] = path[u] /\ stale'[u] = stale[u] /\ buffer'[u] = buffer[u]
  PROVE  OneSaver' /\ KeepsNewest'
<1>1. \A d \in Dirs : Savers(d)' = Savers(d)
  BY DEF Savers
<1>2. \A d \in Dirs : \A u \in Savers(d) : u \in Threads /\ pc[u] = "write"
  BY DEF Savers
<1>3. QED BY <1>1, <1>2 DEF TextInv, OneSaver, KeepsNewest

(* The steps of some threads that change nothing of a file and come        *)
(* neither from its rewriting nor to it.                                   *)
LEMMA TextQuiet ==
  ASSUME TextInv, UNCHANGED <<file, log>>, NEW ts \in SUBSET Threads,
         \A u \in ts : pc'[u] \notin Trimming /\ pc[u] # "write",
         \A u \in Threads \ ts :
           /\ pc'[u] = pc[u] /\ path'[u] = path[u] /\ stale'[u] = stale[u]
           /\ actsize'[u] = actsize[u] /\ buffer'[u] = buffer[u]
  PROVE  TextInv'
<1>1. FoundStands'
  BY DEF TextInv, FoundStands, Trimming
<1>2. OneSaver' /\ KeepsNewest'
  BY SaversStay DEF Trimming
<1>3. QED BY <1>1, <1>2 DEF TextInv

LEMMA TextQuietOne ==
  ASSUME TextInv, UNCHANGED <<file, log>>, NEW t \in Threads, pc'[t] \notin Trimming, pc[t] # "write",
         \A u \in Threads \ {t} :
           /\ pc'[u] = pc[u] /\ path'[u] = path[u] /\ stale'[u] = stale[u]
           /\ actsize'[u] = actsize[u] /\ buffer'[u] = buffer[u]
  PROVE  TextInv'
<1>1. {t} \in SUBSET Threads /\ \A u \in {t} : pc'[u] \notin Trimming /\ pc[u] # "write"
  OBVIOUS
<1>2. QED BY <1>1, TextQuiet

(* A step of thread t that changes its file, as Changes says; whoever else *)
(* is trimming it is out of date from then on.                             *)
LEMMA TextChanges ==
  ASSUME LogInv, NEW t \in Threads, NEW d, d = path[t], NEW text, NEW whole, NEW damage,
         Changes(t, text, whole, damage),
         pc'[t] \notin {"read", "truncate"}, pc'[t] = "write" => path'[t] = d,
         \A u \in Threads \ {t} :
           /\ pc'[u] = pc[u] /\ path'[u] = path[u]
           /\ actsize'[u] = actsize[u] /\ buffer'[u] = buffer[u],
         IF damage \/ Savers(d) \ {t} # {} THEN t \notin Savers(d)'
         ELSE IF t \in Savers(d)' THEN text = <<>> /\ buffer'[t] = whole ELSE text = whole
  PROVE  TextInv'
<1>1. /\ d \in Dirs
      /\ file'[d] = text /\ \A e \in Dirs \ {d} : file'[e] = file[e] /\ log'[e] = log[e]
      /\ log'[d] = IF damage \/ Savers(d) \ {t} # {} THEN text ELSE whole
      /\ \A u \in Threads : stale'[u] = (pc'[u] \in Trimming /\ (stale[u] \/ (u # t /\ path[u] = d)))
  BY DEF Changes, LogInv, SizeInv, TypeOK
<1>2. FoundStands'
  <2> SUFFICES ASSUME NEW u \in Threads, ~stale'[u], pc'[u] \in {"read", "truncate"}
               PROVE  /\ pc'[u] = "read" => Len(file'[path'[u]]) = actsize'[u]
                      /\ pc'[u] = "truncate" => file'[path'[u]] = buffer'[u]
    BY DEF FoundStands
  <2>1. u # t /\ ~stale[u] /\ path[u] # d /\ path[u] \in Dirs
    BY <1>1 DEF Trimming, LogInv, SizeInv, TypeOK
  <2>2. QED BY <1>1, <2>1 DEF LogInv, TextInv, FoundStands
<1>3. Savers(d)' \subseteq {t}
  <2> SUFFICES ASSUME NEW u \in Savers(d)', u # t PROVE FALSE
    OBVIOUS
  <2>1. u \in Threads /\ path'[u] = d /\ pc'[u] = "write" /\ ~stale'[u]
    BY DEF Savers
  <2>2. path[u] = d /\ pc'[u] \in Trimming
    BY <2>1 DEF Trimming
  <2>3. QED BY <1>1, <2>1, <2>2
<1>4. ASSUME NEW e \in Dirs \ {d} PROVE Savers(e)' = Savers(e) /\ t \notin Savers(e)
  <2>1. t \notin Savers(e) /\ t \notin Savers(e)'
    BY DEF Savers
  <2>2. ASSUME NEW u \in Threads, u # t PROVE u \in Savers(e)' <=> u \in Savers(e)
    <3>1. path[u] = e /\ pc[u] = "write" => (stale'[u] <=> stale[u])
      BY <1>1, <2>2 DEF Trimming, LogInv, SizeInv, TypeOK
    <3>2. pc'[u] = pc[u] /\ path'[u] = path[u]
      BY <2>2
    <3>3. QED BY <3>1, <3>2 DEF Savers
  <2>3. \A u : u \in Savers(e) \/ u \in Savers(e)' => u \in Threads
    BY DEF Savers
  <2>4. \A u : u \in Savers(e)' <=> u \in Savers(e)
    BY <2>1, <2>2, <2>3
  <2> DEFINE old == Savers(e)
             new == Savers(e)'
  <2> HIDE DEF old, new
  <2>5. \A u : u \in new <=> u \in old
    BY <2>4 DEF old, new
  <2>6. new = old
    BY <2>5
  <2>7. QED BY <2>1, <2>6 DEF old, new
<1>5. OneSaver'
  <2> SUFFICES ASSUME NEW e \in Dirs, NEW u \in Savers(e)', NEW v \in Savers(e)' PROVE u = v
    BY DEF OneSaver
  <2>1. CASE e = d
    BY <1>3, <2>1
  <2>2. CASE e # d
    BY <1>4, <2>2 DEF LogInv, TextInv, OneSaver
  <2>3. QED BY <2>1, <2>2
<1>6. KeepsNewest'
  <2> SUFFICES ASSUME NEW e \in Dirs
               PROVE  IF Savers(e)' = {} THEN file'[e] = log'[e]
                      ELSE file'[e] = <<>> /\ \A u \in Savers(e)' : buffer'[u] = log'[e]
    BY DEF KeepsNewest
  <2>1. CASE e = d
    <3>1. CASE damage \/ Savers(d) \ {t} # {}
      <4>1. Savers(d)' = {} /\ file'[d] = log'[d]
        BY <1>1, <1>3, <3>1
      <4>2. QED BY <2>1, <4>1
    <3>2. CASE ~(damage \/ Savers(d) \ {t} # {})
      <4>1. file'[d] = text /\ log'[d] = whole
        BY <1>1, <3>2
      <4>2. CASE t \in Savers(d)'
        <5>1. text = <<>> /\ buffer'[t] = whole /\ Savers(d)' = {t}
          BY <1>3, <3>2, <4>2
        <5>2. QED BY <2>1, <4>1, <5>1
      <4>3. CASE t \notin Savers(d)'
        <5>1. text = whole /\ Savers(d)' = {}
          BY <1>3, <3>2, <4>3
        <5>2. QED BY <2>1, <4>1, <5>1
      <4>4. QED BY <4>2, <4>3
    <3>3. QED BY <3>1, <3>2
  <2>2. CASE e # d
    <3>1. \A u \in Savers(e) : u \in Threads \ {t}
      BY <1>4, <2>2 DEF Savers
    <3>2. QED BY <1>1, <1>4, <2>2, <3>1 DEF LogInv, TextInv, KeepsNewest
  <2>3. QED BY <2>1, <2>2
<1>7. QED BY <1>2, <1>5, <1>6 DEF TextInv

LEMMA TextStep == LogInv /\ [Next]_vars => TextInv'
<1> SUFFICES ASSUME LogInv, [Next]_vars PROVE TextInv'
  OBVIOUS
<1>i. TextInv /\ SizeInv /\ \A t \in Threads : path[t] \in Dirs
  BY Lengths DEF LogInv
<1>1. ASSUME NEW t \in Threads,
             \/ Begin(t) \/ TestFirst(t) \/ SetFirst(t) \/ LoadDir(t) \/ LoadSize(t) \/ LoadPrint(t)
             \/ LoadNothing(t)
      PROVE  TextInv'
  <2>1. /\ \E place \in {"first", "set", "dir", "size", "bprint", "print"} : GoTo(t, place)
        /\ pc[t] # "write" /\ UNCHANGED <<file, log, stale, actsize, buffer, path>>
    BY <1>1 DEF Begin, TestFirst, SetFirst, LoadDir, LoadSize, LoadPrint, LoadNothing, Store, At, disk, history
  <2>2. pc'[t] \notin Trimming /\ \A u \in Threads \ {t} : pc'[u] = pc[u]
    BY <2>1 DEF GoTo, Trimming, LogInv, SizeInv, TypeOK
  <2>3. QED BY <1>i, <2>1, <2>2, TextQuietOne
<1>2. ASSUME NEW t \in Threads, TestPrint(t) PROVE TextInv'
  <2>1. pc[t] # "write" /\ UNCHANGED <<file, log, stale, buffer>>
    BY <1>2 DEF TestPrint, At, disk, history
  <2>2. \/ GoTo(t, "path") /\ UNCHANGED <<path, actsize>>
        \/ Over({t})
    BY <1>2 DEF TestPrint
  <2>3. /\ pc'[t] \notin Trimming
        /\ \A u \in Threads \ {t} : pc'[u] = pc[u] /\ path'[u] = path[u] /\ actsize'[u] = actsize[u]
    BY <2>2 DEF GoTo, Over, Trimming, LogInv, SizeInv, TypeOK
  <2>4. QED BY <1>i, <2>1, <2>3, TextQuietOne
<1>3. ASSUME NEW t \in Threads, GetLogPath(t) PROVE TextInv'
  <2>1. /\ pc[t] # "write" /\ GoTo(t, "stat") /\ path' = [path EXCEPT ![t] = Conf(t).dir]
        /\ UNCHANGED <<file, log, stale, actsize, buffer>>
    BY <1>3 DEF GetLogPath, At, disk, history
  <2>2. pc'[t] \notin Trimming /\ \A u \in Threads \ {t} : pc'[u] = pc[u] /\ path'[u] = path[u]
    BY <2>1 DEF GoTo, Trimming, LogInv, SizeInv, TypeOK
  <2>3. QED BY <1>i, <2>1, <2>2, TextQuietOne
<1>4. ASSUME NEW t \in Threads, GetFileSize(t) PROVE TextInv'
  <2>1. /\ pc[t] = "stat" /\ actsize' = [actsize EXCEPT ![t] = Len(file[path[t]])]
        /\ UNCHANGED <<file, log, stale, path, buffer>>
    BY <1>4 DEF GetFileSize, At, disk, history
  <2>2. pc'[t] \in {"read", "append"} /\ \A u \in Threads \ {t} : pc'[u] = pc[u]
    BY <1>4 DEF GetFileSize, GoTo, LogInv, SizeInv, TypeOK
  <2>3. actsize'[t] = Len(file[path[t]]) /\ \A u \in Threads \ {t} : actsize'[u] = actsize[u]
    BY <2>1 DEF LogInv, SizeInv, TypeOK
  <2>4. FoundStands'
    BY <1>i, <2>1, <2>2, <2>3 DEF TextInv, FoundStands
  <2>5. OneSaver' /\ KeepsNewest'
    BY <1>i, <2>1, <2>2, SaversStay
  <2>6. QED BY <2>4, <2>5 DEF TextInv
<1>5. ASSUME NEW t \in Threads, TrimFails(t) PROVE TextInv'
  <2>1. pc[t] # "write" /\ UNCHANGED <<file, log, path, actsize>>
    BY <1>5 DEF TrimFails, At, disk
  <2>2. /\ pc'[t] \notin Trimming
        /\ \A u \in Threads \ {t} : pc'[u] = pc[u] /\ stale'[u] = stale[u] /\ buffer'[u] = buffer[u]
    BY <1>5 DEF TrimFails, GoTo, Trimming, LogInv, SizeInv, TypeOK
  <2>3. QED BY <1>i, <2>1, <2>2, TextQuietOne
<1>6. ASSUME NEW t \in Threads, ReadFile(t) PROVE TextInv'
  <2> DEFINE f == file[path[t]]
  <2>1. PICK n \in 0 .. Len(f) : /\ buffer' = [buffer EXCEPT ![t] = ReadOf(t, n)]
                                 /\ stale' = [stale EXCEPT ![t] = @ \/ n < Len(f)]
    BY <1>6 DEF ReadFile, ReadOf
  <2>2. pc[t] = "read" /\ UNCHANGED <<file, log, path, actsize>>
    BY <1>6 DEF ReadFile, At, disk
  <2>3. pc'[t] = "truncate" /\ \A u \in Threads \ {t} : pc'[u] = pc[u]
    BY <1>6 DEF ReadFile, GoTo, LogInv, SizeInv, TypeOK
  <2>4. /\ buffer'[t] = ReadOf(t, n) /\ stale'[t] = (stale[t] \/ n < Len(f))
        /\ \A u \in Threads \ {t} : buffer'[u] = buffer[u] /\ stale'[u] = stale[u]
    BY <2>1 DEF LogInv, SizeInv, TypeOK
  <2>5. ~stale'[t] => file[path[t]] = buffer'[t]
    <3> SUFFICES ASSUME ~stale[t], ~(n < Len(f)) PROVE f = ReadOf(t, n)
      BY <2>4
    <3>1. Len(f) = actsize[t] /\ Len(f) \in Nat
      BY <1>i, <2>2, Lengths DEF TextInv, FoundStands
    <3>2. QED BY <1>i, <3>1, ReadIs DEF SizeInv
  <2>6. FoundStands'
    BY <1>i, <2>2, <2>3, <2>4, <2>5 DEF TextInv, FoundStands
  <2>7. OneSaver' /\ KeepsNewest'
    BY <1>i, <2>2, <2>3, <2>4, SaversStay
  <2>8. QED BY <2>6, <2>7 DEF TextInv
<1>7. ASSUME NEW t \in Threads, NEW d \in Dirs, d = path[t], Truncate(t) PROVE TextInv'
  <2>1. /\ pc[t] = "truncate" /\ UNCHANGED <<path, actsize, buffer>>
        /\ Changes(t, <<>>, log[d], stale[t])
    BY <1>7 DEF Truncate, At
  <2>2. pc'[t] = "write" /\ \A u \in Threads \ {t} : pc'[u] = pc[u]
    BY <1>7 DEF Truncate, GoTo, LogInv, SizeInv, TypeOK
  <2>3. stale'[t] = stale[t]
    BY <2>1, <2>2 DEF Changes, Trimming, LogInv, SizeInv, TypeOK
  <2>4. CASE stale[t]
    <3>1. t \notin Savers(d)'
      BY <2>3, <2>4 DEF Savers
    <3>2. QED BY <1>7, <2>1, <2>2, <2>4, <3>1, TextChanges
  <2>5. CASE ~stale[t]
    <3>1. file[d] = buffer[t] /\ Len(buffer[t]) # 0
      BY <1>i, <1>7, <2>1, <2>5 DEF TextInv, FoundStands, SizeInv, FoundInBound, BufferFilled, Trimming
    <3>2. file[d] # <<>>
      BY <3>1, EmptySeq
    <3>3. Savers(d) = {} /\ log[d] = buffer[t]
      BY <1>i, <2>1, <3>1, <3>2 DEF TextInv, KeepsNewest
    <3>4. t \in Savers(d)'
      BY <1>7, <2>1, <2>2, <2>3, <2>5 DEF Savers
    <3>5. IF stale[t] \/ Savers(d) \ {t} # {} THEN t \notin Savers(d)'
          ELSE IF t \in Savers(d)' THEN <<>> = <<>> /\ buffer'[t] = log[d] ELSE <<>> = log[d]
      BY <2>1, <2>5, <3>3, <3>4
    <3>6. QED BY <1>7, <2>1, <2>2, <3>5, TextChanges
  <2>6. QED BY <2>4, <2>5
<1>8. ASSUME NEW t \in Threads, NEW d \in Dirs, d = path[t], WriteFile(t) PROVE TextInv'
  <2> DEFINE f == file[d]
             whole == log[d]
             g(part) == part \o SubSeq(f, Len(part) + 1, Len(f))
             rest == SubSeq(whole, DelSize(Len(whole)) + 1, Len(whole))
  <2>1. PICK part \in Written(Kept(t)) : Changes(t, g(part), rest, stale[t] \/ part # Kept(t))
    BY <1>8 DEF WriteFile
  <2>2. At(t, "write") /\ pc[t] = "write" /\ UNCHANGED <<path, actsize>>
    BY <1>8 DEF WriteFile, At
  <2>3. pc'[t] = "append" /\ \A u \in Threads \ {t} : pc'[u] = pc[u] /\ buffer'[u] = buffer[u]
    BY <1>8 DEF WriteFile, GoTo, LogInv, SizeInv, TypeOK
  <2>4. t \notin Savers(d)'
    BY <2>3 DEF Savers
  <2>5. ASSUME ~(stale[t] \/ part # Kept(t)) PROVE g(part) = rest
    <3>1. t \in Savers(d)
      BY <1>8, <2>2, <2>5 DEF Savers
    <3>2. f = <<>> /\ buffer[t] = whole
      BY <1>i, <2>2, <3>1 DEF TextInv, KeepsNewest
    <3>3. Kept(t) = SubSeq(buffer[t], DelSize(actsize[t]) + 1, Len(buffer[t]))
          /\ Len(buffer[t]) = actsize[t] /\ Kept(t) \in Seq(Unit)
      BY <1>i, <2>2, KeptType DEF SizeInv, BufferFilled
    <3>4. Kept(t) = rest
      BY <3>2, <3>3
    <3>5. SubSeq(f, Len(Kept(t)) + 1, Len(f)) = <<>>
      <4>1. Len(Kept(t)) \in Nat
        BY <3>3
      <4> HIDE DEF f
      <4>2. Len(f) = 0
        BY <3>2, EmptySeq
      <4>3. QED BY <3>2, <4>1, <4>2, SubSeqEmpty
    <3>6. QED BY <2>5, <3>3, <3>4, <3>5, ConcatEmptySeq
  <2> HIDE DEF g, rest
  <2>6. pc'[t] \notin {"read", "truncate"} /\ (pc'[t] = "write" => path'[t] = d)
    BY <2>3
  <2>7. \A u \in Threads \ {t} :
           /\ pc'[u] = pc[u] /\ path'[u] = path[u]
           /\ actsize'[u] = actsize[u] /\ buffer'[u] = buffer[u]
    BY <2>2, <2>3
  <2>8. QED BY <1>8, <2>1, <2>4, <2>5, <2>6, <2>7, TextChanges
<1>9. ASSUME NEW t \in Threads, NEW d \in Dirs, d = path[t], AppendEntry(t) PROVE TextInv'
  <2> DEFINE entry == <<entries + 1>>
  <2>1. PICK part \in Written(entry) : Changes(t, file[d] \o part, log[d] \o entry, part # entry)
    BY <1>9 DEF AppendEntry
  <2>2. pc[t] = "append" /\ Over({t}) /\ buffer' = buffer
    BY <1>9 DEF AppendEntry, At
  <2>3. /\ pc'[t] = "idle"
        /\ \A u \in Threads \ {t} : pc'[u] = pc[u] /\ path'[u] = path[u] /\ actsize'[u] = actsize[u]
    BY <2>2 DEF Over
  <2>4. t \notin Savers(d)' /\ t \notin Savers(d)
    BY <2>2, <2>3 DEF Savers
  <2>5. ASSUME ~(part # entry \/ Savers(d) \ {t} # {}) PROVE file[d] \o part = log[d] \o entry
    <3>1. Savers(d) = {}
      BY <2>4, <2>5
    <3>2. file[d] = log[d]
      BY <1>i, <2>2, <3>1 DEF TextInv, KeepsNewest
    <3>3. QED BY <2>5, <3>2
  <2> HIDE DEF entry
  <2>6. QED BY <1>9, <2>1, <2>2, <2>3, <2>4, <2>5, TextChanges
<1>10. ASSUME NEW t \in Threads, AppendFails(t) PROVE TextInv'
  <2>1. pc[t] # "write" /\ Over({t}) /\ UNCHANGED <<file, log, stale, buffer>>
    BY <1>10 DEF AppendFails, At, disk, history
  <2>2. /\ pc'[t] \notin Trimming
        /\ \A u \in Threads \ {t} : pc'[u] = pc[u] /\ path'[u] = path[u] /\ actsize'[u] = actsize[u]
    BY <2>1 DEF Over, Trimming
  <2>3. QED BY <1>i, <2>1, <2>2, TextQuietOne
<1>11. ASSUME NEW p \in Procs, Crash(p) PROVE TextInv'
  <2> DEFINE killed == {t \in Threads : Proc[t] = p}
  <2>1. /\ Over(killed) /\ file' = file
        /\ log' = [d \in Dirs |-> IF Savers(d) \cap killed = {} THEN log[d] ELSE file[d]]
        /\ \A u \in Threads \ killed : buffer'[u] = buffer[u] /\ stale'[u] = stale[u]
    BY <1>11 DEF Crash, disk, LogInv, SizeInv, TypeOK
  <2>2. killed \in SUBSET Threads
    OBVIOUS
  <2> HIDE DEF killed
  <2>3. /\ \A u \in killed : pc'[u] = "idle"
        /\ \A u \in Threads \ killed : pc'[u] = pc[u] /\ path'[u] = path[u] /\ actsize'[u] = actsize[u]
    BY <2>1, <2>2 DEF Over
  <2>4. FoundStands'
    BY <1>i, <2>1, <2>3 DEF TextInv, FoundStands
  <2>5. \A d \in Dirs : Savers(d)' = Savers(d) \ killed
    BY <2>1, <2>2, <2>3 DEF Savers
  <2>6. OneSaver'
    BY <1>i, <2>5 DEF TextInv, OneSaver
  <2>7. KeepsNewest'
    <3> SUFFICES ASSUME NEW d \in Dirs
                 PROVE  IF Savers(d)' = {} THEN file'[d] = log'[d]
                        ELSE file'[d] = <<>> /\ \A u \in Savers(d)' : buffer'[u] = log'[d]
      BY DEF KeepsNewest
    <3>1. CASE Savers(d) \cap killed = {}
      <4>1. Savers(d)' = Savers(d) /\ log'[d] = log[d] /\ \A u \in Savers(d) : u \in Threads \ killed
        BY <2>1, <2>5, <3>1 DEF Savers
      <4>2. QED BY <1>i, <2>1, <4>1 DEF TextInv, KeepsNewest
    <3>2. CASE Savers(d) \cap killed # {}
      <4>1. Savers(d)' = {}
        BY <1>i, <2>5, <3>2 DEF TextInv, OneSaver
      <4>2. QED BY <2>1, <3>2, <4>1
    <3>3. QED BY <3>1, <3>2
  <2>8. QED BY <2>4, <2>6, <2>7 DEF TextInv
<1>12. CASE UNCHANGED vars
  <2>1. UNCHANGED <<file, log, stale, pc, path, actsize, buffer>>
    BY <1>12 DEF vars, disk, local, history
  <2>2. {} \in SUBSET Threads
    OBVIOUS
  <2>3. QED BY <1>i, <2>1, <2>2, TextQuiet
<1>13. QED
  BY <1>i, <1>1, <1>2, <1>3, <1>4, <1>5, <1>6, <1>7, <1>8, <1>9, <1>10, <1>11, <1>12 DEF Next

LEMMA LogInvStep == LogInv /\ [Next]_vars => LogInv'
BY SizeStep, TextStep DEF LogInv

LEMMA LogInvariant == Spec => []LogInv
BY InitLog, LogInvStep, PTL DEF Spec

(* Every variable always has a value it can have in the code; buffers in   *)
(* particular are those that were allocated.                               *)
THEOREM TypeCorrect == Spec => []TypeOK
<1>1. LogInv => TypeOK BY DEF LogInv, SizeInv
<1>2. QED BY LogInvariant, <1>1, PTL

(* No file outgrows its limit by more than an entry of each thread and one *)
(* of each trim that failed (lines 204 and 249), for any number of threads *)
(* and processes, if a trim may remove an entry of each thread.            *)
THEOREM FilesAreBounded == Spec => []BoundedSize
<1>1. LogInv => BoundedSize
  <2> SUFFICES ASSUME LogInv, NEW d \in Dirs PROVE Len(file[d]) <= Bound + untrimmed[d]
    BY DEF BoundedSize, Bound
  <2>1. /\ Len(file[d]) + Cardinality(Coming(d)) <= Bound + untrimmed[d]
        /\ Len(file[d]) \in Nat /\ untrimmed[d] \in Nat
    BY Lengths DEF LogInv, SizeInv, RoomForAll
  <2>2. QED BY <2>1, ComingIsFinite, Sizes DEF Bound
<1>2. QED BY LogInvariant, <1>1, PTL

(* Every file is what entries at its end and trims at its start make of    *)
(* it since it was last damaged, or is in the memory of the one thread     *)
(* that has emptied it to write it anew (Log_CheckSize, Log_Write).        *)
THEOREM NewestAreKept == Spec => []KeepsNewest
<1>1. LogInv => KeepsNewest BY DEF LogInv, TextInv
<1>2. QED BY LogInvariant, <1>1, PTL

------------------------------------------------------------------------------
(* The configuration. What a thread has stored of it stays as it is until  *)
(* the process dies, since every other thread stores the same.             *)
DirStored(t) == conf[Proc[t]].dir = ConfDir
SizeStored(t) == conf[Proc[t]].size = ConfSize
Writing == {"path", "stat", "read", "truncate", "write", "append"}

Obeys(t) ==
  /\ pc[t] \in {"size", "bprint"} => DirStored(t)
  /\ pc[t] = "bprint" => SizeStored(t)
  /\ pc[t] \in Writing \union {"print"} /\ ~early[t] => Loaded(Proc[t])
  /\ pc[t] \in Writing /\ ~early[t] => bprint
  /\ pc[t] \in Writing \ {"path"} /\ ~early[t] => path[t] = ConfDir
ConfInv == \A t \in Threads : Obeys(t)

LEMMA ConfFields ==
  ASSUME TypeOK, NEW t \in Threads
  PROVE  /\ Proc[t] \in Procs
         /\ conf[Proc[t]] \in [dir : Dirs, size : {DefaultSize, ConfSize}, print : BOOLEAN]
BY LogAssumption DEF TypeOK

(* A step of thread t that leaves the configuration alone.                 *)
LEMMA ObeyOthers ==
  ASSUME ConfInv, NEW t \in Threads, Obeys(t)', UNCHANGED <<conf, bprint>>,
         \A u \in Threads \ {t} : pc'[u] = pc[u] /\ early'[u] = early[u] /\ path'[u] = path[u]
  PROVE  ConfInv'
<1> SUFFICES ASSUME NEW u \in Threads, u # t PROVE Obeys(u)'
  BY DEF ConfInv
<1>1. Obeys(u)
  BY DEF ConfInv
<1>2. QED BY <1>1 DEF Obeys, DirStored, SizeStored, Loaded

(* A thread stores one of the values of config.ini.                        *)
LEMMA ObeyStore ==
  ASSUME TypeOK, ConfInv, NEW t \in Threads, NEW from, NEW field, NEW value, NEW to \in Places,
         Store(t, from, field, value, to),
         \/ field = "dir" /\ value = ConfDir /\ to = "size"
         \/ field = "size" /\ value = ConfSize /\ to = "bprint" /\ DirStored(t)
         \/ field = "print" /\ value = bprint /\ to = "print" /\ DirStored(t) /\ SizeStored(t)
  PROVE  ConfInv'
<1>1. /\ conf' = [conf EXCEPT ![Proc[t]] = [@ EXCEPT ![field] = value]]
      /\ pc' = [pc EXCEPT ![t] = to] /\ UNCHANGED <<bprint, early, path>>
  BY DEF Store, GoTo, disk
<1>2. /\ pc \in [Threads -> Places] /\ conf \in [Procs -> [dir : Dirs, size : {DefaultSize, ConfSize}, print : BOOLEAN]]
      /\ \A u \in Threads : Proc[u] \in Procs
  BY LogAssumption DEF TypeOK
<1>3. pc'[t] = to /\ \A u \in Threads \ {t} : pc'[u] = pc[u]
  BY <1>1, <1>2
<1>4. /\ conf'[Proc[t]] = [conf[Proc[t]] EXCEPT ![field] = value]
      /\ \A p \in Procs : p # Proc[t] => conf'[p] = conf[p]
  BY <1>1, <1>2
<1>5. ASSUME NEW u \in Threads
      PROVE  /\ DirStored(u) => DirStored(u)'
             /\ SizeStored(u) => SizeStored(u)'
             /\ Loaded(Proc[u]) => Loaded(Proc[u])'
  <2>1. CASE Proc[u] # Proc[t]
    BY <1>1, <1>2, <1>4, <2>1 DEF DirStored, SizeStored, Loaded
  <2>2. CASE Proc[u] = Proc[t]
    <3>1. conf[Proc[t]] \in [dir : Dirs, size : {DefaultSize, ConfSize}, print : BOOLEAN]
      BY <1>2
    <3>2. QED BY <1>1, <1>4, <2>2, <3>1 DEF DirStored, SizeStored, Loaded
  <2>3. QED BY <2>1, <2>2
<1>6. /\ to \in {"size", "bprint"} => DirStored(t)'
      /\ to = "bprint" => SizeStored(t)'
      /\ to = "print" => Loaded(Proc[t])'
  <2>1. conf[Proc[t]] \in [dir : Dirs, size : {DefaultSize, ConfSize}, print : BOOLEAN]
    BY <1>2
  <2>2. QED BY <1>1, <1>4, <2>1 DEF DirStored, SizeStored, Loaded
<1>7. ASSUME NEW u \in Threads PROVE Obeys(u)'
  <2>1. CASE u = t
    BY <1>3, <1>6, <2>1 DEF Obeys, Writing
  <2>2. CASE u # t
    <3>1. Obeys(u)
      BY DEF ConfInv
    <3>2. QED BY <1>1, <1>3, <1>5, <2>2, <3>1 DEF Obeys
  <2>3. QED BY <2>1, <2>2
<1>8. QED BY <1>7 DEF ConfInv

(* A step of thread t that changes nothing but its place.                  *)
LEMMA ObeyMove ==
  ASSUME TypeOK, ConfInv, NEW t \in Threads, NEW place \in Places, GoTo(t, place),
         UNCHANGED <<conf, bprint, early, path>>,
         \/ place \in {"first", "set", "dir"}
         \/ place = "path" /\ pc[t] = "print" /\ Conf(t).print
         \/ place \in Writing \ {"path"} /\ pc[t] \in Writing \ {"path"}
  PROVE  ConfInv'
<1>1. pc'[t] = place /\ \A u \in Threads \ {t} : pc'[u] = pc[u]
  BY DEF GoTo, TypeOK
<1>2. Obeys(t)
  BY DEF ConfInv
<1>3. Loaded(Proc[t]) => Conf(t).print = bprint
  BY DEF Loaded, Conf
<1>4. Obeys(t)'
  BY <1>1, <1>2, <1>3 DEF Obeys, Writing, Loaded
<1>5. QED BY <1>1, <1>4, ObeyOthers

LEMMA ObeyOver ==
  ASSUME TypeOK, ConfInv, NEW t \in Threads, Over({t}), UNCHANGED <<conf, bprint>>
  PROVE  ConfInv'
<1>1. /\ pc'[t] = "idle"
      /\ \A u \in Threads \ {t} : pc'[u] = pc[u] /\ early'[u] = early[u] /\ path'[u] = path[u]
  BY DEF Over
<1>2. Obeys(t)'
  BY <1>1 DEF Obeys, Writing
<1>3. QED BY <1>1, <1>2, ObeyOthers

LEMMA ConfInvStep == TypeOK /\ ConfInv /\ [Next]_vars => ConfInv'
<1> SUFFICES ASSUME TypeOK, ConfInv, [Next]_vars PROVE ConfInv'
  OBVIOUS
<1> USE DEF Places
<1>1. ASSUME NEW t \in Threads, Begin(t) \/ SetFirst(t) \/ GetFileSize(t) \/ TrimFails(t) \/ ReadFile(t)
               \/ Truncate(t) \/ WriteFile(t)
      PROVE  ConfInv'
  <2>1. UNCHANGED <<conf, bprint, early, path>>
    BY <1>1 DEF Begin, SetFirst, GetFileSize, TrimFails, ReadFile, Truncate, WriteFile, Changes, disk
  <2>2. \/ GoTo(t, "first") \/ GoTo(t, "dir")
        \/ \E place \in Writing \ {"path"} : GoTo(t, place) /\ pc[t] \in Writing \ {"path"}
    BY <1>1 DEF Begin, SetFirst, GetFileSize, TrimFails, ReadFile, Truncate, WriteFile, At, Writing
  <2>3. QED BY <2>1, <2>2, ObeyMove DEF Writing
<1>2. ASSUME NEW t \in Threads, TestFirst(t) PROVE ConfInv'
  <2>1. /\ pc' = [pc EXCEPT ![t] = IF bFirst[Proc[t]] THEN "print" ELSE "set"]
        /\ early' = [early EXCEPT ![t] = bFirst[Proc[t]] /\ ~Loaded(Proc[t])]
        /\ UNCHANGED <<conf, bprint, path>>
    BY <1>2 DEF TestFirst, GoTo, disk
  <2>2. /\ pc'[t] = IF bFirst[Proc[t]] THEN "print" ELSE "set"
        /\ early'[t] = (bFirst[Proc[t]] /\ ~Loaded(Proc[t]))
        /\ \A u \in Threads \ {t} : pc'[u] = pc[u] /\ early'[u] = early[u] /\ path'[u] = path[u]
    BY <2>1 DEF TypeOK
  <2>3. Loaded(Proc[t])' <=> Loaded(Proc[t])
    BY <2>1 DEF Loaded
  <2>4. CASE bFirst[Proc[t]]
    <3>1. pc'[t] = "print"
      BY <2>2, <2>4
    <3>2. ~early'[t] => Loaded(Proc[t])'
      BY <2>2, <2>3, <2>4
    <3>3. Obeys(t)'
      BY <3>1, <3>2 DEF Obeys, Writing
    <3>4. QED BY <2>1, <2>2, <3>3, ObeyOthers
  <2>5. CASE ~bFirst[Proc[t]]
    <3>1. pc'[t] = "set"
      BY <2>2, <2>5
    <3>2. Obeys(t)'
      BY <3>1 DEF Obeys, Writing
    <3>3. QED BY <2>1, <2>2, <3>2, ObeyOthers
  <2>6. QED BY <2>4, <2>5
<1>3. ASSUME NEW t \in Threads, LoadDir(t) \/ LoadSize(t) \/ LoadPrint(t) PROVE ConfInv'
  <2>1. Obeys(t)
    BY DEF ConfInv
  <2>2. CASE LoadDir(t)
    BY <2>2, ObeyStore DEF LoadDir
  <2>3. CASE LoadSize(t)
    BY <2>1, <2>3, ObeyStore DEF LoadSize, Store, At, Obeys
  <2>4. CASE LoadPrint(t)
    BY <2>1, <2>4, ObeyStore DEF LoadPrint, Store, At, Obeys
  <2>5. QED BY <1>3, <2>2, <2>3, <2>4
<1>4. ASSUME NEW t \in Threads, TestPrint(t) PROVE ConfInv'
  <2>1. CASE Conf(t).print
    BY <1>4, <2>1, ObeyMove DEF TestPrint, At, disk
  <2>2. CASE ~Conf(t).print
    BY <1>4, <2>2, ObeyOver DEF TestPrint, disk
  <2>3. QED BY <2>1, <2>2
<1>5. ASSUME NEW t \in Threads, GetLogPath(t) PROVE ConfInv'
  <2>1. /\ pc[t] = "path" /\ pc' = [pc EXCEPT ![t] = "stat"] /\ path' = [path EXCEPT ![t] = Conf(t).dir]
        /\ UNCHANGED <<conf, bprint, early>>
    BY <1>5 DEF GetLogPath, At, GoTo, disk
  <2>2. /\ pc'[t] = "stat" /\ path'[t] = Conf(t).dir
        /\ \A u \in Threads \ {t} : pc'[u] = pc[u] /\ path'[u] = path[u]
    BY <2>1 DEF TypeOK
  <2>3. Obeys(t)
    BY DEF ConfInv
  <2>4. Obeys(t)'
    BY <2>1, <2>2, <2>3 DEF Obeys, Writing, Loaded, Conf
  <2>5. QED BY <2>1, <2>2, <2>4, ObeyOthers
<1>6. ASSUME NEW t \in Threads, AppendEntry(t) \/ AppendFails(t) PROVE ConfInv'
  <2>1. Over({t}) /\ UNCHANGED <<conf, bprint>>
    BY <1>6 DEF AppendEntry, AppendFails, Changes, disk
  <2>2. QED BY <2>1, ObeyOver
<1>7. ASSUME NEW p \in Procs, Crash(p) PROVE ConfInv'
  <2> SUFFICES ASSUME NEW u \in Threads PROVE Obeys(u)'
    BY DEF ConfInv
  <2>1. Obeys(u)
    BY DEF ConfInv
  <2>2. CASE Proc[u] = p
    BY <1>7, <2>2 DEF Crash, Over, Obeys, Writing
  <2>3. CASE Proc[u] # p
    <3>1. pc'[u] = pc[u] /\ early'[u] = early[u] /\ path'[u] = path[u] /\ bprint' = bprint
      BY <1>7, <2>3 DEF Crash, Over, disk
    <3>2. conf'[Proc[u]] = conf[Proc[u]]
      BY <1>7, <2>3, ConfFields DEF Crash, TypeOK
    <3>3. QED BY <2>1, <3>1, <3>2 DEF Obeys, DirStored, SizeStored, Loaded
  <2>4. QED BY <2>2, <2>3
<1>8. CASE UNCHANGED vars
  BY <1>8 DEF vars, local, disk, ConfInv, Obeys, DirStored, SizeStored, Loaded
<1>9. ASSUME NEW t \in Threads, LoadNothing(t) PROVE ConfInv'
  <2>1. /\ pc'[t] = "print" /\ early'[t] = ~Loaded(Proc[t])
        /\ \A u \in Threads \ {t} : pc'[u] = pc[u] /\ early'[u] = early[u] /\ path'[u] = path[u]
        /\ UNCHANGED <<conf, bprint>>
    BY <1>9 DEF LoadNothing, GoTo, disk, TypeOK
  <2>2. Loaded(Proc[t])' <=> Loaded(Proc[t])
    BY <2>1 DEF Loaded
  <2>3. Obeys(t)'
    BY <2>1, <2>2 DEF Obeys, Writing
  <2>4. QED BY <2>1, <2>3, ObeyOthers
<1>10. QED BY <1>1, <1>2, <1>3, <1>4, <1>5, <1>6, <1>7, <1>8, <1>9 DEF Next

(* A thread that has not overtaken the loading of the configuration writes *)
(* only where and only if config.ini says so (Log_IsPrint, Log_Init).      *)
THEOREM ConfigIsObeyed == Spec => ObeysConfig
<1>1. Init => ConfInv
  BY DEF Init, ConfInv, Obeys, Writing
<1>2. ASSUME ConfInv
      PROVE  \A t \in Threads :
               pc[t] = "append" /\ entries' # entries /\ pc'[t] = "idle" /\ ~early[t]
                 => bprint /\ path[t] = ConfDir
  BY <1>2 DEF ConfInv, Obeys, Writing
<1>3. LogInv => TypeOK
  BY DEF LogInv, SizeInv
<1>4. QED BY <1>1, <1>2, <1>3, LogInvariant, ConfInvStep, PTL DEF Spec, ObeysConfig
==============================================================================
