------------------------------ MODULE CommonLog ------------------------------
(***************************************************************************)
(* src/log/common_log/common_log.c: threads of one or more processes of a  *)
(* program that write to the same log files. Each process loads config.ini *)
(* when it first writes; a file that has grown beyond m_size is read,      *)
(* truncated and rewritten without its older half. Nothing is locked, and  *)
(* what fopen, fread and fwrite return is looked at in part only.          *)
(*                                                                         *)
(* A file is a sequence of entries, each as long as one unit of m_size;    *)
(* Garbage is a unit that is no entry: memory that has not been filled, or *)
(* an entry cut short.                                                     *)
(***************************************************************************)
EXTENDS Integers, Sequences, FiniteSets

CONSTANTS
  Threads, Procs, Proc,     (* Proc[t]: the process of thread t            *)
  DefaultDir, DefaultSize,  (* the dir and size compiled in (line 59)      *)
  ConfDir, ConfSize,        (* those of config.ini                         *)
  DELETE_MAX,               (* the most a trim removes                     *)
  Garbage,
  MaxEntries, MaxCrashes,   (* bounds                                      *)
  MaxUntrimmed              (* bound: trims that fail, per directory       *)

ASSUME LogAssumption ==
  /\ Proc \in [Threads -> Procs] /\ DefaultDir # ConfDir
  /\ DefaultSize \in Nat /\ ConfSize \in Nat /\ DELETE_MAX \in Nat
  /\ MaxEntries \in Nat /\ MaxCrashes \in Nat /\ MaxUntrimmed \in Nat /\ Garbage \notin Nat

(* 10 MB are at least one entry of each thread.                            *)
ASSUME DeleteAssumption == IsFiniteSet(Threads) /\ Cardinality(Threads) <= DELETE_MAX

VARIABLES
  bprint,    (* what config.ini says of bprint                             *)
  file,      (* the log file of each directory                             *)
  bFirst,    (* per process: has a thread come to load the configuration?  *)
  conf,      (* per process: g_logpara.m_logconfig                         *)
  pc,        (* where each thread is                                       *)
  path,      (* the directory its logpath is in                            *)
  actsize,   (* the size it has found                                      *)
  buffer,    (* what it has read                                           *)
  entries,   (* entries written so far                                     *)
  crashes,
  log,       (* history: per directory, what the file should hold: what it *)
             (* held when it was last damaged, the entries written since,  *)
             (* without those that trims have removed                      *)
  stale,     (* history: is what the thread knows of its file not the      *)
             (* file, which has changed, or has not been read in full?     *)
  untrimmed, (* history: per directory, the trims that failed              *)
  early      (* history: does the thread use a configuration that is not   *)
             (* that of config.ini?                                        *)

disk == <<bprint, file>>
local == <<pc, path, actsize, buffer, early>>
count == <<entries, crashes>>
history == <<log, stale, untrimmed>>
vars == <<disk, bFirst, conf, local, count, history>>

Dirs == {DefaultDir, ConfDir}
Default == [dir |-> DefaultDir, size |-> DefaultSize, print |-> TRUE]
Loaded(p) == conf[p] = [dir |-> ConfDir, size |-> ConfSize, print |-> bprint]

At(t, place) == pc[t] = place
GoTo(t, place) == pc' = [pc EXCEPT ![t] = place]

(* The calls of some threads are over, and their locals gone.              *)
Over(ts) ==
  /\ pc' = [t \in Threads |-> IF t \in ts THEN "idle" ELSE pc[t]]
  /\ path' = [t \in Threads |-> IF t \in ts THEN DefaultDir ELSE path[t]]
  /\ actsize' = [t \in Threads |-> IF t \in ts THEN 0 ELSE actsize[t]]
  /\ early' = [t \in Threads |-> IF t \in ts THEN FALSE ELSE early[t]]

Conf(t) == conf[Proc[t]]

(* Where a thread has found its file too large, and not rewritten it yet.  *)
Trimming == {"read", "truncate", "write"}

(* Those that have all of it, as it was, and have emptied the file.        *)
Savers(d) == {u \in Threads : path[u] = d /\ pc[u] = "write" /\ ~stale[u]}

(* t makes its file `text`, which should hold `whole` unless the step does *)
(* damage: by itself, or to a thread whose trim it comes into.             *)
Changes(t, text, whole, damage) ==
  LET d == path[t] IN
  /\ file' = [file EXCEPT ![d] = text]
  /\ log' = [log EXCEPT ![d] = IF damage \/ Savers(d) \ {t} # {} THEN text ELSE whole]
  /\ stale' = [u \in Threads |-> pc'[u] \in Trimming /\ (stale[u] \/ (u # t /\ path[u] = d))]
  /\ UNCHANGED <<bprint, untrimmed>>

(* What a write of `text` may leave: all of it, or a part when the disk is *)
(* full.                                                                   *)
Written(text) ==
  {SubSeq(text, 1, n) : n \in 0 .. Len(text)}
  \union {Append(SubSeq(text, 1, n), Garbage) : n \in 0 .. Len(text) - 1}

------------------------------------------------------------------------------
(* Log_IsPrint and Log_Init. config.ini exists; without one a call does    *)
(* nothing (lines 262-263).                                                *)

Begin(t) ==
  /\ At(t, "idle") /\ entries < MaxEntries
  /\ GoTo(t, "first")
  /\ UNCHANGED <<disk, bFirst, conf, path, actsize, buffer, early, count, history>>

TestFirst(t) ==
  /\ At(t, "first")
  /\ GoTo(t, IF bFirst[Proc[t]] THEN "print" ELSE "set")
  /\ early' = [early EXCEPT ![t] = bFirst[Proc[t]] /\ ~Loaded(Proc[t])]
  /\ UNCHANGED <<disk, bFirst, conf, path, actsize, buffer, count, history>>

(* The flag without the loading.                                           *)
SetFirstOnly(t) ==
  /\ At(t, "set")
  /\ bFirst' = [bFirst EXCEPT ![Proc[t]] = TRUE]
  /\ GoTo(t, "print")
  /\ UNCHANGED <<disk, conf, path, actsize, buffer, early, count, history>>

(* config.ini is empty, or cannot be looked at or read: nothing is stored, *)
(* now or later.                                                           *)
LoadNothing(t) ==
  /\ At(t, "set")
  /\ bFirst' = [bFirst EXCEPT ![Proc[t]] = TRUE]
  /\ early' = [early EXCEPT ![t] = ~Loaded(Proc[t])]
  /\ GoTo(t, "print")
  /\ UNCHANGED <<disk, conf, path, actsize, buffer, count, history>>

SetFirst(t) ==
  /\ At(t, "set")
  /\ bFirst' = [bFirst EXCEPT ![Proc[t]] = TRUE]
  /\ GoTo(t, "dir")
  /\ UNCHANGED <<disk, conf, path, actsize, buffer, early, count, history>>

(* Log_Init stores one value after the other. *)
Store(t, from, field, value, to) ==
  /\ At(t, from)
  /\ conf' = [conf EXCEPT ![Proc[t]][field] = value]
  /\ GoTo(t, to)
  /\ UNCHANGED <<disk, bFirst, path, actsize, buffer, early, count, history>>

LoadDir(t) == Store(t, "dir", "dir", ConfDir, "size")
(* A value that is missing stored as the -1 that Log_ParseConfig returns.  *)
LoadSizeMissing(t) == Store(t, "size", "size", -1, "bprint")

LoadSize(t) == Store(t, "size", "size", ConfSize, "bprint")
LoadPrint(t) == Store(t, "bprint", "print", bprint, "print")

TestPrint(t) ==
  /\ At(t, "print")
  /\ IF Conf(t).print
     THEN GoTo(t, "path") /\ UNCHANGED <<path, actsize, early>>
     ELSE Over({t})
  /\ UNCHANGED <<disk, bFirst, conf, buffer, count, history>>

------------------------------------------------------------------------------
(* Log_Write *)

GetLogPath(t) ==
  /\ At(t, "path")
  /\ path' = [path EXCEPT ![t] = Conf(t).dir]
  /\ GoTo(t, "stat")
  /\ UNCHANGED <<disk, bFirst, conf, actsize, buffer, early, count, history>>

GetFileSize(t) ==
  /\ At(t, "stat")
  /\ actsize' = [actsize EXCEPT ![t] = Len(file[path[t]])]
  /\ GoTo(t, IF Conf(t).size < Len(file[path[t]]) THEN "read" ELSE "append")
  /\ UNCHANGED <<disk, bFirst, conf, path, buffer, early, count, history>>

(* The file cannot be looked at (line 248), or not be opened for the       *)
(* rewrite (line 204): it stays as large as it is.                         *)
TrimFails(t) ==
  /\ untrimmed[path[t]] < MaxUntrimmed
  /\ At(t, "truncate") \/ (At(t, "stat") /\ Conf(t).size < Len(file[path[t]]))
  /\ untrimmed' = [untrimmed EXCEPT ![path[t]] = @ + 1]
  /\ stale' = [stale EXCEPT ![t] = FALSE]
  /\ buffer' = [buffer EXCEPT ![t] = <<>>]
  /\ GoTo(t, "append")
  /\ UNCHANGED <<disk, bFirst, conf, path, actsize, early, count, log>>

(* The size is looked up again: a file that has grown is not read at all.  *)
(* Of another one n entries are read, all of them unless that fails; what  *)
(* is not read of the buffer is left as it was.                            *)
ReadFile(t) ==
  /\ At(t, "read")
  /\ LET f == file[path[t]] IN
     \E n \in 0 .. Len(f) :
       /\ buffer' = [buffer EXCEPT ![t] =
            [k \in 1 .. actsize[t] |-> IF Len(f) <= actsize[t] /\ k <= n THEN f[k] ELSE Garbage]]
       /\ stale' = [stale EXCEPT ![t] = @ \/ n < Len(f)]
  /\ GoTo(t, "truncate")
  /\ UNCHANGED <<disk, bFirst, conf, path, actsize, early, count, log, untrimmed>>

(* The file opened for update, without truncating it.                      *)
TruncateNot(t) ==
  /\ At(t, "truncate")
  /\ GoTo(t, "write")
  /\ Changes(t, file[path[t]], log[path[t]], stale[t])
  /\ UNCHANGED <<bFirst, conf, path, actsize, buffer, early, count>>

Truncate(t) ==
  /\ At(t, "truncate")
  /\ GoTo(t, "write")
  /\ Changes(t, <<>>, log[path[t]], stale[t])
  /\ UNCHANGED <<bFirst, conf, path, actsize, buffer, early, count>>

DelSize(n) == IF n \div 2 > DELETE_MAX THEN DELETE_MAX ELSE n \div 2
(* The older half kept.                                                    *)
KeptOldest(t) == SubSeq(buffer[t], 1, actsize[t] - DelSize(actsize[t]))

Kept(t) == SubSeq(buffer[t], DelSize(actsize[t]) + 1, actsize[t])

(* From the start of the file, over what others have written meanwhile;    *)
(* how much has been written is not looked at.                             *)
WriteFile(t) ==
  LET f == file[path[t]]
      whole == log[path[t]]
  IN
  /\ At(t, "write")
  /\ GoTo(t, "append")
  /\ \E part \in Written(Kept(t)) :
       Changes(t, part \o SubSeq(f, Len(part) + 1, Len(f)),
                  SubSeq(whole, DelSize(Len(whole)) + 1, Len(whole)),
                  stale[t] \/ part # Kept(t))
  /\ buffer' = [buffer EXCEPT ![t] = <<>>]
  /\ UNCHANGED <<bFirst, conf, path, actsize, early, count>>

(* An entry is written, or a part of it, and the call returns 1.           *)
AppendEntry(t) ==
  LET entry == <<entries + 1>> IN
  /\ At(t, "append") /\ entries < MaxEntries
  /\ entries' = entries + 1
  /\ Over({t})
  /\ \E part \in Written(entry) :
       Changes(t, file[path[t]] \o part, log[path[t]] \o entry, part # entry)
  /\ UNCHANGED <<bFirst, conf, buffer, crashes>>

(* The file cannot be opened: -1. *)
AppendFails(t) ==
  /\ At(t, "append")
  /\ Over({t})
  /\ UNCHANGED <<disk, bFirst, conf, buffer, count, history>>

------------------------------------------------------------------------------
(* A process is killed and started again. *)
Crash(p) ==
  LET killed == {t \in Threads : Proc[t] = p} IN
  /\ crashes < MaxCrashes
  /\ crashes' = crashes + 1
  /\ Over(killed)
  /\ buffer' = [t \in Threads |-> IF t \in killed THEN <<>> ELSE buffer[t]]
  /\ stale' = [t \in Threads |-> t \notin killed /\ stale[t]]
  /\ bFirst' = [bFirst EXCEPT ![p] = FALSE]
  /\ conf' = [conf EXCEPT ![p] = Default]
  /\ log' = [d \in Dirs |-> IF Savers(d) \cap killed = {} THEN log[d] ELSE file[d]]
  /\ UNCHANGED <<disk, entries, untrimmed>>

Init ==
  /\ bprint \in BOOLEAN
  /\ file = [d \in Dirs |-> <<>>] /\ log = file
  /\ bFirst = [p \in Procs |-> FALSE] /\ conf = [p \in Procs |-> Default]
  /\ pc = [t \in Threads |-> "idle"] /\ path = [t \in Threads |-> DefaultDir]
  /\ actsize = [t \in Threads |-> 0] /\ buffer = [t \in Threads |-> <<>>]
  /\ early = [t \in Threads |-> FALSE] /\ stale = early
  /\ entries = 0 /\ crashes = 0 /\ untrimmed = [d \in Dirs |-> 0]

Next ==
  \/ \E t \in Threads :
       \/ Begin(t) \/ TestFirst(t) \/ SetFirst(t) \/ LoadDir(t) \/ LoadSize(t) \/ LoadPrint(t)
       \/ LoadNothing(t) \/ TestPrint(t) \/ GetLogPath(t) \/ GetFileSize(t) \/ TrimFails(t)
       \/ ReadFile(t) \/ Truncate(t) \/ WriteFile(t) \/ AppendEntry(t) \/ AppendFails(t)
  \/ \E p \in Procs : Crash(p)

Spec == Init /\ [][Next]_vars

------------------------------------------------------------------------------
(* Type correctness. *)
Places == {"idle", "first", "set", "dir", "size", "bprint", "print", "path", "stat", "read",
           "truncate", "write", "append"}
Unit == 1 .. MaxEntries \union {Garbage}
TypeOK ==
  /\ bprint \in BOOLEAN /\ untrimmed \in [Dirs -> 0 .. MaxUntrimmed]
  /\ file \in [Dirs -> Seq(Unit)] /\ log \in [Dirs -> Seq(Unit)]
  /\ bFirst \in [Procs -> BOOLEAN]
  /\ early \in [Threads -> BOOLEAN] /\ stale \in [Threads -> BOOLEAN]
  /\ conf \in [Procs -> [dir : Dirs, size : {DefaultSize, ConfSize}, print : BOOLEAN]]
  /\ pc \in [Threads -> Places] /\ path \in [Threads -> Dirs]
  /\ actsize \in [Threads -> Nat] /\ buffer \in [Threads -> Seq(Unit)]
  /\ entries \in 0 .. MaxEntries /\ crashes \in 0 .. MaxCrashes

(* Entries are only added at the end, and taken away only from the start,  *)
(* the oldest half or DELETE_MAX of them: a file is always what this makes *)
(* of it, or is in the memory of the one thread that is rewriting it. What *)
(* does damage is a trim into which another write has come (lines          *)
(* 248-253), one that could not read its file (lines 190-197), a write     *)
(* that is cut short (line 205), and a death before it; nothing else does, *)
(* whatever happens at the same time, and no later trim suffers from it.   *)
KeepsNewest ==
  \A d \in Dirs :
    IF Savers(d) = {} THEN file[d] = log[d]
    ELSE file[d] = <<>> /\ \A t \in Savers(d) : buffer[t] = log[d]

(* However many write and trim at once, also into each other's rewriting,  *)
(* whatever fails and whoever dies, no file outgrows the limit (or, if     *)
(* that is smaller, one entry of each thread) by more than one entry of    *)
(* each thread and one of each trim that has failed (lines 204 and 249):   *)
(* a trim that succeeds later makes up for those. It takes that a trim may *)
(* remove an entry of each thread (line 252): a file that all of them have *)
(* grown while one rewrote it must come back.                              *)
Largest(S) == CHOOSE x \in S : \A y \in S : y <= x
Limit == Largest({DefaultSize, ConfSize, Cardinality(Threads)})
BoundedSize ==
  \A d \in Dirs : Len(file[d]) <= Limit + Cardinality(Threads) + untrimmed[d]

(* A thread that did not go on without the configuration, because another  *)
(* one was loading it (lines 265-267) or because it could not be loaded,   *)
(* writes nothing when bprint is off, and otherwise to the directory of    *)
(* config.ini.                                                             *)
ObeysConfig ==
  [][\A t \in Threads :
       pc[t] = "append" /\ entries' # entries /\ pc'[t] = "idle" /\ ~early[t]
         => bprint /\ path[t] = ConfDir]_vars
==============================================================================
