--------------------------- MODULE DirectoryTree ---------------------------
(***************************************************************************)
(* DeleteDirTree of src/linux/directory/directory.c: it goes down a tree   *)
(* of directories, removing what it finds. Whatever it calls may fail, and *)
(* another process may add entries and put links where directories were.   *)
(***************************************************************************)
EXTENDS Integers, Sequences

CONSTANTS
  Nodes,    (* everything in the file system                               *)
  Root,     (* the directory to be deleted                                 *)
  Parent,   (* per node: the directory it is in; the top is in itself      *)
  dType,    (* per node: its type                                          *)
  Target,   (* per link: what it leads to                                  *)
  Unfilled  (* those whose file system does not say their type in d_type   *)

DT_UNKNOWN == 0
DT_BLK == 6
DT_DIR == 4
DT_LNK == 10
DT_REG == 8
DT_SOCK == 12

(* n lies under d, or is d: so says every set that holds n and is closed   *)
(* under Parent.                                                           *)
Ancestors ==
  [n \in Nodes |-> {d \in Nodes :
     \A S \in SUBSET Nodes : n \in S /\ (\A m \in S : Parent[m] \in S) => d \in S}]
Under(n, d) == d \in Ancestors[n]

(* Entries are in directories, and the nodes form a tree.                  *)
ASSUME DirectoryAssumption ==
  /\ Root \in Nodes /\ Parent \in [Nodes -> Nodes] /\ Unfilled \subseteq Nodes
  /\ dType \in [Nodes -> {DT_BLK, DT_DIR, DT_LNK, DT_REG, DT_SOCK}]
  /\ Target \in [{n \in Nodes : dType[n] = DT_LNK} -> Nodes]
  /\ \A n \in Nodes : dType[Parent[n]] = DT_DIR
  /\ \A n, d \in Nodes : Under(n, d) /\ Under(d, n) => n = d

(* opendir follows a link. *)
Opened(n) == IF dType[n] = DT_LNK THEN Target[n] ELSE n
Emptied == Opened(Root)

VARIABLES
  present,  (* the nodes that exist                                        *)
  opens,    (* per node: what opendir opens                                *)
  calls,    (* DeleteDirTree's calls, the innermost last: the directory,   *)
            (* and the entries it has yet to deal with                     *)
  opening,  (* the directory to be opened next, as a set                   *)
  deleted,  (* what the outermost call returned, as a set                  *)
  first,    (* history: what there was when it was called                  *)
  kept,     (* history: what could have been removed, and was not          *)
  refused   (* history: the directories that could have been opened, and   *)
            (* were not, and the entries that readdir failed to give       *)
treeVars == <<present, opens, calls, opening, deleted, first, kept, refused>>

(* Where another process has put a link in the place of a directory.       *)
Swapped == {n \in Nodes : opens[n] # Opened(n)}
Dir(i) == opens[calls[i].dir]
Top == calls[Len(calls)]
Entries(d) == {n \in present : Parent[n] = d /\ n # d}

(* What readdir says of an entry. *)
d_type(n) ==
  IF n \in Unfilled THEN DT_UNKNOWN ELSE IF n \in Swapped THEN DT_LNK ELSE dType[n]

(* What a stat that follows links would say.                               *)
IsDirThroughLinks(d) == (d \div 4) % 2 = 1 \/ d = DT_LNK
(* DT_DIR & entry->d_type *)
IsDir(d) == (d \div 4) % 2 = 1

CanOpen(n) == {n, opens[n]} \subseteq present /\ dType[opens[n]] = DT_DIR
CanRemove(n) == n \in present /\ Entries(n) = {}
CanLeave(n) == CanRemove(n) /\ dType[n] = DT_DIR /\ opens[n] = n

Others == SubSeq(calls, 1, Len(calls) - 1)
Given(S) == Append(Others, [dir |-> Top.dir, todo |-> Top.todo \ S])
Call(n) == [dir |-> n, todo |-> Entries(opens[n])]

------------------------------------------------------------------------------
DeleteDirTree ==
  /\ calls = <<>> /\ opening = {} /\ deleted = {}
  /\ first' = present
  /\ opening' = {Root}
  /\ UNCHANGED <<present, opens, calls, deleted, kept, refused>>

OpenDir(n) ==
  /\ n \in opening /\ CanOpen(n)
  /\ opening' = {}
  /\ calls' = Append(IF calls = <<>> THEN <<>> ELSE Given({n}), Call(n))
  /\ UNCHANGED <<present, opens, deleted, first, kept, refused>>

(* It is no directory, or is refused (EACCES, EMFILE). The outermost call  *)
(* returns false; the false of another one is not looked at.               *)
OpenFails(n) ==
  /\ n \in opening
  /\ opening' = {}
  /\ refused' = IF CanOpen(n) THEN refused \union {n} ELSE refused
  /\ IF calls = <<>> THEN deleted' = {FALSE} /\ UNCHANGED calls
     ELSE calls' = Given({n}) /\ UNCHANGED deleted
  /\ UNCHANGED <<present, opens, first, kept>>

(* readdir gives an entry that is a directory: a call for it.              *)
EnterDir(n) ==
  /\ calls # <<>> /\ opening = {} /\ n \in Top.todo /\ IsDir(d_type(n))
  /\ opening' = {n}
  /\ UNCHANGED <<present, opens, calls, deleted, first, kept, refused>>

(* readdir gives something else: remove(), whose failing is not looked at. *)
RemoveEntry(n, ok) ==
  /\ calls # <<>> /\ opening = {} /\ n \in Top.todo /\ ~IsDir(d_type(n))
  /\ ok => CanRemove(n)
  /\ calls' = Given({n})
  /\ present' = IF ok THEN present \ {n} ELSE present
  /\ kept' = IF CanRemove(n) /\ ~ok THEN kept \union {n} ELSE kept
  /\ UNCHANGED <<opens, opening, deleted, first, refused>>

(* readdir fails, which is taken for the end of the directory. *)
ReadFails ==
  /\ calls # <<>> /\ opening = {} /\ Top.todo # {}
  /\ calls' = Given(Top.todo)
  /\ refused' = refused \union Top.todo
  /\ UNCHANGED <<present, opens, opening, deleted, first, kept>>

(* No more entries: rmdir, whose failing is not looked at, and true. *)
LeaveDir(ok) ==
  LET d == Top.dir IN
  /\ calls # <<>> /\ opening = {} /\ Top.todo = {}
  /\ ok => CanLeave(d)
  /\ present' = IF ok THEN present \ {d} ELSE present
  /\ kept' = IF CanLeave(d) /\ ~ok THEN kept \union {d} ELSE kept
  /\ calls' = Others
  /\ deleted' = IF Len(calls) = 1 THEN {TRUE} ELSE deleted
  /\ UNCHANGED <<opens, opening, first, refused>>

------------------------------------------------------------------------------
(* Another process, during the call. *)
InCall == calls # <<>> \/ opening # {}

(* It makes something, which readdir may give or not. *)
MakeEntry(n, given) ==
  /\ InCall /\ n \notin present \union first
  /\ Parent[n] \in present /\ opens[Parent[n]] = Parent[n]
  /\ present' = present \union {n}
  /\ calls' = [i \in DOMAIN calls |->
                 [calls[i] EXCEPT !.todo = IF given /\ Dir(i) = Parent[n] THEN @ \union {n} ELSE @]]
  /\ UNCHANGED <<opens, opening, deleted, first, kept, refused>>

(* It moves a directory away in which no call is, and leaves in its place  *)
(* a link to another directory.                                            *)
Swap(n, d) ==
  /\ InCall /\ {n, d} \subseteq present /\ dType[n] = DT_DIR /\ dType[d] = DT_DIR
  /\ opens[n] = n /\ opens[d] = d /\ ~Under(d, n)
  /\ Under(n, Emptied) /\ n # Emptied /\ \A i \in DOMAIN calls : ~Under(Dir(i), n)
  /\ opens' = [m \in Nodes |-> IF opens[m] = n THEN d ELSE opens[m]]
  /\ present' = {m \in present : m = n \/ ~Under(m, n)}
  /\ UNCHANGED <<calls, opening, deleted, first, kept, refused>>

TreeInit ==
  /\ present \in {P \in SUBSET Nodes : \A n \in P : Parent[n] \in P}
  /\ opens = [n \in Nodes |-> Opened(n)]
  /\ calls = <<>> /\ opening = {} /\ deleted = {}
  /\ first = present /\ kept = {} /\ refused = {}

TreeNext ==
  \/ DeleteDirTree \/ ReadFails
  \/ \E ok \in BOOLEAN : LeaveDir(ok) \/ \E n \in Nodes : RemoveEntry(n, ok)
  \/ \E n \in Nodes : EnterDir(n) \/ OpenDir(n) \/ OpenFails(n)
  \/ \E n \in Nodes, given \in BOOLEAN : MakeEntry(n, given)
  \/ \E n, d \in Nodes : Swap(n, d)

TreeSpec == TreeInit /\ [][TreeNext]_treeVars

------------------------------------------------------------------------------
(* What stays: that whose removal failed, or in a directory that could not *)
(* be opened or read; the sockets and block devices, which the test of     *)
(* d_type takes for directories (line 102); a directory of unknown type,   *)
(* which it does not, with what is in it.                                  *)
Stays(s) ==
  \/ s \in kept
  \/ \E r \in refused : Under(s, r)
  \/ s \notin Unfilled /\ dType[s] \in {DT_BLK, DT_SOCK}
  \/ \E u \in Unfilled :
       /\ Under(s, u) /\ Under(u, Emptied) /\ u # Emptied
       /\ \E m \in first : Parent[m] = u /\ m # u

(* That, the directories it is in, and what a link leads to when the       *)
(* directory to be deleted is a link, for then rmdir fails.                *)
Left(n) ==
  \/ \E s \in first : Stays(s) /\ Under(s, n)
  \/ n = Emptied /\ n # Root

AddedUnder(n) == \E a \in present \ first : Under(a, n)

(* DeleteDirTree touches nothing outside its directory, links in it or     *)
(* not, but what a link leads to that takes a directory's place between    *)
(* the test of d_type (line 102) and opendir (line 98). When it returns    *)
(* true, and there was no such link, what is left of the directory is that *)
(* which stays, that which was added meanwhile, and the directories these  *)
(* are in, and no more.                                                    *)
DeletesTheTree ==
  /\ \A n \in first :
       n \in present \/ Under(n, Emptied) \/ \E m \in Swapped : Under(n, opens[m])
  /\ deleted = {TRUE} /\ Swapped = {} =>
       \A n \in first : Under(n, Emptied) =>
         /\ Left(n) => n \in present
         /\ n \in present => Left(n) \/ AddedUnder(n)
==============================================================================
