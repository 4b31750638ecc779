----------------------------- MODULE LinkProofs -----------------------------
(***************************************************************************)
(* Proofs about the modules that talk to a peer or hold its memory:        *)
(* WinSocket for any users and socket values, DebugMemory for any pointers, *)
(* addresses, sizes and bytes, and SocketTransfer for any size of a message *)
(* and any number of messages.                                             *)
(***************************************************************************)
EXTENDS WinSocket, DebugMemory, SocketTransfer, FiniteSetTheorems, SequenceTheorems, TLAPS

------------------------------------------------------------------------------
(* WinSocket. Startups are counted, and handles match the open sockets.    *)

SockInv == SockTypeOK /\ StartupsBalanced /\ HandlesMatchSockets

CountedUsers == {u \in Users : stage[u] \in Counted}

LEMMA SockInvInit == SockInit => SockInv
<1> SUFFICES ASSUME SockInit PROVE SockInv
  OBVIOUS
<1>1. SockTypeOK
  BY DEF SockInit, SockTypeOK, Stages, Counted, Ready
<1>2. {u \in Users : stage[u] \in Counted} = {}
  BY DEF SockInit, Counted, Ready
<1>3. StartupsBalanced
  BY <1>2, FS_EmptySet DEF SockInit, StartupsBalanced
<1>4. HandlesMatchSockets
  BY DEF SockInit, HandlesMatchSockets, Ready
<1>5. QED BY <1>1, <1>3, <1>4 DEF SockInv

LEMMA CleanupType ==
  ASSUME SockTypeOK, NEW open \in [Handles -> Users \union {Nobody}], WSACleanup(open)
  PROVE  startups' \in Nat /\ owner' \in [Handles -> Users \union {Nobody}]
BY DEF SockTypeOK, WSACleanup

LEMMA StageType ==
  ASSUME SockTypeOK, NEW u \in Users, NEW s \in Stages, Become(u, s)
  PROVE  /\ stage' \in [Users -> Stages]
         /\ stage'[u] = s /\ \A v \in Users : v # u => stage'[v] = stage[v]
BY DEF SockTypeOK, Become

(* A user that is counted leaves that for good: one fewer is counted, and  *)
(* if it was the last one there is nobody else.                            *)
LEMMA OneFewer ==
  ASSUME SockTypeOK, StartupsBalanced, balanced, NEW u \in Users, stage[u] \in Counted,
         NEW s \in Stages \ Counted, Become(u, s)
  PROVE  /\ startups \in Nat \ {0} /\ startups - 1 = Cardinality(CountedUsers')
         /\ startups = 1 => \A v \in Users : stage[v] \in Counted => v = u
<1>1. IsFiniteSet(CountedUsers) /\ startups = Cardinality(CountedUsers) /\ startups \in Nat
  BY FS_Subset, SocketAssumption DEF CountedUsers, StartupsBalanced, SockTypeOK
<1>2. u \in CountedUsers
  BY DEF CountedUsers
<1>3. CountedUsers' = CountedUsers \ {u}
  BY StageType DEF CountedUsers
<1>4. Cardinality(CountedUsers \ {u}) = startups - 1 /\ IsFiniteSet(CountedUsers \ {u})
  BY <1>1, <1>2, FS_RemoveElement
<1>5. startups # 0
  BY <1>1, <1>2, FS_EmptySet
<1>6. startups = 1 => CountedUsers \ {u} = {}
  BY <1>4, FS_EmptySet
<1>7. startups = 1 => \A v \in Users : stage[v] \in Counted => v = u
  BY <1>6 DEF CountedUsers
<1>8. QED BY <1>1, <1>3, <1>4, <1>5, <1>7

LEMMA SameCount ==
  ASSUME StartupsBalanced, balanced, CountedUsers' = CountedUsers, startups' = startups
  PROVE  StartupsBalanced'
BY DEF StartupsBalanced, CountedUsers

(* A counted user's WSACleanup, after the sockets of its own are closed.   *)
LEMMA OwnCleanup ==
  ASSUME SockInv, NEW u \in Users, stage[u] \in Counted,
         NEW open \in [Handles -> Users \union {Nobody}],
         balanced => \A h \in Handles : open[h] = IF owner[h] = u THEN Nobody ELSE owner[h],
         WSACleanup(open), NEW s \in {"none", "failed"}, Become(u, s),
         handle' = handle, balanced' = balanced, s = "failed" => handle[u] \in Handles
  PROVE  SockInv'
<1>1. s \in Stages /\ s \notin Counted /\ s \notin Ready
  BY DEF Stages, Counted, Ready
<1>2. SockTypeOK'
  BY <1>1, CleanupType, StageType DEF SockInv, SockTypeOK
<1>3. CASE balanced
  <2>1. /\ startups \in Nat \ {0} /\ startups - 1 = Cardinality(CountedUsers')
        /\ startups = 1 => \A v \in Users : stage[v] \in Counted => v = u
    BY <1>1, <1>3, OneFewer DEF SockInv
  <2>2. startups' = startups - 1
    BY <2>1 DEF WSACleanup
  <2>3. StartupsBalanced'
    BY <2>1, <2>2 DEF StartupsBalanced, CountedUsers
  <2>4. ASSUME NEW v \in Users, stage'[v] \in Ready PROVE owner'[handle'[v]] = v
    <3>1. v # u /\ stage[v] \in Ready
      BY <1>1, <2>4, StageType DEF SockInv
    <3>2. owner' = open
      BY <2>1, <3>1 DEF Counted, WSACleanup
    <3>3. handle[v] \in Handles /\ owner[handle[v]] = v
      BY <1>3, <3>1 DEF SockInv, SockTypeOK, HandlesMatchSockets, Ready
    <3>4. QED BY <1>3, <3>1, <3>2, <3>3
  <2>5. ASSUME NEW h \in Handles, owner'[h] # Nobody
        PROVE  /\ handle'[owner'[h]] = h
               /\ stage'[owner'[h]] \in Ready \union {"accepted"}
    <3>1. owner'[h] = owner[h] /\ owner[h] # u /\ owner[h] \in Users
      BY <1>3, <2>5 DEF WSACleanup, SockInv, SockTypeOK
    <3>2. handle[owner[h]] = h /\ stage[owner[h]] \in Ready \union {"accepted"}
      BY <1>3, <2>5, <3>1 DEF SockInv, HandlesMatchSockets
    <3>3. QED BY <1>1, <3>1, <3>2, StageType DEF SockInv
  <2>6. HandlesMatchSockets'
    BY <2>4, <2>5 DEF HandlesMatchSockets
  <2>7. QED BY <1>2, <2>3, <2>6 DEF SockInv
<1>4. CASE ~balanced
  BY <1>2, <1>4 DEF SockInv, StartupsBalanced, HandlesMatchSockets
<1>5. QED BY <1>3, <1>4 DEF SockInv, SockTypeOK

(* The cleanup of a user that has no socket yet, and of one that closes    *)
(* its own.                                                                *)
LEMMA CleanupBeforeSocket ==
  ASSUME SockInv, NEW u \in Users, At(u, "started"), WSACleanup(owner), Become(u, "none"),
         UNCHANGED <<handle, balanced>>
  PROVE  SockInv'
<1>1. stage[u] \in Counted /\ stage[u] \notin Ready \union {"accepted"}
  BY DEF At, Counted, Ready
<1>2. owner \in [Handles -> Users \union {Nobody}]
  BY DEF SockInv, SockTypeOK
<1>3. balanced => \A h \in Handles : owner[h] # u
  BY <1>1, SocketAssumption DEF SockInv, HandlesMatchSockets
<1>4. QED BY <1>1, <1>2, <1>3, OwnCleanup

LEMMA CleanupOwnSocket ==
  ASSUME SockInv, NEW u \in Users, stage[u] \in Ready, CloseAndCleanup(u),
         NEW s \in {"none", "failed"}, Become(u, s), handle' = handle, balanced' = balanced
  PROVE  SockInv'
<1> DEFINE open == [owner EXCEPT ![handle[u]] = Nobody]
<1>1. stage[u] \in Counted /\ handle[u] \in Handles
  BY DEF Counted, Ready, SockInv, SockTypeOK
<1>2. open \in [Handles -> Users \union {Nobody}]
  BY DEF SockInv, SockTypeOK
<1>3. balanced => \A h \in Handles : owner[h] = u <=> h = handle[u]
  BY SocketAssumption DEF SockInv, HandlesMatchSockets
<1>4. balanced => \A h \in Handles : open[h] = IF owner[h] = u THEN Nobody ELSE owner[h]
  BY <1>3 DEF SockInv, SockTypeOK
<1>5. WSACleanup(open)
  BY DEF CloseAndCleanup
<1> HIDE DEF open
<1>6. QED BY <1>1, <1>2, <1>4, <1>5, OwnCleanup

LEMMA SockInvStep == SockInv /\ [SockNext]_sockVars => SockInv'
<1> SUFFICES ASSUME SockInv, [SockNext]_sockVars PROVE SockInv'
  OBVIOUS
<1>t. /\ SockTypeOK /\ StartupsBalanced /\ HandlesMatchSockets
      /\ \A u \in Users : u # Nobody
  BY SocketAssumption DEF SockInv
<1>s. \A s \in {"none", "started", "ready", "listening", "connected", "accepted", "failed"} : s \in Stages
  BY DEF Stages, Counted, Ready
<1>1. ASSUME NEW u \in Users, Startup(u) PROVE SockInv'
  <2>1. stage[u] = "none" /\ Become(u, "started")
    BY <1>1 DEF Startup, At
  <2>2. SockTypeOK'
    BY <1>1, <1>t, <1>s, <2>1, StageType DEF Startup, SockTypeOK
  <2>3. CountedUsers' = CountedUsers \union {u} /\ u \notin CountedUsers
    BY <1>t, <1>s, <2>1, StageType DEF CountedUsers, Counted, Ready
  <2>4. IsFiniteSet(CountedUsers)
    BY FS_Subset, SocketAssumption DEF CountedUsers
  <2>5. Cardinality(CountedUsers') = Cardinality(CountedUsers) + 1
    BY <2>3, <2>4, FS_AddElement
  <2>6. StartupsBalanced'
    BY <1>1, <1>t, <2>5 DEF Startup, StartupsBalanced, CountedUsers
  <2>7. HandlesMatchSockets'
    BY <1>1, <1>t, <1>s, <2>1, StageType DEF Startup, HandlesMatchSockets, SockTypeOK, Ready
  <2>8. QED BY <2>2, <2>6, <2>7 DEF SockInv
<1>2. ASSUME NEW u \in Users, WrongVersion(u) \/ NoSocket(u) PROVE SockInv'
  BY <1>2, CleanupBeforeSocket DEF WrongVersion, NoSocket
<1>3. ASSUME NEW u \in Users, NEW h \in Handles, OpenSocket(u, h) PROVE SockInv'
  <2>1. /\ stage[u] = "started" /\ Become(u, "ready") /\ owner[h] = Nobody
        /\ owner' = [owner EXCEPT ![h] = u] /\ handle' = [handle EXCEPT ![u] = h]
        /\ startups' = startups /\ balanced' = balanced
    BY <1>3 DEF OpenSocket, At
  <2>2. stage'[u] = "ready" /\ \A v \in Users : v # u => stage'[v] = stage[v]
    BY <1>t, <1>s, <2>1, StageType
  <2>3. SockTypeOK'
    BY <1>t, <1>s, <2>1, <2>2, StageType DEF SockTypeOK
  <2>4. CountedUsers' = CountedUsers
    BY <2>1, <2>2 DEF CountedUsers, Counted, Ready
  <2>5. StartupsBalanced'
    BY <1>t, <2>1, <2>4, SameCount DEF StartupsBalanced
  <2>6. HandlesMatchSockets'
    BY <1>t, <2>1, <2>2 DEF HandlesMatchSockets, SockTypeOK, Ready
  <2>7. QED BY <2>3, <2>5, <2>6 DEF SockInv
<1>4. ASSUME NEW u \in Users, NEW s \in Ready, stage[u] \in Ready, Become(u, s),
             UNCHANGED <<startups, owner, handle, balanced>>
      PROVE  SockInv'
  <2>1. s \in Stages /\ s \notin {"none", "started"} /\ handle[u] \in Handles
    BY <1>4, <1>t DEF Stages, Counted, Ready, SockTypeOK
  <2>2. stage'[u] = s /\ \A v \in Users : v # u => stage'[v] = stage[v]
    BY <1>4, <1>t, <2>1, StageType
  <2>3. SockTypeOK'
    BY <1>4, <1>t, <2>1, <2>2, StageType DEF SockTypeOK
  <2>4. CountedUsers' = CountedUsers
    BY <1>4, <2>2 DEF CountedUsers, Counted
  <2>5. StartupsBalanced'
    BY <1>4, <1>t, <2>4, SameCount DEF StartupsBalanced
  <2>6. HandlesMatchSockets'
    BY <1>4, <1>t, <2>2 DEF HandlesMatchSockets, SockTypeOK
  <2>7. QED BY <2>3, <2>5, <2>6 DEF SockInv
<1>5. ASSUME NEW u \in Users, SetServer(u) \/ Connect(u) PROVE SockInv'
  BY <1>4, <1>5 DEF SetServer, Connect, At, Ready
<1>6. ASSUME NEW u \in Users, SetServerFails(u) \/ AcceptFails(u) PROVE SockInv'
  BY <1>6, CleanupOwnSocket DEF SetServerFails, AcceptFails, At, Ready
<1>7. ASSUME NEW u \in Users, NEW v \in Users, NEW h \in Handles, Accept(u, v, h)
      PROVE  SockInv'
  <2>1. /\ stage[v] = "none" /\ Become(v, "accepted") /\ owner[h] = Nobody
        /\ owner' = [owner EXCEPT ![h] = v] /\ handle' = [handle EXCEPT ![v] = h]
        /\ startups' = startups /\ balanced' = balanced
    BY <1>7 DEF Accept, At
  <2>2. stage'[v] = "accepted" /\ \A w \in Users : w # v => stage'[w] = stage[w]
    BY <1>t, <1>s, <2>1, StageType
  <2>3. SockTypeOK'
    BY <1>t, <1>s, <2>1, <2>2, StageType DEF SockTypeOK
  <2>4. CountedUsers' = CountedUsers
    BY <2>1, <2>2 DEF CountedUsers, Counted, Ready
  <2>5. StartupsBalanced'
    BY <1>t, <2>1, <2>4, SameCount DEF StartupsBalanced
  <2>6. HandlesMatchSockets'
    BY <1>t, <2>1, <2>2 DEF HandlesMatchSockets, SockTypeOK, Ready
  <2>7. QED BY <2>3, <2>5, <2>6 DEF SockInv
<1>8. ASSUME NEW u \in Users, Uninit(u) PROVE SockInv'
  <2>1. CASE stage[u] \in Ready
    <3>1. balanced' = balanced /\ CloseAndCleanup(u) /\ Become(u, "none") /\ handle' = handle
      BY <1>8, <1>t, <2>1 DEF Uninit, SockTypeOK
    <3>2. QED BY <2>1, <3>1, CleanupOwnSocket
  <2>2. CASE stage[u] \notin Ready
    <3>1. /\ ~balanced' /\ balanced' \in BOOLEAN /\ CloseAndCleanup(u)
          /\ Become(u, "none") /\ handle' = handle
      BY <1>8, <2>2 DEF Uninit
    <3>2. [owner EXCEPT ![handle[u]] = Nobody] \in [Handles -> Users \union {Nobody}]
      BY <1>t DEF SockTypeOK
    <3>3. startups' \in Nat /\ owner' \in [Handles -> Users \union {Nobody}]
      BY <1>t, <3>1, <3>2, CleanupType DEF CloseAndCleanup
    <3>4. SockTypeOK'
      BY <1>t, <1>s, <3>1, <3>3, StageType DEF SockTypeOK
    <3>5. QED BY <3>1, <3>4 DEF SockInv, StartupsBalanced, HandlesMatchSockets
  <2>3. QED BY <2>1, <2>2
<1>9. ASSUME NEW u \in Users, CloseAccepted(u) PROVE SockInv'
  <2>1. /\ stage[u] = "accepted" /\ Become(u, "none") /\ handle' = handle /\ startups' = startups
        /\ owner' = [owner EXCEPT ![handle[u]] = Nobody] /\ handle[u] \in Handles
        /\ balanced' = (balanced /\ owner[handle[u]] \in {u, Nobody})
    BY <1>9, <1>t DEF CloseAccepted, At, SockTypeOK
  <2>2. stage'[u] = "none" /\ \A v \in Users : v # u => stage'[v] = stage[v]
    BY <1>t, <1>s, <2>1, StageType
  <2>3. SockTypeOK'
    BY <1>t, <1>s, <2>1, <2>2, StageType DEF SockTypeOK
  <2>4. CASE balanced'
    <3>1. balanced /\ owner[handle[u]] \in {u, Nobody}
      BY <2>1, <2>4 DEF SockTypeOK
    <3>2. CountedUsers' = CountedUsers
      BY <2>1, <2>2 DEF CountedUsers, Counted, Ready
    <3>3. StartupsBalanced'
      BY <1>t, <2>1, <3>1, <3>2, SameCount
    <3>4. HandlesMatchSockets'
      BY <1>t, <2>1, <2>2, <3>1 DEF HandlesMatchSockets, SockTypeOK, Ready
    <3>5. QED BY <2>3, <3>3, <3>4 DEF SockInv
  <2>5. CASE ~balanced'
    BY <2>3, <2>5 DEF SockInv, StartupsBalanced, HandlesMatchSockets
  <2>6. QED BY <2>4, <2>5
<1>10. ASSUME NEW u \in Users, Forget(u) PROVE SockInv'
  <2>1. /\ stage[u] = "failed" /\ Become(u, "none") /\ handle' = handle /\ startups' = startups
        /\ owner' = owner /\ balanced' = balanced
    BY <1>10 DEF Forget, At
  <2>2. stage'[u] = "none" /\ \A v \in Users : v # u => stage'[v] = stage[v]
    BY <1>t, <1>s, <2>1, StageType
  <2>3. SockTypeOK'
    BY <1>t, <1>s, <2>1, <2>2, StageType DEF SockTypeOK
  <2>4. CountedUsers' = CountedUsers
    BY <2>1, <2>2 DEF CountedUsers, Counted, Ready
  <2>5. StartupsBalanced'
    BY <1>t, <2>1, <2>4, SameCount DEF StartupsBalanced
  <2>6. HandlesMatchSockets'
    BY <1>t, <2>1, <2>2 DEF HandlesMatchSockets, SockTypeOK, Ready
  <2>7. QED BY <2>3, <2>5, <2>6 DEF SockInv
<1>11. CASE UNCHANGED sockVars
  BY <1>11, <1>t DEF sockVars, SockInv, SockTypeOK, StartupsBalanced, HandlesMatchSockets
<1>12. QED
  BY <1>1, <1>2, <1>3, <1>5, <1>6, <1>7, <1>8, <1>9, <1>10, <1>11 DEF SockNext, ConnectFails

LEMMA SockInvariant == SockSpec => []SockInv
BY SockInvInit, SockInvStep, PTL DEF SockSpec

(* Every WSAStartup has its one WSACleanup along every path, for any       *)
(* number of threads.                                                      *)
THEOREM StartupsAreBalanced == SockSpec => []StartupsBalanced
<1>1. SockInv => StartupsBalanced BY DEF SockInv
<1>2. QED BY SockInvariant, <1>1, PTL

(* Nobody's socket is closed by somebody else or by Winsock's end, and     *)
(* none is left open that nobody holds.                                    *)
THEOREM HandlesAreSockets == SockSpec => []HandlesMatchSockets
<1>1. SockInv => HandlesMatchSockets BY DEF SockInv
<1>2. QED BY SockInvariant, <1>1, PTL

------------------------------------------------------------------------------
(* DebugMemory. Records agree with the heap, and blocks keep their text.   *)

(* Every byte of a user's block: the user's own, garbage beyond it.        *)
Kept(u) ==
  LET s == heap[pointer[u]] IN
  pointer[u] # Null =>
    /\ Len(text[u]) <= Len(s)
    /\ \A i \in 1 .. Len(s) : s[i] = IF i <= Len(text[u]) THEN text[u][i] ELSE Garbage

(* RecordsMatch, pointwise. *)
RecordStands(r) ==
  r.begin \in Blocks /\ heap[r.begin] # <<>> /\ r = [begin |-> r.begin, size |-> Len(heap[r.begin])]
BlockHeld(b) ==
  heap[b] # <<>> => (Recorded(b) \/ b \in norecord) /\ \E u \in Pointers : pointer[u] = b
Exclusive(u) ==
  pointer[u] # Null =>
    heap[pointer[u]] # <<>> /\ \A v \in Pointers : pointer[v] = pointer[u] => v = u

MemInv ==
  /\ MemTypeOK /\ (\A r \in records : RecordStands(r)) /\ \A b \in Blocks : BlockHeld(b)
  /\ \A u \in Pointers : Exclusive(u) /\ Kept(u)
  /\ crashed => norecord # {}

LEMMA Constants ==
  /\ Garbage \in Byte /\ Bytes \subseteq Byte /\ Null \notin Blocks
  /\ \A n \in Sizes : n \in Nat /\ n > 0
BY MemoryAssumption DEF Byte

------------------------------------------------------------------------------
(* The sequences the operations make. *)
LEMMA FillSeq ==
  ASSUME NEW s \in Seq(Byte), NEW from \in Int, NEW to \in Int, NEW byte \in Byte
  PROVE  /\ Fill(s, from, to, byte) \in Seq(Byte) /\ Len(Fill(s, from, to, byte)) = Len(s)
         /\ \A i \in 1 .. Len(s) :
              Fill(s, from, to, byte)[i] = IF from <= i /\ i <= to THEN byte ELSE s[i]
<1>1. DOMAIN s = 1 .. Len(s) /\ Len(s) \in Nat /\ \A i \in 1 .. Len(s) : s[i] \in Byte
  OBVIOUS
<1>2. Fill(s, from, to, byte) = [i \in 1 .. Len(s) |-> IF i \in from .. to THEN byte ELSE s[i]]
  BY <1>1 DEF Fill
<1>3. \A i \in 1 .. Len(s) : (IF i \in from .. to THEN byte ELSE s[i]) \in Byte
  BY <1>1
<1>4. QED BY <1>1, <1>2, <1>3

LEMMA NewBlockSeq ==
  ASSUME NEW n \in Nat
  PROVE  NewBlock(n) \in Seq(Byte) /\ Len(NewBlock(n)) = n /\ \A i \in 1 .. n : NewBlock(n)[i] = Garbage
BY Constants DEF NewBlock

LEMMA GrownSeq ==
  ASSUME NEW s \in Seq(Byte), NEW n \in Nat
  PROVE  /\ Grown(s, n) \in Seq(Byte) /\ Len(Grown(s, n)) = n
         /\ \A i \in 1 .. n : Grown(s, n)[i] = IF i <= Len(s) THEN s[i] ELSE Garbage
<1>1. Len(s) \in Nat /\ \A i \in 1 .. Len(s) : s[i] \in Byte
  OBVIOUS
<1>2. \A i \in 1 .. n : (IF i <= Len(s) THEN s[i] ELSE Garbage) \in Byte
  BY <1>1, Constants
<1>3. QED BY <1>2 DEF Grown

LEMMA PrefixSeq ==
  ASSUME NEW s \in Seq(Byte), NEW n \in 0 .. Len(s)
  PROVE  /\ SubSeq(s, 1, n) \in Seq(Byte) /\ Len(SubSeq(s, 1, n)) = n
         /\ \A i \in 1 .. n : SubSeq(s, 1, n)[i] = s[i]
<1>1. n \in Nat /\ n <= Len(s) /\ Len(s) \in Nat
  OBVIOUS
<1>2. SubSeq(s, 1, n) = [i \in 1 .. n |-> s[i]]
  BY <1>1
<1>3. \A i \in 1 .. n : s[i] \in Byte
  BY <1>1
<1>4. QED BY <1>1, <1>2, <1>3

LEMMA NotEmpty == ASSUME NEW s \in Seq(Byte) PROVE s # <<>> <=> Len(s) > 0
BY EmptySeq

------------------------------------------------------------------------------
(* What the invariant says of a user that has a block. *)
LEMMA Holding ==
  ASSUME MemInv, NEW u \in Pointers, pointer[u] # Null
  PROVE  /\ pointer[u] \in Blocks /\ heap[pointer[u]] # <<>> /\ heap[pointer[u]] \in Seq(Byte)
         /\ text[u] \in Seq(Byte) /\ Kept(u)
         /\ \A v \in Pointers : v # u => pointer[v] # pointer[u]
BY DEF MemInv, MemTypeOK, Exclusive

LEMMA SizeOf ==
  ASSUME MemInv, NEW b \in Blocks, Recorded(b)
  PROVE  GetSizeOfBlock(b) = Len(heap[b]) /\ heap[b] # <<>>
<1> DEFINE r == CHOOSE x \in records : x.begin = b
<1>1. r \in records /\ r.begin = b
  BY DEF Recorded
<1> HIDE DEF r
<1>2. RecordStands(r)
  BY <1>1 DEF MemInv
<1>3. r.size = Len(heap[b]) /\ heap[b] # <<>>
  BY <1>1, <1>2 DEF RecordStands
<1>4. QED BY <1>3 DEF GetSizeOfBlock, r

LEMMA MemInitInv == MemInit => MemInv
<1> SUFFICES ASSUME MemInit PROVE MemInv
  OBVIOUS
<1>1. <<>> \in Seq(Byte)
  OBVIOUS
<1>2. MemTypeOK
  BY <1>1 DEF MemInit, MemTypeOK
<1>3. \A u \in Pointers : Exclusive(u) /\ Kept(u)
  BY Constants DEF MemInit, Exclusive, Kept
<1>4. QED BY <1>2, <1>3 DEF MemInit, MemInv, BlockHeld

(* A block changed in place, by its user.                                  *)
LEMMA InPlace ==
  ASSUME MemInv, NEW u \in Pointers, pointer[u] # Null,
         NEW s \in Seq(Byte), Len(s) = Len(heap[pointer[u]]), heap' = [heap EXCEPT ![pointer[u]] = s],
         NEW x \in Seq(Byte), Len(x) <= Len(s), text' = [text EXCEPT ![u] = x],
         \A i \in 1 .. Len(s) : s[i] = IF i <= Len(x) THEN x[i] ELSE Garbage,
         UNCHANGED <<records, pointer, norecord, crashed>>
  PROVE  MemInv'
<1> DEFINE p == pointer[u]
<1>1. /\ p \in Blocks /\ heap[p] # <<>> /\ heap[p] \in Seq(Byte)
      /\ \A v \in Pointers : v # u => pointer[v] # p
  BY Holding
<1>2. /\ MemTypeOK /\ (\A r \in records : RecordStands(r)) /\ \A b \in Blocks : BlockHeld(b)
      /\ \A v \in Pointers : Exclusive(v) /\ Kept(v)
  BY DEF MemInv
<1>3. /\ heap' \in [Blocks -> Seq(Byte)] /\ heap'[p] = s
      /\ \A b \in Blocks : b # p => heap'[b] = heap[b]
  BY <1>1, <1>2 DEF MemTypeOK
<1>4. text' \in [Pointers -> Seq(Byte)] /\ text'[u] = x /\ \A v \in Pointers : v # u => text'[v] = text[v]
  BY <1>2 DEF MemTypeOK
<1>5. s # <<>>
  BY <1>1, NotEmpty
<1>6. \A b \in Blocks : Len(heap'[b]) = Len(heap[b]) /\ (heap'[b] # <<>> <=> heap[b] # <<>>)
  BY <1>1, <1>3, <1>5
<1>7. MemTypeOK'
  BY <1>2, <1>3, <1>4 DEF MemTypeOK
<1>8. ASSUME NEW r \in records PROVE RecordStands(r)'
  <2>1. RecordStands(r)
    BY <1>2
  <2>2. QED BY <1>6, <2>1 DEF RecordStands
<1>9. ASSUME NEW b \in Blocks PROVE BlockHeld(b)'
  <2>1. BlockHeld(b)
    BY <1>2
  <2>2. QED BY <1>6, <2>1 DEF BlockHeld, Recorded
<1>10. ASSUME NEW v \in Pointers PROVE Exclusive(v)' /\ Kept(v)'
  <2>1. Exclusive(v) /\ Kept(v) /\ (pointer[v] # Null => pointer[v] \in Blocks)
    BY <1>2 DEF MemTypeOK
  <2>2. Exclusive(v)'
    BY <1>6, <2>1 DEF Exclusive
  <2>3. Kept(v)'
    <3>1. CASE v = u
      BY <1>3, <1>4, <3>1 DEF Kept
    <3>2. CASE v # u
      <4>1. text'[v] = text[v] /\ (pointer[v] # Null => heap'[pointer[v]] = heap[pointer[v]])
        BY <1>1, <1>3, <1>4, <2>1, <3>2
      <4>2. QED BY <2>1, <4>1 DEF Kept
    <3>3. QED BY <3>1, <3>2
  <2>4. QED BY <2>2, <2>3
<1>11. QED BY <1>7, <1>8, <1>9, <1>10 DEF MemInv

LEMMA ShrinkInv ==
  ASSUME MemInv, NEW u \in Pointers, NEW n \in Sizes, Shrink(u, n)
  PROVE  MemInv'
<1> DEFINE s == heap[pointer[u]]
           m == IF n < Len(text[u]) THEN n ELSE Len(text[u])
           prefix == SubSeq(text[u], 1, m)
           x == Grown(prefix, n)
<1>1. pointer[u] # Null /\ Recorded(pointer[u]) /\ n <= GetSizeOfBlock(pointer[u])
  BY DEF Shrink
<1>2. /\ pointer[u] \in Blocks /\ s \in Seq(Byte) /\ text[u] \in Seq(Byte) /\ Kept(u)
      /\ n <= Len(s) /\ n \in Nat
  BY <1>1, Holding, SizeOf, Constants
<1>3. /\ heap' = [heap EXCEPT ![pointer[u]] = Shrunk(s, n)]
      /\ text' = [text EXCEPT ![u] = x]
      /\ UNCHANGED <<records, pointer, norecord, crashed>>
  BY DEF Shrink
<1>4. /\ Shrunk(s, n) \in Seq(Byte) /\ Len(Shrunk(s, n)) = Len(s)
      /\ \A i \in 1 .. Len(s) : Shrunk(s, n)[i] = IF n + 1 <= i /\ i <= Len(s) THEN Garbage ELSE s[i]
  <2>1. n + 1 \in Int /\ Len(s) \in Int /\ Garbage \in Byte
    BY <1>2, Constants
  <2> HIDE DEF s
  <2>2. QED BY <1>2, <2>1, FillSeq DEF Shrunk
<1>5. m \in 0 .. Len(text[u]) /\ m <= n /\ m \in Nat /\ (m < n => m = Len(text[u]))
  BY <1>2
<1>6. /\ prefix \in Seq(Byte) /\ Len(prefix) = m
      /\ \A i \in 1 .. m : prefix[i] = text[u][i]
  BY <1>2, <1>5, PrefixSeq
<1> HIDE DEF prefix, m
<1>7. /\ x \in Seq(Byte) /\ Len(x) = n
      /\ \A i \in 1 .. n : x[i] = IF i <= m THEN prefix[i] ELSE Garbage
  <2>1. /\ Grown(prefix, n) \in Seq(Byte) /\ Len(Grown(prefix, n)) = n
        /\ \A i \in 1 .. n : Grown(prefix, n)[i] = IF i <= Len(prefix) THEN prefix[i] ELSE Garbage
    BY <1>2, <1>6, GrownSeq
  <2>2. QED BY <1>6, <2>1
<1>8. \A i \in 1 .. Len(s) : s[i] = IF i <= Len(text[u]) THEN text[u][i] ELSE Garbage
  BY <1>1, <1>2 DEF Kept
<1>9. \A i \in 1 .. Len(s) : Shrunk(s, n)[i] = IF i <= n THEN x[i] ELSE Garbage
  <2> SUFFICES ASSUME NEW i \in 1 .. Len(s)
               PROVE  Shrunk(s, n)[i] = IF i <= n THEN x[i] ELSE Garbage
    OBVIOUS
  <2>1. CASE i > n
    BY <1>2, <1>4, <2>1
  <2>2. CASE i <= m
    <3>1. x[i] = text[u][i] /\ i <= n
      BY <1>5, <1>6, <1>7, <2>2
    <3>2. s[i] = text[u][i]
      BY <1>5, <1>8, <2>2
    <3>3. QED BY <1>2, <1>4, <3>1, <3>2
  <2>3. CASE i > m /\ i <= n
    <3>1. x[i] = Garbage /\ i > Len(text[u])
      BY <1>2, <1>5, <1>7, <2>3
    <3>2. s[i] = Garbage
      BY <1>2, <1>8, <3>1
    <3>3. QED BY <1>2, <1>4, <2>3, <3>1, <3>2
  <2>4. QED BY <1>2, <1>5, <2>1, <2>2, <2>3
<1> HIDE DEF x
<1>10. QED
  <2> DEFINE y == Shrunk(s, n)
  <2>1. /\ y \in Seq(Byte) /\ Len(y) = Len(heap[pointer[u]])
        /\ x \in Seq(Byte) /\ Len(x) <= Len(y)
    BY <1>2, <1>4, <1>7
  <2>2. \A i \in 1 .. Len(y) : y[i] = IF i <= Len(x) THEN x[i] ELSE Garbage
    BY <1>4, <1>7, <1>9
  <2> HIDE DEF y
  <2>3. heap' = [heap EXCEPT ![pointer[u]] = y] /\ text' = [text EXCEPT ![u] = x]
    BY <1>3 DEF y
  <2>4. QED BY <1>1, <1>3, <2>1, <2>2, <2>3, InPlace

LEMMA FillUpInv ==
  ASSUME MemInv, NEW u \in Pointers, NEW off \in Nat, NEW n \in Nat, NEW byte \in Bytes,
         FillUpMemory(u, off, n, byte)
  PROVE  MemInv'
<1> DEFINE s == heap[pointer[u]]
           t == Fill(s, off + 1, off + n, byte)
           x == Fill(text[u], off + 1, off + n, byte)
<1>1. pointer[u] # Null /\ off + n <= Len(text[u])
  BY DEF FillUpMemory
<1>2. pointer[u] \in Blocks /\ s \in Seq(Byte) /\ text[u] \in Seq(Byte) /\ Kept(u) /\ byte \in Byte
  BY <1>1, Holding, Constants
<1>3. /\ heap' = [heap EXCEPT ![pointer[u]] = t]
      /\ text' = [text EXCEPT ![u] = x]
      /\ UNCHANGED <<records, pointer, norecord, crashed>>
  BY DEF FillUpMemory
<1>4. off + 1 \in Int /\ off + n \in Int
  OBVIOUS
<1>5. /\ t \in Seq(Byte) /\ Len(t) = Len(s)
      /\ \A i \in 1 .. Len(s) : t[i] = IF off + 1 <= i /\ i <= off + n THEN byte ELSE s[i]
  BY <1>2, <1>4, FillSeq
<1>6. /\ x \in Seq(Byte) /\ Len(x) = Len(text[u])
      /\ \A i \in 1 .. Len(text[u]) : x[i] = IF off + 1 <= i /\ i <= off + n THEN byte ELSE text[u][i]
  BY <1>2, <1>4, FillSeq
<1>7. /\ Len(text[u]) <= Len(s)
      /\ \A i \in 1 .. Len(s) : s[i] = IF i <= Len(text[u]) THEN text[u][i] ELSE Garbage
  BY <1>1, <1>2 DEF Kept
<1> HIDE DEF t, x
<1>8. \A i \in 1 .. Len(t) : t[i] = IF i <= Len(x) THEN x[i] ELSE Garbage
  BY <1>1, <1>2, <1>5, <1>6, <1>7
<1>9. Len(x) <= Len(t)
  BY <1>5, <1>6, <1>7
<1> HIDE DEF s
<1>10. QED BY <1>1, <1>2, <1>3, <1>5, <1>6, <1>8, <1>9, InPlace DEF s

(* The record of a new block, or none.                                     *)
LEMMA WithRecordIs ==
  ASSUME NEW old, NEW b, NEW n, NEW ok \in BOOLEAN
  PROVE  /\ \A r \in WithRecord(old, b, n, ok) : r \in old \/ r = [begin |-> b, size |-> n]
         /\ old \subseteq WithRecord(old, b, n, ok)
         /\ ok => [begin |-> b, size |-> n] \in WithRecord(old, b, n, ok)
BY DEF WithRecord

(* A user gets another block, and the one it had, if any, is freed.        *)
IsPlaced(u, b, s, x) ==
  /\ heap[b] = <<>> /\ Len(s) \in Sizes /\ Len(x) <= Len(s)
  /\ \A i \in 1 .. Len(s) : s[i] = IF i <= Len(x) THEN x[i] ELSE Garbage
  /\ heap' \in [Blocks -> Seq(Byte)] /\ heap'[b] = s
  /\ \A c \in Blocks : c # b => heap'[c] = IF c = pointer[u] THEN <<>> ELSE heap[c]
  /\ pointer' = [pointer EXCEPT ![u] = b] /\ text' = [text EXCEPT ![u] = x]
  /\ \A r \in records' : (r \in records /\ r.begin # pointer[u]) \/ r = [begin |-> b, size |-> Len(s)]
  /\ \A r \in records : r.begin # pointer[u] => r \in records'
  /\ norecord \subseteq norecord' /\ norecord' \subseteq Blocks
  /\ [begin |-> b, size |-> Len(s)] \in records' \/ b \in norecord'
  /\ crashed' = crashed

LEMMA Placed ==
  ASSUME MemInv, NEW u \in Pointers, NEW b \in Blocks, NEW s \in Seq(Byte), NEW x \in Seq(Byte),
         IsPlaced(u, b, s, x)
  PROVE  MemInv'
<1> USE DEF IsPlaced
<1>1. MemTypeOK /\ \A v \in Pointers : Kept(v)
  BY DEF MemInv
<1>2. /\ (\A r \in records : RecordStands(r)) /\ (\A c \in Blocks : BlockHeld(c))
      /\ (\A v \in Pointers : Exclusive(v)) /\ (crashed => norecord # {})
  BY DEF MemInv
<1>3. s # <<>> /\ Len(s) > 0 /\ b # Null
  BY Constants, NotEmpty
<1>4. /\ pointer' \in [Pointers -> Blocks \union {Null}] /\ pointer'[u] = b
      /\ \A v \in Pointers : v # u => pointer'[v] = pointer[v]
      /\ text' \in [Pointers -> Seq(Byte)] /\ text'[u] = x
      /\ \A v \in Pointers : v # u => text'[v] = text[v]
  BY <1>1 DEF MemTypeOK
<1>5. \A r \in records' : r \in [begin : Blocks, size : Sizes]
  BY <1>1 DEF MemTypeOK
<1>6. MemTypeOK'
  BY <1>1, <1>4, <1>5 DEF MemTypeOK
<1>7. ASSUME NEW v \in Pointers PROVE pointer[v] # b
  BY <1>2, <1>3 DEF Exclusive
<1>8. ASSUME NEW r \in records' PROVE RecordStands(r)'
  <2>1. CASE r \in records /\ r.begin # pointer[u]
    <3>1. RecordStands(r)
      BY <1>2, <2>1
    <3>2. r.begin # b
      BY <3>1 DEF RecordStands
    <3>3. QED BY <2>1, <3>1, <3>2 DEF RecordStands
  <2>2. CASE r = [begin |-> b, size |-> Len(s)]
    BY <1>3, <2>2 DEF RecordStands
  <2>3. QED BY <2>1, <2>2
<1>9. ASSUME NEW c \in Blocks PROVE BlockHeld(c)'
  <2>1. CASE c = b
    BY <1>4, <2>1 DEF BlockHeld, Recorded
  <2>2. CASE c # b
    <3> SUFFICES ASSUME heap'[c] # <<>> PROVE BlockHeld(c)'
      BY DEF BlockHeld
    <3>1. c # pointer[u] /\ heap[c] # <<>>
      BY <2>2
    <3>2. (Recorded(c) \/ c \in norecord) /\ \E v \in Pointers : pointer[v] = c
      BY <1>2, <3>1 DEF BlockHeld
    <3>3. Recorded(c)' \/ c \in norecord'
      BY <3>1, <3>2 DEF Recorded
    <3>4. PICK v \in Pointers : pointer[v] = c
      BY <3>2
    <3>5. v # u
      BY <3>1, <3>4
    <3>6. QED BY <1>4, <3>3, <3>4, <3>5 DEF BlockHeld
  <2>3. QED BY <2>1, <2>2
<1>10. ASSUME NEW v \in Pointers PROVE Exclusive(v)' /\ Kept(v)'
  <2>1. CASE v = u
    <3>1. Exclusive(v)'
      <4>1. \A w \in Pointers : pointer'[w] = b => w = u
        BY <1>4, <1>7
      <4>2. QED BY <1>3, <1>4, <2>1, <4>1 DEF Exclusive
    <3>2. Kept(v)'
      BY <1>4, <2>1 DEF Kept
    <3>3. QED BY <3>1, <3>2
  <2>2. CASE v # u
    <3>1. Exclusive(v) /\ Kept(v) /\ pointer'[v] = pointer[v] /\ text'[v] = text[v]
      BY <1>1, <1>2, <1>4, <2>2
    <3>2. pointer[v] # Null => pointer[v] # pointer[u]
      BY <2>2, <3>1 DEF Exclusive
    <3>3. pointer[v] # Null => pointer[v] \in Blocks /\ heap'[pointer[v]] = heap[pointer[v]]
      BY <1>1, <1>7, <3>2 DEF MemTypeOK
    <3>4. Exclusive(v)'
      <4> SUFFICES ASSUME pointer[v] # Null
                   PROVE  heap'[pointer[v]] # <<>> /\ \A w \in Pointers : pointer'[w] = pointer[v] => w = v
        BY <3>1 DEF Exclusive
      <4>1. heap'[pointer[v]] # <<>>
        BY <3>1, <3>3 DEF Exclusive
      <4>2. ASSUME NEW w \in Pointers, pointer'[w] = pointer[v] PROVE w = v
        <5>1. w # u
          BY <1>4, <1>7, <4>2
        <5>2. pointer[w] = pointer[v]
          BY <1>4, <4>2, <5>1
        <5>3. QED BY <3>1, <5>2 DEF Exclusive
      <4>3. QED BY <4>1, <4>2
    <3>5. Kept(v)'
      BY <3>1, <3>3 DEF Kept
    <3>6. QED BY <3>4, <3>5
  <2>3. QED BY <2>1, <2>2
<1>11. crashed' => norecord' # {}
  BY <1>2
<1>12. QED BY <1>6, <1>8, <1>9, <1>10, <1>11 DEF MemInv

LEMMA NewMemoryInv ==
  ASSUME MemInv, NEW u \in Pointers, NEW n \in Sizes, NEW b \in Blocks, NEW ok \in BOOLEAN,
         NewMemory(u, n, b, ok)
  PROVE  MemInv'
<1> DEFINE s == NewBlock(n)
<1>1. /\ pointer[u] = Null /\ heap[b] = <<>>
      /\ heap' = [heap EXCEPT ![b] = s] /\ pointer' = [pointer EXCEPT ![u] = b]
      /\ text' = [text EXCEPT ![u] = s] /\ records' = WithRecord(records, b, n, ok)
      /\ norecord' = IF ok THEN norecord ELSE norecord \union {b}
      /\ crashed' = crashed
  BY DEF NewMemory, Free
<1>2. n \in Nat /\ s \in Seq(Byte) /\ Len(s) = n /\ \A i \in 1 .. n : s[i] = Garbage
  BY Constants, NewBlockSeq
<1> HIDE DEF s
<1>3. /\ heap' \in [Blocks -> Seq(Byte)] /\ heap'[b] = s
      /\ \A c \in Blocks : c # b => heap'[c] = IF c = pointer[u] THEN <<>> ELSE heap[c]
  BY <1>1, <1>2, Constants DEF MemInv, MemTypeOK
<1>4. \A r \in records : r.begin # pointer[u]
  BY <1>1, Constants DEF MemInv, RecordStands
<1>5. /\ \A r \in records' : (r \in records /\ r.begin # pointer[u]) \/ r = [begin |-> b, size |-> n]
      /\ \A r \in records : r.begin # pointer[u] => r \in records'
      /\ ok => [begin |-> b, size |-> n] \in records'
  BY <1>1, <1>4, WithRecordIs
<1>6. norecord \subseteq norecord' /\ norecord' \subseteq Blocks /\ (~ok => b \in norecord')
  BY <1>1 DEF MemInv, MemTypeOK
<1>7. /\ Len(s) \in Sizes /\ Len(s) <= Len(s)
      /\ \A i \in 1 .. Len(s) : s[i] = IF i <= Len(s) THEN s[i] ELSE Garbage
  BY <1>2
<1>8. [begin |-> b, size |-> Len(s)] \in records' \/ b \in norecord'
  BY <1>2, <1>5, <1>6
<1>9. \A r \in records' : (r \in records /\ r.begin # pointer[u]) \/ r = [begin |-> b, size |-> Len(s)]
  BY <1>2, <1>5
<1>10. IsPlaced(u, b, s, s)
  BY <1>1, <1>2, <1>3, <1>5, <1>6, <1>7, <1>8, <1>9 DEF IsPlaced
<1>11. QED BY <1>2, <1>10, Placed

LEMMA GrowInv ==
  ASSUME MemInv, NEW u \in Pointers, NEW n \in Sizes, NEW b \in Blocks, NEW ok \in BOOLEAN,
         Grow(u, n, b, ok)
  PROVE  MemInv'
<1> DEFINE old == heap[pointer[u]]
           s == Grown(old, n)
           x == Grown(text[u], n)
<1>1. /\ pointer[u] # Null /\ Recorded(pointer[u]) /\ heap[b] = <<>> /\ n > GetSizeOfBlock(pointer[u])
      /\ heap' = [heap EXCEPT ![b] = s, ![pointer[u]] = <<>>]
      /\ pointer' = [pointer EXCEPT ![u] = b] /\ text' = [text EXCEPT ![u] = x]
      /\ records' = WithRecord(WithoutRecord(pointer[u]), b, n, ok)
      /\ norecord' = IF ok THEN norecord ELSE norecord \union {b}
      /\ crashed' = crashed
  BY DEF Grow, Free
<1>2. /\ pointer[u] \in Blocks /\ old # <<>> /\ old \in Seq(Byte) /\ text[u] \in Seq(Byte) /\ Kept(u)
      /\ pointer[u] # b /\ n \in Nat
  BY <1>1, Holding, Constants
<1>3. /\ Len(text[u]) <= Len(old)
      /\ \A i \in 1 .. Len(old) : old[i] = IF i <= Len(text[u]) THEN text[u][i] ELSE Garbage
  BY <1>1, <1>2 DEF Kept
<1>4. /\ s \in Seq(Byte) /\ Len(s) = n
      /\ \A i \in 1 .. n : s[i] = IF i <= Len(old) THEN old[i] ELSE Garbage
  BY <1>2, GrownSeq
<1>5. /\ x \in Seq(Byte) /\ Len(x) = n
      /\ \A i \in 1 .. n : x[i] = IF i <= Len(text[u]) THEN text[u][i] ELSE Garbage
  BY <1>2, GrownSeq
<1> HIDE DEF s, x, old
<1>6. \A i \in 1 .. Len(s) : s[i] = IF i <= Len(x) THEN x[i] ELSE Garbage
  BY <1>2, <1>3, <1>4, <1>5
<1>7. /\ heap' \in [Blocks -> Seq(Byte)] /\ heap'[b] = s
      /\ \A c \in Blocks : c # b => heap'[c] = IF c = pointer[u] THEN <<>> ELSE heap[c]
  <2>1. <<>> \in Seq(Byte) /\ heap \in [Blocks -> Seq(Byte)]
    BY DEF MemInv, MemTypeOK
  <2>2. QED BY <1>1, <1>2, <1>4, <2>1
<1>8. WithoutRecord(pointer[u]) = {r \in records : r.begin # pointer[u]}
  BY DEF WithoutRecord
<1>9. /\ \A r \in records' : (r \in records /\ r.begin # pointer[u]) \/ r = [begin |-> b, size |-> Len(s)]
      /\ \A r \in records : r.begin # pointer[u] => r \in records'
      /\ ok => [begin |-> b, size |-> Len(s)] \in records'
  BY <1>1, <1>4, <1>8, WithRecordIs
<1>10. norecord \subseteq norecord' /\ norecord' \subseteq Blocks /\ (~ok => b \in norecord')
  BY <1>1 DEF MemInv, MemTypeOK
<1>11. Len(s) \in Sizes /\ Len(x) <= Len(s)
  BY <1>2, <1>4, <1>5
<1>12. [begin |-> b, size |-> Len(s)] \in records' \/ b \in norecord'
  BY <1>9, <1>10
<1>13. IsPlaced(u, b, s, x)
  BY <1>1, <1>4, <1>5, <1>6, <1>7, <1>9, <1>10, <1>11, <1>12 DEF IsPlaced
<1>14. QED BY <1>4, <1>5, <1>13, Placed

LEMMA FreeMemoryInv ==
  ASSUME MemInv, NEW u \in Pointers, FreeMemory(u)
  PROVE  MemInv'
<1> DEFINE p == pointer[u]
<1>1. /\ p # Null /\ heap' = [heap EXCEPT ![p] = <<>>] /\ records' = {r \in records : r.begin # p}
      /\ pointer' = [pointer EXCEPT ![u] = Null] /\ text' = [text EXCEPT ![u] = <<>>]
      /\ norecord' = norecord /\ crashed' = crashed
  BY DEF FreeMemory, WithoutRecord
<1>2. p \in Blocks /\ \A v \in Pointers : v # u => pointer[v] # p
  BY <1>1, Holding
<1>3. /\ MemTypeOK /\ (\A r \in records : RecordStands(r)) /\ (\A c \in Blocks : BlockHeld(c))
      /\ (\A v \in Pointers : Exclusive(v) /\ Kept(v)) /\ (crashed => norecord # {})
  BY DEF MemInv
<1>4. /\ heap' \in [Blocks -> Seq(Byte)] /\ heap'[p] = <<>>
      /\ \A c \in Blocks : c # p => heap'[c] = heap[c]
      /\ pointer' \in [Pointers -> Blocks \union {Null}] /\ pointer'[u] = Null
      /\ \A v \in Pointers : v # u => pointer'[v] = pointer[v]
      /\ text' \in [Pointers -> Seq(Byte)]
      /\ \A v \in Pointers : v # u => text'[v] = text[v]
  <2>1. <<>> \in Seq(Byte)
    OBVIOUS
  <2>2. QED BY <1>1, <1>2, <1>3, <2>1 DEF MemTypeOK
<1>5. MemTypeOK'
  BY <1>1, <1>3, <1>4 DEF MemTypeOK
<1>6. ASSUME NEW r \in records' PROVE RecordStands(r)'
  <2>1. r \in records /\ r.begin # p /\ RecordStands(r)
    BY <1>1, <1>3
  <2>2. QED BY <1>4, <2>1 DEF RecordStands
<1>7. ASSUME NEW c \in Blocks PROVE BlockHeld(c)'
  <2> SUFFICES ASSUME heap'[c] # <<>> PROVE BlockHeld(c)'
    BY DEF BlockHeld
  <2>1. c # p /\ heap[c] # <<>>
    BY <1>4
  <2>2. (Recorded(c) \/ c \in norecord) /\ \E v \in Pointers : pointer[v] = c
    BY <1>3, <2>1 DEF BlockHeld
  <2>3. Recorded(c)' \/ c \in norecord'
    BY <1>1, <2>1, <2>2 DEF Recorded
  <2>4. PICK v \in Pointers : pointer[v] = c
    BY <2>2
  <2>5. v # u
    BY <2>1, <2>4
  <2>6. QED BY <1>4, <2>3, <2>4, <2>5 DEF BlockHeld
<1>8. ASSUME NEW v \in Pointers PROVE Exclusive(v)' /\ Kept(v)'
  <2>1. CASE v = u
    BY <1>4, <2>1 DEF Exclusive, Kept
  <2>2. CASE v # u
    <3>1. Exclusive(v) /\ Kept(v) /\ pointer'[v] = pointer[v] /\ text'[v] = text[v]
      BY <1>3, <1>4, <2>2
    <3>2. pointer[v] # Null => pointer[v] # p /\ heap'[pointer[v]] = heap[pointer[v]]
      BY <1>2, <1>3, <1>4, <2>2 DEF MemTypeOK
    <3>3. Exclusive(v)'
      <4> SUFFICES ASSUME pointer[v] # Null
                   PROVE  heap'[pointer[v]] # <<>> /\ \A w \in Pointers : pointer'[w] = pointer[v] => w = v
        BY <3>1 DEF Exclusive
      <4>1. heap'[pointer[v]] # <<>>
        BY <3>1, <3>2 DEF Exclusive
      <4>2. ASSUME NEW w \in Pointers, pointer'[w] = pointer[v] PROVE w = v
        <5>1. w # u
          BY <1>4, <4>2
        <5>2. pointer[w] = pointer[v]
          BY <1>4, <4>2, <5>1
        <5>3. QED BY <3>1, <5>2 DEF Exclusive
      <4>3. QED BY <4>1, <4>2
    <3>4. Kept(v)'
      BY <3>1, <3>2 DEF Kept
    <3>5. QED BY <3>3, <3>4
  <2>3. QED BY <2>1, <2>2
<1>9. QED BY <1>1, <1>3, <1>5, <1>6, <1>7, <1>8 DEF MemInv

LEMMA UseUnrecordedInv ==
  ASSUME MemInv, NEW u \in Pointers, UseUnrecorded(u)
  PROVE  MemInv'
<1>1. /\ pointer[u] # Null /\ ~Recorded(pointer[u]) /\ crashed' = TRUE
      /\ UNCHANGED <<heap, records, pointer, text, norecord>>
  BY DEF UseUnrecorded
<1>2. pointer[u] \in norecord
  BY <1>1, Holding DEF MemInv, BlockHeld
<1>3. QED
  BY <1>1, <1>2 DEF MemInv, MemTypeOK, RecordStands, BlockHeld, Recorded, Exclusive, Kept

LEMMA MemStepInv == MemInv /\ [MemNext]_memVars => MemInv'
<1> SUFFICES ASSUME MemInv, [MemNext]_memVars PROVE MemInv'
  OBVIOUS
<1>1. ASSUME NEW u \in Pointers, NEW n \in Sizes, NEW off \in 0 .. n - 1, NEW byte \in Bytes,
             FillUpMemory(u, off, n - off, byte)
      PROVE  MemInv'
  <2>1. n \in Nat /\ off \in Nat /\ n - off \in Nat
    BY Constants
  <2>2. QED BY <1>1, <2>1, FillUpInv
<1>2. CASE UNCHANGED memVars
  BY <1>2 DEF memVars, MemInv, MemTypeOK, RecordStands, BlockHeld, Recorded, Exclusive, Kept
<1>3. QED
  BY <1>1, <1>2, ShrinkInv, NewMemoryInv, GrowInv, FreeMemoryInv, UseUnrecordedInv DEF MemNext

------------------------------------------------------------------------------
(* Records and blocks agree: only a block whose record could not be        *)
(* allocated has none, and only such a block brings the program down       *)
(* (NewMemory, FreeMemory, ResizeMemory, GetSizeOfBlock).                  *)
THEOREM RecordsAgree == MemSpec => []RecordsMatch
<1>1. ASSUME MemInv PROVE RecordsMatch
  <2>1. records \subseteq {[begin |-> b, size |-> Len(heap[b])] : b \in {c \in Blocks : heap[c] # <<>>}}
    BY <1>1 DEF MemInv, RecordStands
  <2>2. \A u, v \in Pointers :
          pointer[u] = pointer[v] /\ pointer[u] # Null => u = v /\ heap[pointer[u]] # <<>>
    BY <1>1 DEF MemInv, Exclusive
  <2>3. QED BY <1>1, <2>1, <2>2 DEF MemInv, RecordsMatch, BlockHeld
<1>2. MemInv => RecordsMatch
  BY <1>1
<1>3. QED BY <1>2, MemInitInv, MemStepInv, PTL DEF MemSpec

(* A program finds in its block what it has put there (ResizeMemory's      *)
(* memcpy and FillUpMemory, whatever other blocks come and go).            *)
THEOREM BlocksKeepContents == MemSpec => []ContentsKept
<1>1. ASSUME MemInv, NEW u \in Pointers, pointer[u] # Null
      PROVE  /\ Len(text[u]) <= Len(heap[pointer[u]])
             /\ text[u] = SubSeq(heap[pointer[u]], 1, Len(text[u]))
  <2> DEFINE s == heap[pointer[u]]
             n == Len(text[u])
  <2>1. s \in Seq(Byte) /\ text[u] \in Seq(Byte) /\ Kept(u)
    BY <1>1, Holding
  <2>2. n <= Len(s) /\ n \in 0 .. Len(s) /\ \A i \in 1 .. n : s[i] = text[u][i]
    BY <1>1, <2>1 DEF Kept
  <2> HIDE DEF s
  <2>3. /\ SubSeq(s, 1, n) \in Seq(Byte) /\ Len(SubSeq(s, 1, n)) = n
        /\ \A i \in 1 .. n : SubSeq(s, 1, n)[i] = s[i]
    BY <2>1, <2>2, PrefixSeq
  <2>4. text[u] = SubSeq(s, 1, n)
    BY <2>1, <2>2, <2>3, SeqEqual
  <2>5. QED BY <2>2, <2>4 DEF s
<1>2. MemInv => ContentsKept
  BY <1>1 DEF ContentsKept
<1>3. QED BY <1>2, MemInitInv, MemStepInv, PTL DEF MemSpec

------------------------------------------------------------------------------
(* SocketTransfer. What the calls return are whole messages, in order.     *)

(* Where a unit has its place among all the units its sender sends.        *)
Unit == [msg : Nat \ {0}, at : 1 .. Size]
PlaceOf(unit) == (unit.msg - 1) * Size + unit.at

(* How many units the calls of e have read, and those of e have sent.      *)
Read(e) == Len(received[e]) * Size + Len(buffer[e])
Written(e) == sent[e] * Size + done[e]

XferTypeOK ==
  /\ kind \in [Ends -> {"windows", "server", "client"}]
  /\ up \in [Ends -> {"open", "closed", "killed"}]
  /\ stream \in [Ends -> Seq(Unit)]
  /\ call \in [Ends -> {"none", "send", "recv"}]
  /\ done \in [Ends -> 0 .. Size - 1]
  /\ buffer \in [Ends -> Seq(Unit)]
  /\ sent \in [Ends -> Nat]
  /\ torn \in [Ends -> BOOLEAN]
  /\ received \in [Ends -> Seq(Seq(Unit))]

(* Only a call that is being made has come part of the way.                *)
CallInv(e) ==
  /\ call[e] # "none" => up[e] = "open"
  /\ call[e] # "send" => done[e] = 0
  /\ call[e] # "recv" => buffer[e] = <<>>
  /\ Len(buffer[e]) < Size

(* The units read, those in the stream and no others have been sent, and   *)
(* each has its place: as long as no call has torn a message.              *)
FlowInv(e) ==
  up[e] = "open" /\ ~torn[e] =>
    /\ Read(e) + Len(stream[e]) = Written(Peer[e])
    /\ \A i \in 1 .. Len(buffer[e]) : buffer[e][i] = [msg |-> Len(received[e]) + 1, at |-> i]
    /\ \A j \in 1 .. Len(stream[e]) : PlaceOf(stream[e][j]) = Read(e) + j

WholeAt(e) ==
  /\ Len(received[e]) <= sent[Peer[e]]
  /\ \A k \in DOMAIN received[e] : received[e][k] = Message(k)

XferInv == XferTypeOK /\ \A e \in Ends : CallInv(e) /\ FlowInv(e) /\ WholeAt(e)

(* A place belongs to one unit only.                                       *)
LEMMA OnePlace ==
  ASSUME NEW s \in Nat \ {0}, NEW a \in Int, NEW b \in Int, NEW i \in 1 .. s, NEW j \in 1 .. s,
         a * s + i = b * s + j
  PROVE  a = b /\ i = j
<1>1. \A c \in Int, d \in Int : c < d => c * s + s <= d * s
  <2> SUFFICES ASSUME NEW c \in Int, NEW d \in Int, c < d PROVE c * s + s <= d * s
    OBVIOUS
  <2>1. (d - c - 1) * s >= 0
    OBVIOUS
  <2>2. (d - c - 1) * s = d * s - c * s - s
    OBVIOUS
  <2>3. c * s \in Int /\ d * s \in Int
    OBVIOUS
  <2>4. QED BY <2>1, <2>2, <2>3
<1>2. a * s \in Int /\ b * s \in Int
  OBVIOUS
<1>3. ~(a < b)
  BY <1>1, <1>2
<1>4. ~(b < a)
  BY <1>1, <1>2
<1>5. a = b
  BY <1>3, <1>4
<1>6. QED BY <1>5, <1>2

(* d units more than b whole messages do not hold another one.             *)
LEMMA WholeParts ==
  ASSUME NEW s \in Nat \ {0}, NEW a \in Nat, NEW b \in Nat, NEW d \in Nat, d < s,
         a * s <= b * s + d
  PROVE  a <= b
<1>1. SUFFICES ASSUME b < a PROVE FALSE
  OBVIOUS
<1>2. (a - b - 1) * s >= 0
  BY <1>1
<1>3. (a - b - 1) * s = a * s - b * s - s
  OBVIOUS
<1>4. a * s \in Int /\ b * s \in Int
  OBVIOUS
<1>5. QED BY <1>2, <1>3, <1>4

LEMMA Ends_ ==
  /\ Size \in Nat \ {0}
  /\ \A e \in Ends : Peer[e] \in Ends /\ Peer[e] # e /\ Peer[Peer[e]] = e
BY TransferAssumption

(* What an end reads is disturbed by nothing that leaves its buffer, its   *)
(* stream and the work of its peer alone.                                  *)
LEMMA Undisturbed ==
  ASSUME XferInv, NEW e \in Ends,
         UNCHANGED <<stream[e], buffer[e], received[e], sent[Peer[e]], done[Peer[e]]>>,
         up'[e] = "open" => up[e] = "open", torn[e] => torn'[e]
  PROVE  FlowInv(e)' /\ WholeAt(e)'
<1>1. FlowInv(e) /\ WholeAt(e)
  BY DEF XferInv
<1>2. WholeAt(e)'
  BY <1>1 DEF WholeAt
<1>3. FlowInv(e)'
  BY <1>1 DEF FlowInv, Read, Written
<1>4. QED BY <1>2, <1>3

LEMMA ReturnType ==
  ASSUME XferTypeOK, NEW e \in Ends, Return(e)
  PROVE  /\ call' \in [Ends -> {"none", "send", "recv"}]
         /\ done' \in [Ends -> 0 .. Size - 1]
         /\ buffer' \in [Ends -> Seq(Unit)]
         /\ call'[e] = "none" /\ done'[e] = 0 /\ buffer'[e] = <<>>
         /\ \A f \in Ends : f # e =>
              call'[f] = call[f] /\ done'[f] = done[f] /\ buffer'[f] = buffer[f]
BY Ends_ DEF XferTypeOK, Return

(* A call that returns without having come to its end: what it had done,   *)
(* it has torn.                                                            *)
LEMMA GivesUp ==
  ASSUME XferInv, NEW e \in Ends, Return(e),
         UNCHANGED <<kind, stream, sent, received>>,
         up' \in [Ends -> {"open", "closed", "killed"}], torn' \in [Ends -> BOOLEAN],
         \A f \in Ends : f # e => up'[f] = up[f], up'[e] = "open" => up[e] = "open",
         \A f \in Ends : torn[f] => torn'[f],
         done[e] > 0 => torn'[Peer[e]],
         buffer[e] # <<>> => torn'[e] \/ up'[e] # "open"
  PROVE  XferInv'
<1> USE Ends_
<1>r. /\ call'[e] = "none" /\ done'[e] = 0 /\ buffer'[e] = <<>>
      /\ \A f \in Ends : f # e =>
           call'[f] = call[f] /\ done'[f] = done[f] /\ buffer'[f] = buffer[f]
  BY ReturnType DEF XferInv
<1>1. XferTypeOK'
  BY ReturnType DEF XferInv, XferTypeOK
<1>2. ASSUME NEW f \in Ends PROVE CallInv(f)'
  <2>1. CallInv(f) /\ Len(<<>>) = 0 /\ <<>> \in Seq(Unit)
    BY DEF XferInv
  <2>2. CASE f = e
    BY <1>r, <2>1, <2>2 DEF CallInv
  <2>3. CASE f # e
    BY <1>r, <2>1, <2>3 DEF CallInv
  <2>4. QED BY <2>2, <2>3
<1>3. ASSUME NEW f \in Ends PROVE FlowInv(f)' /\ WholeAt(f)'
  <2>1. CASE f # e /\ f # Peer[e]
    <3>1. Peer[f] # e /\ Peer[f] \in Ends
      BY <2>1
    <3>2. QED BY <1>r, <2>1, <3>1, Undisturbed
  <2>2. CASE f = e
    <3>1. CASE buffer[e] = <<>>
      BY <2>2, <3>1, <1>r, Undisturbed
    <3>2. CASE buffer[e] # <<>>
      BY <2>2, <3>2 DEF FlowInv, XferInv, WholeAt
    <3>3. QED BY <3>1, <3>2
  <2>3. CASE f = Peer[e]
    <3>1. CASE done[e] = 0
      BY <2>3, <3>1, <1>r, Undisturbed
    <3>2. CASE done[e] # 0
      <4>1. torn'[f]
        BY <2>3, <3>2 DEF XferInv, XferTypeOK
      <4>2. QED BY <4>1 DEF FlowInv, XferInv, WholeAt
    <3>3. QED BY <3>1, <3>2
  <2>4. QED BY <2>1, <2>2, <2>3
<1>4. QED BY <1>1, <1>2, <1>3 DEF XferInv

LEMMA Begins ==
  ASSUME XferInv, NEW e \in Ends, BeginSend(e) \/ BeginRecv(e)
  PROVE  XferInv'
<1>1. /\ UNCHANGED <<kind, up, stream, done, buffer, sent, received, torn>>
      /\ call[e] = "none" /\ call' \in [Ends -> {"none", "send", "recv"}]
      /\ \A f \in Ends : f # e => call'[f] = call[f]
  BY DEF BeginSend, BeginRecv, XferInv, XferTypeOK
<1>2. XferTypeOK'
  BY <1>1 DEF XferInv, XferTypeOK
<1>3. \A f \in Ends : CallInv(f)'
  BY <1>1 DEF XferInv, CallInv, BeginSend, BeginRecv
<1>4. \A f \in Ends : FlowInv(f)' /\ WholeAt(f)'
  BY <1>1, Undisturbed, Ends_
<1>5. QED BY <1>2, <1>3, <1>4 DEF XferInv

LEMMA PlaceOfUnit ==
  ASSUME NEW k \in Int, NEW i \in Int
  PROVE  PlaceOf([msg |-> k, at |-> i]) = (k - 1) * Size + i
<1> DEFINE unit == [msg |-> k, at |-> i]
<1>1. unit.msg = k /\ unit.at = i
  OBVIOUS
<1>2. QED BY <1>1 DEF PlaceOf

(* The units of a piece follow those written before.                       *)
LEMMA UnitsInPlace ==
  ASSUME XferTypeOK, NEW e \in Ends, NEW n \in 1 .. Size, n <= Size - done[e]
  PROVE  /\ Units(e, n) \in Seq(Unit) /\ Len(Units(e, n)) = n
         /\ \A j \in 1 .. n : PlaceOf(Units(e, n)[j]) = Written(e) + j
<1> DEFINE m == Message(sent[e] + 1)
<1>1. done[e] \in 0 .. Size - 1 /\ sent[e] \in Nat /\ Size \in Nat \ {0}
  BY Ends_ DEF XferTypeOK
<1>2. \A i \in done[e] + 1 .. done[e] + n : m[i] = [msg |-> sent[e] + 1, at |-> i] /\ m[i] \in Unit
  <2> SUFFICES ASSUME NEW i \in done[e] + 1 .. done[e] + n
               PROVE  m[i] = [msg |-> sent[e] + 1, at |-> i] /\ m[i] \in Unit
    OBVIOUS
  <2>1. i \in 1 .. Size /\ sent[e] + 1 \in Nat \ {0}
    BY <1>1
  <2>2. m[i] = [msg |-> sent[e] + 1, at |-> i]
    BY <2>1 DEF Message
  <2>3. QED BY <2>1, <2>2 DEF Unit
<1> HIDE DEF m
<1>3. /\ SubSeq(m, done[e] + 1, done[e] + n) \in Seq(Unit)
      /\ Len(SubSeq(m, done[e] + 1, done[e] + n)) = n
      /\ \A j \in 1 .. n : SubSeq(m, done[e] + 1, done[e] + n)[j] = m[done[e] + j]
  <2> DEFINE a == done[e] + 1
             b == done[e] + n
  <2>1. a \in Int /\ b \in Int /\ a <= b /\ b - a + 1 = n /\ \A j \in 1 .. n : a + j - 1 = done[e] + j
    BY <1>1
  <2>2. \A i \in a .. b : m[i] \in Unit
    BY <1>2
  <2> HIDE DEF a, b
  <2>3. /\ SubSeq(m, a, b) \in Seq(Unit) /\ Len(SubSeq(m, a, b)) = b - a + 1
        /\ \A j \in 1 .. b - a + 1 : SubSeq(m, a, b)[j] = m[a + j - 1]
    BY <2>1, <2>2, SubSeqProperties
  <2>4. QED BY <2>1, <2>3 DEF a, b
<1>4. Units(e, n) = SubSeq(m, done[e] + 1, done[e] + n)
  BY DEF Units, m
<1>5. ASSUME NEW j \in 1 .. n PROVE PlaceOf(Units(e, n)[j]) = Written(e) + j
  <2>1. Units(e, n)[j] = [msg |-> sent[e] + 1, at |-> done[e] + j]
    <3>1. done[e] + j \in done[e] + 1 .. done[e] + n
      BY <1>1
    <3>2. m[done[e] + j] = [msg |-> sent[e] + 1, at |-> done[e] + j]
      BY <1>2, <3>1
    <3>3. QED BY <1>3, <1>4, <3>2
  <2>2. PlaceOf(Units(e, n)[j]) = (sent[e] + 1 - 1) * Size + (done[e] + j)
    <3>1. PlaceOf([msg |-> sent[e] + 1, at |-> done[e] + j]) = (sent[e] + 1 - 1) * Size + (done[e] + j)
      BY <1>1, PlaceOfUnit
    <3>2. QED BY <2>1, <3>1, Zenon
  <2>3. sent[e] * Size \in Int /\ sent[e] + 1 - 1 = sent[e]
    BY <1>1
  <2>4. QED BY <1>1, <2>2, <2>3 DEF Written
<1>6. QED BY <1>3, <1>4, <1>5

LEMMA SendsPiece ==
  ASSUME XferInv, NEW e \in Ends, NEW n \in 1 .. Size, SendPiece(e, n)
  PROVE  XferInv'
<1> DEFINE f == Peer[e]
<1> USE Ends_
<1>a. /\ call[e] = "send" /\ n <= Size - done[e] /\ XferTypeOK
      /\ stream' = [stream EXCEPT ![f] = @ \o Units(e, n)]
      /\ UNCHANGED <<kind, up, received, torn>> /\ f \in Ends /\ f # e /\ Peer[f] = e
  BY DEF SendPiece, XferInv
<1>b. /\ Units(e, n) \in Seq(Unit) /\ Len(Units(e, n)) = n
      /\ \A j \in 1 .. n : PlaceOf(Units(e, n)[j]) = Written(e) + j
  BY <1>a, UnitsInPlace
<1>c. done[e] \in 0 .. Size - 1 /\ sent[e] \in Nat /\ stream[f] \in Seq(Unit) /\ sent[e] * Size \in Int
  <2>1. done[e] \in 0 .. Size - 1 /\ sent[e] \in Nat
    BY <1>a DEF XferTypeOK
  <2>2. stream[f] \in Seq(Unit)
    <3> HIDE DEF f
    <3>1. QED BY <1>a DEF XferTypeOK
  <2>3. QED BY <2>1, <2>2
<1>d. /\ stream'[f] = stream[f] \o Units(e, n)
      /\ \A g \in Ends : g # f => stream'[g] = stream[g]
      /\ stream' \in [Ends -> Seq(Unit)]
  <2>1. stream[f] \o Units(e, n) \in Seq(Unit)
    BY <1>b, <1>c, ConcatProperties
  <2>2. stream \in [Ends -> Seq(Unit)] /\ f \in Ends
    BY <1>a DEF XferTypeOK
  <2> HIDE DEF f
  <2>3. QED BY <1>a, <2>1, <2>2
<1>e. buffer[e] = <<>>
  BY <1>a DEF XferInv, CallInv
<1>f. /\ call' \in [Ends -> {"none", "send", "recv"}] /\ done' \in [Ends -> 0 .. Size - 1]
      /\ sent' \in [Ends -> Nat] /\ buffer' = buffer
      /\ Written(e)' = Written(e) + n /\ sent'[e] >= sent[e]
      /\ call'[e] # "send" => done'[e] = 0
      /\ \A g \in Ends : g # e => call'[g] = call[g] /\ done'[g] = done[g] /\ sent'[g] = sent[g]
  <2>1. CASE done[e] + n = Size
    <3>1. Return(e) /\ sent' = [sent EXCEPT ![e] = @ + 1]
      BY <2>1 DEF SendPiece
    <3>2. buffer' = buffer
      BY <1>a, <1>e, <3>1 DEF Return, XferTypeOK
    <3>3. sent'[e] = sent[e] + 1 /\ done'[e] = 0
      BY <1>a, <3>1, ReturnType DEF XferTypeOK
    <3>4. (sent[e] + 1) * Size = sent[e] * Size + Size
      BY <1>c
    <3>5. Written(e)' = Written(e) + n
      BY <1>c, <2>1, <3>3, <3>4 DEF Written
    <3>6. sent' \in [Ends -> Nat] /\ \A g \in Ends : g # e => sent'[g] = sent[g]
      <4>1. sent \in [Ends -> Nat] /\ sent[e] + 1 \in Nat
        <5>1. sent \in [Ends -> Nat]
          BY <1>a DEF XferTypeOK
        <5>2. QED BY <1>c, <5>1
      <4>2. QED BY <3>1, <4>1
    <3>7. /\ call' \in [Ends -> {"none", "send", "recv"}] /\ done' \in [Ends -> 0 .. Size - 1]
          /\ call'[e] = "none"
          /\ \A g \in Ends : g # e => call'[g] = call[g] /\ done'[g] = done[g]
      BY <1>a, <3>1, ReturnType
    <3>8. sent'[e] >= sent[e]
      BY <1>c, <3>3
    <3>9. QED BY <3>2, <3>5, <3>3, <3>6, <3>7, <3>8
  <2>2. CASE done[e] + n # Size
    <3>1. done' = [done EXCEPT ![e] = @ + n] /\ UNCHANGED <<call, buffer, sent>>
      BY <2>2 DEF SendPiece
    <3>2. done[e] + n \in 0 .. Size - 1
      <4>1. n <= Size - done[e] /\ done[e] \in 0 .. Size - 1 /\ n \in 1 .. Size /\ Size \in Nat
        BY <1>a, <1>c
      <4>2. QED BY ONLY <2>2, <4>1
    <3>3. done'[e] = done[e] + n /\ done' \in [Ends -> 0 .. Size - 1]
      BY <1>a, <3>1, <3>2 DEF XferTypeOK
    <3>4. Written(e)' = Written(e) + n
      BY <1>c, <3>1, <3>3 DEF Written
    <3>5. \A g \in Ends : g # e => done'[g] = done[g]
      BY <1>a, <3>1 DEF XferTypeOK
    <3>6. call'[e] = "send" /\ sent'[e] >= sent[e]
      BY <1>a, <1>c, <3>1
    <3>7. call' \in [Ends -> {"none", "send", "recv"}] /\ sent' \in [Ends -> Nat]
      BY <1>a, <3>1 DEF XferTypeOK
    <3>8. QED BY <3>1, <3>3, <3>4, <3>5, <3>6, <3>7
  <2>3. QED BY <2>1, <2>2
<1>1. XferTypeOK'
  BY <1>a, <1>d, <1>f DEF XferTypeOK
<1>2. ASSUME NEW g \in Ends PROVE CallInv(g)'
  <2>1. CallInv(g) /\ buffer'[g] = buffer[g]
    BY <1>f DEF XferInv
  <2>2. CASE g = e
    BY <1>a, <1>e, <1>f, <2>1, <2>2 DEF CallInv
  <2>3. CASE g # e
    BY <1>a, <1>f, <2>1, <2>3 DEF CallInv
  <2>4. QED BY <2>2, <2>3
<1>3. ASSUME NEW g \in Ends, g # f PROVE FlowInv(g)' /\ WholeAt(g)'
  <2>1. Peer[g] # e /\ Peer[g] \in Ends
    BY <1>3
  <2>2. QED BY <1>a, <1>d, <1>f, <1>3, <2>1, Undisturbed
<1>4. WholeAt(f)'
  <2>1. WholeAt(f) /\ Len(received[f]) \in Nat
    BY <1>a DEF XferInv, XferTypeOK
  <2>2. received' = received /\ Peer[f] = e /\ sent'[e] \in Nat /\ sent[e] \in Nat /\ sent'[e] >= sent[e]
    BY <1>a, <1>c, <1>f
  <2> HIDE DEF f
  <2>3. QED BY <2>1, <2>2 DEF WholeAt
<1>5. FlowInv(f)'
  <2> SUFFICES ASSUME up[f] = "open", ~torn[f] PROVE FlowInv(f)'
    BY <1>a DEF FlowInv
  <2>1. /\ Read(f) + Len(stream[f]) = Written(e)
        /\ \A i \in 1 .. Len(buffer[f]) : buffer[f][i] = [msg |-> Len(received[f]) + 1, at |-> i]
        /\ \A j \in 1 .. Len(stream[f]) : PlaceOf(stream[f][j]) = Read(f) + j
    BY <1>a DEF XferInv, FlowInv
  <2>2. Read(f)' = Read(f) /\ Read(f) \in Int
    BY <1>a, <1>f DEF Read, XferTypeOK
  <2>3. Len(stream'[f]) = Len(stream[f]) + n
    <3>1. Len(stream[f] \o Units(e, n)) = Len(stream[f]) + Len(Units(e, n))
      BY <1>b, <1>c, ConcatProperties
    <3> HIDE DEF f
    <3>2. QED BY <1>b, <1>d, <3>1
  <2>4. ASSUME NEW j \in 1 .. Len(stream'[f]) PROVE PlaceOf(stream'[f][j]) = Read(f) + j
    <3>1. CASE j <= Len(stream[f])
      <4>1. stream'[f][j] = stream[f][j]
        BY <1>b, <1>c, <1>d, <3>1
      <4>2. QED BY <1>c, <2>1, <3>1, <4>1
    <3>2. CASE j > Len(stream[f])
      <4>1. stream'[f][j] = Units(e, n)[j - Len(stream[f])] /\ j - Len(stream[f]) \in 1 .. n
        <5>1. stream'[f][j] = Units(e, n)[j - Len(stream[f])]
          <6>1. j \in 1 .. Len(stream[f]) + Len(Units(e, n))
            BY <1>b, <2>3
          <6>2. QED BY <1>b, <1>c, <1>d, <3>2, <6>1, ConcatProperties
        <5>2. QED BY <1>c, <2>3, <3>2, <5>1
      <4>2. PlaceOf(stream'[f][j]) = Written(e) + (j - Len(stream[f]))
        BY <1>b, <4>1
      <4>3. QED BY <1>c, <2>1, <2>2, <4>2
    <3>3. QED BY <1>c, <3>1, <3>2
  <2>5. Read(f)' + Len(stream'[f]) = Written(e)'
    BY <1>c, <1>f, <2>1, <2>2, <2>3
  <2>6. QED BY <1>a, <1>f, <2>1, <2>2, <2>4, <2>5 DEF FlowInv
<1>6. QED BY <1>1, <1>2, <1>3, <1>4, <1>5 DEF XferInv

(* A piece taken from the stream goes on with the message that the buffer  *)
(* begins.                                                                 *)
LEMMA PieceInPlace ==
  ASSUME XferTypeOK, NEW e \in Ends, CallInv(e), FlowInv(e), up[e] = "open", ~torn[e],
         NEW n \in 1 .. Size, n <= Size - Len(buffer[e]), n <= Len(stream[e]),
         NEW i \in 1 .. n
  PROVE  stream[e][i] = [msg |-> Len(received[e]) + 1, at |-> Len(buffer[e]) + i]
<1> DEFINE unit == stream[e][i]
           k == Len(received[e])
           b == Len(buffer[e])
<1>1. Size \in Nat \ {0} /\ k \in Nat /\ b \in Nat /\ b + i \in 1 .. Size /\ i \in 1 .. Len(stream[e])
  BY Ends_ DEF XferTypeOK
<1>2. unit \in Unit
  BY <1>1 DEF XferTypeOK
<1>3. PlaceOf(unit) = (k * Size + b) + i
  BY <1>1 DEF FlowInv, Read
<1>4. unit.msg - 1 \in Int /\ unit.at \in 1 .. Size /\ unit = [msg |-> unit.msg, at |-> unit.at]
  BY <1>2 DEF Unit
<1>5. PlaceOf(unit) = (unit.msg - 1) * Size + unit.at
  BY DEF PlaceOf
<1> HIDE DEF unit, k, b
<1>6. k * Size \in Int
  BY <1>1
<1>7. (unit.msg - 1) * Size + unit.at = k * Size + (b + i)
  BY <1>1, <1>3, <1>5, <1>6
<1>8. unit.msg - 1 = k /\ unit.at = b + i
  BY <1>1, <1>4, <1>7, OnePlace
<1>9. unit.msg = k + 1
  <2>1. unit.msg \in Int
    BY <1>2 DEF Unit
  <2>2. QED BY <1>8, <2>1
<1>10. QED BY <1>4, <1>8, <1>9 DEF unit, k, b

(* What is left of a stream from which n units have been taken.            *)
LEMMA RestOfStream ==
  ASSUME NEW S, NEW s \in Seq(S), NEW n \in 1 .. Len(s)
  PROVE  /\ SubSeq(s, n + 1, Len(s)) \in Seq(S) /\ Len(SubSeq(s, n + 1, Len(s))) = Len(s) - n
         /\ \A j \in 1 .. Len(s) - n : SubSeq(s, n + 1, Len(s))[j] = s[n + j]
         /\ SubSeq(s, 1, n) \in Seq(S) /\ Len(SubSeq(s, 1, n)) = n
         /\ \A j \in 1 .. n : SubSeq(s, 1, n)[j] = s[j]
<1> DEFINE l == Len(s)
           a == n + 1
<1>1. l \in Nat /\ n \in Int /\ a \in Int /\ \A i \in 1 .. l : s[i] \in S
  OBVIOUS
<1>2. \A i \in a .. l : s[i] \in S
  BY <1>1
<1>3. \A i \in 1 .. n : s[i] \in S
  BY <1>1
<1>4. /\ SubSeq(s, a, l) \in Seq(S) /\ Len(SubSeq(s, a, l)) = IF a <= l THEN l - a + 1 ELSE 0
      /\ \A j \in 1 .. l - a + 1 : SubSeq(s, a, l)[j] = s[a + j - 1]
  <2> HIDE DEF a, l
  <2> QED BY <1>1, <1>2, SubSeqProperties
<1>5. /\ SubSeq(s, 1, n) \in Seq(S) /\ Len(SubSeq(s, 1, n)) = IF 1 <= n THEN n - 1 + 1 ELSE 0
      /\ \A j \in 1 .. n - 1 + 1 : SubSeq(s, 1, n)[j] = s[1 + j - 1]
  <2> HIDE DEF a, l
  <2> QED BY <1>1, <1>3, SubSeqProperties
<1>6. (IF a <= l THEN l - a + 1 ELSE 0) = l - n /\ l - a + 1 = l - n /\ n - 1 + 1 = n /\ 1 <= n
  BY <1>1
<1>7. \A j \in 1 .. l - n : a + j - 1 = n + j
  BY <1>1
<1>8. \A j \in 1 .. n : 1 + j - 1 = j
  BY <1>1
<1> HIDE DEF a, l
<1>9. QED BY <1>4, <1>5, <1>6, <1>7, <1>8 DEF a, l

LEMMA RecvsPiece ==
  ASSUME XferInv, NEW e \in Ends, NEW n \in 1 .. Size, RecvPiece(e, n)
  PROVE  XferInv'
<1> DEFINE piece == SubSeq(stream[e], 1, n)
           data == buffer[e] \o piece
<1> USE Ends_
<1>a. /\ call[e] = "recv" /\ n <= Size - Len(buffer[e]) /\ n <= Len(stream[e]) /\ XferTypeOK
      /\ stream' = [stream EXCEPT ![e] = SubSeq(@, n + 1, Len(@))]
      /\ UNCHANGED <<kind, up, sent, torn>> /\ CallInv(e) /\ FlowInv(e) /\ WholeAt(e)
  BY DEF RecvPiece, XferInv
<1>b. /\ stream[e] \in Seq(Unit) /\ buffer[e] \in Seq(Unit) /\ received[e] \in Seq(Seq(Unit))
      /\ n \in 1 .. Len(stream[e]) /\ done[e] = 0 /\ Len(buffer[e]) < Size
      /\ stream \in [Ends -> Seq(Unit)] /\ Len(received[e]) * Size \in Int
  BY <1>a DEF XferTypeOK, CallInv
<1>c. /\ SubSeq(stream[e], n + 1, Len(stream[e])) \in Seq(Unit)
      /\ stream'[e] = SubSeq(stream[e], n + 1, Len(stream[e]))
      /\ stream' \in [Ends -> Seq(Unit)]
      /\ \A f \in Ends : f # e => stream'[f] = stream[f]
  BY <1>a, <1>b, RestOfStream
<1>d. /\ Len(stream'[e]) = Len(stream[e]) - n
      /\ \A j \in 1 .. Len(stream'[e]) : stream'[e][j] = stream[e][n + j]
      /\ piece \in Seq(Unit) /\ Len(piece) = n /\ \A j \in 1 .. n : piece[j] = stream[e][j]
  <2>1. /\ Len(SubSeq(stream[e], n + 1, Len(stream[e]))) = Len(stream[e]) - n
        /\ \A j \in 1 .. Len(stream[e]) - n :
             SubSeq(stream[e], n + 1, Len(stream[e]))[j] = stream[e][n + j]
    BY <1>b, RestOfStream
  <2>2. piece \in Seq(Unit) /\ Len(piece) = n /\ \A j \in 1 .. n : piece[j] = stream[e][j]
    BY <1>b, RestOfStream
  <2> HIDE DEF piece
  <2>3. QED BY <1>c, <2>1, <2>2
<1> HIDE DEF piece
<1>e. /\ data \in Seq(Unit) /\ Len(data) = Len(buffer[e]) + n
      /\ \A j \in 1 .. Len(buffer[e]) + n :
            data[j] = IF j <= Len(buffer[e]) THEN buffer[e][j] ELSE piece[j - Len(buffer[e])]
  <2>1. /\ data \in Seq(Unit) /\ Len(data) = Len(buffer[e]) + Len(piece)
        /\ \A j \in 1 .. Len(buffer[e]) + Len(piece) :
              data[j] = IF j <= Len(buffer[e]) THEN buffer[e][j] ELSE piece[j - Len(buffer[e])]
    <3>1. buffer[e] \in Seq(Unit) /\ piece \in Seq(Unit)
      BY <1>b, <1>d
    <3>2. QED BY <3>1, ConcatProperties
  <2> HIDE DEF data
  <2>2. QED BY <1>d, <2>1
<1> HIDE DEF data
<1>f. ASSUME up[e] = "open", ~torn[e], NEW j \in 1 .. Len(data)
      PROVE  data[j] = [msg |-> Len(received[e]) + 1, at |-> j]
  <2>1. CASE j <= Len(buffer[e])
    <3>1. data[j] = buffer[e][j] /\ j \in 1 .. Len(buffer[e])
      BY <1>b, <1>e, <2>1
    <3>2. QED BY <1>a, <1>f, <3>1 DEF FlowInv
  <2>2. CASE j > Len(buffer[e])
    <3> DEFINE i == j - Len(buffer[e])
    <3>1. i \in 1 .. n /\ data[j] = stream[e][i] /\ Len(buffer[e]) + i = j
      <4>1. Len(buffer[e]) \in Nat /\ j \in 1 .. Len(buffer[e]) + n
        BY <1>b, <1>e
      <4>2. data[j] = piece[i]
        BY <1>e, <2>2, <4>1
      <4>3. i \in 1 .. n
        BY <2>2, <4>1
      <4>4. piece[i] = stream[e][i]
        BY <1>d, <4>3
      <4>5. Len(buffer[e]) + i = j
        BY <4>1
      <4> HIDE DEF i, data, piece
      <4>6. QED BY <4>2, <4>3, <4>4, <4>5
    <3>2. stream[e][i] = [msg |-> Len(received[e]) + 1, at |-> Len(buffer[e]) + i]
      <4> HIDE DEF i
      <4> QED BY <1>a, <1>f, <3>1, PieceInPlace
    <3>3. QED BY <3>1, <3>2
  <2>3. QED BY <1>b, <2>1, <2>2
<1>g. UNCHANGED <<done, sent>> /\ (\A f \in Ends : f # e => buffer'[f] = buffer[f] /\ received'[f] = received[f])
  <2>1. CASE Len(data) = Size
    <3>1. Return(e) /\ received' = IF torn[e] THEN received ELSE [received EXCEPT ![e] = Append(@, data)]
      BY <2>1 DEF RecvPiece, data, piece
    <3>2. done' = done
      BY <1>a, <1>b, <3>1 DEF Return, XferTypeOK
    <3>3. \A f \in Ends : f # e => received'[f] = received[f]
      BY <1>a, <3>1 DEF XferTypeOK
    <3>4. QED BY <1>a, <3>1, <3>2, <3>3, ReturnType
  <2>2. CASE Len(data) # Size
    BY <1>a, <2>2 DEF RecvPiece, data, piece, XferTypeOK
  <2>3. QED BY <2>1, <2>2
<1>1. ASSUME NEW f \in Ends, f # e PROVE FlowInv(f)' /\ WholeAt(f)'
  BY <1>a, <1>c, <1>g, <1>1, Undisturbed
<1>2. CASE Len(data) = Size
  <2>1. Return(e) /\ received' = IF torn[e] THEN received ELSE [received EXCEPT ![e] = Append(@, data)]
    BY <1>2 DEF RecvPiece, data, piece
  <2>2. received' \in [Ends -> Seq(Seq(Unit))]
    <3>1. Append(received[e], data) \in Seq(Seq(Unit)) /\ received \in [Ends -> Seq(Seq(Unit))]
      BY <1>a, <1>b, <1>e DEF XferTypeOK
    <3>2. QED BY <2>1, <3>1
  <2>3. XferTypeOK'
    BY <1>a, <1>c, <2>1, <2>2, ReturnType DEF XferTypeOK
  <2>4. ASSUME NEW f \in Ends PROVE CallInv(f)'
    <3>1. Len(<<>>) = 0 /\ CallInv(f)
      BY DEF XferInv
    <3>2. CASE f = e
      BY <1>a, <2>1, <3>1, <3>2, ReturnType DEF CallInv
    <3>3. CASE f # e
      BY <1>a, <2>1, <3>1, <3>3, ReturnType DEF CallInv
    <3>4. QED BY <3>2, <3>3
  <2>5. up[e] = "open" /\ buffer'[e] = <<>> /\ Len(buffer'[e]) = 0
    BY <1>a, <2>1, ReturnType DEF CallInv
  <2>6. CASE torn[e]
    BY <1>a, <1>1, <2>1, <2>3, <2>4, <2>6 DEF XferInv, FlowInv, WholeAt
  <2>7. CASE ~torn[e]
    <3>1. data = Message(Len(received[e]) + 1)
      <4>1. \A i \in 1 .. Size : data[i] = [msg |-> Len(received[e]) + 1, at |-> i]
        BY <1>2, <1>f, <2>5, <2>7
      <4>2. data = [i \in 1 .. Size |-> data[i]]
        BY <1>2, <1>e
      <4>3. QED BY <4>1, <4>2 DEF Message
    <3>2. /\ received'[e] = Append(received[e], data) /\ Len(received'[e]) = Len(received[e]) + 1
          /\ \A k \in 1 .. Len(received[e]) : received'[e][k] = received[e][k]
          /\ received'[e][Len(received[e]) + 1] = data
      BY <1>a, <1>b, <1>e, <2>1, <2>7 DEF XferTypeOK
    <3>3. (Len(received[e]) + 1) * Size = Len(received[e]) * Size + Size
      BY <1>b
    <3>4. Read(e)' = Read(e) + n /\ Read(e) \in Nat
      <4>1. Len(buffer[e]) \in Nat /\ Len(received[e]) \in Nat /\ Len(received[e]) * Size \in Nat
        BY <1>b
      <4>2. Len(buffer[e]) + n = Size
        BY <1>2, <1>e
      <4>3. Read(e)' = (Len(received[e]) + 1) * Size + 0
        BY <2>5, <3>2 DEF Read
      <4> DEFINE all == Len(received[e]) * Size
      <4>4. Read(e)' = all + Size + 0 /\ Read(e) = all + Len(buffer[e])
        BY <3>3, <4>3 DEF Read
      <4> HIDE DEF all
      <4>5. all \in Nat
        BY <4>1 DEF all
      <4>6. QED BY <4>1, <4>2, <4>4, <4>5
    <3>5. Written(Peer[e])' = Written(Peer[e]) /\ Read(e) + Len(stream[e]) = Written(Peer[e])
      BY <1>a, <1>g, <2>5, <2>7 DEF Written, FlowInv
    <3>6. FlowInv(e)'
      <4>1. Read(e)' + Len(stream'[e]) = Written(Peer[e])'
        BY <1>b, <1>d, <3>4, <3>5
      <4>2. ASSUME NEW j \in 1 .. Len(stream'[e]) PROVE PlaceOf(stream'[e][j]) = Read(e)' + j
        <5>1. stream'[e][j] = stream[e][n + j] /\ n + j \in 1 .. Len(stream[e])
          BY <1>b, <1>d
        <5>2. PlaceOf(stream'[e][j]) = Read(e) + (n + j)
          BY <1>a, <2>5, <2>7, <5>1 DEF FlowInv
        <5>3. QED BY <3>4, <5>2
      <4>3. QED BY <2>5, <4>1, <4>2 DEF FlowInv
    <3>7. Len(received'[e]) <= sent[Peer[e]]
      <4>1. (Len(received[e]) + 1) * Size <= sent[Peer[e]] * Size + done[Peer[e]]
        <5>1. sent[Peer[e]] * Size \in Int /\ done[Peer[e]] \in Int
          <6>1. Peer[e] \in Ends /\ sent[Peer[e]] \in Nat /\ done[Peer[e]] \in 0 .. Size - 1 /\ Size \in Nat
            BY <1>a DEF XferTypeOK
          <6>2. QED BY ONLY <6>1
        <5>2. QED BY <1>2, <1>b, <1>e, <3>3, <3>5, <5>1 DEF Read, Written
      <4>2. done[Peer[e]] < Size /\ done[Peer[e]] \in Nat /\ sent[Peer[e]] \in Nat
        <5>1. Peer[e] \in Ends
          OBVIOUS
        <5>2. done[Peer[e]] \in 0 .. Size - 1 /\ sent[Peer[e]] \in Nat
          BY <1>a, <5>1 DEF XferTypeOK
        <5>3. QED BY ONLY <5>2, Ends_
      <4>3. Len(received[e]) + 1 <= sent[Peer[e]]
        <5>1. Len(received[e]) + 1 \in Nat /\ Size \in Nat \ {0}
          BY <1>b
        <5> DEFINE many == Len(received[e]) + 1
        <5> HIDE DEF many
        <5>2. many <= sent[Peer[e]]
          BY <4>1, <4>2, <5>1, WholeParts DEF many
        <5>3. QED BY <5>2 DEF many
      <4>4. QED BY <3>2, <4>3
    <3>8. WholeAt(e)'
      <4>1. ASSUME NEW k \in DOMAIN received'[e] PROVE received'[e][k] = Message(k)
        <5>1. k \in 1 .. Len(received[e]) + 1 /\ Len(received[e]) \in Nat
          BY <1>b, <1>e, <3>2
        <5>2. CASE k \in 1 .. Len(received[e])
          <6>1. k \in DOMAIN received[e] /\ received'[e][k] = received[e][k]
            BY <1>b, <3>2, <5>2
          <6>2. QED BY <1>a, <6>1 DEF WholeAt
        <5>3. CASE k = Len(received[e]) + 1
          BY <3>1, <3>2, <5>3
        <5>4. QED BY <5>1, <5>2, <5>3
      <4>2. QED BY <1>a, <3>7, <4>1 DEF WholeAt
    <3>9. QED BY <1>1, <2>3, <2>4, <3>6, <3>8 DEF XferInv
  <2>8. QED BY <2>6, <2>7
<1>3. CASE Len(data) # Size
  <2>1. buffer' = [buffer EXCEPT ![e] = data] /\ UNCHANGED <<call, done, received>>
    BY <1>3 DEF RecvPiece, data, piece
  <2>2. buffer'[e] = data /\ buffer' \in [Ends -> Seq(Unit)]
    BY <1>a, <1>e, <2>1 DEF XferTypeOK
  <2>3. XferTypeOK'
    BY <1>a, <1>c, <2>1, <2>2 DEF XferTypeOK
  <2>4. Len(data) < Size
    <3>1. Len(data) = Len(buffer[e]) + n /\ Len(buffer[e]) \in Nat /\ n <= Size - Len(buffer[e])
      BY <1>a, <1>b, <1>e
    <3> HIDE DEF data
    <3>2. QED BY <1>3, <3>1
  <2>5. ASSUME NEW f \in Ends PROVE CallInv(f)'
    <3>1. CallInv(f)
      BY DEF XferInv
    <3>2. CASE f = e
      BY <1>a, <2>1, <2>2, <2>4, <3>1, <3>2 DEF CallInv
    <3>3. CASE f # e
      BY <1>a, <1>g, <2>1, <3>1, <3>3 DEF CallInv
    <3>4. QED BY <3>2, <3>3
  <2>6. WholeAt(e)'
    BY <1>a, <2>1 DEF WholeAt
  <2>7. FlowInv(e)'
    <3> SUFFICES ASSUME up[e] = "open", ~torn[e] PROVE FlowInv(e)'
      BY <1>a DEF FlowInv
    <3>1. Read(e)' = Read(e) + n /\ Read(e) \in Nat
      <4> DEFINE all == Len(received[e]) * Size
      <4>1. Len(buffer[e]) \in Nat /\ all \in Nat
        BY <1>b
      <4>2. Read(e)' = all + (Len(buffer[e]) + n) /\ Read(e) = all + Len(buffer[e])
        BY <1>e, <2>1, <2>2 DEF Read
      <4> HIDE DEF all
      <4>3. QED BY <4>1, <4>2
    <3>2. Written(Peer[e])' = Written(Peer[e]) /\ Read(e) + Len(stream[e]) = Written(Peer[e])
      BY <1>a, <1>g DEF Written, FlowInv
    <3>3. Read(e)' + Len(stream'[e]) = Written(Peer[e])'
      BY <1>b, <1>d, <3>1, <3>2
    <3>4. ASSUME NEW j \in 1 .. Len(stream'[e]) PROVE PlaceOf(stream'[e][j]) = Read(e)' + j
      <4>1. stream'[e][j] = stream[e][n + j] /\ n + j \in 1 .. Len(stream[e])
        BY <1>b, <1>d
      <4>2. PlaceOf(stream'[e][j]) = Read(e) + (n + j)
        BY <1>a, <4>1 DEF FlowInv
      <4>3. QED BY <3>1, <4>2
    <3>5. \A i \in 1 .. Len(buffer'[e]) : buffer'[e][i] = [msg |-> Len(received'[e]) + 1, at |-> i]
      BY <1>f, <2>1, <2>2
    <3>6. QED BY <3>3, <3>4, <3>5 DEF FlowInv
  <2>8. QED BY <1>1, <2>3, <2>5, <2>6, <2>7 DEF XferInv
<1>4. QED BY <1>2, <1>3

LEMMA XferInvInit == XferInit => XferInv
<1> SUFFICES ASSUME XferInit PROVE XferInv
  OBVIOUS
<1> USE Ends_
<1>1. XferTypeOK
  BY DEF XferInit, XferTypeOK
<1>2. ASSUME NEW e \in Ends PROVE CallInv(e) /\ FlowInv(e) /\ WholeAt(e)
  <2>1. /\ stream[e] = <<>> /\ buffer[e] = <<>> /\ received[e] = <<>> /\ Len(<<>>) = 0
        /\ call[e] = "none" /\ done[e] = 0 /\ sent[e] = 0 /\ done[Peer[e]] = 0 /\ sent[Peer[e]] = 0
    BY DEF XferInit
  <2>2. 0 * Size = 0
    OBVIOUS
  <2>3. QED BY <2>1, <2>2 DEF CallInv, FlowInv, WholeAt, Read, Written
<1>3. QED BY <1>1, <1>2 DEF XferInv

LEMMA XferInvStep == XferInv /\ [XferNext]_xferVars => XferInv'
<1> SUFFICES ASSUME XferInv, [XferNext]_xferVars PROVE XferInv'
  OBVIOUS
<1>t. XferTypeOK /\ \A e \in Ends : CallInv(e)
  BY DEF XferInv
<1>1. ASSUME NEW e \in Ends, BeginSend(e) \/ BeginRecv(e) PROVE XferInv'
  BY <1>1, Begins
<1>2. ASSUME NEW e \in Ends, NEW n \in 1 .. Size, SendPiece(e, n) \/ RecvPiece(e, n) PROVE XferInv'
  BY <1>2, SendsPiece, RecvsPiece
<1>3. ASSUME NEW f \in Ends, NEW middle, torn' = [torn EXCEPT ![f] = @ \/ middle], middle \in BOOLEAN
      PROVE  /\ torn' \in [Ends -> BOOLEAN] /\ \A g \in Ends : torn[g] => torn'[g]
             /\ middle => torn'[f]
  <2>1. torn \in [Ends -> BOOLEAN] /\ (torn[f] \/ middle) \in BOOLEAN
    BY <1>3, <1>t DEF XferTypeOK
  <2>2. torn' \in [Ends -> BOOLEAN] /\ torn'[f] = (torn[f] \/ middle) /\ \A g \in Ends : g # f => torn'[g] = torn[g]
    BY <1>3, <2>1, Zenon
  <2>3. QED BY <2>1, <2>2, Zenon
<1>s. ASSUME NEW e \in Ends, torn' = [torn EXCEPT ![Peer[e]] = @ \/ done[e] > 0]
      PROVE  /\ torn' \in [Ends -> BOOLEAN] /\ \A g \in Ends : torn[g] => torn'[g]
             /\ done[e] > 0 => torn'[Peer[e]]
  <2>1. Peer[e] \in Ends /\ (done[e] > 0) \in BOOLEAN
    BY Ends_
  <2>2. QED BY <1>3, <1>s, <2>1, Zenon
<1>r. ASSUME NEW e \in Ends, torn' = [torn EXCEPT ![e] = @ \/ buffer[e] # <<>>]
      PROVE  /\ torn' \in [Ends -> BOOLEAN] /\ \A g \in Ends : torn[g] => torn'[g]
             /\ buffer[e] # <<>> => torn'[e]
  <2>1. (buffer[e] # <<>>) \in BOOLEAN
    OBVIOUS
  <2>2. QED BY <1>3, <1>r, <2>1, Zenon
<1>4. ASSUME NEW e \in Ends, SendFails(e) PROVE XferInv'
  <2>1. /\ buffer[e] = <<>> /\ Return(e) /\ UNCHANGED <<kind, up, stream, sent, received>>
        /\ torn' = [torn EXCEPT ![Peer[e]] = @ \/ done[e] > 0]
    BY <1>4, <1>t DEF SendFails, CallInv, Tear
  <2>2. up' \in [Ends -> {"open", "closed", "killed"}]
    BY <1>t, <2>1 DEF XferTypeOK
  <2>3. QED BY <1>s, <2>1, <2>2, GivesUp
<1>5. ASSUME NEW e \in Ends, SendToNobody(e) PROVE XferInv'
  <2>1. /\ buffer[e] = <<>> /\ up[e] = "open" /\ Return(e) /\ UNCHANGED <<kind, stream, sent, received>>
        /\ torn' = [torn EXCEPT ![Peer[e]] = @ \/ done[e] > 0]
    BY <1>5, <1>t DEF SendToNobody, CallInv, Tear
  <2>2. up' \in [Ends -> {"open", "closed", "killed"}] /\ \A f \in Ends : f # e => up'[f] = up[f]
    BY <1>5, <1>t DEF SendToNobody, XferTypeOK
  <2>3. QED BY <1>s, <2>1, <2>2, GivesUp
<1>6. ASSUME NEW e \in Ends, RecvFails(e) \/ RecvEnd(e) PROVE XferInv'
  <2>1. /\ done[e] = 0 /\ Return(e) /\ UNCHANGED <<kind, up, stream, sent, received>>
        /\ torn' = [torn EXCEPT ![e] = @ \/ buffer[e] # <<>>]
    BY <1>6, <1>t DEF RecvFails, RecvEnd, CallInv, Tear
  <2>2. up' \in [Ends -> {"open", "closed", "killed"}] /\ ~(done[e] > 0)
    BY <1>t, <2>1 DEF XferTypeOK
  <2>3. QED BY <1>r, <2>1, <2>2, GivesUp
<1>7. ASSUME NEW e \in Ends, Close(e) PROVE XferInv'
  <2>1. /\ Return(e) /\ UNCHANGED <<kind, stream, sent, received>>
        /\ torn' = [torn EXCEPT ![Peer[e]] = @ \/ done[e] > 0]
    BY <1>7 DEF Close, Tear
  <2>2. up' \in [Ends -> {"open", "closed", "killed"}] /\ up'[e] # "open"
        /\ \A f \in Ends : f # e => up'[f] = up[f]
    BY <1>7, <1>t DEF Close, XferTypeOK
  <2>3. QED BY <1>s, <2>1, <2>2, GivesUp
<1>8. CASE UNCHANGED xferVars
  <2>1. XferTypeOK'
    BY <1>8, <1>t DEF xferVars, XferTypeOK
  <2>2. ASSUME NEW e \in Ends PROVE CallInv(e)' /\ FlowInv(e)' /\ WholeAt(e)'
    <3>1. CallInv(e) /\ FlowInv(e) /\ WholeAt(e)
      BY <1>t DEF XferInv
    <3>2. CallInv(e)' /\ WholeAt(e)'
      BY <1>8, <3>1 DEF xferVars, CallInv, WholeAt
    <3>3. FlowInv(e)'
      BY <1>8, <3>1 DEF xferVars, FlowInv, Read, Written
    <3>4. QED BY <3>2, <3>3
  <2>3. QED BY <2>1, <2>2 DEF XferInv
<1>9. QED BY <1>1, <1>2, <1>4, <1>5, <1>6, <1>7, <1>8 DEF XferNext, Returns

(* However the streams cut them, whoever fails, closes or is killed, the   *)
(* receives that returned size have the messages of the peer whole, in     *)
(* order and once, for any ends, sizes, pieces and capacities.             *)
THEOREM MessagesAreWhole == XferSpec => []WholeMessages
<1>1. XferInv => WholeMessages
  BY DEF XferInv, WholeAt, WholeMessages
<1>2. QED BY XferInvInit, XferInvStep, <1>1, PTL DEF XferSpec
==============================================================================
