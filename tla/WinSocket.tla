------------------------------ MODULE WinSocket ------------------------------
(***************************************************************************)
(* src/windows/windows_socket.cpp: Winsock is counted up by WSAStartup and *)
(* down by WSACleanup; when the count comes to zero every socket of the    *)
(* process is gone. Each socket's user is a thread that calls the library. *)
(* Socket values are few and used again, as Windows does.                  *)
(***************************************************************************)
EXTENDS Integers, FiniteSets

CONSTANTS Users, Handles, Nobody, NoHandle

ASSUME SocketAssumption ==
  /\ IsFiniteSet(Users) /\ Nobody \notin Users /\ NoHandle \notin Handles

VARIABLES
  startups,  (* Winsock's count                                            *)
  owner,     (* per handle: who the open socket was given to, or Nobody    *)
  stage,     (* how far each user has come                                 *)
  handle,    (* the SOCKET in each user's variable                         *)
  balanced   (* history: has everyone closed only sockets of its own       *)
             (* Startup, and each once?                                    *)
sockVars == <<startups, owner, stage, handle, balanced>>

(* Stages in which the user's own Startup has not been cleaned up, and     *)
(* those in which its handle should be an open socket.                     *)
Ready == {"ready", "listening", "connected"}
Counted == Ready \union {"started"}

At(u, s) == stage[u] = s
Become(u, s) == stage' = [stage EXCEPT ![u] = s]

(* WSACleanup, when the open sockets are those of `open`.                  *)
WSACleanup(open) ==
  /\ startups' = IF startups = 0 THEN 0 ELSE startups - 1
  /\ owner' = IF startups <= 1 THEN [h \in Handles |-> Nobody] ELSE open

(* closesocket() and WSACleanup() on the caller's handle.                  *)
CloseAndCleanup(u) == WSACleanup([owner EXCEPT ![handle[u]] = Nobody])

------------------------------------------------------------------------------
(* Socket_Init: WSAStartup; a wrong version; socket(). A failing WSAStartup *)
(* changes nothing.                                                        *)
Startup(u) ==
  /\ At(u, "none")
  /\ startups' = startups + 1
  /\ Become(u, "started")
  /\ UNCHANGED <<owner, handle, balanced>>

(* mutant: the error path that forgets its WSACleanup                      *)
WrongVersionNoCleanup(u) ==
  /\ At(u, "started")
  /\ Become(u, "none")
  /\ UNCHANGED <<startups, owner, handle, balanced>>

WrongVersion(u) ==
  /\ At(u, "started")
  /\ WSACleanup(owner)
  /\ Become(u, "none")
  /\ UNCHANGED <<handle, balanced>>

OpenSocket(u, h) ==
  /\ At(u, "started") /\ startups > 0 /\ owner[h] = Nobody
  /\ owner' = [owner EXCEPT ![h] = u]
  /\ handle' = [handle EXCEPT ![u] = h]
  /\ Become(u, "ready")
  /\ UNCHANGED <<startups, balanced>>

NoSocket(u) ==
  /\ At(u, "started")
  /\ WSACleanup(owner)
  /\ Become(u, "none")
  /\ UNCHANGED <<handle, balanced>>

(* Socket_SetServer: bind and listen; either may fail.                     *)
SetServer(u) ==
  /\ At(u, "ready") /\ owner[handle[u]] # Nobody
  /\ Become(u, "listening")
  /\ UNCHANGED <<startups, owner, handle, balanced>>

(* mutant: the error path that cleans up and forgets closesocket           *)
SetServerFailsOpen(u) ==
  /\ At(u, "ready")
  /\ WSACleanup(owner)
  /\ Become(u, "failed")
  /\ UNCHANGED <<handle, balanced>>

SetServerFails(u) ==
  /\ At(u, "ready")
  /\ CloseAndCleanup(u)
  /\ Become(u, "failed")
  /\ UNCHANGED <<handle, balanced>>

(* Socket_WaitConnect: the accepted socket goes to a user of its own, and  *)
(* is not counted by a Startup.                                            *)
Accept(u, v, h) ==
  /\ At(u, "listening") /\ owner[handle[u]] # Nobody
  /\ At(v, "none") /\ owner[h] = Nobody
  /\ owner' = [owner EXCEPT ![h] = v]
  /\ handle' = [handle EXCEPT ![v] = h]
  /\ Become(v, "accepted")
  /\ UNCHANGED <<startups, balanced>>

AcceptFails(u) ==
  /\ At(u, "listening")
  /\ CloseAndCleanup(u)
  /\ Become(u, "failed")
  /\ UNCHANGED <<handle, balanced>>

(* Socket_Connect: when it fails the socket stays the caller's.            *)
Connect(u) ==
  /\ At(u, "ready") /\ owner[handle[u]] # Nobody
  /\ Become(u, "connected")
  /\ UNCHANGED <<startups, owner, handle, balanced>>

ConnectFails(u) == At(u, "ready") /\ UNCHANGED sockVars

(* Socket_Uninit, also by a caller whose socket was accepted, or whose     *)
(* call has failed and already closed it.                                  *)
Uninit(u) ==
  /\ stage[u] \in Ready \union {"accepted", "failed"}
  /\ CloseAndCleanup(u)
  /\ Become(u, "none")
  /\ balanced' = (balanced /\ stage[u] \in Ready)
  /\ UNCHANGED handle

(* A caller that knows better closes an accepted socket itself, and        *)
(* forgets one of which a call has failed.                                 *)
CloseAccepted(u) ==
  /\ At(u, "accepted")
  /\ owner' = [owner EXCEPT ![handle[u]] = Nobody]
  /\ Become(u, "none")
  /\ balanced' = (balanced /\ owner[handle[u]] \in {u, Nobody})
  /\ UNCHANGED <<startups, handle>>

Forget(u) ==
  /\ At(u, "failed")
  /\ Become(u, "none")
  /\ UNCHANGED <<startups, owner, handle, balanced>>

SockInit ==
  /\ startups = 0 /\ balanced = TRUE
  /\ owner = [h \in Handles |-> Nobody]
  /\ stage = [u \in Users |-> "none"] /\ handle = [u \in Users |-> NoHandle]

SockNext ==
  \E u \in Users :
    \/ Startup(u) \/ WrongVersion(u) \/ NoSocket(u)
    \/ SetServer(u) \/ SetServerFails(u) \/ AcceptFails(u)
    \/ Connect(u) \/ ConnectFails(u) \/ Uninit(u) \/ CloseAccepted(u) \/ Forget(u)
    \/ \E h \in Handles : OpenSocket(u, h)
    \/ \E v \in Users, h \in Handles : Accept(u, v, h)

SockSpec == SockInit /\ [][SockNext]_sockVars

------------------------------------------------------------------------------
(* Type correctness; a handle is set in every stage that uses it.          *)
Stages == Counted \union {"none", "accepted", "failed"}
SockTypeOK ==
  /\ startups \in Nat /\ balanced \in BOOLEAN
  /\ owner \in [Handles -> Users \union {Nobody}]
  /\ stage \in [Users -> Stages]
  /\ handle \in [Users -> Handles \union {NoHandle}]
  /\ \A u \in Users : stage[u] \notin {"none", "started"} => handle[u] \in Handles

(* Along every path, error paths included (lines 23-35, 77-88, 101-103),   *)
(* each WSAStartup has its one WSACleanup, as long as no caller has ended  *)
(* an accepted or an already closed socket with Socket_Uninit (line 205).  *)
StartupsBalanced == balanced => startups = Cardinality({u \in Users : stage[u] \in Counted})

(* On the same condition nobody's socket is closed by somebody else, nor   *)
(* by Winsock's end, while its own Startup counts; and no socket is left   *)
(* open that nobody holds.                                                 *)
HandlesMatchSockets ==
  balanced =>
    /\ \A u \in Users : stage[u] \in Ready => owner[handle[u]] = u
    /\ \A h \in Handles : owner[h] # Nobody =>
         handle[owner[h]] = h /\ stage[owner[h]] \in Ready \union {"accepted"}
==============================================================================
