---------------------------- MODULE OneSlotChannel ----------------------------
(***************************************************************************)
(* What server() and client() of src/linux/semaphore/service_client.c      *)
(* promise together: a channel with room for one line.  While it is open,  *)
(* one client at a time may write, and only into an empty box; what it     *)
(* puts there stays until it is taken (printed), and is taken once.        *)
(* Nothing is promised while it is closed.                                 *)
(***************************************************************************)
CONSTANTS
  Clients,  (* who may write                                               *)
  Msg,      (* the lines a user may type                                   *)
  Blank     (* no line                                                     *)

VARIABLES
  open,     (* the channel keeps its promise                               *)
  writer,   (* the client that is writing, if any                          *)
  box,      (* the line under way; Blank: none                             *)
  out       (* the last line printed                                       *)

Init == open = FALSE /\ writer = {} /\ box = Blank /\ out = Blank

Open == /\ ~open /\ open' = TRUE
        /\ writer' = {} /\ box' = Blank /\ UNCHANGED out

Close == /\ open /\ open' = FALSE
         /\ writer' = {} /\ box' = Blank /\ UNCHANGED out

Enter(c) == /\ open /\ writer = {} /\ box = Blank
            /\ writer' = {c}
            /\ UNCHANGED <<open, box, out>>

Put(c, m) == /\ open /\ writer = {c} /\ box = Blank
             /\ writer' = {} /\ box' = m
             /\ UNCHANGED <<open, out>>

(* A writer killed before it puts its line. *)
Abandon(c) == /\ open /\ writer = {c} /\ writer' = {}
              /\ UNCHANGED <<open, box, out>>

Take == /\ open /\ writer = {} /\ box # Blank
        /\ out' = box /\ box' = Blank
        /\ UNCHANGED <<open, writer>>

(* Closed, the server prints whatever it finds. *)
Lawless == /\ ~open
           /\ out' \in Msg \union {Blank}
           /\ UNCHANGED <<open, writer, box>>

Next == \/ Open \/ Close \/ Take \/ Lawless
        \/ \E c \in Clients : \/ Enter(c) \/ Abandon(c)
                              \/ \E m \in Msg : Put(c, m)

Spec == Init /\ [][Next]_<<open, writer, box, out>>
==============================================================================
