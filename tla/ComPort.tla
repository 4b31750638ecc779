------------------------------- MODULE ComPort -------------------------------
(***************************************************************************)
(* src/com_port/com_port.c: a device sends frames over a serial line; the  *)
(* program reads what has arrived, up to COM_SIZE bytes, and gives it to   *)
(* AnalyseComData, which takes the frames out of it. Head and tail of a    *)
(* frame are two bytes here (four in the code), its contents one.          *)
(***************************************************************************)
EXTENDS Integers, SearchBuffers

CONSTANTS
  Linux,     (* the descriptor is non-blocking (line 145)                  *)
  COM_SIZE,  (* bytes asked for by a call of ReadComport                   *)
  COM_PER_SIZE, (* PER_SIZE: bytes asked for by one read                   *)
  MaxFrames  (* bound: frames the device sends                             *)

ASSUME ComAssumption ==
  Linux \in BOOLEAN /\ COM_SIZE \in Nat \ {0} /\ COM_PER_SIZE \in Nat \ {0} /\ MaxFrames \in Nat

VARIABLES
  port,     (* what g_port_handle is: "none", "open" or "closed"           *)
  frames,   (* frames the device has sent                                  *)
  line,     (* bytes that have arrived and not been read                   *)
  parsed,   (* what has been given to ParseCycleData and the car list      *)
  whole,    (* history: the frames (their contents) that lay in the data   *)
            (* of one call of ReadComport                                  *)
  noise     (* history: has a byte been lost on the line?                  *)
comVars == <<port, frames, line, parsed, whole, noise>>

CycleHead == <<202, 203>>
CycleTail == <<234, 235>>
Frame(k) == CycleHead \o <<k>> \o CycleTail

(* Where `pattern` first starts in data from `from` on, or 0.              *)
UstrUstr(data, from, pattern) == FirstAt(pattern, data, from)

(* mutant: the tail searched from where the search for the head began      *)
GetFirstCycleDataAnyTail(data, from) ==
  LET head == UstrUstr(data, from, CycleHead)
      tail == IF head = 0 THEN 0 ELSE UstrUstr(data, from, CycleTail)
  IN IF tail = 0 THEN <<>> ELSE <<head, tail + Len(CycleHead) - 1>>

(* GetFirstCycleData: the first head at or after `from`, and the first     *)
(* tail after that head; <<>> if one of them is missing.                   *)
GetFirstCycleData(data, from) ==
  LET head == UstrUstr(data, from, CycleHead)
      tail == IF head = 0 THEN 0 ELSE UstrUstr(data, head, CycleTail)
  IN IF tail = 0 THEN <<>> ELSE <<head, tail + Len(CycleHead) - 1>>

(* AnalyseComData: one frame after the other, until none is found; what    *)
(* remains is forgotten.                                                   *)
AnalyseComData(data) ==
  LET rest[from \in 1 .. Len(data) + 1] ==
        LET found == IF from > Len(data) THEN <<>> ELSE GetFirstCycleData(data, from)
        IN IF found = <<>> THEN <<>>
           ELSE <<SubSeq(data, found[1], found[2])>> \o rest[found[2] + 1]
  IN rest[1]

------------------------------------------------------------------------------
(* OpenComport; a failure changes nothing. On Linux it forgets a           *)
(* descriptor that is open, on Windows an open port cannot be opened again.*)
OpenComport ==
  /\ Linux \/ port # "open"
  /\ port' = "open"
  /\ UNCHANGED <<frames, line, parsed, whole, noise>>

(* CloseComport, which keeps the number of what it has closed. *)
CloseComport ==
  /\ port # "none"
  /\ port' = "closed"
  /\ UNCHANGED <<frames, line, parsed, whole, noise>>

SendFrame ==
  /\ frames < MaxFrames
  /\ frames' = frames + 1
  /\ line' = line \o Frame(frames + 1)
  /\ UNCHANGED <<port, parsed, whole, noise>>

LoseByte(i) ==
  /\ ~noise
  /\ noise' = TRUE
  /\ line' = SubSeq(line, 1, i - 1) \o SubSeq(line, i + 1, Len(line))
  /\ UNCHANGED <<port, frames, parsed, whole>>

(* ReadData asks for COM_PER_SIZE bytes at a time until it gets fewer. When    *)
(* the line is empty after a full read, the next may return -1 on Linux,  *)
(* which is added to the sum (line 211): the last byte is not returned.    *)
Returned(n) ==
  IF Linux /\ n < COM_SIZE /\ n % COM_PER_SIZE = 0 THEN {n - 1, n} ELSE {n}

(* Does `data` hold frame k? *)
Holds(data, k) == \E i \in DOMAIN data : Occurs(Frame(k), data, i)

(* ReadComport takes n bytes that have come, and AnalyseComData the rest.  *)
Receive(n) ==
  /\ port = "open"
  /\ n <= COM_SIZE
  /\ line' = SubSeq(line, n + 1, Len(line))
  /\ \E size \in Returned(n) :
       LET data == SubSeq(line, 1, size) IN
       /\ parsed' = parsed \o AnalyseComData(data)
       /\ whole' = whole \union {k \in 1 .. MaxFrames : Holds(data, k)}
  /\ UNCHANGED <<port, frames, noise>>

ComInit == port = "none" /\ frames = 0 /\ line = <<>> /\ parsed = <<>> /\ whole = {} /\ noise = FALSE

ComNext ==
  \/ OpenComport \/ CloseComport \/ SendFrame
  \/ \E i \in 1 .. Len(line) : LoseByte(i)
  \/ \E n \in 0 .. Len(line) : Receive(n)

ComSpec == ComInit /\ [][ComNext]_comVars

------------------------------------------------------------------------------
(* While the line loses nothing, the frames parsed are exactly those that  *)
(* a call of ReadComport has returned whole, each once and in order: a     *)
(* frame cut in two by two calls (line 357), or short of its last byte     *)
(* (line 211), is lost, and spoils none of its neighbours.                 *)
FramesParsed ==
  ~noise =>
    /\ {parsed[i] : i \in DOMAIN parsed} = {Frame(k) : k \in whole}
    /\ \A i, j \in DOMAIN parsed : i < j => parsed[i][3] < parsed[j][3]
==============================================================================
