----------------------------- MODULE DeviceXml -----------------------------
(***************************************************************************)
(* src/tinyxml/test_1/xml_file.cpp: the lane lines of a device, drawn by   *)
(* hand, saved in an XML file and read back. A device with n lanes has     *)
(* n + 1 lines. A line's element has the attribute Type only when the line *)
(* has a point.                                                            *)
(***************************************************************************)
EXTENDS Integers, Sequences, FiniteSets

CONSTANTS
  MAX_LINE,  (* length of m_lane_line                                      *)
  LaneLines  (* lines that can be drawn: [type, points]                    *)

ASSUME DeviceAssumption ==
  MAX_LINE \in Nat \ {0} /\ LaneLines \subseteq [type : Nat, points : Seq(Nat)]

VARIABLES
  lanes,     (* m_lane_count                                               *)
  lines,     (* m_lane_line                                                *)
  xml,       (* the file's elements "Lane", or {} when it cannot be read   *)
  saved      (* history: [lanes, lines] when the file was saved            *)
deviceVars == <<lanes, lines, xml, saved>>

NoLine == [type |-> 0, points |-> <<>>]
FirstLines(n, all) == [i \in 1 .. MAX_LINE |-> IF i <= n THEN all[i] ELSE NoLine]

(* SaveDevicedataXml's elements, m_lane_count + 1 of them. *)
Element(line) ==
  [type |-> IF line.points = <<>> THEN {} ELSE {line.type}, points |-> line.points]
Elements(n, all) == [i \in 1 .. n + 1 |-> Element(all[i])]

(* ParseDevicedataXml's line for an element: nothing is read, and nothing  *)
(* counted in lane_num, without a Type.                                    *)
ParsedLine(e) ==
  IF e.type = {} THEN NoLine ELSE [type |-> CHOOSE t \in e.type : TRUE, points |-> e.points]
LaneNum(doc) == Cardinality({i \in DOMAIN doc : doc[i].type # {}})
ParsedLines(doc) ==
  [i \in 1 .. MAX_LINE |-> IF i <= Len(doc) THEN ParsedLine(doc[i]) ELSE NoLine]
(* mutant: as many lanes as lines                                          *)
ParsedLanesAll(doc) == IF LaneNum(doc) < 2 THEN 0 ELSE LaneNum(doc)
ParsedLanes(doc) == IF LaneNum(doc) < 2 THEN 0 ELSE LaneNum(doc) - 1

------------------------------------------------------------------------------
DrawLine(i, line) ==
  /\ lines' = [lines EXCEPT ![i] = line]
  /\ UNCHANGED <<lanes, xml, saved>>

SetLanes(n) ==
  /\ lanes' = n
  /\ UNCHANGED <<lines, xml, saved>>

SaveDevicedataXml ==
  /\ xml' = {Elements(lanes, lines)}
  /\ saved' = [lanes |-> lanes, lines |-> lines]
  /\ UNCHANGED <<lanes, lines>>

(* The program ends in SaveFile: half a file, which LoadFile refuses.      *)
SaveDevicedataDies ==
  /\ xml' = {}
  /\ UNCHANGED <<lanes, lines, saved>>

(* A file that cannot be read changes nothing.                             *)
ParseDevicedataXml ==
  \E doc \in xml :
    /\ lines' = ParsedLines(doc)
    /\ lanes' = ParsedLanes(doc)
    /\ UNCHANGED <<xml, saved>>

DeviceInit ==
  /\ lanes = 0 /\ lines = FirstLines(0, <<>>) /\ xml = {}
  /\ saved = [lanes |-> lanes, lines |-> lines]

DeviceNext ==
  \/ \E i \in 1 .. MAX_LINE, line \in LaneLines : DrawLine(i, line)
  \/ \E n \in 0 .. MAX_LINE - 1 : SetLanes(n)
  \/ SaveDevicedataXml \/ SaveDevicedataDies \/ ParseDevicedataXml

DeviceSpec == DeviceInit /\ [][DeviceNext]_deviceVars

------------------------------------------------------------------------------
(* A file that can be read gives back the points of every line that was    *)
(* saved (lines 203-233); and the whole device, lanes and types included,  *)
(* when each of its lines has a point (lines 118-120, 236-239: otherwise   *)
(* lanes are missing from the count, and lost by the next save).           *)
DeviceComesBack ==
  \A doc \in xml :
    /\ \A i \in 1 .. saved.lanes + 1 : ParsedLines(doc)[i].points = saved.lines[i].points
    /\ saved.lanes > 0 /\ (\A i \in 1 .. saved.lanes + 1 : saved.lines[i].points # <<>>) =>
         /\ ParsedLanes(doc) = saved.lanes
         /\ ParsedLines(doc) = FirstLines(saved.lanes + 1, saved.lines)
==============================================================================
