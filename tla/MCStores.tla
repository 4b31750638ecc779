------------------------------ MODULE MCStores ------------------------------
(***************************************************************************)
(* Libraries that share nothing, checked in one run: a behaviour exercises *)
(* the one that `part` says, and leaves the others as they are.            *)
(*   config   two programs that write settings; key "o" is also part of    *)
(*            key "to", and of another section                             *)
(*   events   two programs that store groups of two events and of one,     *)
(*            pages of two rows, groups of three                           *)
(*   sqlite   a query over at most two rows, of a row_pos up to the fourth *)
(*   occi     two connections, three rows                                  *)
(*   tree     a directory with a link out of it, a directory with a socket *)
(*            in which a file is made, and a directory of unknown type,    *)
(*            with a file or without                                       *)
(*   device   three lines                                                  *)
(*   base64   sources of up to seven bytes, e-mail lines of eight          *)
(*   md5      blocks of four bytes, a length field of two, words of 64     *)
(***************************************************************************)
EXTENDS BasicConfig, MysqlEvents, SqliteWork, Occi, DirectoryTree, DeviceXml, Base64, Md5, TLC

VARIABLE part
vars == <<part, cfgVars, eventVars, sqliteVars, occiVars, treeVars, deviceVars, source, md5Vars>>

MCCharacters == {"nl", "[", "]", "=", "s", "d", "t", "o", "0", "1"}
MCSettings == {<<<<"d">>, <<"o">>>>, <<<<"s">>, <<"o">>>>, <<<<"s">>, <<"t", "o">>>>}
MCValues == {<<"1">>, <<>>}
MCDefault == <<"0">>
MCFirstTexts ==
  {<<>>, <<"[", "s", "]", "nl", "t", "o", "=", "1", "nl", "[", "d", "]", "nl", "o", "=", "1">>}

MCGroup == <<<<1, 2>>, <<3>>>>

MCParent ==
  [n \in {"top", "dir", "out"} |-> "top"] @@ [n \in {"link", "sub", "odd"} |-> "dir"]
  @@ [n \in {"socket", "new"} |-> "sub"] @@ [n \in {"more"} |-> "odd"] @@ [n \in {"file"} |-> "out"]
MCdType ==
  [n \in {"top", "dir", "out", "sub", "odd"} |-> DT_DIR] @@ [n \in {"file", "more", "new"} |-> DT_REG]
  @@ [n \in {"link"} |-> DT_LNK] @@ [n \in {"socket"} |-> DT_SOCK]
MCTarget == [n \in {"link"} |-> "out"]

MCLaneLines ==
  {[type |-> 0, points |-> <<>>], [type |-> 1, points |-> <<1, 2>>], [type |-> 2, points |-> <<2>>]}

Init ==
  /\ part \in {"config", "events", "sqlite", "occi", "tree", "device", "base64", "md5"}
  /\ CfgInit /\ EventsInit /\ SqliteInit /\ OcciInit /\ TreeInit /\ DeviceInit /\ Base64Init /\ Md5Init
  /\ part = "config" \/ file = {}
  /\ part = "occi" \/ \A r \in Rows : emp[r] = Absent
  /\ present \in {Nodes \ {"new"}, Nodes \ {"new", "more"}}
  /\ part = "tree" \/ present = Nodes \ {"new"}

ConfigPart == part = "config" /\ CfgNext
EventsPart == part = "events" /\ EventsNext
SqlitePart == part = "sqlite" /\ SqliteNext
OcciPart == part = "occi" /\ OcciNext
TreePart == part = "tree" /\ TreeNext
DevicePart == part = "device" /\ DeviceNext
Base64Part == part = "base64" /\ Base64Next
Md5Part == part = "md5" /\ Md5Next

Next ==
  /\ UNCHANGED part
  /\ \/ ConfigPart /\ UNCHANGED <<eventVars, sqliteVars, occiVars, treeVars, deviceVars, source, md5Vars>>
     \/ EventsPart /\ UNCHANGED <<cfgVars, sqliteVars, occiVars, treeVars, deviceVars, source, md5Vars>>
     \/ SqlitePart /\ UNCHANGED <<cfgVars, eventVars, occiVars, treeVars, deviceVars, source, md5Vars>>
     \/ OcciPart /\ UNCHANGED <<cfgVars, eventVars, sqliteVars, treeVars, deviceVars, source, md5Vars>>
     \/ TreePart /\ UNCHANGED <<cfgVars, eventVars, sqliteVars, occiVars, deviceVars, source, md5Vars>>
     \/ DevicePart /\ UNCHANGED <<cfgVars, eventVars, sqliteVars, occiVars, treeVars, source, md5Vars>>
     \/ Base64Part /\ UNCHANGED <<cfgVars, eventVars, sqliteVars, occiVars, treeVars, deviceVars, md5Vars>>
     \/ Md5Part /\ UNCHANGED <<cfgVars, eventVars, sqliteVars, occiVars, treeVars, deviceVars, source>>

Spec == Init /\ [][Next]_vars
==============================================================================
