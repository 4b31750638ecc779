---------------------------- MODULE BasicConfig ----------------------------
(***************************************************************************)
(* src/config/linux/basic_config.c: settings "key=value" in sections of a  *)
(* text file that is read whole, searched with strstr, and written back    *)
(* whole, by processes that do not lock it. A text is a sequence of        *)
(* characters; "nl" stands for \r\n.                                       *)
(***************************************************************************)
EXTENDS Integers, SearchBuffers

CONSTANTS
  Writers,    (* processes that write settings                             *)
  Characters, (* what a text is made of                                    *)
  Settings,   (* pairs of a section's name and a key, which are words      *)
  Values,     (* values given to settings                                  *)
  Default,    (* the defaultValue of a read                                *)
  FirstTexts, (* texts of the file when it has been made by hand           *)
  MaxWrites   (* bound: calls of WritePrivateProfileString                 *)

Words == Seq(Characters \ {"nl", "[", "]", "="}) \ {<<>>}

ASSUME ConfigAssumption ==
  /\ Writers # {} /\ MaxWrites \in Nat
  /\ {"nl", "[", "]", "="} \subseteq Characters
  /\ Settings \subseteq (Words \X Words) /\ Values \subseteq Seq(Characters)
  /\ FirstTexts \subseteq Seq(Characters)

VARIABLES
  file,    (* {} when there is none, or the set of its one text            *)
  step,    (* per writer: "idle", "loaded" or "write"                      *)
  newBuff, (* per writer: the text it is going to write                    *)
  putting, (* per writer: the setting it is writing, and its value         *)
  writes,  (* calls until now                                              *)
  want,    (* history: per setting, {} or the set of the value last given  *)
  apart    (* history: has every write so far been of a setting that the   *)
           (* searches find, and over before the next began?               *)
cfgVars == <<file, step, newBuff, putting, writes, want, apart>>

Text == IF file = {} THEN <<>> ELSE CHOOSE t \in file : TRUE

Header(a) == <<"[">> \o a \o <<"]">>
Pair(k, v) == k \o <<"=">> \o v

(* A new line in front of the next section.                                *)
(* mutant: the line not ended                                              *)
OpenLine(k, v) == Pair(k, v)
PairLine(k, v) == Pair(k, v) \o <<"nl">>

(* The places both functions search for: section, its end, key; 0 if none. *)
AppStart(text, a) == FirstAt(Header(a), text, 1)
AppEnd(text, a) == FirstAt(<<"[">>, text, AppStart(text, a) + 1)
KeyStart(text, a, k) == FirstAt(k, text, AppStart(text, a))
LineEnd(text, at) == FirstAt(<<"nl">>, text, at)

(* mutant: a key looked for as far as the file goes                        *)
KeyAfterHeader(text, a, k) == AppStart(text, a) # 0 /\ KeyStart(text, a, k) # 0
KeyInSection(text, a, k) ==
  /\ AppStart(text, a) # 0 /\ KeyStart(text, a, k) # 0
  /\ AppEnd(text, a) = 0 \/ KeyStart(text, a, k) < AppEnd(text, a)

(* GetPrivateProfileString: the value, or the default.                     *)
GetPrivateProfileString(text, a, k) ==
  LET key == KeyStart(text, a, k)
      equals == FirstAt(<<"=">>, text, key)
      end == LineEnd(text, key)
  IN IF ~KeyInSection(text, a, k) \/ equals = 0 THEN Default
     ELSE IF end = 0 THEN From(text, equals + 1)
     ELSE IF equals < end THEN SubSeq(text, equals + 1, end - 1) ELSE Default

(* WritePrivateProfileString: the new text, or none when the key is first  *)
(* found in a later section (the call returns -1).                         *)
NewText(text, a, k, v) ==
  LET key == KeyStart(text, a, k)
      end == LineEnd(text, key)
      appEnd == AppEnd(text, a)
  IN CASE AppStart(text, a) = 0 -> {text \o <<"nl">> \o Header(a) \o <<"nl">> \o Pair(k, v)}
       [] KeyInSection(text, a, k) ->
            {Before(text, key) \o Pair(k, v) \o IF end = 0 THEN <<>> ELSE From(text, end)}
       [] AppStart(text, a) # 0 /\ key = 0 /\ appEnd # 0 ->
            {Before(text, appEnd) \o PairLine(k, v) \o From(text, appEnd)}
       [] AppStart(text, a) # 0 /\ key = 0 /\ appEnd = 0 -> {text \o <<"nl">> \o Pair(k, v)}
       [] OTHER -> {}

FirstFile(a, k, v) == Header(a) \o <<"nl">> \o Pair(k, v)

------------------------------------------------------------------------------
(* What the text says, by its lines: the reference the searches stand for. *)
LineStarts(text) == {i \in DOMAIN text : text[i] # "nl" /\ (i = 1 \/ text[i - 1] = "nl")}
Line(text, at) == SubSeq(text, at, IF LineEnd(text, at) = 0 THEN Len(text) ELSE LineEnd(text, at) - 1)
Gives(line, k) == Occurs(k \o <<"=">>, line, 1)

(* A section runs from its header line, the first such line, to the next   *)
(* line that begins with "["; a setting is the rest of the first line in   *)
(* it that begins "key=".                                                  *)
Headers(text) == {i \in LineStarts(text) : text[i] = "["}
IsIn(text, a, at) ==
  \E h \in Headers(text) :
    /\ h < at /\ Line(text, h) = Header(a)
    /\ \A g \in Headers(text) : (g <= h \/ g >= at) /\ (g < h => Line(text, g) # Header(a))
Lines(text, a, k) == {i \in LineStarts(text) : Gives(Line(text, i), k) /\ IsIn(text, a, i)}
Setting(text, a, k) ==
  {From(Line(text, i), Len(k) + 2) : i \in {j \in Lines(text, a, k) : \A n \in Lines(text, a, k) : j <= n}}

(* The searches find what they look for: every "[" begins a line, the      *)
(* first "[a]" is a line, and what is first found after it as the key      *)
(* begins a line "key=".                                                   *)
Clear(text, a, k) ==
  /\ \A i \in DOMAIN text : text[i] = "[" => i \in LineStarts(text)
  /\ AppStart(text, a) # 0 =>
    /\ Line(text, AppStart(text, a)) = Header(a)
    /\ KeyStart(text, a, k) # 0 =>
      KeyStart(text, a, k) \in LineStarts(text) /\ Gives(Line(text, KeyStart(text, a, k)), k)

------------------------------------------------------------------------------
(* MallocFileBuff and the new text. Nothing is written when it is -1.      *)
LoadFile(w, a, k, v) ==
  /\ step[w] = "idle" /\ writes < MaxWrites
  /\ writes' = writes + 1
  /\ \E t \in IF file = {} THEN {FirstFile(a, k, v)} ELSE NewText(Text, a, k, v) :
       newBuff' = [newBuff EXCEPT ![w] = t]
  /\ putting' = [putting EXCEPT ![w] = <<a, k, v>>]
  /\ step' = [step EXCEPT ![w] = "loaded"]
  /\ apart' = (apart /\ Clear(Text, a, k) /\ \A u \in Writers : step[u] = "idle")
  /\ UNCHANGED <<file, want>>

(* SaveFileBuff: fopen(path, "wb"), then the whole text at once.           *)
TruncateFile(w) ==
  /\ step[w] = "loaded"
  /\ file' = {<<>>}
  /\ step' = [step EXCEPT ![w] = "write"]
  /\ UNCHANGED <<newBuff, putting, writes, want, apart>>

SaveFile(w) ==
  /\ step[w] = "write"
  /\ file' = {newBuff[w] \o From(Text, Len(newBuff[w]) + 1)}
  /\ want' = [want EXCEPT ![<<putting[w][1], putting[w][2]>>] = {putting[w][3]}]
  /\ step' = [step EXCEPT ![w] = "idle"]
  /\ newBuff' = [newBuff EXCEPT ![w] = <<>>]
  /\ putting' = [putting EXCEPT ![w] = <<>>]
  /\ UNCHANGED <<writes, apart>>

(* The process ends, or cannot open or write the file (which the function  *)
(* does not notice).                                                       *)
WriteDies(w) ==
  /\ step[w] # "idle"
  /\ apart' = (apart /\ step[w] = "loaded")
  /\ step' = [step EXCEPT ![w] = "idle"]
  /\ newBuff' = [newBuff EXCEPT ![w] = <<>>]
  /\ putting' = [putting EXCEPT ![w] = <<>>]
  /\ UNCHANGED <<file, writes, want>>

CfgInit ==
  /\ file \in {{}} \union {{t} : t \in FirstTexts}
  /\ step = [w \in Writers |-> "idle"] /\ newBuff = [w \in Writers |-> <<>>]
  /\ putting = newBuff /\ writes = 0 /\ apart = TRUE
  /\ want = [s \in Settings |-> Setting(Text, s[1], s[2])]

CfgNext ==
  \E w \in Writers :
    \/ TruncateFile(w) \/ SaveFile(w) \/ WriteDies(w)
    \/ \E s \in Settings, v \in Values : LoadFile(w, s[1], s[2], v)

CfgSpec == CfgInit /\ [][CfgNext]_cfgVars

------------------------------------------------------------------------------
(* Writes that do not overlap, are not cut off between the truncation and  *)
(* the text (line 154), and whose searches find what they look for (line   *)
(* 77), leave every setting of the file with the value last given to it,   *)
(* in its own section, and disturb none of the others.                     *)
SettingsStand ==
  apart /\ (\A w \in Writers : step[w] # "write")
    => \A s \in Settings : Setting(Text, s[1], s[2]) = want[s]

(* In any text, those left by a crash or by two writers at once included,  *)
(* a read whose searches find what they look for gives the value that the  *)
(* lines of the file say, or the default where they say none.              *)
ReadFindsSetting ==
  \A s \in Settings : Clear(Text, s[1], s[2]) =>
    LET set == Setting(Text, s[1], s[2]) IN
    GetPrivateProfileString(Text, s[1], s[2]) = IF set = {} THEN Default ELSE CHOOSE v \in set : TRUE
==============================================================================
