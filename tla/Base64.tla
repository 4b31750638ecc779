------------------------------ MODULE Base64 ------------------------------
(***************************************************************************)
(* src/base64/base64.cpp. A character is its index in c_Base64Table; the   *)
(* characters outside the table have numbers of their own. The encoder     *)
(* reads four bytes at a time, so it also reads what lies behind the       *)
(* source.                                                                 *)
(***************************************************************************)
EXTENDS Integers, Sequences, FiniteSets, SequencesExt

CONSTANTS
  SourceBytes, (* bytes of the sources, and of what lies behind them       *)
  MaxSource,   (* bound: length of a source                                *)
  LINE         (* 76: characters of a line of the e-mail form              *)

ASSUME Base64Assumption ==
  SourceBytes \subseteq 0 .. 255 /\ MaxSource \in Nat /\ LINE \in Nat \ {0}

VARIABLE source

BASE64_END_CHAR == 64
NEWLINE == 65
PERCENT == 66
Plus == 62
Slash == 63

GetBase64Size(n) ==
  LET encode_count == IF n <= 3 THEN n ELSE (n * 8 + 5) \div 6
  IN IF encode_count % 4 = 0 THEN encode_count ELSE encode_count + 4 - (encode_count % 4)

(* The EN_CODE macros, of three bytes; those that end in _T are for the    *)
(* last byte of the source, and leave out the bits of the one behind it.   *)
EN_CODE1(b) == b[1] \div 4
EN_CODE2(b) == (b[1] % 4) * 16 + b[2] \div 16
EN_CODE3(b) == (b[2] % 16) * 4 + b[3] \div 64
EN_CODE4(b) == b[3] % 64
EN_CODE2_T(b) == (b[1] % 4) * 16
EN_CODE3_T(b) == (b[2] % 16) * 4

(* The four characters for b[1], b[2], b[3], of which n are of the source. *)
Quad(b, n) ==
  CASE n = 1 -> <<EN_CODE1(b), EN_CODE2_T(b), BASE64_END_CHAR, BASE64_END_CHAR>>
    [] n = 2 -> <<EN_CODE1(b), EN_CODE2(b), EN_CODE3_T(b), BASE64_END_CHAR>>
    [] OTHER -> <<EN_CODE1(b), EN_CODE2(b), EN_CODE3(b), EN_CODE4(b)>>

(* Base64_Encode of n bytes, when `memory` is they and what follows: the   *)
(* groups of four characters, one after the other.                         *)
Base64_Encode(memory, n) ==
  [k \in 1 .. 4 * ((n + 2) \div 3) |->
    LET i == (k - 1) \div 4
    IN Quad(SubSeq(memory, 3 * i + 1, 3 * i + 3), n - 3 * i)[((k - 1) % 4) + 1]]

(* Base64_Decode: the bytes of a group of four characters, when there have *)
(* been `ends` end characters by the end of it.                            *)
Trio(c, ends) ==
  LET one == c[1] * 4 + c[2] \div 16
      two == (c[2] % 16) * 16 + c[3] \div 4
      three == (c[3] % 4) * 64 + c[4]
  IN CASE ends = 0 -> <<one, two, three>>
       [] ends = 1 -> <<one, two, 0>>
       [] OTHER -> <<one, 0, 0>>

EndChars(base64, n) == Cardinality({k \in 1 .. n : base64[k] = BASE64_END_CHAR})
Base64_Decode(base64) ==
  [k \in 1 .. 3 * (Len(base64) \div 4) - EndChars(base64, Len(base64)) |->
    LET i == (k - 1) \div 3
    IN Trio(SubSeq(base64, 4 * i + 1, 4 * i + 4), EndChars(base64, 4 * i + 4))[((k - 1) % 3) + 1]]

(* Base64_EncodeUrl: three characters, %2B, %2F or %3D, for a special one. *)
Special(c) == c \in {Plus, Slash, BASE64_END_CHAR}
Escape(c) ==
  CASE c = Plus -> <<PERCENT, 54, 1>>
    [] c = Slash -> <<PERCENT, 54, 5>>
    [] c = BASE64_END_CHAR -> <<PERCENT, 55, 3>>
    [] OTHER -> <<c>>
SpecialCharNum(base64) == Cardinality({k \in DOMAIN base64 : Special(base64[k])})
UrlSize(base64) == Len(base64) + SpecialCharNum(base64) * 2
Base64_EncodeUrl(base64) == FlattenSeq([i \in DOMAIN base64 |-> Escape(base64[i])])

(* Base64_EncodeEmail: a line break before each LINEth character but the   *)
(* first one.                                                              *)
(* mutant: a break before each LINEth character                            *)
BreakBeforeEach(i) == i % LINE = 0
BreakBefore(i) == i > 1 /\ (i - 1) % LINE = 0
EmailSize(base64) == Len(base64) + Len(base64) \div LINE
Base64_EncodeEmail(base64) ==
  FlattenSeq([i \in DOMAIN base64 |->
    IF BreakBefore(i) THEN <<NEWLINE, base64[i]>> ELSE <<base64[i]>>])
------------------------------------------------------------------------------
AppendByte(b) == Len(source) < MaxSource /\ source' = Append(source, b)

Base64Init == source = <<>>
Base64Next == \E b \in SourceBytes : AppendByte(b)
Base64Spec == Base64Init /\ [][Base64Next]_source

------------------------------------------------------------------------------
Behind(b) == source \o <<b, b, b>>

(* Whatever lies behind the source (line 93), the encoding of it has the   *)
(* size that GetBase64Size reserves, is the same, and is decoded to the    *)
(* source, of the source's size (lines 136-187).                           *)
DecodeInvertsEncode ==
  \A b \in SourceBytes :
    LET base64 == Base64_Encode(Behind(b), Len(source)) IN
    /\ Len(base64) = GetBase64Size(Len(source))
    /\ base64 = Base64_Encode(Behind(0), Len(source))
    /\ Base64_Decode(base64) = source

(* What a reference reader makes of the two forms.                         *)
Unescaped(url) ==
  FlattenSeq([i \in DOMAIN url |->
    CASE url[i] = PERCENT -> <<CHOOSE c \in {Plus, Slash, BASE64_END_CHAR} : Escape(c) = SubSeq(url, i, i + 2)>>
      [] \E j \in {i - 1, i - 2} : j > 0 /\ url[j] = PERCENT -> <<>>
      [] OTHER -> <<url[i]>>])
Unbroken(email) == FlattenSeq([i \in DOMAIN email |-> IF email[i] = NEWLINE THEN <<>> ELSE <<email[i]>>])

(* The URL form is as long as it says, and says what the text says; the    *)
(* e-mail form says so too, has no line longer than LINE, and is as long   *)
(* as it says but for the last line being full, when it says one more      *)
(* (line 239 counts a break that line 244 does not write).                 *)
FormsKeepText ==
  LET base64 == Base64_Encode(Behind(0), Len(source))
      url == Base64_EncodeUrl(base64)
      email == Base64_EncodeEmail(base64)
  IN /\ Len(url) = UrlSize(base64) /\ Unescaped(url) = base64
     /\ Unbroken(email) = base64
     /\ \A i \in 1 .. Len(email) - LINE : \E j \in i .. i + LINE : email[j] = NEWLINE
     /\ EmailSize(base64) =
          Len(email) + (IF Len(base64) > 0 /\ Len(base64) % LINE = 0 THEN 1 ELSE 0)
==============================================================================
