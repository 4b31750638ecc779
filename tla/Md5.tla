-------------------------------- MODULE Md5 --------------------------------
(***************************************************************************)
(* src/md5/md5.cpp: how MD5Update and MD5Final cut what they are given, in *)
(* pieces, into the blocks that MD5Transform digests. The state of the     *)
(* digest is the sequence of the blocks. A block has 64 bytes in the code, *)
(* and ends, in the last one, with the 8 bytes of the length; count is two *)
(* words of UINT4, which is `unsigned long` (md5.h:24): 32 bits on Windows *)
(* and on 32-bit Linux, which this is a model of. Where a long has 64 bits *)
(* the carry (line 47), len >> 29 (line 50) and the rotations of           *)
(* MD5Transform (md5.h:84) are no longer those of MD5.                     *)
(***************************************************************************)
EXTENDS Integers, Sequences

CONSTANTS
  BLOCK,    (* 64                                                          *)
  FIELD,    (* 8: bytes of the length field                                *)
  WORD,     (* 2^32                                                        *)
  Pieces,   (* lengths of the pieces given to MD5Update                    *)
  MaxInput  (* bound: bytes given                                          *)

ASSUME Md5Assumption ==
  /\ BLOCK \in Nat \ {0} /\ FIELD \in 1 .. BLOCK - 1 /\ Pieces \subseteq Nat /\ MaxInput \in Nat
  /\ WORD \in Nat \ {0} /\ WORD % (8 * BLOCK) = 0

VARIABLES
  count,    (* bits until now, the low word first                          *)
  buffer,   (* the bytes of the block that is not full, and older ones     *)
  blocks,   (* the blocks that have been transformed                       *)
  final,    (* has MD5Final been called?                                   *)
  given     (* history: how many bytes have been given                     *)
md5Vars == <<count, buffer, blocks, final, given>>

Context == [count |-> count, buffer |-> buffer, blocks |-> blocks]

(* Bytes are told apart by where they come from: data, padding, length.    *)
ByteOf(kind, i, bits) == [of |-> kind, at |-> i, bits |-> bits]
Data(from, to) == [i \in 1 .. to - from |-> ByteOf("data", from + i, <<0, 0>>)]
Pad(n) == [i \in 1 .. n |-> ByteOf(IF i = 1 THEN "80" ELSE "00", 0, <<0, 0>>)]
Bits(bits) == [i \in 1 .. FIELD |-> ByteOf("length", i, bits)]

Index(c) == (c.count[1] \div 8) % BLOCK

(* MD5Update with its two additions to count, the carry and the high bits. *)
Counted(c, len) ==
  LET low == (c.count[1] + len * 8) % WORD
      carry == IF low < (len * 8) % WORD THEN 1 ELSE 0
  IN <<low, (c.count[2] + carry + len \div (WORD \div 8)) % WORD>>

(* memcpy(&buffer[at], input, ...) *)
Copied(buf, at, input) ==
  [i \in 1 .. BLOCK |-> IF i - at \in DOMAIN input THEN input[i - at] ELSE buf[i]]

MD5Update(c, input) ==
  LET index == Index(c)
      partLen == BLOCK - index
      more == IF Len(input) < partLen THEN 0 ELSE (Len(input) - partLen) \div BLOCK
      done == partLen + more * BLOCK
      first == Copied(c.buffer, index, SubSeq(input, 1, partLen))
  IN IF Len(input) < partLen
     THEN [count |-> Counted(c, Len(input)), buffer |-> Copied(c.buffer, index, input),
           blocks |-> c.blocks]
     ELSE [count |-> Counted(c, Len(input)),
           buffer |-> Copied(first, 0, SubSeq(input, done + 1, Len(input))),
           blocks |-> Append(c.blocks, first)
                      \o [i \in 1 .. more |->
                            SubSeq(input, partLen + (i - 1) * BLOCK + 1, partLen + i * BLOCK)]]

(* mutant: room for the length looked for one byte too far                 *)
PadLenTooShort(index) == IF index <= BLOCK - FIELD THEN BLOCK - FIELD - index ELSE 2 * BLOCK - FIELD - index
(* MD5Final: the length is taken before the padding is counted.            *)
PadLen(index) == IF index < BLOCK - FIELD THEN BLOCK - FIELD - index ELSE 2 * BLOCK - FIELD - index
MD5Final(c) == MD5Update(MD5Update(c, Pad(PadLen(Index(c)))), Bits(c.count))

Become(c) == count' = c.count /\ buffer' = c.buffer /\ blocks' = c.blocks

------------------------------------------------------------------------------
(* A caller (MDString, hmac_md5) gives its data in pieces, and ends.       *)
Update(n) ==
  /\ ~final /\ given + n <= MaxInput
  /\ Become(MD5Update(Context, Data(given, given + n)))
  /\ given' = given + n
  /\ UNCHANGED final

Final ==
  /\ ~final /\ final' = TRUE
  /\ Become(MD5Final(Context))
  /\ UNCHANGED given

(* MD5Init, which leaves the buffer as it finds it.                        *)
Md5Init ==
  /\ count = <<0, 0>> /\ blocks = <<>> /\ final = FALSE /\ given = 0
  /\ buffer = [i \in 1 .. BLOCK |-> ByteOf("old", 0, <<0, 0>>)]

Md5Next == Final \/ \E n \in Pieces : Update(n)
Md5Spec == Md5Init /\ [][Md5Next]_md5Vars

------------------------------------------------------------------------------
(* The padded message: the data, 80 and as few 00 as lead to the length,   *)
(* which is that of the data alone, cut into blocks.                       *)
BitLength(n) == <<(n * 8) % WORD, ((n * 8) \div WORD) % WORD>>
Zeros(n) == CHOOSE z \in 0 .. BLOCK - 1 : (n + 1 + z + FIELD) % BLOCK = 0
Padded(n) == Data(0, n) \o Pad(1 + Zeros(n)) \o Bits(BitLength(n))
InBlocks(data) == [i \in 1 .. Len(data) \div BLOCK |-> SubSeq(data, (i - 1) * BLOCK + 1, i * BLOCK)]

(* However the data was cut into pieces (lines 45-67), the blocks digested *)
(* are those of the whole message, padded, with its length in bits (lines  *)
(* 83-87), also when the count has run over into its second word.          *)
PiecesDoNotMatter ==
  blocks = InBlocks(IF final THEN Padded(given) ELSE Data(0, given))
==============================================================================
