---------------------------- MODULE Snes9xParser ----------------------------
(***************************************************************************)
(* The block reader of snes9x/parser.py: parse_snes9x after the optional    *)
(* gzip layer has been removed.  The function is a loop over a byte string  *)
(* that trusts the length field of every block it meets; one iteration of   *)
(* the loop is one action.                                                  *)
(*                                                                          *)
(* Positions count from 0, as in the code: the byte at position p >= 0 is   *)
(* raw[p + 1], and a negative position counts from the end of the file.     *)
(***************************************************************************)
EXTENDS Integers, Sequences, FiniteSets

CONSTANT Files   \* the decompressed byte strings parse_snes9x may be given

Byte == 0..255

ASSUME FilesAssumption == Files \subseteq Seq(Byte)

SNES9X_MAGIC == <<35, 33, 115, 57, 120, 115, 110, 112, 58>>   \* "#!s9xsnp:"
Colon      == 58
Newline    == 10
Plus       == 43
Minus      == 45
Underscore == 95
Digit      == 48..57
Ascii      == 0..127

IntBlank   == (9..13) \cup {32}         \* what int() skips around a number
StripBlank == IntBlank \cup (28..31)    \* what str.strip takes away

NameLength   == 3
LengthField  == 6
HeaderLength == NameLength + 1 + LengthField + 1   \* "NAM:LLLLLL:"

-----------------------------------------------------------------------------
(* Reading bytes the way Python slices do.                                  *)

\* A negative index counts from the end; none leads out of the string.
Index(s, i) ==
  IF i < 0 THEN (IF i + Len(s) < 0 THEN 0 ELSE i + Len(s))
           ELSE (IF i <= Len(s) THEN i ELSE Len(s))

\* s[i:j]: never an error, silently shorter past either end.
Slice(s, i, j) == SubSeq(s, Index(s, i) + 1, Index(s, j))

\* i < len(s) and s[i:i+1] == b":"
ColonAt(s, i) == i < Len(s) /\ Slice(s, i, i + 1) = <<Colon>>

AllIn(s, S) == \A i \in 1..Len(s) : s[i] \in S

(***************************************************************************)
(* Numbers as int() reads them: blanks around a sign and digits, and single *)
(* underscores between digits.                                              *)
(***************************************************************************)

\* s[a..b] is all of s but the blanks around it.
Text(s, blank, a, b) ==
  /\ a <= b
  /\ s[a] \notin blank /\ s[b] \notin blank
  /\ \A i \in 1..Len(s) : i < a \/ b < i => s[i] \in blank

Signed(s, a) == s[a] \in {Plus, Minus}

\* int() reads s[a..b].
Numeral(s, a, b) ==
  LET first == IF Signed(s, a) THEN a + 1 ELSE a IN
  /\ first <= b
  /\ s[first] \in Digit /\ s[b] \in Digit
  /\ \A i \in first..b :
       \/ s[i] \in Digit
       \/ s[i] = Underscore /\ s[i - 1] \in Digit /\ s[i + 1] \in Digit

IsDecimal(s, blank) ==
  \E a, b \in 1..Len(s) : Text(s, blank, a, b) /\ Numeral(s, a, b)

Digits(s) == {i \in 1..Len(s) : s[i] \in Digit}

\* The digits that stand before exactly k others: the one that counts 10^k.
AtPower(s, k) ==
  {i \in Digits(s) : Cardinality({j \in Digits(s) : j > i}) = k}

DigitOf(s, k) ==
  IF AtPower(s, k) = {} THEN 0 ELSE s[CHOOSE i \in AtPower(s, k) : TRUE] - 48

\* The value without its sign.  A length field has at most six digits; what
\* a longer version has above them is one large number.
Magnitude(s) ==
  DigitOf(s, 0) + 10 * DigitOf(s, 1) + 100 * DigitOf(s, 2)
    + 1000 * DigitOf(s, 3) + 10000 * DigitOf(s, 4) + 100000 * DigitOf(s, 5)
    + (IF Cardinality(Digits(s)) > LengthField THEN 1000000 ELSE 0)

Decimal(s) ==
  IF \E i \in 1..Len(s) : s[i] = Minus THEN -Magnitude(s) ELSE Magnitude(s)

\* int.from_bytes(s, "little").  A file is far shorter than 2^24 bytes, so
\* whatever the bytes above the third add to the value is one large number.
ByteOf(s, k) == IF k < Len(s) THEN s[k + 1] ELSE 0

LittleEndian(s) ==
  ByteOf(s, 0) + 256 * ByteOf(s, 1) + 65536 * ByteOf(s, 2)
    + (IF \E k \in 3..5 : ByteOf(s, k) # 0 THEN 16777216 ELSE 0)

\* The length a block header announces: decimal text, else binary.  Text may
\* carry a sign, so the length may be negative.
BlockLength(s) ==
  IF IsDecimal(s, IntBlank) THEN Decimal(s) ELSE LittleEndian(s)

-----------------------------------------------------------------------------
(* What the loop sees at position p.                                        *)

NameAt(s, p)   == Slice(s, p, p + NameLength)
LengthAt(s, p) == BlockLength(Slice(s, p + NameLength + 1,
                                       p + NameLength + 1 + LengthField))
DataAt(s, p)   == Slice(s, p + HeaderLength, p + HeaderLength + LengthAt(s, p))

FitsName(s, p)  == p + NameLength <= Len(s)
\* Mutant: the name is decoded with a codec that takes every byte.
ReadableAnything(s, p) == FitsName(s, p)

Readable(s, p)  == FitsName(s, p) /\ AllIn(NameAt(s, p), Ascii)
BlockAt(s, p) ==
  /\ Readable(s, p)
  /\ ColonAt(s, p + NameLength)
  /\ ColonAt(s, p + NameLength + 1 + LengthField)

\* The first line: magic, decimal version, newline at position n.
FirstNewline(s, n) ==
  /\ n < Len(s) /\ s[n + 1] = Newline
  /\ \A i \in 0..n - 1 : s[i + 1] # Newline

HeaderAt(s, n) ==
  /\ Slice(s, 0, Len(SNES9X_MAGIC)) = SNES9X_MAGIC
  /\ FirstNewline(s, n)
  /\ IsDecimal(Slice(s, Len(SNES9X_MAGIC), n), StripBlank)

\* Mutant: dict.setdefault, the first block of a name stays.
PutFirst(d, k, v) ==
  [n \in DOMAIN d \cup {k} |-> IF n = k /\ k \notin DOMAIN d THEN v ELSE d[n]]

\* d[k] = v on a dict
Put(d, k, v) ==
  [n \in DOMAIN d \cup {k} |-> IF n = k THEN v ELSE d[n]]

-----------------------------------------------------------------------------
VARIABLES
  raw,      \* the file, read once
  version,  \* Snes9xState.version
  blocks,   \* Snes9xState.blocks: a dict from name to data
  pos,      \* the loop's position in raw
  pc        \* "header", "loop", "done" (returned) or "failed" (raised)

vars == <<raw, version, blocks, pos, pc>>

Init ==
  /\ raw \in Files
  /\ version = 0
  /\ blocks = [n \in {} |-> <<>>]
  /\ pos = 0
  /\ pc = "header"

\* Lines 27-38: the header line is accepted and skipped.
ReadHeader ==
  /\ pc = "header"
  /\ \E n \in 0..Len(raw) - 1 :
       /\ HeaderAt(raw, n)
       /\ version' = Decimal(Slice(raw, Len(SNES9X_MAGIC), n))
       /\ pos' = n + 1
  /\ pc' = "loop"
  /\ UNCHANGED <<raw, blocks>>

\* Wrong magic, no newline, or a version int() refuses: ValueError.
RejectHeader ==
  /\ pc = "header"
  /\ \A n \in 0..Len(raw) - 1 : ~HeaderAt(raw, n)
  /\ pc' = "failed"
  /\ UNCHANGED <<raw, version, blocks, pos>>

\* Mutant: the second colon is not stepped over before the data are taken.
StoreBlockWithColon ==
  /\ pc = "loop"
  /\ BlockAt(raw, pos)
  /\ LET start == pos + HeaderLength - 1
     IN  /\ blocks' = Put(blocks, NameAt(raw, pos),
                          Slice(raw, start, start + LengthAt(raw, pos)))
         /\ pos' = start + LengthAt(raw, pos)
  /\ UNCHANGED <<raw, version, pc>>

\* Mutant: the next position is counted from the block's, without its header.
StoreBlockInPlace ==
  /\ pc = "loop"
  /\ BlockAt(raw, pos)
  /\ blocks' = Put(blocks, NameAt(raw, pos), DataAt(raw, pos))
  /\ pos' = pos + LengthAt(raw, pos)
  /\ UNCHANGED <<raw, version, pc>>

\* One whole iteration: the block is stored under its name, replacing an
\* earlier one, and the announced length is added to the position, which a
\* negative one takes back.
StoreBlock ==
  /\ pc = "loop"
  /\ BlockAt(raw, pos)
  /\ blocks' = Put(blocks, NameAt(raw, pos), DataAt(raw, pos))
  /\ pos' = pos + HeaderLength + LengthAt(raw, pos)
  /\ UNCHANGED <<raw, version, pc>>

\* Mutant: a name that the end of the file cuts is an error as well.
BadNameOrCut ==
  /\ pc = "loop"
  /\ ~Readable(raw, pos)
  /\ pc' = "failed"
  /\ UNCHANGED <<raw, version, blocks, pos>>

\* A name that is not ASCII is decoded before the first colon is tested:
\* UnicodeDecodeError leaves the function.
BadName ==
  /\ pc = "loop"
  /\ FitsName(raw, pos)
  /\ ~Readable(raw, pos)
  /\ pc' = "failed"
  /\ UNCHANGED <<raw, version, blocks, pos>>

\* The end of the file, or a place where no block header stands: the loop
\* ends and what was stored so far is returned.
Leave ==
  /\ pc = "loop"
  /\ FitsName(raw, pos) => Readable(raw, pos)
  /\ ~BlockAt(raw, pos)
  /\ pc' = "done"
  /\ UNCHANGED <<raw, version, blocks, pos>>

Next == ReadHeader \/ RejectHeader \/ StoreBlock \/ BadName \/ Leave

\* A sequential function: it runs on as long as it has a step to take.
Spec == Init /\ [][Next]_vars /\ WF_vars(Next)

-----------------------------------------------------------------------------
(* The dict maps ASCII names to byte strings.  The last block may carry the *)
(* position past the end of the file, a negative length to before its first *)
(* byte.                                                                    *)
TypeOK ==
  /\ raw \in Seq(Byte)
  /\ version \in Int
  /\ DOMAIN blocks \subseteq Seq(Ascii)
  /\ blocks \in [DOMAIN blocks -> Seq(Byte)]
  /\ pos \in Int
  /\ pc \in {"header", "loop", "done", "failed"}

\* Somewhere in the file stands a block header with a negative length.
GoesBack == \E p \in 0..Len(raw) - 1 : BlockAt(raw, p) /\ LengthAt(raw, p) < 0

\* Block n was stored from the header at position p.
StoredFrom(n, p) ==
  /\ BlockAt(raw, p)
  /\ NameAt(raw, p) = n
  /\ DataAt(raw, p) = blocks[n]

\* Where a slice of HeaderLength bytes may still hold one.
Positions == -(Len(raw) + HeaderLength)..Len(raw) - 1

(* Whatever lengths a file announces, every block returned has its name and *)
(* its data from one header of the file: no block gets a name the file does *)
(* not give it, or data other than its own header delimits.  And where no   *)
(* length is negative, the blocks were taken from the front to the back:    *)
(* each stands before the loop's position, its data included.               *)
Attribution ==
  /\ \A n \in DOMAIN blocks : \E p \in Positions : StoredFrom(n, p)
  /\ ~GoesBack =>
       /\ pos >= 0
       /\ \A n \in DOMAIN blocks :
            \E p \in 0..pos - 1 :
              StoredFrom(n, p) /\ p + HeaderLength + LengthAt(raw, p) <= pos

(* A turn of the loop moves at least one block header on, so a block of     *)
(* length zero cannot stop it, unless the length it has read is negative    *)
(* (lines 52-62); and it changes the dict at most under the name that       *)
(* stands at the position it started from.                                  *)
LoopAdvances ==
  [][ pc = "loop" /\ pc' = "loop" =>
        /\ LengthAt(raw, pos) >= 0 => pos' >= pos + HeaderLength
        /\ \A n \in DOMAIN blocks \ {NameAt(raw, pos)} :
             n \in DOMAIN blocks' /\ blocks'[n] = blocks[n] ]_vars

(* parse_snes9x returns or raises on every file without a negative length.  *)
Terminates == ~GoesBack => <>(pc \in {"done", "failed"})

(* "Read a snes9x save state file and split it into named blocks"           *)
(* (parser.py:17), whatever the file: the function comes to an end.  A      *)
(* length field damaged into "-00022" sends the loop back (line 62).        *)
EndsOnEveryFile == <>(pc \in {"done", "failed"})
=============================================================================
