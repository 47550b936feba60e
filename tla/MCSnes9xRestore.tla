--------------------------- MODULE MCSnes9xRestore --------------------------
(***************************************************************************)
(* Small saves for Snes9xRestore, built byte by byte the way an emulator    *)
(* writes them: two names, data that may be empty, hold a colon, or be a    *)
(* whole block themselves, and length fields in decimal or in binary.       *)
(***************************************************************************)
EXTENDS Snes9xRestore, SequencesExt

CONSTANT MaxBlocks

HeaderLine == SNES9X_MAGIC \o <<48, 48, 49, 50, Newline>>      \* "0012\n"

CPU == <<67, 80, 85>>
PPU == <<80, 80, 85>>

DecimalField(n) ==
  <<48, 48, 48, 48, 48 + (n \div 10), 48 + (n % 10)>>
BinaryField(n) == <<n, 0, 0, 0, 0, 0>>

Encode(b, field(_)) == b.name \o <<Colon>> \o field(Len(b.data)) \o <<Colon>> \o b.data

DataChoices ==
  { <<>>, <<Colon>>, <<7, 200>>,
    Encode([name |-> CPU, data |-> <<9>>], DecimalField) }

Logs ==
  BoundedSeq([name : {CPU, PPU}, data : DataChoices], MaxBlocks)

Saved(l, field(_)) ==
  LET bytes(k) == Encode(l[k], field)
      upto(k)  == FoldLeft(LAMBDA acc, i : acc \o bytes(i), HeaderLine,
                           [i \in 1..k |-> i])
  IN  [file   |-> upto(Len(l)),
       blocks |-> l,
       at     |-> [k \in 1..Len(l) + 1 |-> Len(upto(k - 1))]]

MCSaves ==
  {Saved(l, DecimalField) : l \in Logs} \cup {Saved(l, BinaryField) : l \in Logs}

LongestSave == Len(HeaderLine) + MaxBlocks * (HeaderLength + HeaderLength + 1)

MCFiles == {Slice(s.file, 0, c) : s \in MCSaves, c \in 0..LongestSave}
=============================================================================
