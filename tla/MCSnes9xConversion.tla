------------------------- MODULE MCSnes9xConversion -------------------------
(***************************************************************************)
(* Saves with up to two chips, whose blocks are whole or cut, and one core  *)
(* block missing, cut or only just long enough.                             *)
(***************************************************************************)
EXTENDS Snes9xConversion

MCVersions == {6, 7, 11}

Whole(b, v) == Size(LayoutOf(b, v))

\* Lengths of a block that is there.
LengthsOf(b, v) ==
  {Whole(b, v), NeededBy[b, v]} \cup ({NeededBy[b, v] - 1} \cap Nat)

WholeCore(v) == [b \in ToSet(Core) |-> Whole(b, v)]

\* At most one core block is not whole.
Cores(v) ==
  {WholeCore(v), [b \in {} |-> 0]}
    \cup {[b \in ToSet(Core) \ {c} |-> Whole(b, v)] : c \in ToSet(Core)}
    \cup UNION {{[WholeCore(v) EXCEPT ![c] = n] : n \in LengthsOf(c, v)} : c \in ToSet(Core)}

ChipBlockNames == Decoded \ ToSet(Core)
ChipSets == {{}} \cup {{b, c} : b, c \in ChipBlockNames}
                 \cup {{"SA1", "SAR", c} : c \in ChipBlockNames}

\* Whole blocks, or one of them cut.
ChipLengths(s, v) ==
  LET whole == [b \in s |-> Whole(b, v)] IN
  {whole} \cup {[whole EXCEPT ![c] = IF NeededBy[c, v] = 0 THEN 0 ELSE NeededBy[c, v] - 1] : c \in s}

\* SRA and CLK are companions of some chips; CLK holds 16 bytes or fewer.
Companions(s) ==
  {[b \in {} |-> 0]}
    \cup (IF "SFX" \in s \/ "CX4" \in s THEN {[b \in {"SRA"} |-> 8192]} ELSE {})
    \cup (IF "S71" \in s THEN {[b \in {"CLK"} |-> n] : n \in {0, 15, 16, 20}} ELSE {})

Clocks(s) ==
  IF "S71" \notin s THEN {[mode |-> 0, index |-> 0]}
  ELSE {[mode |-> m, index |-> i] : m \in {-32769, -1, 32767}, i \in {0, 32767, 32768}}

Save(v, parts, rtc) == [version |-> v, blocks |-> parts, rtc |-> rtc]

\* The core varies without chips, and the chips vary on a whole core.
MCFiles ==
  UNION {{Save(v, c, [mode |-> 0, index |-> 0]) : c \in Cores(v)} : v \in MCVersions}
    \cup UNION {UNION {
      {Save(v, WholeCore(v) @@ p @@ q, r) :
         p \in ChipLengths(s, v), q \in Companions(s), r \in Clocks(s)} :
      s \in ChipSets} : v \in MCVersions}

\* An undamaged save of a cartridge with SA-1, patched for MSU-1.
MCSa1Files ==
  {Save(7, WholeCore(7) @@ [b \in {"SA1", "SAR", "MSU"} |-> Whole(b, 7)],
        [mode |-> 0, index |-> 0])}
=============================================================================
