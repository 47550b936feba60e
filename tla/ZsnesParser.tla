---------------------------- MODULE ZsnesParser -----------------------------
(***************************************************************************)
(* parse_zsnes cuts a flat dump into sections by adding up sizes.  Nothing  *)
(* in the file marks a section, so one wrong step shifts everything after   *)
(* it.  The module runs the reader's offset over a dump whose true layout   *)
(* it knows, and records for every section the range the reader took.       *)
(*                                                                          *)
(* Data are ranges of positions: a section is <<from, to>>, to excluded.    *)
(***************************************************************************)
EXTENDS Integers, Sequences

CONSTANTS
  SramSizes,   \* sizes of battery RAM a cartridge may have
  ChipSizes,   \* bytes an expansion chip adds to the dump; 0 without a chip
  Cuts         \* how many bytes may be missing at the end of the dump

ASSUME ZsnesAssumption ==
  SramSizes \subseteq Nat /\ ChipSizes \subseteq Nat /\ Cuts \subseteq Nat

PH65816REGSIZE  == 36
SPC_TIMER_SIZE  == 8
PPU_REG_SIZE    == 3019
WRAM_SIZE       == 131072
VRAM_SIZE       == 65536
PH_SPCSAVE      == 65856
PH_DSPSAVE      == 1068
DSP_MEM_SIZE    == 256
EXTRA_DATA_SIZE == 220

\* One past the last byte of the SPC section that is read by index, which
\* raises when it is missing: registers at 65552 (nine of four bytes), four
\* ports, the timer enable, three targets, three ticks.
SpcIndexed == 65552 + 9 * 4 + 4 + 1 + 3 + 3

-----------------------------------------------------------------------------
(* What ZSNES wrote.                                                        *)

Save ==
  [version : {"143", "060"},
   form    : {"raw", "flagged", "deflated"},
   spcon   : BOOLEAN,
   chips   : ChipSizes,
   sram    : SramSizes]

\* The sections of a dump, with their sizes; zero for one that the save has not.
Sections == {"cpu", "timers", "ppu", "wram", "vram", "spc", "dsp", "dspmem",
             "chips", "extra", "sram"}

SizeIn(s) ==
  [cpu    |-> PH65816REGSIZE,
   timers |-> SPC_TIMER_SIZE,
   ppu    |-> PPU_REG_SIZE,
   wram   |-> WRAM_SIZE,
   vram   |-> VRAM_SIZE,
   spc    |-> IF s.spcon THEN PH_SPCSAVE ELSE 0,
   dsp    |-> IF s.spcon THEN PH_DSPSAVE ELSE 0,
   dspmem |-> IF s.spcon THEN DSP_MEM_SIZE ELSE 0,
   chips  |-> s.chips,
   extra  |-> IF s.version = "143" THEN EXTRA_DATA_SIZE ELSE 0,
   sram   |-> s.sram]

\* Where the sections of a dump start, and where it ends.
At(s) ==
  LET z   == SizeIn(s)
      ppu == z.cpu + z.timers
      spc == ppu + z.ppu + z.wram + z.vram
      chp == spc + z.spc + z.dsp + z.dspmem
  IN  [cpu    |-> 0,
       timers |-> z.cpu,
       ppu    |-> ppu,
       wram   |-> ppu + z.ppu,
       vram   |-> ppu + z.ppu + z.wram,
       spc    |-> spc,
       dsp    |-> spc + z.spc,
       dspmem |-> spc + z.spc + z.dsp,
       chips  |-> chp,
       extra  |-> chp + z.chips,
       sram   |-> chp + z.chips + z.extra,
       end    |-> chp + z.chips + z.extra + z.sram]

Truth(s, n) == <<At(s)[n], At(s)[n] + SizeIn(s)[n]>>
Total(s)    == At(s).end

-----------------------------------------------------------------------------
VARIABLES
  save,     \* what was saved
  length,   \* len(data): the dump, after a truncation of the file
  version,  \* ZsnesState.version
  o,        \* the reader's offset into data
  got,      \* section -> the range taken for it, for the sections kept
  pc        \* the next section to read, "done" or "failed"

vars == <<save, length, version, o, got, pc>>

Init ==
  /\ save \in Save
  /\ \E c \in Cuts : length = IF c <= Total(save) THEN Total(save) - c ELSE 0
  /\ version = "143"
  /\ o = 0
  /\ got = [n \in {} |-> <<0, 0>>]
  /\ pc = "unwrap"

\* Mutant: the end of the data is not minded.
SliceUnclipped(a, b) == <<a, b>>

\* data[a : b]
Slice(a, b) ==
  LET clip(x) == IF x <= length THEN x ELSE length IN <<clip(a), clip(b)>>

Keep(n, range) ==
  got' = [m \in DOMAIN got \cup {n} |-> IF m = n THEN range ELSE got[m]]

Fail == pc' = "failed" /\ UNCHANGED <<version, o, got>>

\* Lines 96-116: the header says the version; a flagged dump must be v1.43,
\* and a deflated one, which has no header, is taken for v1.43.  A deflated
\* stream that was cut does not inflate.
Unwrap ==
  /\ pc = "unwrap"
  /\ \/ /\ save.form = "raw"
        /\ version' = save.version /\ pc' = "cpu"
        /\ UNCHANGED <<o, got>>
     \/ /\ save.form = "flagged" /\ save.version = "143"
        /\ version' = "143" /\ pc' = "cpu"
        /\ UNCHANGED <<o, got>>
     \/ /\ save.form = "flagged" /\ save.version # "143"
        /\ Fail
     \/ /\ save.form = "deflated" /\ length = Total(save)
        /\ version' = "143" /\ pc' = "cpu"
        /\ UNCHANGED <<o, got>>
     \/ /\ save.form = "deflated" /\ length < Total(save)
        /\ Fail
  /\ UNCHANGED <<save, length>>

\* Mutant: the SPC timers are not skipped.
ReadCpuOnly ==
  /\ pc = "cpu"
  /\ IF length < PH65816REGSIZE THEN Fail
     ELSE /\ Keep("cpu", Slice(o, o + PH65816REGSIZE))
          /\ o' = o + PH65816REGSIZE
          /\ pc' = "ppu"
          /\ UNCHANGED version
  /\ UNCHANGED <<save, length>>

\* Byte 35 is the last of the registers read by index.
ReadCpu ==
  /\ pc = "cpu"
  /\ IF length < PH65816REGSIZE THEN Fail
     ELSE /\ Keep("cpu", Slice(o, o + PH65816REGSIZE))
          /\ o' = o + PH65816REGSIZE + SPC_TIMER_SIZE   \* timers are skipped
          /\ pc' = "ppu"
          /\ UNCHANGED version
  /\ UNCHANGED <<save, length>>

\* A section that is taken as a slice, however short.
ReadSlice(n, size, next) ==
  /\ pc = n
  /\ Keep(n, Slice(o, o + size))
  /\ o' = o + size
  /\ pc' = next
  /\ UNCHANGED <<save, length, version>>

ReadPpu  == ReadSlice("ppu", PPU_REG_SIZE, "wram")
ReadWram == ReadSlice("wram", WRAM_SIZE, "vram")
ReadVram == ReadSlice("vram", VRAM_SIZE, IF save.spcon THEN "spc" ELSE "extra")

\* Mutant: the registers are read through slices too.
ReadSpcSliced == ReadSlice("spc", PH_SPCSAVE, "dsp")

\* The registers behind the RAM are read by index, so a short block raises.
ReadSpc ==
  IF pc = "spc" /\ length < o + SpcIndexed
  THEN Fail /\ UNCHANGED <<save, length>>
  ELSE ReadSlice("spc", PH_SPCSAVE, "dsp")

ReadDsp    == ReadSlice("dsp", PH_DSPSAVE, "dspmem")
ReadDspMem == ReadSlice("dspmem", DSP_MEM_SIZE, "extra")

\* Mutant: < for <=.
ReadExtraInside ==
  /\ pc = "extra"
  /\ IF version = "143" /\ o + EXTRA_DATA_SIZE < length
     THEN /\ Keep("extra", Slice(o, o + EXTRA_DATA_SIZE))
          /\ o' = o + EXTRA_DATA_SIZE
     ELSE UNCHANGED <<got, o>>
  /\ pc' = "sram"
  /\ UNCHANGED <<save, length, version>>

\* Mutant: the extra data are taken and the offset stays.
ReadExtraInPlace ==
  /\ pc = "extra"
  /\ IF version = "143" /\ o + EXTRA_DATA_SIZE <= length
     THEN Keep("extra", Slice(o, o + EXTRA_DATA_SIZE))
     ELSE UNCHANGED got
  /\ pc' = "sram"
  /\ UNCHANGED <<save, length, version, o>>

\* Lines 203-210.  Chip blocks are not parsed and not stepped over.
ReadExtra ==
  /\ pc = "extra"
  /\ IF version = "143" /\ o + EXTRA_DATA_SIZE <= length
     THEN /\ Keep("extra", Slice(o, o + EXTRA_DATA_SIZE))
          /\ o' = o + EXTRA_DATA_SIZE
     ELSE UNCHANGED <<got, o>>
  /\ pc' = "sram"
  /\ UNCHANGED <<save, length, version>>

\* Whatever is left.
ReadSram ==
  /\ pc = "sram"
  /\ IF o < length THEN Keep("sram", <<o, length>>) ELSE UNCHANGED got
  /\ pc' = "done"
  /\ UNCHANGED <<save, length, version, o>>

Next ==
  \/ Unwrap \/ ReadCpu \/ ReadPpu \/ ReadWram \/ ReadVram \/ ReadSpc
  \/ ReadDsp \/ ReadDspMem \/ ReadExtra \/ ReadSram

Spec == Init /\ [][Next]_vars

-----------------------------------------------------------------------------
TypeOK ==
  /\ save \in Save
  /\ length \in 0..Total(save)
  /\ version \in {"143", "060"}
  /\ o \in Nat
  /\ \A n \in DOMAIN got : got[n][1] \in 0..length /\ got[n][2] \in 0..length
  /\ pc \in {"unwrap", "done", "failed"} \cup Sections

\* What a range keeps when the dump ends at position l.
Left(range, l) ==
  LET clip(x) == IF x <= l THEN x ELSE l IN <<clip(range[1]), clip(range[2])>>

(* Up to the sound sections no cut shifts anything: each of them is taken   *)
(* from where it was written, short only by what is missing from the file,  *)
(* whether the save has sound or not.                                       *)
CoreInPlace ==
  \A n \in DOMAIN got \ {"extra", "sram"} : got[n] = Left(Truth(save, n), length)

(* The ways a save names its version, or loses it, that the reader follows: *)
(* for these, a complete save without an expansion chip has its battery RAM *)
(* read back exactly, and no RAM is made up for a cartridge without any.    *)
VersionKnown == save.form # "deflated" \/ save.version = "143"

SramExact ==
  pc = "done" /\ length = Total(save) /\ save.chips = 0 /\ VersionKnown =>
    IF save.sram = 0 THEN "sram" \notin DOMAIN got
    ELSE "sram" \in DOMAIN got /\ got["sram"] = Truth(save, "sram")

(* A save with sound that was cut before the end of the SPC registers is    *)
(* never converted in silence; without sound, one cut in the CPU registers. *)
CutIsNoticed ==
  pc = "done" =>
    LET needed == IF save.spcon THEN At(save).spc + SpcIndexed
                  ELSE PH65816REGSIZE
    IN  length >= needed

(* A cut never moves battery RAM: what is returned as such ends where the   *)
(* file ends and starts no earlier than the section before it ended, or     *)
(* holds a part of the extra section that was too short to be taken.        *)
CutSramIsTail ==
  pc = "done" /\ "sram" \in DOMAIN got =>
    /\ got["sram"][2] = length
    /\ got["sram"][1] >= At(save).chips
    /\ "extra" \in DOMAIN got => got["sram"][1] = got["extra"][2]

(* README.md:17 lists v0.60 among the zlib-compressed saves, and README.md  *)
(* says SRAM is fully mapped.                                               *)
DocumentedSramExact ==
  pc = "done" /\ length = Total(save) /\ save.chips = 0 /\ save.sram > 0 =>
    "sram" \in DOMAIN got /\ got["sram"] = Truth(save, "sram")
=============================================================================
