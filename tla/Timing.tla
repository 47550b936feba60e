------------------------------- MODULE Timing -------------------------------
(***************************************************************************)
(* The time of a state.  A save says on which scanline the console stood;   *)
(* Mesen2 wants clocks: of the master, of the CPU, of the SPC, inside the   *)
(* line, and the next event.  The converters read the first, the Mesen2     *)
(* converter makes up the second, so that they belong to one moment.        *)
(*                                                                          *)
(* A moment of the console is [line, overscan, pal].                        *)
(***************************************************************************)
EXTENDS Integers

\* The console: vertical blanking begins on line 225, or 240 with overscan,
\* and a frame has 262 lines, or 312 in PAL.
FirstBlankLine(overscan) == IF overscan THEN 240 ELSE 225
LinesOf(pal)             == IF pal THEN 312 ELSE 262

-----------------------------------------------------------------------------
(* What the emulators save of a moment.                                     *)

\* Snes9x: bit 2 of $2133, and V_Max_Master of block TIM, which reads as zero
\* when the block is missing.  It saves at the end of a frame.
Snes9xTime(m, tim) ==
  [overscan |-> m.overscan, V_Max_Master |-> IF tim THEN LinesOf(m.pal) ELSE 0]

\* ZSNES: the line, and the number of visible lines.
ZsnesTime(m) ==
  [curypos |-> m.line, resolutn |-> IF m.overscan THEN 239 ELSE 224]

-----------------------------------------------------------------------------
(* TimingState and nmi_flag of the canonical state.                         *)

\* Mutant: the line is that of a picture without overscan.
FromSnes9xTimePlain(s) ==
  [scanline |-> 225, is_pal |-> s.V_Max_Master > 262, overscan |-> s.overscan,
   nmi_flag |-> TRUE]

FromSnes9xTime(s) ==
  [scanline |-> FirstBlankLine(s.overscan),
   is_pal   |-> s.V_Max_Master > 262,
   overscan |-> s.overscan,
   nmi_flag |-> TRUE]

\* Mutant: the NMI flag is compared with the line of a plain picture.
FromZsnesTimePlain(s) ==
  [scanline |-> s.curypos, is_pal |-> s.resolutn > 262,
   overscan |-> s.resolutn > 224, nmi_flag |-> s.curypos >= 225]

FromZsnesTime(s) ==
  [scanline |-> s.curypos,
   is_pal   |-> s.resolutn > 262,
   overscan |-> s.resolutn > 224,
   nmi_flag |-> s.curypos >= FirstBlankLine(s.resolutn > 224)]

-----------------------------------------------------------------------------
(* The clocks Mesen2 is given.                                              *)

H_PERIOD == 1364

\* a * 68352 \div 715909 in numbers of 32 bits: 68352/715909 is the NTSC ratio
\* 2050560/21477270 in lowest terms.
NtscSpc(a) ==
  LET q == a \div 715909
      r == a % 715909
      t == (r \div 32) * 68352
  IN  q * 68352 + 32 * (t \div 715909)
        + (32 * (t % 715909) + (r % 32) * 68352) \div 715909

\* PAL: 2050560/24607104 = 5340/64081.
PalSpc(a) == (a \div 64081) * 5340 + ((a % 64081) * 5340) \div 64081

\* Mutant: NTSC's ratio for every console.
SpcCyclesNtsc(clock, pal) == NtscSpc(clock)

SpcCycles(clock, pal) == IF pal THEN PalSpc(clock) ELSE NtscSpc(clock)

U16(x) == x % 65536

\* Mutant: the line's clock is left out of the master clock.
MesenTimeWithoutLine(t) ==
  LET aligned == ((t.scanline * H_PERIOD + 7) \div 8) * 8
      dram    == 538 - (aligned % 8)
  IN  [masterClock   |-> aligned,
       cycleCount    |-> aligned,
       spcCycle      |-> SpcCycles(aligned, t.is_pal),
       hClock        |-> dram + 40,
       dramRefresh   |-> dram,
       nextEventClock |-> 1360,
       scanline      |-> U16(t.scanline),
       vblankStart   |-> U16(t.scanline),
       nmiScanline   |-> U16(t.scanline + 1),
       vblankEnd     |-> IF t.is_pal THEN 311 ELSE 261,
       overscanMode  |-> t.overscan,
       nmiFlag       |-> t.nmi_flag]

\* The master clock is aligned to 8 and then moved behind the DRAM refresh
\* of the line, so that the next event is the end of the line.
MesenTime(t) ==
  LET aligned == ((t.scanline * H_PERIOD + 7) \div 8) * 8
      dram    == 538 - (aligned % 8)
      clock   == aligned + dram + 40
  IN  [masterClock    |-> clock,
       cycleCount     |-> clock,
       spcCycle       |-> SpcCycles(clock, t.is_pal),
       hClock         |-> U16(dram + 40),
       dramRefresh    |-> U16(dram),
       nextEventClock |-> 1360,
       scanline       |-> U16(t.scanline),
       vblankStart    |-> U16(t.scanline),
       nmiScanline    |-> U16(t.scanline + 1),
       vblankEnd      |-> IF t.is_pal THEN 311 ELSE 261,
       overscanMode   |-> t.overscan,
       nmiFlag        |-> t.nmi_flag]
=============================================================================
