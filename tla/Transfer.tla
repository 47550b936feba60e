------------------------------ MODULE Transfer ------------------------------
(***************************************************************************)
(* What a console's state becomes on its way through an emulator's save,    *)
(* the canonical state and the state Mesen2 is given.  The console's state  *)
(* is the truth that the converters never see: an emulator saves it in its  *)
(* own form, one converter reads that form, the other writes Mesen2's.      *)
(***************************************************************************)
EXTENDS Timing, FieldMapping

CONSTANTS
  Moments   \* [line, overscan, pal, tim, regs]; tim: the save has block TIM

ASSUME MomentsAssumption ==
  \A m \in Moments :
    /\ m.line \in Nat /\ m.line < 65535   \* it is read from 16 bits
    /\ m.overscan \in BOOLEAN /\ m.pal \in BOOLEAN /\ m.tim \in BOOLEAN
    /\ m.regs \in RegisterValues

VARIABLES
  moment,   \* the console when it was saved
  emu,      \* the emulator that saves
  save,     \* what the save holds
  canon,    \* SnesState
  mesen,    \* the fields written
  pc

vars == <<moment, emu, save, canon, mesen, pc>>

Empty == [regs |-> <<>>, time |-> <<>>]

\* Snes9x saves on the first blank line, ZSNES on any line.
Init ==
  /\ moment \in Moments
  /\ emu \in {"snes9x", "zsnes"}
  /\ emu = "snes9x" => moment.line = FirstBlankLine(moment.overscan)
  /\ save = Empty /\ canon = Empty /\ mesen = Empty
  /\ pc = "save"

Step(from, to) == pc = from /\ pc' = to /\ UNCHANGED <<moment, emu>>

SaveSnes9x ==
  /\ emu = "snes9x" /\ Step("save", "convert")
  /\ save' = [regs |-> Snes9xRegisters(moment.regs),
              time |-> Snes9xTime(moment, moment.tim)]
  /\ UNCHANGED <<canon, mesen>>

SaveZsnes ==
  /\ emu = "zsnes" /\ Step("save", "convert")
  /\ save' = [regs |-> ZsnesRegisters(moment.regs), time |-> ZsnesTime(moment)]
  /\ UNCHANGED <<canon, mesen>>

ConvertSnes9x ==
  /\ emu = "snes9x" /\ Step("convert", "write")
  /\ canon' = [regs |-> FromSnes9x(save.regs), time |-> FromSnes9xTime(save.time)]
  /\ UNCHANGED <<save, mesen>>

ConvertZsnes ==
  /\ emu = "zsnes" /\ Step("convert", "write")
  /\ canon' = [regs |-> FromZsnes(save.regs), time |-> FromZsnesTime(save.time)]
  /\ UNCHANGED <<save, mesen>>

WriteMesen2 ==
  /\ Step("write", "done")
  /\ mesen' = [regs |-> ToMesen(canon.regs), time |-> MesenTime(canon.time)]
  /\ UNCHANGED <<save, canon>>

Next == SaveSnes9x \/ SaveZsnes \/ ConvertSnes9x \/ ConvertZsnes \/ WriteMesen2

Spec == Init /\ [][Next]_vars

-----------------------------------------------------------------------------
Written == pc = "done"

TypeOK ==
  /\ moment \in Moments
  /\ emu \in {"snes9x", "zsnes"}
  /\ pc \in {"save", "convert", "write", "done"}
  /\ pc \in {"write", "done"} =>
       /\ canon.time.scanline \in Nat /\ canon.time.is_pal \in BOOLEAN
       /\ canon.regs.vram_increment \in {1, 32, 128} /\ canon.regs.vram_remap \in 0..3
       /\ canon.regs.mosaic_size \in 1..16
       /\ canon.regs.fixed_color \in Nat /\ canon.regs.fixed_color < 32768

(* The clocks made up belong to one moment, that of the save: the master    *)
(* clock is that many lines and hClock into the line, up to the alignment   *)
(* by 8; the CPU stands there too; the line is past its DRAM refresh and    *)
(* not over before the next event; and the SPC has run for that time at its *)
(* own rate: a tenth to an eleventh of the master clock, or a twelfth to a  *)
(* thirteenth where the region was taken for PAL.                           *)
(* (mesen2/converter.py:81, "8-byte aligned", and :86 "so next event is     *)
(* EndOfScanline").                                                         *)
OneMoment ==
  Written =>
    LET t == mesen.time IN
      /\ t.scanline = moment.line
      /\ t.cycleCount = t.masterClock
      /\ t.masterClock \div H_PERIOD = moment.line
      /\ (t.masterClock % H_PERIOD) - t.hClock \in 0..7
      /\ t.dramRefresh + 40 <= t.hClock /\ t.hClock < t.nextEventClock
      /\ t.nextEventClock < H_PERIOD
      /\ LET slow == IF canon.time.is_pal THEN 13 ELSE 11 IN
           (slow - 1) * t.spcCycle <= t.masterClock
             /\ t.masterClock < slow * (t.spcCycle + 1)

(* The NMI flag of the state says whether its line is one of vertical       *)
(* blanking, for saves of both emulators and both heights of the picture;   *)
(* a game that polls it waits for a frame or misses one if it is wrong.     *)
NmiFlagTrue ==
  Written =>
    /\ mesen.time.overscanMode = moment.overscan
    /\ mesen.time.nmiFlag <=> mesen.time.scanline >= FirstBlankLine(moment.overscan)

(* A Snes9x save leads to a frame that has not ended, of the console's      *)
(* region where the save tells it, at the very start of its blanking.       *)
Snes9xFrame ==
  Written /\ emu = "snes9x" =>
    /\ mesen.time.vblankStart = FirstBlankLine(moment.overscan)
    /\ mesen.time.scanline = mesen.time.vblankStart
    /\ mesen.time.scanline < mesen.time.vblankEnd
    /\ moment.tim => mesen.time.vblankEnd = LinesOf(moment.pal) - 1

\* Addresses of video memory wrap after 32K words.
WrapLayer(x) == [x EXCEPT !.tilemap_addr = @ % 32768, !.chr_addr = @ % 32768]

Wrap(c) ==
  [c EXCEPT !.vram_addr = @ % 32768, !.oam_base_addr = @ % 32768,
            !.layers = [l \in Layer |-> WrapLayer(c.layers[l])]]

\* What does not come over: how Mode 7 is filled outside of its map, which
\* both converters get wrong (Mode7FillKept); and from ZSNES what the converter
\* takes no field of the save for.
Lost ==
  {"fill_with_tile0"}
    \cup IF emu = "zsnes"
         THEN {"hi_res", "obj_interlace", "ext_bg"}
                \cup IF moment.regs.obsel >= 192 THEN {"oam_mode"} ELSE {}
         ELSE {}

(* Every field made of registers but the lost ones, saved by either         *)
(* emulator, converted and written, means what the registers meant to the   *)
(* console, addresses wrapping as its memory does: decoding and decoding    *)
(* again cancel out, and no mask of the writer cuts anything.  These are    *)
(* the conversions listed in README.md:95, :97 and :98, and more.           *)
RegistersKept ==
  Written =>
    LET is == Wrap(mesen.regs)  was == Meaning(moment.regs) IN
      /\ DOMAIN is = DOMAIN was
      /\ \A f \in DOMAIN is \ Lost : is[f] = was[f]

-----------------------------------------------------------------------------
(* What the repository says of a converted state and the code does not do.  *)

\* Vertical blanking begins where the picture ends (mesen2/converter.py:79,
\* "typically 225 or 240").
BlankingBegins == mesen.time.vblankStart = FirstBlankLine(moment.overscan)

\* The line belongs to its frame, which a PAL console makes of 312 lines
\* (README.md:62, "consistent Mesen2 timing state").
LineWithinFrame == mesen.time.scanline <= mesen.time.vblankEnd

\* Mode 7 shows tile 0 outside of its map if the game asked for that
\* (state.py:5, "Register values match the hardware encoding").
Mode7FillKept ==
  mesen.regs.fill_with_tile0 = Meaning(moment.regs).fill_with_tile0

\* The flag that says which half of a word moves the VRAM address on is
\* inverted (README.md:96, "ZSNES inverted VRAM increment direction flag").
IncrementInverted ==
  mesen.regs.vram_incr_on_high = ~Bit(save.regs.vraminctype, 7)

\* The canonical VRAM address (state.py:73, "word address (0-0x7FFF)").
VramAddressInRange == canon.regs.vram_addr \in 0..32767

\* The canonical size of objects (state.py:80, "size select (0-5)").
ObjectSizeInRange == canon.regs.oam_mode \in 0..5

(* What comments and the README say of a state made of a ZSNES save.        *)
ZsnesAsDocumented ==
  Written /\ emu = "zsnes" =>
    BlankingBegins /\ LineWithinFrame /\ Mode7FillKept /\ IncrementInverted

(* What comments say of a state made of a Snes9x save.                      *)
Snes9xAsDocumented ==
  Written /\ emu = "snes9x" =>
    Mode7FillKept /\ VramAddressInRange /\ ObjectSizeInRange
=============================================================================
