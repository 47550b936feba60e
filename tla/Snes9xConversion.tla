-------------------------- MODULE Snes9xConversion --------------------------
(***************************************************************************)
(* From the blocks of a Snes9x save to the sections of a Mesen2 state:      *)
(* snes9x/converter.convert decodes the core blocks, taking zeros for those *)
(* that are missing, and one expansion chip; mesen2/converter.convert then  *)
(* writes the sections in the order in which Mesen2 reads them.             *)
(*                                                                          *)
(* A block is represented by its length, which decides whether its decoder  *)
(* raises (module BlockDecoder), and a section by the prefix of its keys.   *)
(***************************************************************************)
EXTENDS Snes9xLayouts, Mesen2Numbers, SequencesExt

CONSTANTS
  Versions,  \* versions of the save format
  Files      \* parsed saves: [version, blocks : name -> length, rtc]

\* rtc holds the clock's mode and index, two 32-bit fields of block S71.
ASSUME FilesAssumption ==
  \A f \in Files :
    /\ f.version \in Versions
    /\ \A b \in DOMAIN f.blocks : f.blocks[b] \in Nat
    /\ f.rtc.mode \in Int     \* read as signed
    /\ f.rtc.index \in Nat    \* read as unsigned

-----------------------------------------------------------------------------
Core == <<"CPU", "REG", "PPU", "DMA", "SND", "TIM">>

\* Mutant: the PPU's default is as long as its registers, not its block.
DefaultShort ==
  [CPU |-> 100, REG |-> 20, PPU |-> 2048, DMA |-> 200, SND |-> 65 * 1024,
   TIM |-> 100]

\* Zero bytes a decoder is given when its block is missing.
Default ==
  [CPU |-> 100, REG |-> 20, PPU |-> 5000, DMA |-> 200, SND |-> 65 * 1024,
   TIM |-> 100]

\* The chips in the order in which they are looked for, with the blocks that
\* must all be there and are decoded; CX4 is not decoded.
Chip(type, blocks) == [type |-> type, blocks |-> blocks]

\* Mutant: the clock chip is looked for before the SPC7110.
ChipsClockFirst ==
  <<Chip("gsu", <<"SFX">>), Chip("sa1", <<"SA1", "SAR">>),
    Chip("nec_dsp", <<"DP1">>), Chip("nec_dsp", <<"DP2">>),
    Chip("nec_dsp", <<"DP4">>), Chip("nec_dsp", <<"ST0">>),
    Chip("cx4", <<"CX4">>), Chip("srtc", <<"SRT">>),
    Chip("spc7110", <<"S71">>), Chip("obc1", <<"OBC">>), Chip("bsx", <<"BSX">>),
    Chip("msu1", <<"MSU">>)>>

Chips ==
  <<Chip("gsu", <<"SFX">>), Chip("sa1", <<"SA1", "SAR">>),
    Chip("nec_dsp", <<"DP1">>), Chip("nec_dsp", <<"DP2">>),
    Chip("nec_dsp", <<"DP4">>), Chip("nec_dsp", <<"ST0">>),
    Chip("cx4", <<"CX4">>), Chip("spc7110", <<"S71">>),
    Chip("obc1", <<"OBC">>), Chip("bsx", <<"BSX">>), Chip("srtc", <<"SRT">>),
    Chip("msu1", <<"MSU">>)>>

NoChip == Chip("", <<>>)

Decoded == ToSet(Core) \cup UNION {ToSet(Chips[k].blocks) : k \in 1..Len(Chips)}
NeededBy == [bv \in Decoded \X Versions |-> Needed(LayoutOf(bv[1], bv[2]))]

-----------------------------------------------------------------------------
VARIABLES
  file,   \* the parsed save
  queue,  \* blocks still to be decoded
  chip,   \* the chip chosen
  keys,   \* sections written
  ram,    \* the block the chip's RAM was written from, "zeros", or "none"
  pc      \* the next part of the conversion, "done" or "failed"

vars == <<file, queue, chip, keys, ram, pc>>

Present(b) == b \in DOMAIN file.blocks
LengthOf(b) == IF Present(b) THEN file.blocks[b] ELSE Default[b]
TooShort(b) == LengthOf(b) < NeededBy[<<b, file.version>>]

Init ==
  /\ file \in Files
  /\ queue = Core
  /\ chip = NoChip
  /\ keys = <<>>
  /\ ram = "none"
  /\ pc = "core"

Decode(part, next) ==
  /\ pc = part
  /\ IF queue = <<>> THEN pc' = next /\ UNCHANGED queue
     ELSE /\ queue' = Tail(queue)
          /\ pc' = IF TooShort(Head(queue)) THEN "failed" ELSE part
  /\ UNCHANGED <<file, chip, keys, ram>>

DecodeCore == Decode("core", "choose")

\* The chain of ifs in _write_coprocessors.
Choice ==
  LET there == {k \in 1..Len(Chips) : \A b \in ToSet(Chips[k].blocks) : Present(b)}
  IN  IF there = {} THEN NoChip
      ELSE Chips[CHOOSE k \in there : \A j \in there : k <= j]

ChooseChip ==
  /\ pc = "choose"
  /\ chip' = Choice
  /\ queue' = Choice.blocks
  /\ pc' = "chip"
  /\ UNCHANGED <<file, keys, ram>>

DecodeChip == Decode("chip", "console")

Put(part, sections) ==
  /\ pc = part
  /\ keys' = keys \o sections
  /\ UNCHANGED <<file, queue, chip>>

\* Whether a number does not fit a signed field is decided by its width.
Emit(part, sections, next) ==
  /\ Put(part, sections)
  /\ pc' \in {next} \cup {f \in {"failed"} : \E s \in ToSet(sections) : MayRaise(s, chip.type)}

WriteConsole ==
  Emit("console", <<"cpu", "memoryManager", "ppu", "dmaController",
                    "internalRegisters">>, "cart") /\ UNCHANGED ram

WriteCart == Emit("cart", <<"cart">>, "coprocessor") /\ UNCHANGED ram

\* Mutant: the dispatcher hands over the type in place of the block.
RamSourceType == IF chip.type \in {"gsu", "cx4"} THEN chip.type ELSE "none"

\* Mutant: every chip is set to idle, with empty RAM.
RamSourceIdle == IF chip.type = "" THEN "none" ELSE "zeros"

\* The RAM array in the sections of write_gsu, write_cx4, write_sa1 and
\* write_nec_dsp: the last two are called with iram and ram empty.
RamSource ==
  CASE chip.type = "gsu"                -> IF Present("SRA") THEN "SRA" ELSE "none"
    [] chip.type = "cx4"                -> "CX4"
    [] chip.type \in {"sa1", "nec_dsp"} -> "zeros"
    [] OTHER                            -> "none"

\* mesen2/converter._write_coprocessors
WriteCoprocessor ==
  /\ Emit("coprocessor",
          CASE chip.type \in {"", "obc1", "srtc"} -> <<>>
            [] chip.type = "msu1"                 -> <<"msu1">>
            [] OTHER                              -> <<"cart.coprocessor">>,
          IF chip.type = "spc7110" /\ Present("CLK") /\ file.blocks["CLK"] >= 16
          THEN "rtc" ELSE "spc")
  /\ ram' = RamSource

\* struct.pack("<Ih", ...) raises on a number that does not fit; the key of
\* the field stands in the buffer by then.
FitsI16(n) == n \in -32768..32767

WriteRtc ==
  /\ FitsI16(file.rtc.mode) /\ FitsI16(file.rtc.index)
  /\ Put("rtc", <<"cart.coprocessor.rtc">>) /\ pc' = "spc"
  /\ UNCHANGED ram

RtcRaises ==
  /\ ~FitsI16(file.rtc.mode) \/ ~FitsI16(file.rtc.index)
  /\ Put("rtc", <<"cart.coprocessor.rtc">>) /\ pc' = "failed"
  /\ UNCHANGED ram

\* Mutant: the clock is written on the console's level, as MSU-1 is.
WriteSpcAndClock ==
  /\ Emit("spc", <<"spc", "spc.dsp">> \o
                 IF chip.type = "spc7110" THEN <<"cart.coprocessor.rtc">> ELSE <<>>,
          "msu1")
  /\ UNCHANGED ram

WriteSpc == Emit("spc", <<"spc", "spc.dsp">>, "msu1") /\ UNCHANGED ram

\* Mutant: that _write_coprocessors has written it is thought to be enough.
WriteMsu1Once == Emit("msu1", <<>>, "control") /\ UNCHANGED ram

WriteMsu1 ==
  /\ Emit("msu1", IF chip.type = "msu1" THEN <<"msu1">> ELSE <<>>, "control")
  /\ UNCHANGED ram

WriteControlManager == Emit("control", <<"controlManager">>, "done") /\ UNCHANGED ram

Next ==
  \/ DecodeCore \/ ChooseChip \/ DecodeChip
  \/ WriteConsole \/ WriteCart \/ WriteCoprocessor \/ WriteRtc \/ RtcRaises
  \/ WriteSpc \/ WriteMsu1 \/ WriteControlManager

Spec == Init /\ [][Next]_vars

-----------------------------------------------------------------------------
Types == {Chips[k].type : k \in 1..Len(Chips)} \cup {""}
Sections ==
  {"cpu", "memoryManager", "ppu", "dmaController", "internalRegisters", "cart",
   "cart.coprocessor", "cart.coprocessor.rtc", "spc", "spc.dsp", "msu1",
   "controlManager"}

TypeOK ==
  /\ file.version \in Versions
  /\ ToSet(queue) \subseteq Decoded
  /\ chip.type \in Types /\ ToSet(chip.blocks) \subseteq Decoded
  /\ ToSet(keys) \subseteq Sections
  /\ ram \in {"SRA", "CX4", "zeros", "none"}
  /\ pc \in {"core", "choose", "chip", "console", "cart", "coprocessor", "rtc",
             "spc", "msu1", "control", "done", "failed"}

(* A conversion fails on damage alone: some block the save has, and that is *)
(* decoded, is too short for its decoder, or the clock of an SPC7110 holds  *)
(* a number Mesen2's field has no room for; no other number of any section  *)
(* makes the serializer raise.  A missing block never makes a conversion    *)
(* fail, in any version, and a damaged block of a chip that was passed over *)
(* does not either; and with such damage it never succeeds.                 *)
BrokenClock ==
  /\ chip.type = "spc7110" /\ Present("CLK") /\ file.blocks["CLK"] >= 16
  /\ ~(FitsI16(file.rtc.mode) /\ FitsI16(file.rtc.index))

Damage ==
  \/ \E b \in ToSet(Core) \cup ToSet(chip.blocks) : Present(b) /\ TooShort(b)
  \/ BrokenClock

FailsOnDamageOnly ==
  /\ pc = "failed" => Damage
  /\ pc = "done" => ~Damage

(* A save of a cartridge with one chip is converted as that chip, whatever  *)
(* the companion blocks of it look like to the other tests: an SPC7110 with *)
(* a clock also has block SRT, and the clock chip must not win over it; an  *)
(* SA-1 has two blocks and is no chip with one of them missing.             *)
Cartridges ==
  {<<{}, "">>, <<{"SFX"}, "gsu">>, <<{"SA1", "SAR"}, "sa1">>, <<{"SA1"}, "">>,
   <<{"SAR"}, "">>, <<{"DP1"}, "nec_dsp">>, <<{"DP2"}, "nec_dsp">>,
   <<{"DP4"}, "nec_dsp">>, <<{"ST0"}, "nec_dsp">>, <<{"CX4"}, "cx4">>,
   <<{"S71"}, "spc7110">>, <<{"S71", "SRT"}, "spc7110">>, <<{"OBC"}, "obc1">>,
   <<{"BSX"}, "bsx">>, <<{"SRT"}, "srtc">>, <<{"MSU"}, "msu1">>}

ChipBlocks == DOMAIN file.blocks \cap (Decoded \ ToSet(Core))

RightChip ==
  pc = "done" => \A c \in Cartridges : ChipBlocks = c[1] => chip.type = c[2]

(* The sections of the cartridge stand together, between the console's and  *)
(* the sound's: Mesen2 reads a chip inside BaseCartridge::Serialize         *)
(* (mesen2/converter.py:355).                                               *)
CartridgeTogether ==
  LET cart == {"cart", "cart.coprocessor", "cart.coprocessor.rtc"}
  IN  \A i, j \in 1..Len(keys) :
        i < j /\ keys[i] \in cart /\ keys[j] \in cart =>
          /\ \A m \in i..j : keys[m] \in cart
          /\ keys[i] # keys[j]

(* RAM that Snes9x keeps in a block of its own, GSU RAM and CX4 RAM, goes   *)
(* into the chip's section, and never into the section of another chip.     *)
ChipRamKept ==
  pc = "done" =>
    /\ "SFX" \in ChipBlocks /\ Present("SRA") => ram = "SRA"
    /\ ChipBlocks = {"CX4"} => ram = "CX4"
    /\ ram \notin {"none", "zeros"} => Present(ram)

(* Of the numbers an emulator can have in a save, none loses bits on the    *)
(* way into the sections that are written, though most serializer calls     *)
(* would drop them without a sign.                                          *)
NumbersKept ==
  pc = "done" =>
    \A s \in ToSet(keys) : \A n \in NumbersOf(s, chip.type) : Fits(n.held, n.written)

(* The state of MSU-1 stands where Mesen2 reads it, between those of the    *)
(* sound processor and the control manager, exactly when a cartridge has    *)
(* MSU-1 and no chip; the copy among the cartridge's sections, which        *)
(* mesen2/converter.py:54 writes as well, is not what does it.              *)
Msu1InPlace ==
  pc = "done" =>
    LET alone == Present("MSU") /\ chip.type = "msu1" IN
    alone <=> \E i \in 1..Len(keys) - 2 :
                /\ keys[i] = "spc.dsp" /\ keys[i + 1] = "msu1"
                /\ keys[i + 2] = "controlManager"

(* README.md:53: "SA-1 -- full 65C816 CPU state, DMA, timers, math unit,    *)
(* IRAM", and README.md:58: "MSU-1 -- track, data pointer, volume, control" *)
ListedChipState ==
  pc = "done" =>
    /\ {"SA1", "SAR"} \subseteq DOMAIN file.blocks => ram # "zeros"
    /\ Present("MSU") => "msu1" \in ToSet(keys)
=============================================================================
