-------------------------- MODULE ZsnesConversion ---------------------------
(***************************************************************************)
(* zsnes/converter.convert behind the parser: which bytes of the dump a     *)
(* field of the canonical state comes from.  Numbers are picked out of the  *)
(* register block by offset, and every access copes with a dump that ends   *)
(* too early: a number that is not all there is zero, an array is filled up *)
(* with zeros, a channel that is not all there is empty.                    *)
(*                                                                          *)
(* Data are positions, as in the parser; what the values of the numbers     *)
(* become is the subject of module FieldMapping.                            *)
(***************************************************************************)
EXTENDS ZsnesParser, FiniteSets

Bytes(at, n) == at..at + n - 1

\* Offsets into the register block of the numbers of one, two and four bytes:
\* interrupts, screen, layers, windows, Mode 7 and colour math; then, in the
\* last two lines of OneByte, HDMA, colours, and what ZSNES added behind.
OneByte ==
  {2, 6, 8, 17, 18, 29, 30, 31, 32, 33, 34, 67, 68, 69, 70, 100, 113}
    \cup 127..141
    \cup {295, 296, 449, 450, 451, 452, 454, 455}
    \cup {2512, 2526, 2535, 2539}
TwoBytes ==
  {4, 25, 27, 35, 37, 39, 41, 71, 73, 75, 77, 79, 81, 83, 85, 89, 91, 93, 95,
   97, 105, 108, 111, 114, 116, 118, 120, 122, 142, 144, 146, 148, 150, 152, 2527}

\* Mutant: the mirror of the VRAM address is taken for the address.
FourBytesLow == {9, 13, 99, 161}

FourBytes == {9, 13, 101, 161}

Numbers ==
  {Bytes(a, 1) : a \in OneByte} \cup {Bytes(a, 2) : a \in TwoBytes}
    \cup {Bytes(a, 4) : a \in FourBytes}

\* Mutant: the channels are eleven bytes apart, as they are on the bus.
ChannelPacked(i) == Bytes(165 + 11 * i, 16)

Channel(i) == Bytes(165 + 16 * i, 16)

Oam   == Bytes(464, 544)
Cgram == Bytes(1488, 512)
Fields == Numbers \cup {Channel(i) : i \in 0..7} \cup {Oam, Cgram}

\* In the sound section: RAM below the TCALL vectors at the beginning, and
\* those 64 bytes behind the registers, one byte (timrcall) after the ticks.
SpcRamBelow == 65472
TcallAt     == SpcIndexed + 1

-----------------------------------------------------------------------------
VARIABLE out   \* where the canonical state's contents come from

cvars == <<save, length, version, o, got, pc, out>>

\* Nothing read: as SnesState is before the conversion.
Blank ==
  [done |-> FALSE, numbers |-> {}, channels |-> {}, oam |-> <<0, 0>>, cgram |-> <<0, 0>>,
   wram |-> <<0, 0>>, vram |-> <<0, 0>>, spcRam |-> {}, dsp |-> <<0, 0>>,
   rom |-> FALSE, echo |-> "off"]

CInit == Init /\ out = Blank

Begin(n)  == got[n][1]
Amount(n) == IF n \in DOMAIN got THEN got[n][2] - got[n][1] ELSE 0

\* Mutant: the first byte of a number decides whether it is there.
ThereByFirst(bytes) == (CHOOSE b \in bytes : b - 1 \notin bytes) < Amount("ppu")

\* off + n - 1 < len(ppu), and ch_off + 16 <= len(ppu)
There(bytes) == \A b \in bytes : b < Amount("ppu")

\* The part of section n at offset at that a slice of size bytes takes.
Part(n, at, size) ==
  IF n \notin DOMAIN got \/ Amount(n) <= at THEN <<0, 0>>
  ELSE <<Begin(n) + at, IF Amount(n) <= at + size THEN got[n][2] ELSE Begin(n) + at + size>>

Piece(address, range) == [at |-> address, range |-> range]

\* Mutant: the vectors go behind the RAM that was saved below them.
SpcRamAppended ==
  {Piece(0, Part("spc", 0, SpcRamBelow)),
   Piece(SpcRamBelow + 64, Part("spc", TcallAt, 64))}

\* ram_full: RAM from address 0 on, and the vectors at $FFC0.
SpcRam ==
  {Piece(0, Part("spc", 0, SpcRamBelow)), Piece(65472, Part("spc", TcallAt, 64))}

\* _build_spc and _build_spc_defaults.  Bit 5 of DSP register $6C disables the
\* echo; missing registers read as zero, which enables it.
Sound ==
  IF save.spcon
  THEN [spcRam |-> SpcRam, dsp |-> Part("dspmem", 0, 128), rom |-> FALSE,
        echo |-> IF Amount("dspmem") > 108 THEN "saved" ELSE "on"]
  ELSE [spcRam |-> {}, dsp |-> <<0, 0>>, rom |-> TRUE, echo |-> "off"]

Convert ==
  /\ pc = "done" /\ ~out.done
  /\ out' = [done |-> TRUE,
             numbers  |-> {n \in Numbers : There(n)},
             channels |-> {i \in 0..7 : There(Channel(i))},
             oam   |-> Part("ppu", 464, 544),
             cgram |-> Part("ppu", 1488, 512),
             wram  |-> Part("wram", 0, 131072),
             vram  |-> Part("vram", 0, 65536),
             spcRam |-> Sound.spcRam, dsp |-> Sound.dsp, rom |-> Sound.rom,
             echo |-> Sound.echo]
  /\ UNCHANGED vars

CNext == (Next /\ UNCHANGED out) \/ Convert

CSpec == CInit /\ [][CNext]_cvars

-----------------------------------------------------------------------------
Converted == out.done

\* Position p of the block that ZSNES wrote is in the file.
InFile(p) == At(save).ppu + p < length

FieldsApart ==
  /\ UNION Fields \subseteq 0..PPU_REG_SIZE - 1
  /\ \A f, g \in Fields : f # g => f \cap g = {}

(* A dump that ends inside the register block, or before it, is converted   *)
(* with zeros: but no number and no DMA channel is made of bytes that are   *)
(* there and bytes that are not, none that is there is dropped, and no byte *)
(* of the block goes into two fields, as it would if an offset were wrong.  *)
(* Of sprites and colours, as of the memories, there is what the file has.  *)
NumbersWhole ==
  Converted =>
    /\ FieldsApart
    /\ out.numbers  = {n \in Numbers : \A b \in n : InFile(b)}
    /\ out.channels = {i \in 0..7 : \A b \in Channel(i) : InFile(b)}
    /\ out.oam[2] - out.oam[1]     = Cardinality({b \in Oam : InFile(b)})
    /\ out.cgram[2] - out.cgram[1] = Cardinality({b \in Cgram : InFile(b)})
    /\ \A n \in {"wram", "vram"} :
         LET there == Left(Truth(save, n), length) IN
         out[n] = IF there[1] = there[2] THEN <<0, 0>> ELSE there

(* What Mesen2's sound processor runs belongs together.  With sound, as     *)
(* long as the dump reaches the end of the sound sections, every address of *)
(* its 64K is filled from one place of the dump, the top 64 bytes too,      *)
(* which the boot ROM would hide: it is off.  Without sound it is on, and   *)
(* the echo, which writes to RAM, is off.                                   *)
SoundWhole ==
  Converted =>
    IF save.spcon
    THEN /\ ~out.rom
         /\ length >= At(save).chips =>
              /\ \E low, high \in out.spcRam :
                   /\ low.at = 0 /\ low.range[1] = At(save).spc
                   /\ low.range[2] - low.range[1] = high.at
                   /\ high.at + (high.range[2] - high.range[1]) = 65536
                   /\ low.range[2] <= high.range[1]
              /\ out.dsp[2] - out.dsp[1] = 128
              /\ out.echo = "saved"
    ELSE out.rom /\ out.echo = "off" /\ out.spcRam = {}
=============================================================================
