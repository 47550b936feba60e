# A TLA+ model of the SNES save state converter

The converter reads a save state that the emulator Snes9x or ZSNES wrote and
writes one that Mesen2 loads. Paths below are relative to
`src/snes_save_state_converter/` of the repository unless they start with
`src/`; `README.md:n` in a comment of a module is the repository's README, not
this file.

It is a short sequential program around three file formats. What is hard about
it is not inside one function:

* it believes lengths and sizes it finds in a file that may be cut, damaged or
  of another version, and Python slices never complain;
* it looks at the same file twice, in a world where an emulator keeps saving;
* it truncates its output and writes it in place, under a name that several
  inputs share;
* a section it writes at the wrong place, or a block it takes for another one,
  gives a state that loads and is wrong;
* registers that an emulator keeps decoded in its own way are decoded again by
  hand-written offsets, shifts and tables, and clocks no emulator saved are made
  up; what is wrong there shows in one game out of many.

## Inventory

| Component | Source | State | Operations |
|---|---|---|---|
| Command line | `cli.py` | none of its own; the file system | `_detect_format` (first read), dispatch to a parser (second read), convert, write; output name from `-o` or `with_suffix(".mss")` |
| Snes9x block reader | `snes9x/parser.py` | `raw`, `pos`, `Snes9xState(version, blocks)` | header line; one iteration per block |
| Snes9x decoders | `snes9x/decoders.py`, `snes9x/coprocessors.py` | offset `o` in one block | big-endian slices, single indexed bytes, optional fields by version, optional tail |
| Snes9x converter | `snes9x/converter.py` | the canonical state being filled | decode the six core blocks or zeros in their place, map fields, choose one chip |
| ZSNES parser | `zsnes/parser.py` | offset `o` in the dump, `ZsnesState` | unwrap (raw, flagged size, zlib), then section after section by fixed sizes |
| ZSNES converter | `zsnes/converter.py` | the canonical state being filled | map register bytes to fields |
| Canonical state | `state.py` | dataclasses | none |
| Mesen2 converter | `mesen2/converter.py` | a serializer | write sections in the order in which Mesen2 reads them; synthesise timing |
| Mesen2 coprocessor writers | `mesen2/coprocessors.py` | the same serializer | one writer per chip |
| Mesen2 serializer | `mesen2/serializer.py` | a growing byte buffer | `write_*`: key, length, packed value; `struct.pack` raises on a value that does not fit |
| Mesen2 file writer | `mesen2/writer.py` | the output file | envelope, deflate, one `write_bytes` |
| Package files | `__init__.py`, `src/pyproject.toml`, `src/uv.lock` | none | re-exports |

How they interact. `cli` calls `_detect_format`, which opens the input; then it
calls `parse_snes9x` or `parse_zsnes`, which opens it again. The parser returns
a dict of blocks, or the sections of a dump; the format's converter decodes them
into the canonical state; `mesen2/converter.convert` turns that state into bytes
in memory; `write_mesen_savestate` opens the output, which empties it, and
writes. No part calls back, nothing is shared but the file system, and any
exception leaves `cli` with the output as it was at that moment. There is no
locking, no temporary file and no retry.

What makes each component correct:

* *Command line*: the converted state is of one moment of the input; a file is
  touched only when a whole conversion exists in memory; an output nobody is
  writing is whole unless a writer was interrupted or met another one; the
  detector's verdict is one the parser shares; every run ends.
* *Block reader*: it ends; each block is really the block of that
  name; of a cut file it returns exactly what is there; data that look like a
  block header are never taken for one.
* *Decoders*: a decoder raises on a block that is too short for its last indexed
  byte and on no other; a field comes out short only behind that byte.
* *Snes9x converter*: it fails on damage only; the chip is the cartridge's;
  sections stand where Mesen2 looks for them; a register means afterwards what it
  meant before.
* *ZSNES parser*: every section is the range the emulator wrote; battery RAM is
  neither shifted nor invented.
* *ZSNES converter*: a number is made of its own bytes, all of them or none; the
  sound processor's RAM is put together without a gap.
* *Mesen2 converter*: the clocks it makes up belong to one moment; no number
  loses bits in its field.

The list of hazards, each with its line and the properties aimed at it, is in
`PROJECT.json`.

## The modules

| Module | Models | State and actions |
|---|---|---|
| `BlockLog` | nothing in the code: what reading a save promises | a log of surviving blocks replayed into a store where the latest entry of a name wins: `Take`, `Close`, `Refuse` |
| `Snes9xParser` | `parse_snes9x` behind the gzip layer, byte by byte | `raw`, `version`, `blocks`, `pos`, `pc`; `ReadHeader` / `RejectHeader` are lines 27-38, `StoreBlock` is one full iteration of the loop, `BadName` the `UnicodeDecodeError` of line 43, `Leave` the loop's condition and its two `break`s |
| `Snes9xRestore` | the same reader on a file whose origin is known | adds `save` and `cut`; refines `BlockLog` |
| `Snes9xParserProofs` | theorems about `Snes9xParser` | |
| `Snes9xRestoreProofs` | theorems about `Snes9xRestore` | |
| `SaveFile` | the questions three places ask of the same first bytes, and what a parser makes of the rest | `Detect`, `ParsesSnes9x`, `ParsesZsnes`, `LoopsSnes9x` on a record of answers; `Possible` says which answers exclude each other |
| `AtomicConversion` | nothing in the code: what a conversion promises | `Take` a snapshot, `Publish` it, `Abandon` |
| `Cli` | `cli.py` and `mesen2/writer.py` as processes on one file system | `file`, and per run `pc`, `fmt`, `snap`, `off`; one action per step that touches a file: `DetectFormat`, `Refuse`, `Parse`, `ParseRaises`, `ParseHangs`, `Convert`, `Open`, `OpenRaises`, `Write`, `WriteRaises`, `Close`; `Kill` and `ChangeSlot` are the world's; refines `AtomicConversion` |
| `CliProofs` | theorems about `SaveFile` and `Cli` | |
| `ZsnesParser` | `parse_zsnes`: the offset through all sections with the real sizes | `o`, `version`, and `got`, the range taken for each section; one action per section |
| `ZsnesConversion` | `zsnes/converter.convert` on what the parser took: every offset into the register block, the memories, the sound RAM in two pieces | extends `ZsnesParser` by `out`, where each field's bytes come from, and one action, `Convert` |
| `ZsnesProofs` | theorems about `ZsnesParser` and `ZsnesConversion` | |
| `Snes9xLayouts` | every read of the eighteen block decoders, with its kind and width | no state: `LayoutOf`, `Needed`, `Size`, `Offsets` |
| `BlockDecoder` | a decoder going through its layout on a block of any length, and how long a block is in the version it is from | `from`, `o`, `short`, `tail`; one action per kind of read |
| `LayoutProofs` | theorems about `Snes9xLayouts` | |
| `BlockDecoderProofs` | theorems about `BlockDecoder` | |
| `Snes9xConversion` | `snes9x/converter.convert` and `mesen2/converter.convert`: which blocks are decoded, which chip is chosen, which sections are written in which order | `queue`, `chip`, `keys`, `ram`; `DecodeCore`, `ChooseChip`, `DecodeChip`, then one action per group of sections |
| `Mesen2Numbers` | the numbers of the sound processor and of each chip's writer: what the decoder can return, what the emulator has there, what is written | no state: `NumbersOf`, `Fits`, `MayRaise` |
| `Snes9xConversionProofs` | theorems about `Snes9xConversion` | |
| `Timing` | the moment of a state: what the converters read of it and the clocks `mesen2/converter.convert` makes up | no state: `FromSnes9xTime`, `FromZsnesTime`, `MesenTime` |
| `Registers` | nothing in the code: what the bytes of the console's registers mean, and how each emulator keeps them | no state: `Meaning`, `Snes9xRegisters`, `ZsnesRegisters` |
| `FieldMapping` | the fields both converters decode from registers, and the masks of the Mesen2 converter | no state: `FromSnes9x`, `FromZsnes`, `ToMesen` |
| `Transfer` | a console, an emulator's save of it, the canonical state, the state Mesen2 gets | `moment`, `save`, `canon`, `mesen`; `SaveSnes9x`, `SaveZsnes`, `ConvertSnes9x`, `ConvertZsnes`, `WriteMesen2` |
| `TransferProofs` | theorems about `Transfer` | |

The two ghost variables of `Cli`, `torn` and `opener`, only record what happened
to a path; `save`, `cut` (in `Snes9xRestore`) and `save` (in `ZsnesParser`) are
the truth a reader cannot see and properties compare it with, and so is `moment`
in `Transfer`. `Cli` composes `SaveFile` with the processes, `ZsnesConversion` the
parser with the converter behind it, `Snes9xConversion` the layouts of the
decoders with both converters, and `Transfer` both converters with an emulator in
front and Mesen2's conventions behind them.

What the abstractions keep:

* `Snes9xParser` keeps bytes, because names, colons, digits and binary lengths
  are told apart byte by byte. A length is what Python's `int()` makes of six
  characters, with blanks, a sign and single underscores, so it may be negative,
  and slices count a negative position from the end, as Python's do. A binary
  length of more than three bytes is one number that is larger than any file.
* `SaveFile` represents a file by the answers to the questions the code asks of
  it. `body` is what the parser makes of the bytes behind the first ones: it
  returns, it raises (a Snes9x header line without an end or a number, a name that
  is not ASCII; a ZSNES dump that ends before the last byte read by index), or,
  for Snes9x, its loop does not end. `whole` stands for the indexed reads of the
  converter alone.
* `Cli` represents an output by the chunks written to it; each chunk says which
  save it comes from, so a mixture is visible. A write at a position behind the
  end leaves a hole, as `write(2)` does.
* `ZsnesParser` and `ZsnesConversion` represent data by ranges of positions, with
  the real sizes; which number a byte belongs to is decided by position alone.
* `BlockDecoder` compares the version gates of the decoders (versions 7 and 11)
  with `Passing`, the fields Snes9x writes in some versions only, field by field.
  That table is external knowledge and stands on its own: it is written as bytes
  per field and a range of versions, not as a layout.
* `Mesen2Numbers` represents a number by its width: a field of a decoder either
  always fits its key or does so for what an emulator can have there. The second
  column, what the emulator has, is external knowledge where a decoder reads 32
  bits for a register of 8 or 16.
* `Transfer` represents a console by the bytes of 28 registers and the moment of
  the frame. Fields that are copied as they are, scroll offsets for instance, have
  no interesting value and are left out; their presence is `ZsnesConversion`'s
  subject and their width `Mesen2Numbers`'. Two of the four screen bases stand for
  all of them. `int(a * b / c)` in floating point (`mesen2/converter.py:94`) is the
  exact quotient rounded down; the two differ by at most one cycle for a line of
  a frame.
* `Snes9xConversion` represents a block by its length, because the length alone
  decides whether its decoder raises (which is what `BlockDecoder` shows), and a
  section by the prefix of its keys.

Definitions under a comment `Mutant:` are not used by any module. Each is a
plausible bug in the definition that follows it, and put in its place it makes
TLC violate one property; `PROJECT.json` pairs them.

## What is model-checked

| Run | Question | Bounds and why they are enough |
|---|---|---|
| `snes9x_damaged` | Where no length is negative, does the block reader end, and is every block it returns one the file has? | two blocks, one nested in the data of another, or an empty one in front of a long one; each of the first 52 bytes replaced by each of eleven values: digits, signs, underscore, colon, newline, NUL, a letter of another name, a non-ASCII byte. Length fields in decimal, padded and binary; with a minus sign in front, 11 leads back to the block itself, 22 to the one before it and 35 to a position below 0 |
| `snes9x_cut` | What is read of a save that ends too early? | all saves of at most two blocks over two names and four contents (empty, one colon, two bytes, a whole block), in both encodings of lengths, cut at every byte. Two blocks are the least in which a name repeats; the nested block is the case in which data look like a header |
| `converting_in_place` | Two conversions write one file, which is the input of one of them: what may it hold, what does each publish, do detector and parser agree? | two runs, two chunks per output, one change to a slot: two writers and two chunks are the least for a mixture, and one change is the least that separates the two reads. A slot's first save and its change are any of eighteen shapes, each way through the detector and the parsers and each way these end. One file is the input of a run, its output and the output of the other run, so all that two runs can do to each other is there: a shared output, `-o` naming the input, and a file that is read while another run rewrites it |
| `zsnes_cut` | Which bytes become which section and which field? | real sizes; three envelopes, two versions, with and without sound, chip and battery RAM; a cut at, in front of and behind every boundary of every layout, and at both ends of every field of the register block |
| `block_decoders` | When does a decoder raise, which fields come out short, and does it look for the fields its version has? | all blocks, every version from 6 to 12 (both sides of both gates and all between), lengths around every read and those Snes9x writes |
| `snes9x_conversion` | When does a conversion fail, which chip wins, where do sections go, does a number lose bits, where does MSU-1 stand? | one core block missing or cut at the last byte needed; every pair of chip blocks (and both SA-1 blocks with any third), whole or one cut; clocks on both sides of 16 bits |
| `transfer` | Does a state mean in Mesen2 what it meant to the console? | every line of a frame, both regions, both heights, block TIM present or missing; every value of every register among zeros, and every single bit set or clear among ones. A field is made of at most two registers, and of these in disjoint bits |

What the passing runs say, property by property, stands above each property in
its module. The ones worth reading first:

* `LoopAdvances`, `Terminates`, `Attribution`: the block loop moves on and ends as
  long as no length is negative (`snes9x_endless` shows what happens else), and even
  then no block gets a name or data that no header of the file gives it.
* `ReadsSurvivors` / `Replays`: a Snes9x save cut at any byte is read as the
  replay of the blocks whose headers survived, and a block whose data are cut is
  returned with the data that are left; the content of a block never moves the
  reader.
* `ConvertsSnapshots`: although the input is read twice and may change in
  between, what is published is one save of one moment, in a format whose parser
  accepted it (the second read decides); `EveryRunEnds`, unless the parser has met
  a file on which its loop does not end.
* `OutputsWhole`, `TouchedOnlyWithResult`: the output is whole unless a kill, a
  full disk or a second writer came between `Open` and `Close`, and nothing is
  opened before the conversion is complete in memory, so that even `-o` naming
  the input cannot lose it to a refused save. That a kill after `Open` does
  leave a partial file is why `OutputsWhole` has the exception: the code does not
  write to a temporary name.
* `VerdictStands`: as long as nobody changes the file, a parser refuses what the
  detector accepted only where its own reading behind the first bytes raises, or
  in three cases in which the two disagree, all ZSNES: a save inside gzip, a flagged
  one that is not v1.43, and one with the magic of a version the parser does not
  know. `SoundSavesDetected` is the other direction: a whole save its parser would
  take is detected, but for a size field that begins with the bytes of a gzip
  file (`cli.py:28` then raises) or says too much.
* `FailsOnDamageOnly`: the zeros that replace a missing block are long enough
  for its decoder in every version, and a conversion fails exactly on a cut block
  that is decoded or on a clock index of the SPC7110 beyond 16 bits.
* `CutIsNoticed`, `CutSramIsTail`: a ZSNES dump with sound is refused when it
  ends before the SPC registers; behind that a cut is silent, and what is then
  returned as battery RAM may hold the rest of the 220 bytes of extra data.
* `NumbersWhole`: of a dump that ends within the register block, each number and
  each DMA channel is taken when all of its bytes are there and is zero otherwise,
  and no byte goes into two of them.
* `SoundWhole`: with sound, the 64 KB of the sound processor are filled without a
  gap from two places of the dump, provided the dump reaches that far; without,
  its boot ROM is on and the echo, which writes to RAM, is off. A dump that ends
  before the DSP registers is outside of this: its registers are zeros, and zero
  in `$6C` turns the echo on.
* `OneMoment`, `NmiFlagTrue`, `Snes9xFrame`: see `README.md:62`, "consistent Mesen2
  timing state". The master clock, the CPU, the position in the line and the SPC
  stand at one moment, that of the save's line, past the refresh and before the
  next event.
* `ReadsItsVersion`: a block as long as Snes9x writes it in a version is read to its
  end and not beyond. `RaisesBelowNeeded` and its neighbours take the layout on both
  sides; this one has the lengths from outside, so a wrong version gate breaks it.
* `RegistersKept`: of 47 fields, each that is not in `Lost` comes over: decoding by
  the emulator and decoding again by the converter cancel out, whatever the
  register holds, addresses modulo 32K.
* `NumbersKept`: the serializer drops bits that do not fit without a sign; for no
  number an emulator can have do any.

### Disagreements with the documentation

Five runs expect a violation. Each checks sentences of the README, of a docstring
or of a comment. Where a run checks several, its instance is one save for which
the code keeps none of them, so that its one trace shows all:

| Run | Sentence | What the code does |
|---|---|---|
| `snes9x_endless` | `snes9x/parser.py:17` "Read a snes9x save state file and split it into named blocks" | a length field damaged into `-00022` is a negative number to `int()` (`:53`), `pos += length` (`:62`) leads back to a block already read, and the function never returns |
| `deflated_v060_sram` | README:17, ZSNES "v0.60 and v1.43, zlib-compressed or raw" | a zlib-compressed save is always taken for v1.43, so a v0.60 save loses the first 220 bytes of its battery RAM |
| `zsnes_as_documented` | `mesen2/converter.py:79` "typically 225 or 240" | the line of a ZSNES save, which may be any line of the frame, becomes the line on which blanking begins |
| | README:62 "consistent Mesen2 timing state" | `zsnes/converter.py:47` asks for more than 262 visible lines and so never recognises PAL; a save from line 262 or later stands behind the end of its frame, line 261 |
| | `state.py:5` "Register values match the hardware encoding" | `fill_with_tile0` is bits 7 and 6 of `$211A` being 0 (`zsnes/converter.py:134`); the console fills with tile 0 when both are 1 |
| | README:96 "ZSNES inverted VRAM increment direction flag" | nothing is inverted (`zsnes/converter.py:227`), and what comes over is what the register says |
| `snes9x_as_documented` | `state.py:5`, as above | the same of `Mode7Repeat` (`snes9x/converter.py:239`) |
| | `state.py:73` "word address (0-0x7FFF)" | all 16 bits are taken (`snes9x/converter.py:292`) |
| | `state.py:80` "size select (0-5)" | 6 and 7 are taken too (`snes9x/converter.py:297`) |
| `listed_chip_state` | README:53 lists the SA-1's IRAM, README:58 MSU-1 | IRAM is written as zeros (`snes9x/converter.py:78`); MSU-1 is dropped beside any chip (`:127`) |

Others were met while modelling and are stated here without a run of their own:

* A raw v0.60 ZSNES save with a size in front is detected (`cli.py:38-41`) and
  refused (`zsnes/parser.py:108`), whatever README:17 says. `VerdictStands` names it
  as one of the cases in which detector and parser disagree.
* The RAM of the NEC chips is written as zeros (`snes9x/converter.py:84`; README:54
  says "with RAM preserved"), as `RamSource` shows, and of the CX4's 8 KB the first
  0xC00 bytes are kept.
* Chip blocks of a ZSNES dump are not skipped: `zsnes/parser.py:205` says "skip to
  extra data", and extra data and battery RAM then start at the first chip byte.
  README:106 leaves such games out, but the converter does not refuse them.
  `SramExact` therefore speaks of saves without a chip.
* MSU-1's keys are written twice, among the cartridge's sections
  (`mesen2/converter.py:54`) and behind the sound's (`:482`), where the comment at
  `:479` wants them. The values are the same; `Msu1InPlace` says that the right
  place does not depend on the other one.
* Of a ZSNES save, high resolution, object interlace and external background are
  always off (`zsnes/converter.py:250-255`), and object sizes 6 and 7 become 0.
  `Lost` names them, and `fill_with_tile0`.
* The object base of a Snes9x save is not reduced to 32K words either.
* The Snes9x path writes emulation mode as off always (`snes9x/converter.py:184`).

### Fairness

The parsers, decoders and converters are sequential functions: `WF_vars(Next)`
says that a running function takes its next step. In `Cli` each run has weak
fairness on its own steps, which is what a scheduler that runs every process
gives; `Kill` and `ChangeSlot` have none, since nothing makes a user act. There
is no strong fairness and none is needed: no step of a run is ever disabled by
another process.

`CHECK_DEADLOCK FALSE` stands in every configuration because every one of these
programs stops.

## What is proved

`tlapm` checks the eight proof modules to the last leaf. They prove every
invariant and every action property of the passing runs but `ReadsItsVersion` and
`Msu1InPlace`, and the safety part of both refinements, for every value of the
constants; the assumptions are those the
modules name (`FilesAssumption`, `SavesAssumption`, `CliAssumption`,
`ZsnesAssumption`, `InputsAssumption`, `MomentsAssumption`), and TLC evaluates
them on every run. `SavesAssumption` says that a save has the format `Layout`
describes, and `MomentsAssumption` that a line has 16 bits and a register 8.

**`Snes9xParserProofs`**, for every set of files of bytes:

* `TypeCorrect`: names are ASCII, data are bytes of the file, and the position is an
  integer; that it stays a natural number is false, since a length may be
  negative. The work is in the lemmas about slices, numbers and binary lengths.
* `BlocksAttributed` (`Attribution`): every block stored has its name and its data
  from one header of the file, wherever the lengths have led the loop; and where
  no length is negative, from one before the loop's position, data included.
  `Attribution` alone is not inductive: accepting the header line sets the
  position anew, so the invariant adds that nothing is stored before
  (`EmptyBeforeHeader`).
* `LoopMovesOn` (`LoopAdvances`): a turn that has read no negative length moves on by
  at least a header, which with the bound of the file is why the loop ends on
  files without one.

**`Snes9xRestoreProofs`**, for every save in the format `Layout` describes, every
number of blocks and every place where the copy ends:

* The invariant `RInv` says that in front of block `k` the dict is the replay of
  blocks `1..k-1`: their headers survived, the dict has their names, and under
  each name stands what is left of the last of them (`Before`); a reader that has
  stopped stands at a block whose header did not survive, or at the end. That the
  latest block wins is carried as a witness per name.
* Two lemmas about slices do the reading: before the cut the copy reads as the
  save does (`SameSlice`), and a block the cut shortens is the beginning of the
  block (`CutSlice`). `SurvivorReads` and `NothingBehindTheCut` then say what
  the loop sees on either side of the cut.
* `StaysInStep` (`InStep`), `SurvivorsAreRead` (`ReadsSurvivors`) and
  `OnlyTheHeaderIsRefused` (`RefusedOnlyWithoutHeader`) follow. The last one needs
  that a copy with its header line has it where the save has (`HeaderSurvives`,
  `SameHeader`), and that no block can raise the `UnicodeDecodeError` of line 43
  (`NeverABadName`).
* `ReplaysTheLog` is the safety part of `Replays`: every behaviour of the reader is
  one of `BlockLog`. The survivors are a prefix of the blocks
  (`SurvivorsArePrefix`: the least number that does not survive), so they are a
  log; positions increase strictly, so the position says how many entries have
  been taken (`TakenIs`); and in front of block `k` the dict is the replay of
  `k-1` entries (`ReplayIs`). Then `StoreBlock` is `Take`, `Leave` is `Close`,
  `RejectHeader` is `Refuse`, `BadName` never happens and `ReadHeader` stutters.
  The fairness of `BlockLog!Spec` is checked by TLC only.

**`CliProofs`**, for any number of runs, paths, saves, chunks and changes:

* `Inductive` is the invariant the others start from: types, a run that writes
  has an output in front of it (`WritesBlob`; without it a chunk could be written
  onto a save, and this is where it matters that nobody changes a slot that is
  open), and a run past parsing holds a save its parser accepted (`Held`).
* `TouchedWithResult` (`TouchedOnlyWithResult`) follows from `Held`.
* `NoDataOfRefusedSaves` (`NoRefusedData`) is inductive over it; the one
  interesting case is an overwrite in the middle of another run's chunks.
* `WholeOutputs` (`OutputsWhole`): of two finished writers nothing can be said
  without knowing that they did not overlap, so the invariant `UntornWhole` says
  of an output without a record of trouble that it has exactly one writer, the
  last run that opened it, and holds the chunks this run has written so far.
* `VerdictsStand` (`VerdictStands`) and `SoundSavesAreDetected`
  (`SoundSavesDetected`): two lemmas compare detector and parsers over every
  possible shape of a save, where the runs try eighteen of them; the invariant
  `Verdicts` carries the verdict from the first read to the second.
* `Refines` (`ConvertsSnapshots`): every behaviour of the command line is one of
  `AtomicConversion`. A step of a run moves its own job or none (`OwnJob`,
  `SameJob`); `Parse`, not `DetectFormat`, is the `Take`, `Close` the `Publish`,
  and every way to give up an `Abandon` (`StepRefines`). It needs `Held`, and that
  a parser accepts saves of its own format only (`AcceptedOfItsFormat`).

**`ZsnesProofs`**, for any sizes of battery RAM and chips and any cut:

* The invariant `IInv` ties the offset to the truth: in front of section `n` the
  reader stands where `n` was written (`InPlace`), sections not reached are not in
  `got` (`NotYet`), behind the sound it stands either at the chips or 220 bytes on
  (`PastExtra`), a reader past an indexed read has a dump that is long enough
  (`LongEnough`), the version is the save's where the save names it
  (`VersionRead`), and what was taken as RAM is what was left (`SramRead`).
* `TypeCorrect`, `CoreStaysInPlace` (`CoreInPlace`), `CutsAreNoticed`
  (`CutIsNoticed`), `SramIsExact` (`SramExact`) and `CutSramIsTheTail`
  (`CutSramIsTail`) follow. The layout is a record of sums (`At`) so that each
  boundary is a linear term.
* `NumbersAreWhole` (`NumbersWhole`): the tables of offsets are compared once, width
  by width (`OnesTwos`, `TwosFours`, `ChannelsApart` and so on), so that
  `PlacesApart` says of the whole register block that no two fields overlap and
  all lie within. `NumbersMade` then takes the converter's tests for the end of
  the block to the bytes of the dump.
* `SoundIsWhole` (`SoundWhole`) puts the two places of the sound RAM side by side
  (`SoundMade`), for every dump that holds them.

**`LayoutProofs`**, for every version:

* Positions in a layout are a recursive function, and what holds of them holds by
  induction. The library's induction theorems take the statement as an operator,
  which the provers cannot instantiate; `Induction` takes the set of the numbers
  for which the statement holds and refutes the least number outside of it, which
  exists because `<` on the naturals is well-founded.
* From it follow that positions exist and increase, that a layout of two parts is
  as long as both (`SizeOfConcat`), and that the last byte read by index lies
  within. `LayoutsWellFormed` says that this covers all eighteen decoders, with
  their repeated groups and their fields that depend on the version: each read is
  of a known kind, and padding and a tail stand at the end of the sound's only.

**`BlockDecoderProofs`**, for every block, version and length:

* The state says how far the decoder is; the invariant says what came of each read
  so far in terms of the positions of the layout: the offset is the place of the
  next read (`AtPlace`), the reads by index were there and the short fields are
  exactly the slices that reach beyond the block (`ReadSoFar`), and a decoder that
  raised missed a byte (`Missed`).
* `RaisesExactlyBelow` (`RaisesBelowNeeded`), `ShortFieldsBehind`
  (`ShortOnlyBehind`) and `LongBlocksWhole` (`WholeWhenLong`) follow.

**`Snes9xConversionProofs`**, for every set of saves:

* `Placed` is the strengthening that makes `CartridgeTogether` inductive: a section
  of the cartridge stands at one of three places, after five of the console's.
  `Progress` says how many sections there are before each step.
* `FirstTest` and `FirstOrNone` say what the chain of tests returns. That there is
  a first test that passes is well-foundedness of `<` on the naturals, cited from
  the library. `RightChipChosen` (`RightChip`) then takes the sixteen cartridges
  one by one, and `ChipRamIsKept` (`ChipRamKept`) follows from `Chosen` and `RamSet`.
* `NumbersAreKept` (`NumbersKept`) expands the tables.
* `FailsOnlyOnDamage` (`FailsOnDamageOnly`) has an invariant of its own, `Sound`: what
  waits in the queue is the rest of the blocks to decode, and those decoded were
  long enough. `DefaultsSuffice` takes the lengths of the zeros in
  `snes9x/converter.py` against the layouts' positions.

**`TransferProofs`**, for every moment of 16-bit lines:

* `Carried` is the invariant (`AllCarried`): each stage holds the image of the moment
  under the functions of `Timing`, `Registers` and `FieldMapping`. `ClocksAgree`
  (`OneMoment`) is arithmetic on top: the alignment by lemma, the SPC's rate by
  bounding the two-step division. `NmiFlagIsTrue` and `Snes9xFrameRight` follow
  from the same invariant.
* `RegistersAreKept` (`RegistersKept`), for all values of all registers at once,
  goes field by field: a field comes over when the writer's mask does not cut it
  (`ComesOver`, `NumbersFit`) and it is what the registers mean. Of the registers
  the prover needs a byte's bits (`BitsOfByte`, over a literal table of powers of
  two), the windows and the layers (`MeaningOfWindows`, `LayersOfRegisters`); each
  emulator has one lemma on top, `Snes9xComesOver` and `ZsnesComesOver`, which cancel
  the emulator's decoding with the converter's.
* `TypeCorrect` (`TypeOK`): what the converters' tables return lies in the ranges of
  the canonical state.

### Only model-checked

Liveness rests on fairness and stays with TLC: `Terminates`, `EveryRunEnds`, and of
`Replays` that a reader gets to the end of its log. So do `ReadsItsVersion`, a
comparison of finite tables that the run makes for versions 6 to 12,
`Msu1InPlace`, and the sentences that the code does not keep.

## What is not modelled

* The values of fields that are copied: they have a position, or a width.
* Keys that always get the same constant, such as the tile cache and most of what
  is written for a NEC chip or the CX4.
* `varLenCurrentBit` and `mathStartClock`, which `write_sa1` writes twice with the
  same constant (`mesen2/coprocessors.py:225`, `:233`, `:249`, `:250`): sections are modelled,
  not single keys.
* The bytes of the Mesen2 envelope and the encoding of values in
  `mesen2/serializer.py`, except widths and the range check.
* gzip and zlib: they return or raise.
* Messages and the package files.

## Plan

1. (done) `Snes9xParser`, `BlockLog`, `Snes9xRestore`: the reader everything
   else depends on, first because a wrong block makes every later step wrong;
   `Cli` with `SaveFile` and `AtomicConversion`; `ZsnesParser`; `Snes9xLayouts`
   with `BlockDecoder`; `Snes9xConversion`, which composes the layouts with the
   choice of chips and the order of sections. First proofs.
2. (done) `Timing`, `Registers`, `FieldMapping` and `Transfer`; `ZsnesConversion`;
   `Mesen2Numbers`. Proofs for the ZSNES parser, the conversion of a Snes9x save
   and the clocks.
3. (done) The invariants that depend on the sums of the layouts and on the values of
   registers, and both refinements, as proofs.
4. Left: the values of fields that are copied, as more rows of `FieldMapping`, and
   the keys the chips' writers fill with constants.
