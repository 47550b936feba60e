----------------------- MODULE Snes9xConversionProofs -----------------------
(***************************************************************************)
(* For every set of saves: which chip is chosen, where its section goes and *)
(* where its RAM comes from, that no number loses bits, and when a          *)
(* conversion fails.                                                        *)
(***************************************************************************)
EXTENDS Snes9xConversion, LayoutProofs

CartSections == {"cart", "cart.coprocessor", "cart.coprocessor.rtc"}

\* The console's sections come first and are five; the cartridge's follow, in
\* this order and without a gap.
CartSection == <<"", "", "", "", "", "cart", "cart.coprocessor", "cart.coprocessor.rtc">>

Placed ==
  \A i \in 1..Len(keys) : keys[i] \in CartSections =>
    /\ i \in 6..8 /\ keys[i] = CartSection[i]
    /\ \A m \in 6..i : keys[m] \in CartSections

\* How far the writer has come.
Progress ==
  /\ pc \in {"core", "choose", "chip", "console"} => Len(keys) = 0
  /\ pc = "cart" => Len(keys) = 5
  /\ pc = "coprocessor" => Len(keys) = 6 /\ keys[6] = "cart"
  /\ pc = "rtc" => Len(keys) = 7 /\ keys[6] = "cart" /\ keys[7] = "cart.coprocessor"

Writing == {"rtc", "spc", "msu1", "control", "done"}

Chosen == pc \in {"chip", "console", "cart", "coprocessor"} \cup Writing => chip = Choice
RamSet == pc \in Writing => ram = RamSource

Typed ==
  /\ file \in Files
  /\ queue \in Seq(Decoded)
  /\ chip = NoChip \/ \E k \in 1..12 : chip = Chips[k]
  /\ keys \in Seq(Sections)
  /\ ram \in {"SRA", "CX4", "zeros", "none"}
  /\ pc \in {"core", "choose", "chip", "console", "cart", "coprocessor", "rtc",
             "spc", "msu1", "control", "done", "failed"}

IInv == Typed /\ Placed /\ Progress /\ Chosen /\ RamSet

-----------------------------------------------------------------------------
\* The chain of tests, one by one.
LEMMA TwelveChips ==
  /\ Len(Chips) = 12
  /\ Chips[1].type = "gsu" /\ Chips[1].blocks = <<"SFX">>
  /\ Chips[2].type = "sa1" /\ Chips[2].blocks = <<"SA1", "SAR">>
  /\ Chips[3].type = "nec_dsp" /\ Chips[3].blocks = <<"DP1">>
  /\ Chips[4].type = "nec_dsp" /\ Chips[4].blocks = <<"DP2">>
  /\ Chips[5].type = "nec_dsp" /\ Chips[5].blocks = <<"DP4">>
  /\ Chips[6].type = "nec_dsp" /\ Chips[6].blocks = <<"ST0">>
  /\ Chips[7].type = "cx4" /\ Chips[7].blocks = <<"CX4">>
  /\ Chips[8].type = "spc7110" /\ Chips[8].blocks = <<"S71">>
  /\ Chips[9].type = "obc1" /\ Chips[9].blocks = <<"OBC">>
  /\ Chips[10].type = "bsx" /\ Chips[10].blocks = <<"BSX">>
  /\ Chips[11].type = "srtc" /\ Chips[11].blocks = <<"SRT">>
  /\ Chips[12].type = "msu1" /\ Chips[12].blocks = <<"MSU">>
  BY DEF Chips, Chip

Console == {"CPU", "REG", "PPU", "DMA", "SND", "TIM"}
Cartridge == {"SFX", "SA1", "SAR", "DP1", "DP2", "DP4", "ST0", "CX4", "S71", "OBC",
              "BSX", "SRT", "MSU"}

\* Which blocks are the console's and which the cartridge's.
LEMMA DecodedBlocks ==
  /\ Decoded = Console \cup Cartridge
  /\ ToSet(Core) = Console
  /\ Core \in Seq(Decoded)
  <1>1. ToSet(Core) = Console
    <2>1. DOMAIN Core = 1..6
      BY DEF Core
    <2>2. \A b : b \in ToSet(Core) <=> b \in Console
      BY <2>1 DEF ToSet, Core, Console
    <2> QED
      BY <2>2
  <1>2. \A b : (\E k \in 1..12 : b \in ToSet(Chips[k].blocks)) <=> b \in Cartridge
    BY TwelveChips DEF ToSet, Cartridge
  <1>3. Decoded = Console \cup Cartridge
    BY <1>1, <1>2, TwelveChips DEF Decoded
  <1>4. Core \in Seq(Console)
    BY DEF Core, Console
  <1> QED
    BY <1>1, <1>3, <1>4

Passes(k) == \A b \in ToSet(Chips[k].blocks) : Present(b)

\* The first test that passes decides, and none means no chip.
LEMMA FirstTest ==
  ASSUME NEW k \in 1..12, Passes(k), \A j \in 1..12 : j < k => ~Passes(j)
  PROVE  Choice = Chips[k]
  <1> DEFINE there == {j \in 1..Len(Chips) : \A b \in ToSet(Chips[j].blocks) : Present(b)}
  <1>1. k \in there /\ \A j \in there : k <= j
    BY TwelveChips DEF Passes
  <1>2. \A m \in there : (\A j \in there : m <= j) => m = k
    BY <1>1, TwelveChips
  <1>3. (CHOOSE m \in there : \A j \in there : m <= j) = k
    BY <1>1, <1>2
  <1> QED
    BY <1>1, <1>3 DEF Choice

\* When no test passes there is no chip.
LEMMA NoTest ==
  ASSUME \A k \in 1..12 : ~Passes(k)
  PROVE  Choice = NoChip
  BY TwelveChips DEF Choice, Passes

\* The same with the tests named one by one.
LEMMA NoneLeft ==
  ASSUME ~Passes(1), ~Passes(2), ~Passes(3), ~Passes(4), ~Passes(5), ~Passes(6),
         ~Passes(7), ~Passes(8), ~Passes(9), ~Passes(10), ~Passes(11), ~Passes(12)
  PROVE  Choice = NoChip
  <1>1. ASSUME NEW k \in 1..12 PROVE ~Passes(k)
    <2>1. k \in {1, 2, 3, 4, 5, 6, 7, 8, 9, 10, 11, 12}
      OBVIOUS
    <2> QED
      BY <2>1
  <1> QED
    BY <1>1, NoTest

\* The chain of tests returns a chip whose test passes, or none.
LEMMA FirstOrNone ==
  \/ Choice = NoChip
  \/ \E k \in 1..12 : Choice = Chips[k] /\ Passes(k)
  <1>1. CASE \A k \in 1..12 : ~Passes(k)
    BY <1>1, NoTest
  <1>2. CASE \E k \in 1..12 : Passes(k) /\ \A j \in 1..12 : j < k => ~Passes(j)
    BY <1>2, FirstTest
  <1>3. ASSUME NEW n \in 1..12, Passes(n)
        PROVE  \E k \in 1..12 : Passes(k) /\ \A j \in 1..12 : j < k => ~Passes(j)
    <2> DEFINE T == {j \in 1..12 : Passes(j)}
    <2>1. T \subseteq Nat /\ T # {}
      BY <1>3
    <2>2. PICK k \in T : \A j \in T : ~(<<j, k>> \in OpToRel(<, Nat))
      BY <2>1, NatLessThanWellFounded, WFMin
    <2>3. \A j \in T : ~(j < k)
      BY <2>1, <2>2 DEF OpToRel
    <2> QED
      BY <2>2, <2>3
  <1> QED
    BY <1>1, <1>2, <1>3

\* The choice names blocks that have a decoder.
LEMMA ChoiceTyped ==
  /\ Choice = NoChip \/ \E k \in 1..12 : Choice = Chips[k]
  /\ Choice.blocks \in Seq(Decoded)
  <1>1. NoChip.blocks = <<>>
    BY DEF NoChip, Chip
  <1>2. \A k \in 1..12 : Chips[k].blocks \in Seq(Decoded)
    <2>1. \A b \in Cartridge : <<b>> \in Seq(Decoded)
      BY DecodedBlocks
    <2>2. <<"SA1", "SAR">> \in Seq(Decoded)
      BY DecodedBlocks DEF Cartridge
    <2>3. \A k \in 1..12 : k = 2 \/ \E b \in Cartridge : Chips[k].blocks = <<b>>
      BY TwelveChips DEF Cartridge
    <2> QED
      BY <2>1, <2>2, <2>3, TwelveChips
  <1>3. <<>> \in Seq(Decoded)
    OBVIOUS
  <1> QED
    BY <1>1, <1>2, <1>3, FirstOrNone

\* The cartridge's blocks in the save, one by one.
LEMMA Tests ==
  /\ Passes(1) <=> "SFX" \in ChipBlocks
  /\ Passes(2) <=> "SA1" \in ChipBlocks /\ "SAR" \in ChipBlocks
  /\ Passes(3) <=> "DP1" \in ChipBlocks
  /\ Passes(4) <=> "DP2" \in ChipBlocks
  /\ Passes(5) <=> "DP4" \in ChipBlocks
  /\ Passes(6) <=> "ST0" \in ChipBlocks
  /\ Passes(7) <=> "CX4" \in ChipBlocks
  /\ Passes(8) <=> "S71" \in ChipBlocks
  /\ Passes(9) <=> "OBC" \in ChipBlocks
  /\ Passes(10) <=> "BSX" \in ChipBlocks
  /\ Passes(11) <=> "SRT" \in ChipBlocks
  /\ Passes(12) <=> "MSU" \in ChipBlocks
  <1>1. \A b : b \in ChipBlocks <=> Present(b) /\ b \in Cartridge
    BY DecodedBlocks DEF ChipBlocks, Present, Cartridge, Console
  <1> QED
    BY <1>1, TwelveChips DEF Passes, ToSet, Cartridge

\* The choice for each cartridge that was made.
LEMMA RightChoice ==
  \A c \in Cartridges : ChipBlocks = c[1] => Choice.type = c[2]
  <1> SUFFICES ASSUME NEW c \in Cartridges, ChipBlocks = c[1] PROVE Choice.type = c[2]
    OBVIOUS
  <1>0. NoChip.type = ""
    BY DEF NoChip, Chip
  <1>1. CASE c = <<{}, "">>
    <2>1. /\ ~Passes(1) /\ ~Passes(2) /\ ~Passes(3) /\ ~Passes(4) /\ ~Passes(5)
          /\ ~Passes(6) /\ ~Passes(7) /\ ~Passes(8) /\ ~Passes(9) /\ ~Passes(10)
          /\ ~Passes(11) /\ ~Passes(12)
      BY <1>1, Tests
    <2> QED
      BY <1>0, <1>1, <2>1, NoneLeft
  <1>15. CASE c = <<{"SA1"}, "">>
    <2>1. /\ ~Passes(1) /\ ~Passes(2) /\ ~Passes(3) /\ ~Passes(4) /\ ~Passes(5)
          /\ ~Passes(6) /\ ~Passes(7) /\ ~Passes(8) /\ ~Passes(9) /\ ~Passes(10)
          /\ ~Passes(11) /\ ~Passes(12)
      BY <1>15, Tests
    <2> QED
      BY <1>0, <1>15, <2>1, NoneLeft
  <1>16. CASE c = <<{"SAR"}, "">>
    <2>1. /\ ~Passes(1) /\ ~Passes(2) /\ ~Passes(3) /\ ~Passes(4) /\ ~Passes(5)
          /\ ~Passes(6) /\ ~Passes(7) /\ ~Passes(8) /\ ~Passes(9) /\ ~Passes(10)
          /\ ~Passes(11) /\ ~Passes(12)
      BY <1>16, Tests
    <2> QED
      BY <1>0, <1>16, <2>1, NoneLeft
  <1>2. CASE c = <<{"SFX"}, "gsu">>
    BY <1>2, Tests, FirstTest, TwelveChips
  <1>3. CASE c = <<{"SA1", "SAR"}, "sa1">>
    <2>1. Passes(2) /\ \A j \in 1..12 : j < 2 => ~Passes(j)
      BY <1>3, Tests
    <2> QED
      BY <1>3, <2>1, FirstTest, TwelveChips
  <1>4. CASE c = <<{"DP1"}, "nec_dsp">>
    <2>1. Passes(3) /\ \A j \in 1..12 : j < 3 => ~Passes(j)
      BY <1>4, Tests
    <2> QED
      BY <1>4, <2>1, FirstTest, TwelveChips
  <1>5. CASE c = <<{"DP2"}, "nec_dsp">>
    <2>1. Passes(4) /\ \A j \in 1..12 : j < 4 => ~Passes(j)
      BY <1>5, Tests
    <2> QED
      BY <1>5, <2>1, FirstTest, TwelveChips
  <1>6. CASE c = <<{"DP4"}, "nec_dsp">>
    <2>1. Passes(5) /\ \A j \in 1..12 : j < 5 => ~Passes(j)
      BY <1>6, Tests
    <2> QED
      BY <1>6, <2>1, FirstTest, TwelveChips
  <1>7. CASE c = <<{"ST0"}, "nec_dsp">>
    <2>1. Passes(6) /\ \A j \in 1..12 : j < 6 => ~Passes(j)
      BY <1>7, Tests
    <2> QED
      BY <1>7, <2>1, FirstTest, TwelveChips
  <1>8. CASE c = <<{"CX4"}, "cx4">>
    <2>1. Passes(7) /\ \A j \in 1..12 : j < 7 => ~Passes(j)
      BY <1>8, Tests
    <2> QED
      BY <1>8, <2>1, FirstTest, TwelveChips
  <1>9. CASE c = <<{"S71"}, "spc7110">>
    <2>1. Passes(8) /\ \A j \in 1..12 : j < 8 => ~Passes(j)
      BY <1>9, Tests
    <2> QED
      BY <1>9, <2>1, FirstTest, TwelveChips
  <1>10. CASE c = <<{"S71", "SRT"}, "spc7110">>
    <2>1. Passes(8) /\ \A j \in 1..12 : j < 8 => ~Passes(j)
      BY <1>10, Tests
    <2> QED
      BY <1>10, <2>1, FirstTest, TwelveChips
  <1>11. CASE c = <<{"OBC"}, "obc1">>
    <2>1. Passes(9) /\ \A j \in 1..12 : j < 9 => ~Passes(j)
      BY <1>11, Tests
    <2> QED
      BY <1>11, <2>1, FirstTest, TwelveChips
  <1>12. CASE c = <<{"BSX"}, "bsx">>
    <2>1. Passes(10) /\ \A j \in 1..12 : j < 10 => ~Passes(j)
      BY <1>12, Tests
    <2> QED
      BY <1>12, <2>1, FirstTest, TwelveChips
  <1>13. CASE c = <<{"SRT"}, "srtc">>
    <2>1. Passes(11) /\ \A j \in 1..12 : j < 11 => ~Passes(j)
      BY <1>13, Tests
    <2> QED
      BY <1>13, <2>1, FirstTest, TwelveChips
  <1>14. CASE c = <<{"MSU"}, "msu1">>
    <2>1. Passes(12) /\ \A j \in 1..12 : j < 12 => ~Passes(j)
      BY <1>14, Tests
    <2> QED
      BY <1>14, <2>1, FirstTest, TwelveChips
  <1> QED
    BY <1>1, <1>2, <1>3, <1>4, <1>5, <1>6, <1>7, <1>8, <1>9, <1>10, <1>11, <1>12, <1>13, <1>14, <1>15, <1>16 DEF Cartridges

-----------------------------------------------------------------------------
\* What a write does to the sections already written.
LEMMA Appended ==
  ASSUME keys \in Seq(Sections), NEW s \in Seq(Sections), keys' = keys \o s
  PROVE  /\ keys' \in Seq(Sections)
         /\ Len(keys') = Len(keys) + Len(s)
         /\ \A i \in 1..Len(keys) : keys'[i] = keys[i]
         /\ \A i \in 1..Len(s) : keys'[Len(keys) + i] = s[i]
         /\ \A i \in 1..Len(keys') : i \in 1..Len(keys) \/ i - Len(keys) \in 1..Len(s)
  OBVIOUS

\* A section is written behind the others.
LEMMA OneAppended ==
  ASSUME keys \in Seq(Sections), NEW x \in Sections, keys' = keys \o <<x>>
  PROVE  /\ keys' \in Seq(Sections)
         /\ Len(keys') = Len(keys) + 1
         /\ keys'[Len(keys) + 1] = x
         /\ \A i \in 1..Len(keys) : keys'[i] = keys[i]
  <1>1. <<x>> \in Seq(Sections) /\ Len(<<x>>) = 1 /\ <<x>>[1] = x
    OBVIOUS
  <1> QED
    BY <1>1, Appended

\* Sections of other parts leave the cartridge's where they are.
LEMMA PlacedBehind ==
  ASSUME Typed, Placed, NEW s \in Seq(Sections), keys' = keys \o s,
         \A i \in 1..Len(s) : s[i] \notin CartSections
  PROVE  Placed'
  <1>1. SUFFICES ASSUME NEW i \in 1..Len(keys'), keys'[i] \in CartSections
                 PROVE  /\ i \in 6..8 /\ keys'[i] = CartSection[i]
                        /\ \A m \in 6..i : keys'[m] \in CartSections
    BY DEF Placed
  <1>2. keys \in Seq(Sections) /\ Len(keys) \in Nat /\ Len(s) \in Nat
    BY DEF Typed
  <1>3. i \in 1..Len(keys)
    <2>1. CASE i - Len(keys) \in 1..Len(s)
      <3>1. keys'[Len(keys) + (i - Len(keys))] = s[i - Len(keys)]
        BY <1>2, <2>1, Appended
      <3> QED
        BY <1>1, <1>2, <2>1, <3>1
    <2> QED
      BY <1>2, <2>1, Appended
  <1>4. keys'[i] = keys[i] /\ \A m \in 6..i : m \in 1..Len(keys) /\ keys'[m] = keys[m]
    BY <1>2, <1>3, Appended
  <1> QED
    BY <1>1, <1>3, <1>4 DEF Placed

\* Where the cartridge's sections stand, from how many have been written.
LEMMA CartPlaced ==
  ASSUME NEW n \in 6..8, Len(keys') = n, \A i \in 1..5 : keys'[i] \notin CartSections,
         \A i \in 6..n : keys'[i] = CartSection[i]
  PROVE  Placed'
  <1>1. /\ CartSection[6] \in CartSections /\ CartSection[7] \in CartSections
        /\ CartSection[8] \in CartSections
    BY DEF CartSection, CartSections
  <1>2. \A m \in 6..n : m \in {6, 7, 8}
    OBVIOUS
  <1>3. \A m \in 6..n : keys'[m] \in CartSections
    BY <1>1, <1>2
  <1>4. \A i \in 1..n : i \in 1..5 \/ i \in 6..n
    OBVIOUS
  <1> QED
    BY <1>3, <1>4 DEF Placed

\* The cartridge's sections in their order.
LEMMA CartNames ==
  /\ CartSection[6] = "cart" /\ CartSection[7] = "cart.coprocessor"
  /\ CartSection[8] = "cart.coprocessor.rtc"
  BY DEF CartSection

\* Nothing is written yet.
LEMMA InitInv == Init => IInv
  <1> SUFFICES ASSUME Init PROVE IInv
    OBVIOUS
  <1>1. Typed
    BY DecodedBlocks DEF Init, Typed
  <1>2. Len(keys) = 0
    BY DEF Init
  <1>3. Placed /\ Progress /\ Chosen /\ RamSet
    BY <1>2 DEF Init, Placed, Progress, Chosen, RamSet, Writing
  <1> QED
    BY <1>1, <1>3 DEF IInv

\* Neither the choice nor the source of the RAM moves while the save does not.
LEMMA SameFile ==
  ASSUME file' = file
  PROVE  Choice' = Choice /\ (chip' = chip => RamSource' = RamSource)
  BY DEF Choice, RamSource, Present

\* The invariant, action by action.
LEMMA DecodeInv ==
  ASSUME IInv, DecodeCore \/ DecodeChip
  PROVE  IInv'
  <1>1. /\ UNCHANGED <<file, chip, keys, ram>>
        /\ pc \in {"core", "chip"} /\ pc' \in {pc, "failed", "choose", "console"}
        /\ pc = "core" => pc' \in {"core", "failed", "choose"}
        /\ queue' \in {queue, Tail(queue)} /\ (queue' # queue => queue # <<>>)
    BY DEF DecodeCore, DecodeChip, Decode
  <1>2. queue' \in Seq(Decoded)
    BY <1>1 DEF IInv, Typed
  <1>3. Typed'
    BY <1>1, <1>2 DEF IInv, Typed
  <1>4. Placed' /\ Progress'
    BY <1>1 DEF IInv, Placed, Progress
  <1>5. Chosen' /\ RamSet'
    BY <1>1, SameFile DEF IInv, Chosen, RamSet, Writing
  <1> QED
    BY <1>3, <1>4, <1>5 DEF IInv

LEMMA ChooseInv ==
  ASSUME IInv, ChooseChip
  PROVE  IInv'
  <1>1. /\ UNCHANGED <<file, keys, ram>> /\ chip' = Choice /\ queue' = Choice.blocks
        /\ pc = "choose" /\ pc' = "chip"
    BY DEF ChooseChip
  <1>2. Typed'
    BY <1>1, ChoiceTyped DEF IInv, Typed
  <1>3. Placed' /\ Progress'
    BY <1>1 DEF IInv, Placed, Progress
  <1>4. Chosen' /\ RamSet'
    BY <1>1, SameFile DEF Chosen, RamSet, Writing
  <1> QED
    BY <1>2, <1>3, <1>4 DEF IInv

WriteConsoleSections ==
  <<"cpu", "memoryManager", "ppu", "dmaController", "internalRegisters">>

LEMMA ConsoleInv ==
  ASSUME IInv, WriteConsole
  PROVE  IInv'
  <1> DEFINE s == WriteConsoleSections
  <1>1. /\ UNCHANGED <<file, queue, chip, ram>> /\ keys' = keys \o s
        /\ pc = "console" /\ pc' \in {"cart", "failed"}
    BY DEF WriteConsole, Emit, Put, WriteConsoleSections
  <1>2. s \in Seq(Sections) /\ Len(s) = 5 /\ \A i \in 1..Len(s) : s[i] \notin CartSections
    BY DEF WriteConsoleSections, Sections, CartSections
  <1> HIDE DEF s
  <1>3. keys' \in Seq(Sections) /\ Len(keys') = 5
    BY <1>1, <1>2, Appended DEF IInv, Typed, Progress
  <1>4. Typed' /\ Placed' /\ Progress'
    BY <1>1, <1>2, <1>3, PlacedBehind DEF IInv, Typed, Progress
  <1>5. Chosen' /\ RamSet'
    BY <1>1, SameFile DEF IInv, Chosen, RamSet, Writing
  <1> QED
    BY <1>4, <1>5 DEF IInv

LEMMA CartInv ==
  ASSUME IInv, WriteCart
  PROVE  IInv'
  <1>1. /\ UNCHANGED <<file, queue, chip, ram>> /\ keys' = keys \o <<"cart">>
        /\ pc = "cart" /\ pc' \in {"coprocessor", "failed"} /\ Len(keys) = 5
    BY DEF WriteCart, Emit, Put, IInv, Progress
  <1>2. /\ keys' \in Seq(Sections) /\ Len(keys') = 6 /\ keys'[6] = "cart"
        /\ \A i \in 1..5 : keys'[i] = keys[i]
    <2>1. "cart" \in Sections /\ keys \in Seq(Sections)
      BY DEF IInv, Typed, Sections
    <2> QED
      BY <1>1, <2>1, OneAppended
  <1>3. \A i \in 1..5 : keys'[i] \notin CartSections
    BY <1>1, <1>2 DEF IInv, Placed
  <1>4. Placed'
    <2>1. \A i \in 6..6 : i = 6
      OBVIOUS
    <2> QED
      BY <1>2, <1>3, <2>1, CartPlaced, CartNames
  <1>5. Typed' /\ Progress'
    BY <1>1, <1>2 DEF IInv, Typed, Progress
  <1>6. Chosen' /\ RamSet'
    BY <1>1, SameFile DEF IInv, Chosen, RamSet, Writing
  <1> QED
    BY <1>4, <1>5, <1>6 DEF IInv

\* Where a chip's RAM may come from.
LEMMA RamSourceTyped == RamSource \in {"SRA", "CX4", "zeros", "none"}
  BY DEF RamSource

LEMMA CoprocessorInv ==
  ASSUME IInv, WriteCoprocessor
  PROVE  IInv'
  <1>1. /\ UNCHANGED <<file, queue, chip>> /\ ram' = RamSource
        /\ pc = "coprocessor" /\ pc' \in {"rtc", "spc", "failed"}
        /\ Len(keys) = 6 /\ keys[6] = "cart" /\ keys \in Seq(Sections)
    BY DEF WriteCoprocessor, Emit, Put, IInv, Progress, Typed
  <1>2. \/ keys' = keys \o <<>> /\ pc' # "rtc"
        \/ keys' = keys \o <<"msu1">> /\ pc' # "rtc"
        \/ keys' = keys \o <<"cart.coprocessor">>
    BY DEF WriteCoprocessor, Emit, Put
  <1>3. ASSUME keys' = keys \o <<"cart.coprocessor">>
        PROVE  keys' \in Seq(Sections) /\ Placed' /\ Progress'
    <2>1. /\ keys' \in Seq(Sections) /\ Len(keys') = 7 /\ keys'[7] = "cart.coprocessor"
          /\ \A i \in 1..6 : keys'[i] = keys[i]
      <3>1. "cart.coprocessor" \in Sections
        BY DEF Sections
      <3> QED
        BY <1>1, <1>3, <3>1, OneAppended
    <2>2. \A i \in 1..5 : keys'[i] \notin CartSections
      BY <1>1, <2>1 DEF IInv, Placed
    <2>3. Placed'
      <3>1. \A i \in 6..7 : i = 6 \/ i = 7
        OBVIOUS
      <3> QED
        BY <1>1, <2>1, <2>2, <3>1, CartPlaced, CartNames
    <2>4. Progress'
      BY <1>1, <2>1 DEF Progress
    <2> QED
      BY <2>1, <2>3, <2>4
  <1>4. ASSUME NEW s \in {<<>>, <<"msu1">>}, keys' = keys \o s, pc' # "rtc"
        PROVE  keys' \in Seq(Sections) /\ Placed' /\ Progress'
    <2>1. s \in Seq(Sections) /\ \A i \in 1..Len(s) : s[i] \notin CartSections
      <3>1. CASE s = <<>>
        BY <3>1
      <3>2. CASE s = <<"msu1">>
        BY <3>2 DEF Sections, CartSections
      <3> QED
        BY <3>1, <3>2
    <2>2. keys' \in Seq(Sections) /\ Placed'
      BY <1>1, <1>4, <2>1, Appended, PlacedBehind DEF IInv
    <2>3. Progress'
      BY <1>1, <1>4 DEF Progress
    <2> QED
      BY <2>2, <2>3
  <1>5. keys' \in Seq(Sections) /\ Placed' /\ Progress'
    BY <1>2, <1>3, <1>4
  <1>6. Typed'
    BY <1>1, <1>5, RamSourceTyped DEF IInv, Typed
  <1>7. Chosen' /\ RamSet'
    BY <1>1, SameFile DEF IInv, Chosen, RamSet, Writing
  <1> QED
    BY <1>5, <1>6, <1>7 DEF IInv

LEMMA RtcInv ==
  ASSUME IInv, WriteRtc \/ RtcRaises
  PROVE  IInv'
  <1>1. /\ UNCHANGED <<file, queue, chip, ram>>
        /\ keys' = keys \o <<"cart.coprocessor.rtc">>
        /\ pc = "rtc" /\ pc' \in {"spc", "failed"} /\ Len(keys) = 7
        /\ keys[6] = "cart" /\ keys[7] = "cart.coprocessor"
    BY DEF WriteRtc, RtcRaises, Put, IInv, Progress
  <1>2. /\ keys' \in Seq(Sections) /\ Len(keys') = 8
        /\ keys'[8] = "cart.coprocessor.rtc"
        /\ \A i \in 1..7 : keys'[i] = keys[i]
    <2>1. "cart.coprocessor.rtc" \in Sections /\ keys \in Seq(Sections)
      BY DEF IInv, Typed, Sections
    <2> QED
      BY <1>1, <2>1, OneAppended
  <1>3. \A i \in 1..5 : keys'[i] \notin CartSections
    BY <1>1, <1>2 DEF IInv, Placed
  <1>4. Placed'
    <2>1. \A i \in 6..8 : i = 6 \/ i = 7 \/ i = 8
      OBVIOUS
    <2> QED
      BY <1>1, <1>2, <1>3, <2>1, CartPlaced, CartNames
  <1>5. Typed' /\ Progress'
    BY <1>1, <1>2 DEF IInv, Typed, Progress
  <1>6. Chosen' /\ RamSet'
    BY <1>1, SameFile DEF IInv, Chosen, RamSet, Writing
  <1> QED
    BY <1>4, <1>5, <1>6 DEF IInv

LEMMA LaterInv ==
  ASSUME IInv, WriteSpc \/ WriteMsu1 \/ WriteControlManager
  PROVE  IInv'
  <1>1. /\ UNCHANGED <<file, queue, chip, ram>>
        /\ pc \in {"spc", "msu1", "control"}
        /\ pc' \in {"msu1", "control", "done", "failed"}
    BY DEF WriteSpc, WriteMsu1, WriteControlManager, Emit, Put
  <1>2. PICK s \in {<<"spc", "spc.dsp">>, <<"msu1">>, <<>>, <<"controlManager">>} :
          keys' = keys \o s
    BY DEF WriteSpc, WriteMsu1, WriteControlManager, Emit, Put
  <1>3. s \in Seq(Sections) /\ \A i \in 1..Len(s) : s[i] \notin CartSections
    <2>1. CASE s = <<"spc", "spc.dsp">>
      BY <2>1 DEF Sections, CartSections
    <2>2. CASE s = <<"msu1">>
      BY <2>2 DEF Sections, CartSections
    <2>3. CASE s = <<>>
      BY <2>3
    <2>4. CASE s = <<"controlManager">>
      BY <2>4 DEF Sections, CartSections
    <2> QED
      BY <2>1, <2>2, <2>3, <2>4
  <1>4. keys' \in Seq(Sections) /\ Placed'
    BY <1>2, <1>3, Appended, PlacedBehind DEF IInv, Typed
  <1>5. Typed' /\ Progress'
    BY <1>1, <1>4 DEF IInv, Typed, Progress
  <1>6. Chosen' /\ RamSet'
    BY <1>1, SameFile DEF IInv, Chosen, RamSet, Writing
  <1> QED
    BY <1>4, <1>5, <1>6 DEF IInv

\* Every step keeps the invariant.
LEMMA StepInv == IInv /\ [Next]_vars => IInv'
  <1> SUFFICES ASSUME IInv, [Next]_vars PROVE IInv'
    OBVIOUS
  <1>1. CASE UNCHANGED vars
    BY <1>1, SameFile
       DEF vars, IInv, Typed, Placed, Progress, Chosen, RamSet
  <1> QED
    BY <1>1, DecodeInv, ChooseInv, ConsoleInv, CartInv, CoprocessorInv, RtcInv, LaterInv
       DEF Next

\* The invariant holds in every reachable state.
LEMMA Invariant == Spec => []IInv
  <1>1. Init => IInv
    BY InitInv
  <1>2. IInv /\ [Next]_vars => IInv'
    BY StepInv
  <1> QED
    BY <1>1, <1>2, PTL DEF Spec

-----------------------------------------------------------------------------
\* Every variable has its type, for every set of saves.
THEOREM TypeCorrect == Spec => []TypeOK
  <1>1. IInv => TypeOK
    <2> SUFFICES ASSUME IInv PROVE TypeOK
      OBVIOUS
    <2>1. file.version \in Versions
      BY FilesAssumption DEF IInv, Typed
    <2>2. \A s \in Seq(Decoded) : ToSet(s) \subseteq Decoded
      BY DEF ToSet
    <2>3. \A s \in Seq(Sections) : ToSet(s) \subseteq Sections
      BY DEF ToSet
    <2>4. chip.type \in Types /\ ToSet(chip.blocks) \subseteq Decoded
      <3>1. CASE chip = NoChip
        <4>1. chip.type = "" /\ chip.blocks = <<>>
          BY <3>1 DEF NoChip, Chip
        <4>2. ToSet(<<>>) = {}
          BY DEF ToSet
        <4>3. "" \in Types
          BY DEF Types
        <4> QED
          BY <4>1, <4>2, <4>3
      <3>2. ASSUME NEW k \in 1..12, chip = Chips[k]
            PROVE  chip.type \in Types /\ ToSet(chip.blocks) \subseteq Decoded
        BY <3>2, TwelveChips DEF Types, Decoded
      <3> QED
        BY <3>1, <3>2 DEF IInv, Typed
    <2> QED
      BY <2>1, <2>2, <2>3, <2>4 DEF IInv, Typed, TypeOK
  <1> QED
    BY <1>1, Invariant, PTL

\* Whatever else a save holds, a cartridge with one chip becomes that chip.
THEOREM RightChipChosen == Spec => []RightChip
  <1>1. IInv => RightChip
    BY RightChoice DEF IInv, Chosen, Writing, RightChip
  <1> QED
    BY <1>1, Invariant, PTL

\* The cartridge's sections stand side by side and each but once.
THEOREM CartridgeStaysTogether == Spec => []CartridgeTogether
  <1>1. IInv => CartridgeTogether
    <2> SUFFICES ASSUME IInv, NEW i \in 1..Len(keys), NEW j \in 1..Len(keys), i < j,
                        keys[i] \in CartSections, keys[j] \in CartSections
                 PROVE  /\ \A m \in i..j : keys[m] \in CartSections
                        /\ keys[i] # keys[j]
      BY DEF CartridgeTogether, CartSections
    <2>1. /\ i \in 6..8 /\ keys[i] = CartSection[i]
          /\ j \in 6..8 /\ keys[j] = CartSection[j]
          /\ \A m \in 6..j : keys[m] \in CartSections
      BY DEF IInv, Placed
    <2>2. CartSection[i] # CartSection[j]
      BY <2>1, CartNames
    <2> QED
      BY <2>1, <2>2
  <1> QED
    BY <1>1, Invariant, PTL

\* RAM with a block of its own reaches its chip's section, and no other.
THEOREM ChipRamIsKept == Spec => []ChipRamKept
  <1>1. IInv => ChipRamKept
    <2> SUFFICES ASSUME IInv, pc = "done"
                 PROVE  /\ "SFX" \in ChipBlocks /\ Present("SRA") => ram = "SRA"
                        /\ ChipBlocks = {"CX4"} => ram = "CX4"
                        /\ ram \notin {"none", "zeros"} => Present(ram)
      BY DEF ChipRamKept
    <2>1. chip = Choice /\ ram = RamSource
      BY DEF IInv, Chosen, RamSet, Writing
    <2>2. ASSUME "SFX" \in ChipBlocks, Present("SRA") PROVE ram = "SRA"
      <3>1. Passes(1)
        BY <2>2, Tests
      <3>2. Choice = Chips[1]
        BY <3>1, FirstTest
      <3> QED
        BY <2>1, <2>2, <3>2, TwelveChips DEF RamSource
    <2>3. ASSUME ChipBlocks = {"CX4"} PROVE ram = "CX4"
      <3>1. Passes(7) /\ \A j \in 1..12 : j < 7 => ~Passes(j)
        BY <2>3, Tests
      <3>2. Choice = Chips[7]
        BY <3>1, FirstTest
      <3> QED
        BY <2>1, <3>2, TwelveChips DEF RamSource
    <2>4. ASSUME ram \notin {"none", "zeros"} PROVE Present(ram)
      <3>1. CASE chip.type = "gsu"
        BY <2>1, <2>4, <3>1 DEF RamSource
      <3>2. CASE chip.type = "cx4"
        <4>1. Choice = Chips[7] /\ Passes(7)
          <5>1. \A k \in 1..12 : Chips[k].type = "cx4" => k = 7
            BY TwelveChips
          <5>2. NoChip.type = ""
            BY DEF NoChip, Chip
          <5> QED
            BY <2>1, <3>2, <5>1, <5>2, FirstOrNone
        <4>2. Present("CX4")
          BY <4>1, Tests DEF ChipBlocks, Present
        <4> QED
          BY <2>1, <3>2, <4>2 DEF RamSource
      <3> QED
        BY <2>1, <2>4, <3>1, <3>2 DEF RamSource
    <2> QED
      BY <2>2, <2>3, <2>4
  <1> QED
    BY <1>1, Invariant, PTL

\* No width in the table of numbers is too small for what an emulator has.
THEOREM NumbersAreKept == Spec => []NumbersKept
  <1>1. IInv => NumbersKept
    <2>1. ASSUME NEW s, NEW type PROVE \A n \in NumbersOf(s, type) : Fits(n.held, n.written)
      BY DEF NumbersOf, Spc, Dsp, Gsu, Sa1, Spc7110, Rtc, Msu1, Bsx, All, Using, Fits, U, Sgn
    <2> QED
      BY <2>1 DEF NumbersKept
  <1> QED
    BY <1>1, Invariant, PTL

-----------------------------------------------------------------------------
(* When a conversion fails: the zeros that stand for a missing block are    *)
(* long enough for its decoder, by the sizes of the layouts.                *)

\* The zeros for a missing core block are long enough for its decoder.
LEMMA DefaultsSuffice ==
  ASSUME NEW b \in Console, NEW v
  PROVE  /\ Needed(LayoutOf(b, v)) \in Nat /\ Default[b] \in Nat
         /\ Needed(LayoutOf(b, v)) <= Default[b]
<1> DEFINE l == LayoutOf(b, v)
<1>1. l \in Seq(Reads) /\ Size(l) <= Default[b] /\ Default[b] \in Nat
  <2>1. CASE b = "CPU"
    BY <2>1, CpuLayout, PlainIsRead DEF LayoutOf, Default
  <2>2. CASE b = "REG"
    BY <2>2, RegLayout, PlainIsRead DEF LayoutOf, Default
  <2>3. CASE b = "PPU"
    BY <2>3, PpuLayout, PlainIsRead DEF LayoutOf, Default
  <2>4. CASE b = "DMA"
    BY <2>4, DmaLayout, PlainIsRead DEF LayoutOf, Default
  <2>5. CASE b = "SND"
    <3>1. l = SND /\ Default[b] = 65 * 1024
      BY <2>5 DEF LayoutOf, Default
    <3>2. 65 * 1024 = 66560
      OBVIOUS
    <3> QED
      BY <3>1, <3>2, SndLayout
  <2>6. CASE b = "TIM"
    BY <2>6, TimLayout, PlainIsRead DEF LayoutOf, Default
  <2> QED
    BY <2>1, <2>2, <2>3, <2>4, <2>5, <2>6 DEF Console
<1> HIDE DEF l
<1>2. Needed(l) \in Nat /\ Needed(l) <= Size(l) /\ Size(l) \in Nat
  BY <1>1, NeededIs, SizeIsNat
<1>3. Needed(l) <= Default[b]
  BY <1>1, <1>2
<1> QED
  BY <1>1, <1>2, <1>3 DEF l

\* A missing block of the console is never too short.
LEMMA MissingIsLong ==
  ASSUME file.version \in Versions, NEW b \in Console, ~Present(b)
  PROVE  ~TooShort(b)
<1>1. NeededBy[<<b, file.version>>] = Needed(LayoutOf(b, file.version))
  BY DecodedBlocks DEF NeededBy
<1>2. LengthOf(b) = Default[b]
  BY DEF LengthOf
<1> QED
  BY <1>1, <1>2, DefaultsSuffice DEF TooShort

\* Only the section of the clock has a number that may not fit.
LEMMA MayNotRaise ==
  ASSUME NEW section \in Sections \ {"cart.coprocessor.rtc"}, NEW type
  PROVE  ~MayRaise(section, type)
<1>1. /\ \A n \in Spc \cup Msu1 \cup Gsu \cup Sa1 \cup Spc7110 \cup Bsx : ~n.written.signed
      /\ \A n \in Dsp : n.written.signed => Fits(n.decoded, n.written)
  BY DEF Spc, Dsp, Gsu, Sa1, Spc7110, Msu1, Bsx, All, Using, Fits, U, Sgn
<1>2. \/ NumbersOf(section, type) \subseteq Spc \cup Msu1 \cup Gsu \cup Sa1 \cup Spc7110 \cup Bsx
      \/ NumbersOf(section, type) = Dsp
  BY DEF NumbersOf
<1> QED
  BY <1>1, <1>2 DEF MayRaise

\* No part of the writer that goes through Emit fails.
LEMMA EmitGoesOn ==
  ASSUME NEW part, NEW s \in Seq(Sections \ {"cart.coprocessor.rtc"}), NEW next,
         Emit(part, s, next)
  PROVE  pc' = next
<1>1. ToSet(s) \subseteq Sections \ {"cart.coprocessor.rtc"}
  BY DEF ToSet
<1>2. ~\E x \in ToSet(s) : MayRaise(x, chip.type)
  BY <1>1, MayNotRaise
<1> QED
  BY <1>2 DEF Emit

(* The strengthening: the blocks taken off the queue were long enough, and  *)
(* the clock is looked at on the way to the sound's sections.               *)
LongEnough(blocks) == \A b \in ToSet(blocks) : ~TooShort(b)
Waiting(blocks) ==
  /\ ToSet(queue) \subseteq ToSet(blocks)
  /\ \A b \in ToSet(blocks) : b \in ToSet(queue) \/ ~TooShort(b)

HasClock ==
  chip.type = "spc7110" /\ Present("CLK") /\ file.blocks["CLK"] >= 16

Sound ==
  /\ pc \in {"core", "choose"} => chip = NoChip
  /\ pc = "core" => Waiting(Core)
  /\ pc \notin {"core", "failed"} => LongEnough(Core)
  /\ pc = "chip" => Waiting(chip.blocks)
  /\ pc \notin {"core", "choose", "chip", "failed"} => LongEnough(chip.blocks)
  /\ pc = "rtc" => HasClock
  /\ pc \in {"spc", "msu1", "control", "done"} => ~BrokenClock
  /\ pc = "failed" => Damage

\* What the save says does not change while it is converted.
LEMMA SameSave ==
  ASSUME file' = file
  PROVE  /\ \A b : Present(b)' <=> Present(b)
         /\ \A b : TooShort(b)' <=> TooShort(b)
         /\ \A blocks : LongEnough(blocks)' <=> LongEnough(blocks)
         /\ chip' = chip => /\ BrokenClock' <=> BrokenClock
                            /\ HasClock' <=> HasClock
                            /\ Damage' <=> Damage
  BY DEF Present, TooShort, LengthOf, LongEnough, BrokenClock, HasClock, Damage

\* The core blocks are the console's.
LEMMA CoreIsConsole == \A b : b \in ToSet(Core) <=> b \in Console
  BY DecodedBlocks

\* Without a chip nothing more is decoded.
LEMMA NoChipNoBlocks == NoChip.type = "" /\ ToSet(NoChip.blocks) = {}
  BY DEF NoChip, Chip, ToSet

\* Nothing is decoded yet.
LEMMA InitSound == Init => Sound
<1> SUFFICES ASSUME Init PROVE Sound
  OBVIOUS
<1>1. pc = "core" /\ queue = Core /\ chip = NoChip
  BY DEF Init
<1>2. Waiting(Core)
  BY <1>1 DEF Waiting
<1> QED
  BY <1>1, <1>2 DEF Sound

\* One block of those that must be long enough is taken off the queue.
LEMMA DecodeOne ==
  ASSUME IInv, NEW blocks, Waiting(blocks), NEW part, NEW next, Decode(part, next)
  PROVE  /\ queue = <<>> => pc' = next /\ LongEnough(blocks)
         /\ queue # <<>> =>
              \/ pc' = "failed" /\ \E b \in ToSet(blocks) : TooShort(b)
              \/ pc' = part /\ Waiting(blocks)'
<1>1. file' = file /\ queue \in Seq(Decoded)
  BY DEF Decode, IInv, Typed
<1>2. ASSUME queue = <<>> PROVE pc' = next /\ LongEnough(blocks)
  <2>1. ToSet(queue) = {}
    BY <1>2 DEF ToSet
  <2> QED
    BY <1>2, <2>1 DEF Decode, Waiting, LongEnough
<1>3. ASSUME queue # <<>>
      PROVE  \/ pc' = "failed" /\ \E b \in ToSet(blocks) : TooShort(b)
             \/ pc' = part /\ Waiting(blocks)'
  <2>1. queue' = Tail(queue) /\ pc' = IF TooShort(Head(queue)) THEN "failed" ELSE part
    BY <1>3 DEF Decode
  <2>2. Head(queue) \in ToSet(queue)
    BY <1>1, <1>3 DEF ToSet
  <2>3. \A b : b \in ToSet(queue) <=> b = Head(queue) \/ b \in ToSet(Tail(queue))
    <3>1. Len(queue) \in Nat /\ Len(queue) > 0 /\ Len(Tail(queue)) = Len(queue) - 1
          /\ Head(queue) = queue[1]
          /\ \A i \in 1..Len(queue) - 1 : Tail(queue)[i] = queue[i + 1]
      BY <1>1, <1>3
    <3>2. /\ DOMAIN queue = 1..Len(queue) /\ DOMAIN Tail(queue) = 1..Len(queue) - 1
      BY <1>1, <1>3
    <3>3. ASSUME NEW b \in ToSet(Tail(queue)) PROVE b \in ToSet(queue)
      <4>1. PICK i \in 1..Len(queue) - 1 : b = Tail(queue)[i]
        BY <3>2 DEF ToSet
      <4>2. i + 1 \in 1..Len(queue) /\ b = queue[i + 1]
        BY <3>1, <4>1
      <4> QED
        BY <3>2, <4>2 DEF ToSet
    <3>4. ASSUME NEW b \in ToSet(queue) PROVE b = Head(queue) \/ b \in ToSet(Tail(queue))
      <4>1. PICK i \in 1..Len(queue) : b = queue[i]
        BY <3>2 DEF ToSet
      <4>2. CASE i = 1
        BY <3>1, <4>1, <4>2
      <4>3. CASE i # 1
        <5>1. i - 1 \in 1..Len(queue) - 1 /\ (i - 1) + 1 = i
          BY <3>1, <4>3
        <5>2. b = Tail(queue)[i - 1]
          BY <3>1, <4>1, <5>1
        <5> QED
          BY <3>2, <5>1, <5>2 DEF ToSet
      <4> QED
        BY <4>2, <4>3
    <3> QED
      BY <2>2, <3>3, <3>4
  <2>4. CASE TooShort(Head(queue))
    BY <2>1, <2>2, <2>4 DEF Waiting
  <2>5. CASE ~TooShort(Head(queue))
    <3>1. /\ ToSet(queue') \subseteq ToSet(blocks)
          /\ \A b \in ToSet(blocks) : b \in ToSet(queue') \/ ~TooShort(b)
      BY <2>1, <2>3, <2>5 DEF Waiting
    <3>2. Waiting(blocks)'
      BY <1>1, <3>1, SameSave DEF Waiting
    <3> QED
      BY <2>1, <2>5, <3>2
  <2> QED
    BY <2>4, <2>5
<1> QED
  BY <1>2, <1>3

\* A block that is too short is in the save.
LEMMA ShortIsDamage ==
  ASSUME IInv, NEW b \in ToSet(Core) \cup ToSet(chip.blocks), TooShort(b),
         b \in ToSet(Core) \/ chip = Choice
  PROVE  Damage
<1>1. file.version \in Versions
  BY FilesAssumption DEF IInv, Typed
<1>2. CASE b \in ToSet(Core)
  BY <1>1, <1>2, CoreIsConsole, MissingIsLong DEF Damage
<1>3. CASE b \in ToSet(chip.blocks) /\ chip = Choice
  <2>1. chip # NoChip
    BY <1>3, NoChipNoBlocks
  <2>2. PICK n \in 1..12 : Choice = Chips[n] /\ Passes(n)
    BY <1>3, <2>1, FirstOrNone
  <2>3. Present(b)
    BY <1>3, <2>2 DEF Passes
  <2> QED
    BY <2>3 DEF Damage
<1> QED
  BY <1>2, <1>3

\* That the conversion goes on only over sound blocks, action by action.
LEMMA DecodeCoreSound == ASSUME IInv, Sound, DecodeCore PROVE Sound'
<1>1. /\ Decode("core", "choose") /\ pc = "core" /\ chip = NoChip /\ Waiting(Core)
      /\ UNCHANGED <<file, chip>>
  BY DEF DecodeCore, Decode, Sound
<1>2. CASE pc' = "choose" /\ LongEnough(Core)
  BY <1>1, <1>2, SameSave DEF Sound
<1>3. CASE pc' = "failed" /\ \E b \in ToSet(Core) : TooShort(b)
  <2>1. Damage
    BY <1>3, ShortIsDamage
  <2> QED
    BY <1>1, <1>3, <2>1, SameSave DEF Sound
<1>4. CASE pc' = "core" /\ Waiting(Core)'
  BY <1>1, <1>4 DEF Sound, Core
<1> QED
  BY <1>1, <1>2, <1>3, <1>4, DecodeOne

LEMMA ChooseSound == ASSUME IInv, Sound, ChooseChip PROVE Sound'
<1>1. /\ pc = "choose" /\ pc' = "chip" /\ chip' = Choice /\ queue' = Choice.blocks
      /\ file' = file /\ LongEnough(Core)
  BY DEF ChooseChip, Sound
<1>2. Waiting(chip.blocks)'
  BY <1>1 DEF Waiting
<1>3. LongEnough(Core)'
  BY <1>1, SameSave
<1> QED
  BY <1>1, <1>2, <1>3 DEF Sound

LEMMA DecodeChipSound == ASSUME IInv, Sound, DecodeChip PROVE Sound'
<1>1. /\ Decode("chip", "console") /\ pc = "chip" /\ chip = Choice /\ Waiting(chip.blocks)
      /\ LongEnough(Core) /\ UNCHANGED <<file, chip>>
  BY DEF DecodeChip, Decode, Sound, IInv, Chosen
<1>2. LongEnough(Core)'
  BY <1>1, SameSave
<1>3. CASE pc' = "console" /\ LongEnough(chip.blocks)
  <2>1. LongEnough(chip.blocks)'
    BY <1>1, <1>3, SameSave DEF LongEnough
  <2> QED
    BY <1>1, <1>2, <1>3, <2>1 DEF Sound
<1>4. CASE pc' = "failed" /\ \E b \in ToSet(chip.blocks) : TooShort(b)
  <2>1. Damage
    BY <1>1, <1>4, ShortIsDamage
  <2> QED
    BY <1>1, <1>4, <2>1, SameSave DEF Sound
<1>5. CASE pc' = "chip" /\ Waiting(chip.blocks)'
  BY <1>2, <1>5 DEF Sound
<1> QED
  BY <1>1, <1>3, <1>4, <1>5, DecodeOne

\* The parts of the writer do not touch what was decoded.
LEMMA WriteSound ==
  ASSUME IInv, Sound, UNCHANGED <<file, chip>>,
         pc \notin {"core", "choose", "chip", "failed"},
         pc' \notin {"core", "choose", "chip", "failed"},
         pc' = "rtc" => HasClock,
         pc' \in {"spc", "msu1", "control", "done"} => ~BrokenClock
  PROVE  Sound'
<1>1. LongEnough(Core) /\ LongEnough(chip.blocks)
  BY DEF Sound
<1>2. LongEnough(Core)' /\ LongEnough(chip.blocks)'
  BY <1>1, SameSave DEF LongEnough, Core
<1>3. (pc' = "rtc" => HasClock') /\ (pc' \in {"spc", "msu1", "control", "done"} => ~BrokenClock')
  BY SameSave
<1> QED
  BY <1>2, <1>3 DEF Sound

NoRtc == Sections \ {"cart.coprocessor.rtc"}

\* What each writer appends, the clock's section apart.
LEMMA SectionsOfParts ==
  /\ <<"cpu", "memoryManager", "ppu", "dmaController", "internalRegisters">> \in Seq(NoRtc)
  /\ <<"cart">> \in Seq(NoRtc) /\ <<>> \in Seq(NoRtc) /\ <<"msu1">> \in Seq(NoRtc)
  /\ <<"cart.coprocessor">> \in Seq(NoRtc) /\ <<"spc", "spc.dsp">> \in Seq(NoRtc)
  /\ <<"controlManager">> \in Seq(NoRtc)
<1>1. /\ "cpu" \in NoRtc /\ "memoryManager" \in NoRtc /\ "ppu" \in NoRtc
      /\ "dmaController" \in NoRtc /\ "internalRegisters" \in NoRtc /\ "cart" \in NoRtc
      /\ "msu1" \in NoRtc /\ "cart.coprocessor" \in NoRtc /\ "spc" \in NoRtc
      /\ "spc.dsp" \in NoRtc /\ "controlManager" \in NoRtc
  BY DEF NoRtc, Sections
<1> HIDE DEF NoRtc
<1> QED
  BY <1>1

LEMMA ConsoleSound == ASSUME IInv, Sound, WriteConsole \/ WriteCart PROVE Sound'
<1>1. pc \in {"console", "cart"} /\ UNCHANGED <<file, chip>>
  BY DEF WriteConsole, WriteCart, Emit, Put
<1>2. pc' \in {"cart", "coprocessor"}
  BY EmitGoesOn, SectionsOfParts DEF WriteConsole, WriteCart, NoRtc
<1> QED
  BY <1>1, <1>2, WriteSound

LEMMA CoprocessorSound == ASSUME IInv, Sound, WriteCoprocessor PROVE Sound'
<1> DEFINE s == CASE chip.type \in {"", "obc1", "srtc"} -> <<>>
                  [] chip.type = "msu1"                 -> <<"msu1">>
                  [] OTHER                              -> <<"cart.coprocessor">>
           next == IF HasClock THEN "rtc" ELSE "spc"
<1>1. Emit("coprocessor", s, next)
  BY DEF WriteCoprocessor, HasClock
<1>2. s \in Seq(NoRtc)
  BY SectionsOfParts
<1> HIDE DEF s
<1>3. pc = "coprocessor" /\ UNCHANGED <<file, chip>>
  BY <1>1 DEF Emit, Put
<1>4. pc' = next
  BY <1>1, <1>2, EmitGoesOn DEF NoRtc
<1>5. BrokenClock => HasClock
  BY DEF BrokenClock, HasClock
<1> QED
  BY <1>3, <1>4, <1>5, WriteSound

LEMMA RtcSound == ASSUME IInv, Sound, WriteRtc \/ RtcRaises PROVE Sound'
<1>1. pc = "rtc" /\ UNCHANGED <<file, chip>> /\ HasClock
  BY DEF WriteRtc, RtcRaises, Put, Sound
<1>2. CASE WriteRtc
  <2>1. pc' = "spc" /\ ~BrokenClock
    BY <1>2 DEF WriteRtc, BrokenClock
  <2> QED
    BY <1>1, <2>1, WriteSound
<1>3. CASE RtcRaises
  <2>1. pc' = "failed" /\ Damage
    BY <1>1, <1>3 DEF RtcRaises, HasClock, Damage, BrokenClock
  <2> QED
    BY <1>1, <2>1, SameSave DEF Sound
<1> QED
  BY <1>2, <1>3

LEMMA LaterSound ==
  ASSUME IInv, Sound, WriteSpc \/ WriteMsu1 \/ WriteControlManager PROVE Sound'
<1>1. pc \in {"spc", "msu1", "control"} /\ UNCHANGED <<file, chip>> /\ ~BrokenClock
  BY DEF WriteSpc, WriteMsu1, WriteControlManager, Emit, Put, Sound
<1>2. pc' \in {"msu1", "control", "done"}
  BY EmitGoesOn, SectionsOfParts DEF WriteSpc, WriteMsu1, WriteControlManager, NoRtc
<1> QED
  BY <1>1, <1>2, WriteSound

\* Every step keeps it.
LEMMA StepSound == IInv /\ Sound /\ [Next]_vars => Sound'
<1> SUFFICES ASSUME IInv, Sound, [Next]_vars PROVE Sound'
  OBVIOUS
<1>1. CASE UNCHANGED vars
  <2>1. UNCHANGED <<file, queue, chip, pc>>
    BY <1>1 DEF vars
  <2>2. /\ Waiting(Core)' <=> Waiting(Core)
        /\ Waiting(chip.blocks)' <=> Waiting(chip.blocks)
        /\ LongEnough(Core)' <=> LongEnough(Core)
        /\ LongEnough(chip.blocks)' <=> LongEnough(chip.blocks)
    BY <2>1, SameSave DEF Waiting, LongEnough, Core
  <2> QED
    BY <2>1, <2>2, SameSave DEF Sound
<1> QED
  BY <1>1, DecodeCoreSound, ChooseSound, DecodeChipSound, ConsoleSound, CoprocessorSound,
     RtcSound, LaterSound DEF Next

\* A conversion fails on damage alone, and with damage it always fails.
THEOREM FailsOnlyOnDamage == Spec => []FailsOnDamageOnly
<1>1. IInv /\ Sound => FailsOnDamageOnly
  <2> SUFFICES ASSUME IInv, Sound, pc = "done" PROVE ~Damage
    BY DEF FailsOnDamageOnly, Sound
  <2>1. LongEnough(Core) /\ LongEnough(chip.blocks) /\ ~BrokenClock
    BY DEF Sound
  <2> QED
    BY <2>1 DEF Damage, LongEnough
<1> QED
  BY <1>1, InitSound, StepSound, Invariant, PTL DEF Spec
=============================================================================
