---------------------------- MODULE ZsnesProofs -----------------------------
(***************************************************************************)
(* The properties of the ZSNES reader, and of the conversion behind it, for *)
(* every size of battery RAM and of chip blocks and for every cut.          *)
(*                                                                          *)
(* None of them is inductive: that a section is taken from where it was     *)
(* written depends on where the reader stands, and what is left for battery *)
(* RAM on whether the extra section was taken.  The invariant adds both:    *)
(* where the reader stands at each section, what it knows of the length by  *)
(* then, and how it got past the extra section.                             *)
(***************************************************************************)
EXTENDS ZsnesConversion, FiniteSetTheorems, TLAPS

\* The reader stands where the section it is about to read was written.
InPlace ==
  /\ pc \in {"unwrap", "cpu"} => o = 0
  /\ pc = "ppu"    => o = At(save).ppu
  /\ pc = "wram"   => o = At(save).wram
  /\ pc = "vram"   => o = At(save).vram
  /\ pc = "spc"    => o = At(save).spc /\ save.spcon
  /\ pc = "dsp"    => o = At(save).dsp /\ save.spcon
  /\ pc = "dspmem" => o = At(save).dspmem /\ save.spcon
  /\ pc = "extra"  => o = At(save).chips

NotYet ==
  /\ pc \notin {"sram", "done"} => "extra" \notin DOMAIN got
  /\ pc # "done" => "sram" \notin DOMAIN got

\* The extra section is taken exactly when there is room for one.
PastExtra ==
  pc \in {"sram", "done"} =>
    IF "extra" \in DOMAIN got
    THEN /\ version = "143"
         /\ o = At(save).chips + EXTRA_DATA_SIZE /\ o <= length
         /\ got["extra"] = <<At(save).chips, o>>
    ELSE /\ o = At(save).chips
         /\ version = "143" => o + EXTRA_DATA_SIZE > length

\* What the bytes read by index have shown of the length.
LongEnough ==
  /\ pc \notin {"unwrap", "cpu", "failed"} => length >= PH65816REGSIZE
  /\ pc \in {"dsp", "dspmem", "extra", "sram", "done"} /\ save.spcon =>
       length >= At(save).spc + SpcIndexed

VersionRead ==
  pc \notin {"unwrap", "failed"} /\ VersionKnown => version = save.version

SramRead ==
  pc = "done" => IF o < length THEN "sram" \in DOMAIN got /\ got["sram"] = <<o, length>>
                 ELSE "sram" \notin DOMAIN got

IInv ==
  /\ TypeOK /\ CoreInPlace
  /\ InPlace /\ NotYet /\ PastExtra /\ LongEnough /\ VersionRead /\ SramRead

-----------------------------------------------------------------------------
\* What a save consists of, and the sizes of its sections.
LEMMA Sizes ==
  ASSUME NEW s \in Save
  PROVE  /\ s.chips \in Nat /\ s.sram \in Nat /\ s.spcon \in BOOLEAN
         /\ s.version \in {"143", "060"} /\ s.form \in {"raw", "flagged", "deflated"}
         /\ SizeIn(s).cpu = 36 /\ SizeIn(s).timers = 8 /\ SizeIn(s).ppu = 3019
         /\ SizeIn(s).wram = 131072 /\ SizeIn(s).vram = 65536
         /\ SizeIn(s).spc = IF s.spcon THEN 65856 ELSE 0
         /\ SizeIn(s).dsp = IF s.spcon THEN 1068 ELSE 0
         /\ SizeIn(s).dspmem = IF s.spcon THEN 256 ELSE 0
         /\ SizeIn(s).chips = s.chips
         /\ SizeIn(s).extra = IF s.version = "143" THEN 220 ELSE 0
         /\ SizeIn(s).sram = s.sram
  <1>1. /\ s.chips \in Nat /\ s.sram \in Nat /\ s.spcon \in BOOLEAN
        /\ s.version \in {"143", "060"} /\ s.form \in {"raw", "flagged", "deflated"}
    BY ZsnesAssumption DEF Save
  <1>2. /\ SizeIn(s).cpu = 36 /\ SizeIn(s).timers = 8 /\ SizeIn(s).ppu = 3019
        /\ SizeIn(s).wram = 131072 /\ SizeIn(s).vram = 65536
        /\ SizeIn(s).chips = s.chips /\ SizeIn(s).sram = s.sram
    BY DEF SizeIn, PH65816REGSIZE, SPC_TIMER_SIZE, PPU_REG_SIZE, WRAM_SIZE, VRAM_SIZE
  <1>3. /\ SizeIn(s).spc = IF s.spcon THEN 65856 ELSE 0
        /\ SizeIn(s).dsp = IF s.spcon THEN 1068 ELSE 0
        /\ SizeIn(s).dspmem = IF s.spcon THEN 256 ELSE 0
        /\ SizeIn(s).extra = IF s.version = "143" THEN 220 ELSE 0
    BY DEF SizeIn, PH_SPCSAVE, PH_DSPSAVE, DSP_MEM_SIZE, EXTRA_DATA_SIZE
  <1> QED
    BY <1>1, <1>2, <1>3

\* Where the sections start, as sums of the sizes in front of them.
LEMMA Sums ==
  ASSUME NEW s, NEW z, z = SizeIn(s)
  PROVE  /\ At(s).cpu = 0
         /\ At(s).ppu = z.cpu + z.timers
         /\ At(s).wram = At(s).ppu + z.ppu
         /\ At(s).vram = At(s).ppu + z.ppu + z.wram
         /\ At(s).spc = At(s).ppu + z.ppu + z.wram + z.vram
         /\ At(s).dsp = At(s).spc + z.spc
         /\ At(s).dspmem = At(s).spc + z.spc + z.dsp
         /\ At(s).chips = At(s).spc + z.spc + z.dsp + z.dspmem
         /\ At(s).extra = At(s).chips + z.chips
         /\ At(s).sram = At(s).chips + z.chips + z.extra
         /\ At(s).end = At(s).chips + z.chips + z.extra + z.sram
  BY DEF At

\* And as numbers.
LEMMA Places ==
  ASSUME NEW s \in Save
  PROVE  /\ At(s).cpu = 0 /\ At(s).ppu = 44 /\ At(s).wram = 3063
         /\ At(s).vram = 134135 /\ At(s).spc = 199671
         /\ s.spcon => /\ At(s).dsp = 265527 /\ At(s).dspmem = 266595
                       /\ At(s).chips = 266851
         /\ ~s.spcon => At(s).chips = 199671
         /\ At(s).chips \in Nat
         /\ At(s).extra = At(s).chips + s.chips
         /\ s.version = "143" => At(s).sram = At(s).extra + 220
         /\ s.version # "143" => At(s).sram = At(s).extra
         /\ At(s).end = At(s).sram + s.sram
  BY Sizes, Sums

\* Taking a section leaves the others as they were taken.
LEMMA Kept ==
  ASSUME NEW n, NEW range, Keep(n, range)
  PROVE  /\ DOMAIN got' = DOMAIN got \cup {n}
         /\ got'[n] = range
         /\ \A m \in DOMAIN got : m # n => got'[m] = got[m]
  BY DEF Keep

\* A slice lies in the data, and is what the cut left of the range.
LEMMA SliceIsLeft ==
  ASSUME NEW a \in Nat, NEW b \in Nat, length \in Nat
  PROVE  /\ Slice(a, b) = Left(<<a, b>>, length)
         /\ Slice(a, b)[1] \in 0..length /\ Slice(a, b)[2] \in 0..length
  BY DEF Slice, Left

\* A dump has a length.
LEMMA TotalIsNat == ASSUME NEW s \in Save PROVE Total(s) \in Nat
  <1>1. s.spcon \/ ~s.spcon
    OBVIOUS
  <1> QED
    BY <1>1, Places, Sizes DEF Total

\* Nothing is taken yet.
LEMMA InitInv == Init => IInv
  <1> SUFFICES ASSUME Init PROVE IInv
    OBVIOUS
  <1>1. save \in Save /\ version = "143" /\ o = 0 /\ DOMAIN got = {} /\ pc = "unwrap"
    BY DEF Init
  <1>2. length \in 0..Total(save)
    <2>1. PICK c \in Cuts : length = IF c <= Total(save) THEN Total(save) - c ELSE 0
      BY DEF Init
    <2>2. c \in Nat /\ Total(save) \in Nat
      BY <1>1, TotalIsNat, ZsnesAssumption
    <2> QED
      BY <2>1, <2>2
  <1> QED
    BY <1>1, <1>2
       DEF IInv, TypeOK, CoreInPlace, InPlace, NotYet, PastExtra, LongEnough, VersionRead,
           SramRead

-----------------------------------------------------------------------------
\* Taking a core section from where it was written keeps the first two parts.
LEMMA CoreSlice ==
  ASSUME IInv, NEW n \in {"cpu", "ppu", "wram", "vram", "spc", "dsp", "dspmem"},
         NEW a \in Nat, NEW b \in Nat, Truth(save, n) = <<a, b>>,
         Keep(n, Slice(a, b)), UNCHANGED <<save, length>>
  PROVE  /\ \A m \in DOMAIN got' : got'[m][1] \in 0..length /\ got'[m][2] \in 0..length
         /\ CoreInPlace'
         /\ ("extra" \in DOMAIN got') = ("extra" \in DOMAIN got)
         /\ ("sram" \in DOMAIN got') = ("sram" \in DOMAIN got)
         /\ "extra" \in DOMAIN got => got'["extra"] = got["extra"]
         /\ "sram" \in DOMAIN got => got'["sram"] = got["sram"]
  <1>1. length \in Nat
    BY TotalIsNat DEF IInv, TypeOK
  <1>2. /\ DOMAIN got' = DOMAIN got \cup {n}
        /\ got'[n] = Slice(a, b)
        /\ \A m \in DOMAIN got : m # n => got'[m] = got[m]
    BY Kept
  <1>3. Slice(a, b) = Left(Truth(save, n), length)
    BY <1>1, SliceIsLeft
  <1>4. \A m \in DOMAIN got' : got'[m][1] \in 0..length /\ got'[m][2] \in 0..length
    BY <1>1, <1>2, SliceIsLeft DEF IInv, TypeOK
  <1>5. \A m \in DOMAIN got' \ {"extra", "sram"} : got'[m] = Left(Truth(save, m), length)
    BY <1>2, <1>3 DEF IInv, CoreInPlace
  <1>6. CoreInPlace'
    BY <1>5 DEF CoreInPlace
  <1> QED
    BY <1>2, <1>4, <1>6

\* Refusing the dump keeps all parts.
LEMMA Refused ==
  ASSUME IInv, Fail, UNCHANGED <<save, length>>,
         pc \notin {"sram", "done"}
  PROVE  IInv'
  BY DEF Fail, IInv, TypeOK, CoreInPlace, InPlace, NotYet, PastExtra, LongEnough,
         VersionRead, SramRead

\* The invariant, section by section.
LEMMA UnwrapStep == IInv /\ Unwrap => IInv'
  <1> SUFFICES ASSUME IInv, Unwrap PROVE IInv'
    OBVIOUS
  <1>1. CASE Fail
    BY <1>1, Refused DEF Unwrap
  <1>2. CASE ~Fail
    <2>1. /\ pc = "unwrap" /\ pc' = "cpu" /\ o' = o /\ got' = got
          /\ save' = save /\ length' = length
          /\ version' \in {"143", "060"}
          /\ save.form # "deflated" \/ save.version = "143" => version' = save.version
      BY <1>2, Sizes DEF Unwrap, IInv, TypeOK
    <2>2. VersionRead'
      BY <2>1 DEF VersionRead, VersionKnown
    <2>3. TypeOK' /\ CoreInPlace'
      BY <2>1 DEF IInv, TypeOK, CoreInPlace, Sections
    <2>4. InPlace' /\ NotYet' /\ PastExtra' /\ LongEnough' /\ SramRead'
      BY <2>1 DEF IInv, InPlace, NotYet, PastExtra, LongEnough, SramRead
    <2> QED
      BY <2>2, <2>3, <2>4 DEF IInv
  <1> QED
    BY <1>1, <1>2

\* The steps that take a section of the core: what all of them keep.
LEMMA CoreStep ==
  ASSUME IInv,
         NEW n \in {"cpu", "ppu", "wram", "vram", "spc", "dsp", "dspmem"},
         NEW b \in Nat, pc = n, o \in Nat, Truth(save, n) = <<o, b>>,
         Keep(n, Slice(o, b)), UNCHANGED <<save, length, version>>,
         o' \in Nat, pc' \in Sections \ {"sram"}, InPlace', LongEnough'
  PROVE  IInv'
  <1>1. CoreInPlace'
    BY CoreSlice
  <1>2. TypeOK'
    BY CoreSlice DEF IInv, TypeOK
  <1>3. NotYet'
    BY CoreSlice DEF IInv, NotYet, Sections
  <1>4. PastExtra' /\ SramRead'
    BY DEF Sections, PastExtra, SramRead
  <1>5. VersionRead'
    BY DEF IInv, VersionRead, VersionKnown
  <1> QED
    BY <1>1, <1>2, <1>3, <1>4, <1>5 DEF IInv

LEMMA ReadCpuStep == IInv /\ ReadCpu => IInv'
  <1> SUFFICES ASSUME IInv, ReadCpu PROVE IInv'
    OBVIOUS
  <1>1. CASE length < PH65816REGSIZE
    BY <1>1, Refused DEF ReadCpu
  <1>2. CASE ~(length < PH65816REGSIZE)
    <2>1. /\ pc = "cpu" /\ o = 0 /\ Keep("cpu", Slice(o, 36)) /\ o' = 44 /\ pc' = "ppu"
          /\ UNCHANGED <<save, length, version>>
      BY <1>2 DEF ReadCpu, IInv, InPlace, PH65816REGSIZE, SPC_TIMER_SIZE
    <2>2. save \in Save /\ At(save).ppu = 44 /\ Truth(save, "cpu") = <<0, 36>>
      BY Places, Sizes DEF IInv, TypeOK, Truth
    <2>3. InPlace'
      BY <2>1, <2>2 DEF InPlace
    <2>4. LongEnough'
      BY <1>2, <2>1, TotalIsNat DEF IInv, TypeOK, LongEnough, PH65816REGSIZE
    <2> QED
      BY <2>1, <2>2, <2>3, <2>4, CoreStep DEF Sections
  <1> QED
    BY <1>1, <1>2

LEMMA ReadPpuStep == IInv /\ ReadPpu => IInv'
  <1> SUFFICES ASSUME IInv, ReadPpu PROVE IInv'
    OBVIOUS
  <1>1. /\ pc = "ppu" /\ Keep("ppu", Slice(o, o + PPU_REG_SIZE))
        /\ o' = o + PPU_REG_SIZE /\ pc' = "wram" /\ UNCHANGED <<save, length, version>>
    BY DEF ReadPpu, ReadSlice
  <1>2. /\ o = 44 /\ o + PPU_REG_SIZE = 3063 /\ At(save).wram = 3063
        /\ Truth(save, "ppu") = <<44, 3063>>
    BY <1>1, Places, Sizes DEF IInv, TypeOK, InPlace, Truth, PPU_REG_SIZE
  <1>3. InPlace'
    BY <1>1, <1>2 DEF InPlace
  <1>4. LongEnough'
    BY <1>1 DEF IInv, LongEnough
  <1> QED
    BY <1>1, <1>2, <1>3, <1>4, CoreStep DEF Sections

LEMMA ReadWramStep == IInv /\ ReadWram => IInv'
  <1> SUFFICES ASSUME IInv, ReadWram PROVE IInv'
    OBVIOUS
  <1>1. /\ pc = "wram" /\ Keep("wram", Slice(o, o + WRAM_SIZE))
        /\ o' = o + WRAM_SIZE /\ pc' = "vram" /\ UNCHANGED <<save, length, version>>
    BY DEF ReadWram, ReadSlice
  <1>2. /\ o = 3063 /\ o + WRAM_SIZE = 134135 /\ At(save).vram = 134135
        /\ Truth(save, "wram") = <<3063, 134135>>
    BY <1>1, Places, Sizes DEF IInv, TypeOK, InPlace, Truth, WRAM_SIZE
  <1>3. InPlace'
    BY <1>1, <1>2 DEF InPlace
  <1>4. LongEnough'
    BY <1>1 DEF IInv, LongEnough
  <1> QED
    BY <1>1, <1>2, <1>3, <1>4, CoreStep DEF Sections

LEMMA ReadVramStep == IInv /\ ReadVram => IInv'
  <1> SUFFICES ASSUME IInv, ReadVram PROVE IInv'
    OBVIOUS
  <1>1. /\ pc = "vram" /\ Keep("vram", Slice(o, o + VRAM_SIZE))
        /\ o' = o + VRAM_SIZE /\ UNCHANGED <<save, length, version>>
        /\ pc' = IF save.spcon THEN "spc" ELSE "extra"
    BY DEF ReadVram, ReadSlice
  <1>2. /\ save \in Save /\ o = 134135 /\ o + VRAM_SIZE = 199671
        /\ Truth(save, "vram") = <<134135, 199671>>
    BY <1>1, Places, Sizes DEF IInv, TypeOK, InPlace, Truth, VRAM_SIZE
  <1>3. InPlace'
    BY <1>1, <1>2, Places DEF InPlace
  <1>4. LongEnough'
    BY <1>1 DEF IInv, LongEnough
  <1> QED
    BY <1>1, <1>2, <1>3, <1>4, CoreStep DEF Sections

LEMMA ReadSpcStep == IInv /\ ReadSpc => IInv'
  <1> SUFFICES ASSUME IInv, ReadSpc PROVE IInv'
    OBVIOUS
  <1>1. CASE pc = "spc" /\ length < o + SpcIndexed
    BY <1>1, Refused DEF ReadSpc
  <1>2. CASE ~(pc = "spc" /\ length < o + SpcIndexed)
    <2>1. /\ pc = "spc" /\ Keep("spc", Slice(o, o + PH_SPCSAVE))
          /\ o' = o + PH_SPCSAVE /\ pc' = "dsp" /\ UNCHANGED <<save, length, version>>
          /\ ~(length < o + SpcIndexed)
      BY <1>2 DEF ReadSpc, ReadSlice
    <2>2. /\ save \in Save /\ save.spcon
          /\ o = At(save).spc /\ o = 199671 /\ o + PH_SPCSAVE = 265527
          /\ At(save).dsp = 265527 /\ Truth(save, "spc") = <<199671, 265527>>
      BY <2>1, Places, Sizes DEF IInv, TypeOK, InPlace, Truth, PH_SPCSAVE
    <2>3. InPlace'
      BY <2>1, <2>2 DEF InPlace
    <2>4. LongEnough'
      BY <2>1, <2>2, TotalIsNat DEF IInv, TypeOK, LongEnough, SpcIndexed
    <2> QED
      BY <2>1, <2>2, <2>3, <2>4, CoreStep DEF Sections
  <1> QED
    BY <1>1, <1>2

LEMMA ReadDspStep == IInv /\ ReadDsp => IInv'
  <1> SUFFICES ASSUME IInv, ReadDsp PROVE IInv'
    OBVIOUS
  <1>1. /\ pc = "dsp" /\ Keep("dsp", Slice(o, o + PH_DSPSAVE))
        /\ o' = o + PH_DSPSAVE /\ pc' = "dspmem" /\ UNCHANGED <<save, length, version>>
    BY DEF ReadDsp, ReadSlice
  <1>2. /\ save.spcon /\ o = 265527 /\ o + PH_DSPSAVE = 266595 /\ At(save).dspmem = 266595
        /\ Truth(save, "dsp") = <<265527, 266595>>
    BY <1>1, Places, Sizes DEF IInv, TypeOK, InPlace, Truth, PH_DSPSAVE
  <1>3. InPlace'
    BY <1>1, <1>2 DEF InPlace
  <1>4. LongEnough'
    BY <1>1 DEF IInv, LongEnough
  <1> QED
    BY <1>1, <1>2, <1>3, <1>4, CoreStep DEF Sections

LEMMA ReadDspMemStep == IInv /\ ReadDspMem => IInv'
  <1> SUFFICES ASSUME IInv, ReadDspMem PROVE IInv'
    OBVIOUS
  <1>1. /\ pc = "dspmem" /\ Keep("dspmem", Slice(o, o + DSP_MEM_SIZE))
        /\ o' = o + DSP_MEM_SIZE /\ pc' = "extra" /\ UNCHANGED <<save, length, version>>
    BY DEF ReadDspMem, ReadSlice
  <1>2. /\ save.spcon /\ o = 266595 /\ o + DSP_MEM_SIZE = 266851 /\ At(save).chips = 266851
        /\ Truth(save, "dspmem") = <<266595, 266851>>
    BY <1>1, Places, Sizes DEF IInv, TypeOK, InPlace, Truth, DSP_MEM_SIZE
  <1>3. InPlace'
    BY <1>1, <1>2 DEF InPlace
  <1>4. LongEnough'
    BY <1>1 DEF IInv, LongEnough
  <1> QED
    BY <1>1, <1>2, <1>3, <1>4, CoreStep DEF Sections

LEMMA ReadExtraStep == IInv /\ ReadExtra => IInv'
  <1> SUFFICES ASSUME IInv, ReadExtra PROVE IInv'
    OBVIOUS
  <1>0. /\ pc = "extra" /\ pc' = "sram" /\ UNCHANGED <<save, length, version>>
        /\ o = At(save).chips /\ o \in Nat /\ length \in Nat /\ save \in Save
    BY TotalIsNat DEF ReadExtra, IInv, TypeOK, InPlace
  <1>1. InPlace' /\ LongEnough' /\ VersionRead' /\ SramRead'
    BY <1>0 DEF IInv, InPlace, LongEnough, VersionRead, VersionKnown, SramRead
  <1>2. CASE version = "143" /\ o + EXTRA_DATA_SIZE <= length
    <2>1. Keep("extra", Slice(o, o + EXTRA_DATA_SIZE)) /\ o' = o + EXTRA_DATA_SIZE
      BY <1>2 DEF ReadExtra
    <2>2. /\ DOMAIN got' = DOMAIN got \cup {"extra"}
          /\ got'["extra"] = Slice(o, o + EXTRA_DATA_SIZE)
          /\ \A m \in DOMAIN got : m # "extra" => got'[m] = got[m]
      BY <2>1, Kept
    <2>3. Slice(o, o + EXTRA_DATA_SIZE) = <<o, o + EXTRA_DATA_SIZE>>
      BY <1>0, <1>2 DEF Slice, EXTRA_DATA_SIZE
    <2>4. TypeOK'
      BY <1>0, <1>2, <2>1, <2>2, <2>3 DEF IInv, TypeOK, Sections, EXTRA_DATA_SIZE
    <2>5. CoreInPlace'
      BY <1>0, <2>2 DEF IInv, CoreInPlace
    <2>6. NotYet' /\ PastExtra'
      BY <1>0, <1>2, <2>1, <2>2, <2>3 DEF IInv, NotYet, PastExtra
    <2> QED
      BY <1>1, <2>4, <2>5, <2>6 DEF IInv
  <1>3. CASE ~(version = "143" /\ o + EXTRA_DATA_SIZE <= length)
    <2>1. got' = got /\ o' = o
      BY <1>3 DEF ReadExtra
    <2>2. TypeOK' /\ CoreInPlace'
      BY <1>0, <2>1 DEF IInv, TypeOK, CoreInPlace, Sections
    <2>3. NotYet' /\ PastExtra'
      BY <1>0, <1>3, <2>1 DEF IInv, NotYet, PastExtra, EXTRA_DATA_SIZE
    <2> QED
      BY <1>1, <2>2, <2>3 DEF IInv
  <1> QED
    BY <1>2, <1>3

LEMMA ReadSramStep == IInv /\ ReadSram => IInv'
  <1> SUFFICES ASSUME IInv, ReadSram PROVE IInv'
    OBVIOUS
  <1>0. /\ pc = "sram" /\ pc' = "done" /\ UNCHANGED <<save, length, version, o>>
        /\ o \in Nat /\ length \in Nat /\ save \in Save /\ "sram" \notin DOMAIN got
    BY TotalIsNat DEF ReadSram, IInv, TypeOK, NotYet
  <1>1. InPlace' /\ LongEnough' /\ VersionRead'
    BY <1>0 DEF IInv, InPlace, LongEnough, VersionRead, VersionKnown
  <1>2. /\ DOMAIN got' = IF o < length THEN DOMAIN got \cup {"sram"} ELSE DOMAIN got
        /\ \A m \in DOMAIN got : got'[m] = got[m]
        /\ o < length => got'["sram"] = <<o, length>>
    <2>1. CASE o < length
      BY <1>0, <2>1, Kept DEF ReadSram
    <2>2. CASE ~(o < length)
      BY <2>2 DEF ReadSram
    <2> QED
      BY <2>1, <2>2
  <1>3. TypeOK'
    BY <1>0, <1>2 DEF IInv, TypeOK
  <1>4. CoreInPlace' /\ NotYet'
    BY <1>0, <1>2 DEF IInv, CoreInPlace, NotYet
  <1>5. PastExtra' /\ SramRead'
    BY <1>0, <1>2 DEF IInv, PastExtra, SramRead
  <1> QED
    BY <1>1, <1>3, <1>4, <1>5 DEF IInv

\* Every step keeps the invariant.
LEMMA StepInv == IInv /\ [Next]_vars => IInv'
  <1> SUFFICES ASSUME IInv, [Next]_vars PROVE IInv'
    OBVIOUS
  <1>1. CASE Unwrap
    BY <1>1, UnwrapStep
  <1>2. CASE ReadCpu
    BY <1>2, ReadCpuStep
  <1>3. CASE ReadPpu \/ ReadWram \/ ReadVram
    BY <1>3, ReadPpuStep, ReadWramStep, ReadVramStep
  <1>4. CASE ReadSpc \/ ReadDsp \/ ReadDspMem
    BY <1>4, ReadSpcStep, ReadDspStep, ReadDspMemStep
  <1>5. CASE ReadExtra
    BY <1>5, ReadExtraStep
  <1>6. CASE ReadSram
    BY <1>6, ReadSramStep
  <1>7. CASE UNCHANGED vars
    BY <1>7
       DEF vars, IInv, TypeOK, CoreInPlace, InPlace, NotYet, PastExtra, LongEnough,
           VersionRead, VersionKnown, SramRead
  <1> QED
    BY <1>1, <1>2, <1>3, <1>4, <1>5, <1>6, <1>7 DEF Next

\* The invariant holds in every reachable state.
LEMMA Invariant == Spec => []IInv
  BY InitInv, StepInv, PTL DEF Spec

-----------------------------------------------------------------------------
(* The reader's variables keep their types: no range it takes reaches past  *)
(* the end of the file, and its offset never runs negative.                 *)
THEOREM TypeCorrect == Spec => []TypeOK
  <1>1. IInv => TypeOK
    BY DEF IInv
  <1> QED
    BY Invariant, <1>1, PTL

(* Every section up to the sound is taken from where ZSNES wrote it, short  *)
(* by what a cut took away and by nothing else.                             *)
THEOREM CoreStaysInPlace == Spec => []CoreInPlace
  <1>1. IInv => CoreInPlace
    BY DEF IInv
  <1> QED
    BY Invariant, <1>1, PTL

(* A save with sound is not converted when its SPC registers are cut off.   *)
THEOREM CutsAreNoticed == Spec => []CutIsNoticed
  <1>1. IInv => CutIsNoticed
    BY DEF IInv, LongEnough, CutIsNoticed
  <1> QED
    BY Invariant, <1>1, PTL

(* A complete save without a chip, of a version the reader recognises, gets *)
(* its battery RAM back exactly, however large it is.                       *)
THEOREM SramIsExact == Spec => []SramExact
  <1>1. IInv => SramExact
    <2> SUFFICES ASSUME IInv, pc = "done", length = Total(save), save.chips = 0,
                        VersionKnown
                 PROVE  IF save.sram = 0 THEN "sram" \notin DOMAIN got
                        ELSE "sram" \in DOMAIN got /\ got["sram"] = Truth(save, "sram")
      BY DEF SramExact
    <2>1. /\ save \in Save /\ version = save.version /\ save.sram \in Nat
          /\ At(save).chips \in Nat /\ length = At(save).sram + save.sram
      BY Places, Sizes DEF IInv, TypeOK, VersionRead, Total
    <2>2. /\ save.version = "143" => At(save).sram = At(save).chips + 220
          /\ save.version # "143" => At(save).sram = At(save).chips
      BY <2>1, Places
    <2>3. o = At(save).sram
      <3>1. CASE version = "143"
        <4>1. At(save).sram = At(save).chips + EXTRA_DATA_SIZE
          BY <2>1, <2>2, <3>1 DEF EXTRA_DATA_SIZE
        <4> QED
          BY <2>1, <3>1, <4>1 DEF IInv, PastExtra, EXTRA_DATA_SIZE
      <3>2. CASE version # "143"
        <4>1. At(save).sram = At(save).chips
          BY <2>1, <2>2, <3>2
        <4> QED
          BY <3>2, <4>1 DEF IInv, PastExtra
      <3> QED
        BY <3>1, <3>2
    <2>4. Truth(save, "sram") = <<o, length>> /\ o \in Nat
      BY <2>1, <2>3, Sizes DEF Truth, IInv, TypeOK
    <2> QED
      BY <2>1, <2>3, <2>4 DEF IInv, SramRead
  <1> QED
    BY Invariant, <1>1, PTL

(* Whatever was cut off, what is returned as battery RAM is the end of the  *)
(* file, from no earlier than the end of the sound, behind the extra        *)
(* section when that was taken.                                             *)
THEOREM CutSramIsTheTail == Spec => []CutSramIsTail
  <1>1. IInv => CutSramIsTail
    <2> SUFFICES ASSUME IInv, pc = "done", "sram" \in DOMAIN got
                 PROVE  /\ got["sram"][2] = length
                        /\ got["sram"][1] >= At(save).chips
                        /\ "extra" \in DOMAIN got => got["sram"][1] = got["extra"][2]
      BY DEF CutSramIsTail
    <2>1. got["sram"] = <<o, length>> /\ At(save).chips \in Nat
      BY Places DEF IInv, TypeOK, SramRead
    <2> QED
      BY <2>1 DEF IInv, PastExtra, EXTRA_DATA_SIZE
  <1> QED
    BY Invariant, <1>1, PTL

-----------------------------------------------------------------------------
(* The register block: its fields and what they have in common.             *)

\* The sizes, worked out.
LEMMA Constants ==
  /\ SpcRamBelow = 65472 /\ TcallAt = 65600 /\ PPU_REG_SIZE = 3019
  BY DEF SpcRamBelow, TcallAt, SpcIndexed, PPU_REG_SIZE

\* Ranges that do not overlap share no byte.
LEMMA IntervalsApart ==
  ASSUME NEW a \in Nat, NEW m \in Nat, NEW b \in Nat, NEW n \in Nat,
         a + m <= b \/ b + n <= a
  PROVE  Bytes(a, m) \cap Bytes(b, n) = {}
  BY DEF Bytes

\* The tables of offsets: every number lies in the register block, and no two
\* overlap.
LEMMA OnesIn == \A a \in OneByte : a \in Nat /\ a + 1 <= 3019
  BY DEF OneByte
LEMMA TwosIn == \A a \in TwoBytes : a \in Nat /\ a + 2 <= 3019
  BY DEF TwoBytes
LEMMA FoursIn == \A a \in FourBytes : a \in Nat /\ a + 4 <= 3019
  BY DEF FourBytes

LEMMA OnesTwos == \A a \in OneByte, b \in TwoBytes : a + 1 <= b \/ b + 2 <= a
  BY DEF OneByte, TwoBytes
LEMMA OnesFours == \A a \in OneByte, b \in FourBytes : a + 1 <= b \/ b + 4 <= a
  BY DEF OneByte, FourBytes
LEMMA TwosTwos == \A a, b \in TwoBytes : a # b => a + 2 <= b \/ b + 2 <= a
  BY DEF TwoBytes
LEMMA TwosFours == \A a \in TwoBytes, b \in FourBytes : a + 2 <= b \/ b + 4 <= a
  BY DEF TwoBytes, FourBytes
LEMMA FoursFours == \A a, b \in FourBytes : a # b => a + 4 <= b \/ b + 4 <= a
  BY DEF FourBytes

ChannelStarts == {165, 181, 197, 213, 229, 245, 261, 277}

LEMMA ChannelsApart ==
  /\ \A a, b \in ChannelStarts : a # b => a + 16 <= b \/ b + 16 <= a
  /\ \A a \in OneByte, b \in ChannelStarts : a + 1 <= b \/ b + 16 <= a
  /\ \A a \in TwoBytes, b \in ChannelStarts : a + 2 <= b \/ b + 16 <= a
  /\ \A a \in FourBytes, b \in ChannelStarts : a + 4 <= b \/ b + 16 <= a
  /\ \A a \in ChannelStarts : a \in Nat /\ a + 16 <= 464
<1>1. \A a \in ChannelStarts : a \in Nat /\ 165 <= a /\ a + 16 <= 293
  BY DEF ChannelStarts
<1>2. \A a \in OneByte : a + 1 <= 165 \/ 293 <= a
  BY DEF OneByte
<1>3. \A a \in TwoBytes : a + 2 <= 165 \/ 293 <= a
  BY DEF TwoBytes
<1>4. \A a \in FourBytes : a + 4 <= 165
  BY DEF FourBytes
<1>5. \A a, b \in ChannelStarts : a # b => a + 16 <= b \/ b + 16 <= a
  BY DEF ChannelStarts
<1>6. \A a \in OneByte, b \in ChannelStarts : a + 1 <= b \/ b + 16 <= a
  BY <1>1, <1>2, OnesIn
<1>7. \A a \in TwoBytes, b \in ChannelStarts : a + 2 <= b \/ b + 16 <= a
  BY <1>1, <1>3, TwosIn
<1>8. \A a \in FourBytes, b \in ChannelStarts : a + 4 <= b \/ b + 16 <= a
  BY <1>1, <1>4, FoursIn
<1> QED
  BY <1>1, <1>5, <1>6, <1>7, <1>8

LEMMA MemoriesApart ==
  /\ \A a \in OneByte : a + 1 <= 464 \/ 2000 <= a
  /\ \A a \in TwoBytes : a + 2 <= 464 \/ 2000 <= a
  /\ \A a \in FourBytes : a + 4 <= 464
  BY DEF OneByte, TwoBytes, FourBytes

\* Where the fields begin, with their widths.
FieldPlaces ==
  (OneByte \X {1}) \cup (TwoBytes \X {2}) \cup (FourBytes \X {4})
    \cup (ChannelStarts \X {16}) \cup {<<464, 544>>, <<1488, 512>>}

\* A field is an offset and a width.
LEMMA FieldsArePlaces ==
  ASSUME NEW f \in Fields
  PROVE  \E p \in FieldPlaces : f = Bytes(p[1], p[2])
<1>1. ASSUME NEW a, NEW n, f = Bytes(a, n), <<a, n>> \in FieldPlaces
      PROVE  \E p \in FieldPlaces : f = Bytes(p[1], p[2])
  BY <1>1
<1>2. ASSUME NEW i \in 0..7, f = Channel(i)
      PROVE  f = Bytes(165 + 16 * i, 16) /\ 165 + 16 * i \in ChannelStarts
  BY <1>2 DEF Channel, ChannelStarts
<1>3. ASSUME NEW a \in ChannelStarts PROVE <<a, 16>> \in FieldPlaces
  BY DEF FieldPlaces
<1>4. /\ \A a \in OneByte : <<a, 1>> \in FieldPlaces
      /\ \A a \in TwoBytes : <<a, 2>> \in FieldPlaces
      /\ \A a \in FourBytes : <<a, 4>> \in FieldPlaces
      /\ <<464, 544>> \in FieldPlaces /\ <<1488, 512>> \in FieldPlaces
  BY DEF FieldPlaces
<1>5. \/ \E a \in OneByte : f = Bytes(a, 1)
      \/ \E a \in TwoBytes : f = Bytes(a, 2)
      \/ \E a \in FourBytes : f = Bytes(a, 4)
      \/ \E i \in 0..7 : f = Channel(i)
      \/ f = Bytes(464, 544) \/ f = Bytes(1488, 512)
  <2>1. f \in Numbers \/ (\E i \in 0..7 : f = Channel(i)) \/ f = Oam \/ f = Cgram
    BY DEF Fields
  <2>2. ASSUME f \in Numbers
        PROVE  \/ \E a \in OneByte : f = Bytes(a, 1)
               \/ \E a \in TwoBytes : f = Bytes(a, 2)
               \/ \E a \in FourBytes : f = Bytes(a, 4)
    <3>1. \/ f \in {Bytes(a, 1) : a \in OneByte}
          \/ f \in {Bytes(a, 2) : a \in TwoBytes}
          \/ f \in {Bytes(a, 4) : a \in FourBytes}
      BY <2>2, Zenon DEF Numbers
    <3> QED
      BY <3>1, Zenon
  <2> QED
    BY <2>1, <2>2 DEF Oam, Cgram
<1>6. CASE \E a \in OneByte : f = Bytes(a, 1)
  <2>1. PICK a \in OneByte : f = Bytes(a, 1)
    BY <1>6
  <2>2. <<a, 1>> \in FieldPlaces
    BY <1>4
  <2> QED
    BY <1>1, <2>1, <2>2
<1>7. CASE \E a \in TwoBytes : f = Bytes(a, 2)
  <2>1. PICK a \in TwoBytes : f = Bytes(a, 2)
    BY <1>7
  <2>2. <<a, 2>> \in FieldPlaces
    BY <1>4
  <2> QED
    BY <1>1, <2>1, <2>2
<1>8. CASE \E a \in FourBytes : f = Bytes(a, 4)
  <2>1. PICK a \in FourBytes : f = Bytes(a, 4)
    BY <1>8
  <2>2. <<a, 4>> \in FieldPlaces
    BY <1>4
  <2> QED
    BY <1>1, <2>1, <2>2
<1>9. CASE \E i \in 0..7 : f = Channel(i)
  <2>1. PICK a \in ChannelStarts : f = Bytes(a, 16)
    BY <1>2, <1>9
  <2> QED
    BY <1>1, <1>3, <2>1
<1>10. CASE f = Bytes(464, 544) \/ f = Bytes(1488, 512)
  BY <1>1, <1>4, <1>10
<1> QED
  BY <1>5, <1>6, <1>7, <1>8, <1>9, <1>10

\* No two fields overlap, and all lie in the register block.
LEMMA PlacesApart ==
  /\ \A p \in FieldPlaces : p[1] \in Nat /\ p[2] \in Nat /\ p[1] + p[2] <= 3019
  /\ \A p, q \in FieldPlaces : p # q => p[1] + p[2] <= q[1] \/ q[1] + q[2] <= p[1]
<1>1. ASSUME NEW p \in FieldPlaces
      PROVE  \/ p \in OneByte \X {1} \/ p \in TwoBytes \X {2} \/ p \in FourBytes \X {4}
             \/ p \in ChannelStarts \X {16} \/ p = <<464, 544>> \/ p = <<1488, 512>>
  BY DEF FieldPlaces
<1>2. ASSUME NEW p \in FieldPlaces
      PROVE  p[1] \in Nat /\ p[2] \in Nat /\ p[1] + p[2] <= 3019
  BY <1>1, OnesIn, TwosIn, FoursIn, ChannelsApart
<1>3. ASSUME NEW p \in FieldPlaces, NEW q \in FieldPlaces, p # q
      PROVE  p[1] + p[2] <= q[1] \/ q[1] + q[2] <= p[1]
  <2>1. CASE p \in OneByte \X {1}
    <3>1. CASE q \in OneByte \X {1}
      BY <1>3, <2>1, <3>1, OnesIn
    <3>2. CASE q \in TwoBytes \X {2}
      BY <2>1, <3>2, OnesTwos
    <3>3. CASE q \in FourBytes \X {4}
      BY <2>1, <3>3, OnesFours
    <3>4. CASE q \in ChannelStarts \X {16}
      BY <2>1, <3>4, ChannelsApart
    <3>5. CASE q = <<464, 544>> \/ q = <<1488, 512>>
      BY <2>1, <3>5, OnesIn, MemoriesApart
    <3> QED
      BY <1>1, <3>1, <3>2, <3>3, <3>4, <3>5
  <2>2. CASE p \in TwoBytes \X {2}
    <3>1. CASE q \in OneByte \X {1}
      BY <2>2, <3>1, OnesTwos
    <3>2. CASE q \in TwoBytes \X {2}
      BY <1>3, <2>2, <3>2, TwosTwos
    <3>3. CASE q \in FourBytes \X {4}
      BY <2>2, <3>3, TwosFours
    <3>4. CASE q \in ChannelStarts \X {16}
      BY <2>2, <3>4, ChannelsApart
    <3>5. CASE q = <<464, 544>> \/ q = <<1488, 512>>
      BY <2>2, <3>5, TwosIn, MemoriesApart
    <3> QED
      BY <1>1, <3>1, <3>2, <3>3, <3>4, <3>5
  <2>3. CASE p \in FourBytes \X {4}
    <3>1. CASE q \in OneByte \X {1}
      BY <2>3, <3>1, OnesFours
    <3>2. CASE q \in TwoBytes \X {2}
      BY <2>3, <3>2, TwosFours
    <3>3. CASE q \in FourBytes \X {4}
      BY <1>3, <2>3, <3>3, FoursFours
    <3>4. CASE q \in ChannelStarts \X {16}
      BY <2>3, <3>4, ChannelsApart
    <3>5. CASE q = <<464, 544>> \/ q = <<1488, 512>>
      BY <2>3, <3>5, FoursIn, MemoriesApart
    <3> QED
      BY <1>1, <3>1, <3>2, <3>3, <3>4, <3>5
  <2>4. CASE p \in ChannelStarts \X {16}
    <3>1. CASE q \in OneByte \X {1}
      BY <2>4, <3>1, ChannelsApart
    <3>2. CASE q \in TwoBytes \X {2}
      BY <2>4, <3>2, ChannelsApart
    <3>3. CASE q \in FourBytes \X {4}
      BY <2>4, <3>3, ChannelsApart
    <3>4. CASE q \in ChannelStarts \X {16}
      BY <1>3, <2>4, <3>4, ChannelsApart
    <3>5. CASE q = <<464, 544>> \/ q = <<1488, 512>>
      BY <2>4, <3>5, ChannelsApart
    <3> QED
      BY <1>1, <3>1, <3>2, <3>3, <3>4, <3>5
  <2>5. CASE p = <<464, 544>> \/ p = <<1488, 512>>
    <3>1. CASE q \in OneByte \X {1}
      BY <2>5, <3>1, OnesIn, MemoriesApart
    <3>2. CASE q \in TwoBytes \X {2}
      BY <2>5, <3>2, TwosIn, MemoriesApart
    <3>3. CASE q \in FourBytes \X {4}
      BY <2>5, <3>3, FoursIn, MemoriesApart
    <3>4. CASE q \in ChannelStarts \X {16}
      BY <2>5, <3>4, ChannelsApart
    <3>5. CASE q = <<464, 544>> \/ q = <<1488, 512>>
      BY <1>3, <2>5, <3>5
    <3> QED
      BY <1>1, <3>1, <3>2, <3>3, <3>4, <3>5
  <2> QED
    BY <1>1, <2>1, <2>2, <2>3, <2>4, <2>5
<1> QED
  BY <1>2, <1>3

\* No byte of the register block goes into two fields, and none is outside.
LEMMA FieldsStandApart == FieldsApart
<1>1. \A f \in Fields : f \subseteq 0..PPU_REG_SIZE - 1
  <2> SUFFICES ASSUME NEW f \in Fields PROVE f \subseteq 0..3018
    BY Constants
  <2>1. PICK p \in FieldPlaces : f = Bytes(p[1], p[2])
    BY FieldsArePlaces
  <2> DEFINE a == p[1]
             n == p[2]
  <2>2. a \in Nat /\ n \in Nat /\ a + n <= 3019 /\ f = a..a + n - 1
    BY <2>1, PlacesApart DEF Bytes
  <2> HIDE DEF a, n
  <2> QED
    BY <2>2
<1>2. ASSUME NEW f \in Fields, NEW g \in Fields, f # g PROVE f \cap g = {}
  <2>1. PICK p \in FieldPlaces : f = Bytes(p[1], p[2])
    BY FieldsArePlaces
  <2>2. PICK q \in FieldPlaces : g = Bytes(q[1], q[2])
    BY FieldsArePlaces
  <2>3. p # q
    BY <1>2, <2>1, <2>2
  <2>4. /\ p[1] \in Nat /\ p[2] \in Nat /\ q[1] \in Nat /\ q[2] \in Nat
        /\ p[1] + p[2] <= q[1] \/ q[1] + q[2] <= p[1]
    BY <2>3, PlacesApart
  <2> QED
    BY <2>1, <2>2, <2>4, IntervalsApart
<1> QED
  BY <1>1, <1>2 DEF FieldsApart

-----------------------------------------------------------------------------
(* The conversion: the reader has every section of the save when it is      *)
(* through, and what is made of them is made in one step.                   *)

Taken ==
  /\ pc \in {"wram", "vram", "spc", "dsp", "dspmem", "extra", "sram", "done"} =>
       "ppu" \in DOMAIN got
  /\ pc \in {"vram", "spc", "dsp", "dspmem", "extra", "sram", "done"} =>
       "wram" \in DOMAIN got
  /\ pc \in {"spc", "dsp", "dspmem", "extra", "sram", "done"} => "vram" \in DOMAIN got
  /\ pc \in {"dsp", "dspmem", "extra", "sram", "done"} /\ save.spcon =>
       "spc" \in DOMAIN got
  /\ pc \in {"extra", "sram", "done"} /\ save.spcon => "dspmem" \in DOMAIN got

\* Nothing is taken yet.
LEMMA InitTaken == Init => Taken
  BY DEF Init, Taken

\* What has been taken grows section by section.
LEMMA StepTaken == IInv /\ Taken /\ [Next]_vars => Taken'
<1> SUFFICES ASSUME IInv, Taken, [Next]_vars PROVE Taken'
  OBVIOUS
<1>1. CASE Unwrap
  BY <1>1 DEF Unwrap, Fail, Taken
<1>2. CASE ReadCpu
  BY <1>2 DEF ReadCpu, Fail, Taken
<1>3. ASSUME NEW n, NEW z, NEW next, ReadSlice(n, z, next)
      PROVE  /\ pc = n /\ pc' = next /\ save' = save /\ DOMAIN got' = DOMAIN got \cup {n}
  BY <1>3, Kept DEF ReadSlice
<1>4. CASE ReadPpu
  <2>1. /\ pc = "ppu" /\ pc' = "wram" /\ save' = save
        /\ DOMAIN got' = DOMAIN got \cup {"ppu"}
    BY <1>3, <1>4 DEF ReadPpu
  <2> QED
    BY <2>1 DEF Taken
<1>5. CASE ReadWram
  <2>1. /\ pc = "wram" /\ pc' = "vram" /\ save' = save
        /\ DOMAIN got' = DOMAIN got \cup {"wram"}
    BY <1>3, <1>5 DEF ReadWram
  <2> QED
    BY <2>1 DEF Taken
<1>6. CASE ReadVram
  <2>1. /\ pc = "vram" /\ pc' = (IF save.spcon THEN "spc" ELSE "extra") /\ save' = save
        /\ DOMAIN got' = DOMAIN got \cup {"vram"}
    <3> DEFINE next == IF save.spcon THEN "spc" ELSE "extra"
    <3>1. ReadSlice("vram", VRAM_SIZE, next)
      BY <1>6 DEF ReadVram
    <3> HIDE DEF next
    <3>2. /\ pc = "vram" /\ pc' = next /\ save' = save
          /\ DOMAIN got' = DOMAIN got \cup {"vram"}
      BY <1>3, <3>1
    <3> QED
      BY <3>2 DEF next
  <2> QED
    BY <2>1 DEF Taken
<1>7. CASE ReadSpc
  <2>1. CASE pc = "spc" /\ length < o + SpcIndexed
    BY <1>7, <2>1 DEF ReadSpc, Fail, Taken
  <2>2. CASE ~(pc = "spc" /\ length < o + SpcIndexed)
    <3>1. ReadSlice("spc", PH_SPCSAVE, "dsp")
      BY <1>7, <2>2 DEF ReadSpc
    <3>2. /\ pc = "spc" /\ pc' = "dsp" /\ save' = save
          /\ DOMAIN got' = DOMAIN got \cup {"spc"}
      BY <1>3, <3>1
    <3> QED
      BY <3>2 DEF Taken
  <2> QED
    BY <2>1, <2>2
<1>8. CASE ReadDsp
  <2>1. /\ pc = "dsp" /\ pc' = "dspmem" /\ save' = save
        /\ DOMAIN got' = DOMAIN got \cup {"dsp"}
    BY <1>3, <1>8 DEF ReadDsp
  <2> QED
    BY <2>1 DEF Taken
<1>9. CASE ReadDspMem
  <2>1. /\ pc = "dspmem" /\ pc' = "extra" /\ save' = save
        /\ DOMAIN got' = DOMAIN got \cup {"dspmem"}
    BY <1>3, <1>9 DEF ReadDspMem
  <2> QED
    BY <2>1 DEF Taken
<1>10. CASE ReadExtra
  <2>1. pc = "extra" /\ pc' = "sram" /\ save' = save /\ DOMAIN got \subseteq DOMAIN got'
    BY <1>10, Kept DEF ReadExtra
  <2> QED
    BY <2>1 DEF Taken
<1>11. CASE ReadSram
  <2>1. pc = "sram" /\ pc' = "done" /\ save' = save /\ DOMAIN got \subseteq DOMAIN got'
    BY <1>11, Kept DEF ReadSram
  <2> QED
    BY <2>1 DEF Taken
<1>12. CASE UNCHANGED vars
  BY <1>12 DEF vars, Taken
<1> QED
  BY <1>1, <1>2, <1>4, <1>5, <1>6, <1>7, <1>8, <1>9, <1>10, <1>11, <1>12 DEF Next

\* A section that the reader took, by its length.
LEMMA Amounts ==
  ASSUME IInv, NEW n \in DOMAIN got \ {"extra", "sram"}, NEW a \in Nat, NEW e \in Nat,
         a <= e, Truth(save, n) = <<a, e>>
  PROVE  /\ length \in Nat
         /\ got[n] = Left(<<a, e>>, length)
         /\ Amount(n) \in Nat
         /\ length <= a => Amount(n) = 0 /\ Begin(n) = length
         /\ a <= length => Begin(n) = a
         /\ a <= length /\ length <= e => Amount(n) = length - a /\ got[n][2] = length
         /\ e <= length => Amount(n) = e - a /\ got[n][2] = e
<1>1. length \in Nat /\ got[n] = Left(<<a, e>>, length)
  BY TotalIsNat DEF IInv, TypeOK, CoreInPlace
<1>2. /\ got[n][1] = IF a <= length THEN a ELSE length
      /\ got[n][2] = IF e <= length THEN e ELSE length
  BY <1>1 DEF Left
<1>3. Amount(n) = got[n][2] - got[n][1] /\ Begin(n) = got[n][1]
  BY DEF Amount, Begin
<1> QED
  BY <1>1, <1>2, <1>3

\* How much of the register block a dump of some length has.
LEMMA PpuAmount ==
  ASSUME IInv, Taken, pc = "done"
  PROVE  /\ "ppu" \in DOMAIN got /\ At(save).ppu = 44
         /\ length \in Nat /\ Amount("ppu") \in Nat
         /\ length <= 44 => Amount("ppu") = 0 /\ Begin("ppu") = length
         /\ 44 <= length => Begin("ppu") = 44
         /\ 44 <= length /\ length <= 3063 =>
              Amount("ppu") = length - 44 /\ got["ppu"][2] = length
         /\ 3063 <= length => Amount("ppu") = 3019 /\ got["ppu"][2] = 3063
<1>1. /\ "ppu" \in DOMAIN got \ {"extra", "sram"} /\ save \in Save
  BY DEF Taken, IInv, TypeOK
<1>2. At(save).ppu = 44 /\ Truth(save, "ppu") = <<44, 3063>>
  <2>1. At(save).ppu = 44 /\ SizeIn(save).ppu = 3019
    BY <1>1, Places, Sizes
  <2>2. At(save)["ppu"] + SizeIn(save)["ppu"] = 3063
    BY <2>1
  <2> QED
    BY <2>1, <2>2 DEF Truth
<1> DEFINE a == 44
           e == 3063
<1>3. a \in Nat /\ e \in Nat /\ a <= e /\ Truth(save, "ppu") = <<a, e>>
  BY <1>2
<1> HIDE DEF a, e
<1>4. /\ length \in Nat /\ Amount("ppu") \in Nat
      /\ length <= a => Amount("ppu") = 0 /\ Begin("ppu") = length
      /\ a <= length => Begin("ppu") = a
      /\ a <= length /\ length <= e => Amount("ppu") = length - a /\ got["ppu"][2] = length
      /\ e <= length => Amount("ppu") = e - a /\ got["ppu"][2] = e
  BY <1>1, <1>3, Amounts
<1> QED
  BY <1>1, <1>2, <1>4 DEF a, e

\* A byte of the register block is there if the file reaches so far.
LEMMA ThereIsInFile ==
  ASSUME IInv, Taken, pc = "done", NEW f \in Fields
  PROVE  There(f) <=> \A b \in f : InFile(b)
<1>1. f \subseteq 0..3018
  BY FieldsStandApart, Constants DEF FieldsApart
<1> DEFINE m == Amount("ppu")
           I == 0..3018
<1>2. \A b \in I : InFile(b) => b < m
  BY PpuAmount DEF InFile
<1>3. \A b \in I : b < m => InFile(b)
  BY PpuAmount DEF InFile
<1>4. There(f) <=> \A b \in f : b < m
  BY DEF There
<1>5. \A b \in f : b \in I
  BY <1>1
<1> HIDE DEF m, I
<1>6. ASSUME \A b \in f : InFile(b) PROVE \A b \in f : b < m
  BY <1>2, <1>5, <1>6
<1>7. ASSUME \A b \in f : b < m PROVE \A b \in f : InFile(b)
  BY <1>3, <1>5, <1>7
<1> QED
  BY <1>4, <1>6, <1>7

\* A slice of the register block holds what the file has of it.
LEMMA MemoryPart ==
  ASSUME IInv, Taken, pc = "done", NEW a \in Nat, NEW z \in Nat, a + z <= 3019
  PROVE  Part("ppu", a, z)[2] - Part("ppu", a, z)[1]
           = Cardinality({b \in Bytes(a, z) : InFile(b)})
<1> DEFINE p == Part("ppu", a, z)
           B == {b \in Bytes(a, z) : InFile(b)}
           m == Amount("ppu")
<1>1. /\ length \in Nat /\ m \in Nat
      /\ length <= 44 => m = 0
      /\ 44 <= length => Begin("ppu") = 44
      /\ 44 <= length /\ length <= 3063 => m = length - 44 /\ got["ppu"][2] = length
      /\ 3063 <= length => m = 3019 /\ got["ppu"][2] = 3063
  BY PpuAmount
<1>2. p = IF m <= a THEN <<0, 0>>
          ELSE <<Begin("ppu") + a, IF m <= a + z THEN got["ppu"][2] ELSE Begin("ppu") + a + z>>
  BY PpuAmount DEF Part
<1>3. B = {b \in a..a + z - 1 : 44 + b < length}
  BY PpuAmount DEF Bytes, InFile
<1> SUFFICES p[2] - p[1] = Cardinality(B)
  OBVIOUS
<1> HIDE DEF p, B, m
<1>4. CASE m <= a
  <2>1. p[2] - p[1] = 0
    BY <1>2, <1>4
  <2>2. B = {}
    BY <1>1, <1>3, <1>4
  <2> QED
    BY <2>1, <2>2, FS_EmptySet
<1>5. CASE a < m /\ m <= a + z
  <2>1. p[1] = 44 + a /\ p[2] = 44 + m
    BY <1>1, <1>2, <1>5
  <2>2. B = a..m - 1
    BY <1>1, <1>3, <1>5
  <2>3. Cardinality(a..m - 1) = m - a
    BY <1>1, <1>5, FS_Interval
  <2> QED
    BY <1>1, <2>1, <2>2, <2>3
<1>6. CASE a + z < m
  <2>1. p[1] = 44 + a /\ p[2] = 44 + a + z
    BY <1>1, <1>2, <1>6
  <2>2. B = a..a + z - 1
    BY <1>1, <1>3, <1>6
  <2>3. Cardinality(a..a + z - 1) = z
    BY FS_Interval
  <2> QED
    BY <2>1, <2>2, <2>3
<1> QED
  BY <1>1, <1>4, <1>5, <1>6

\* A memory behind the register block: what is left of it, or nothing.
LEMMA WholePart ==
  ASSUME IInv, NEW n \in DOMAIN got \ {"extra", "sram"}, NEW a \in Nat, NEW z \in Nat,
         Truth(save, n) = <<a, a + z>>
  PROVE  Part(n, 0, z) = LET there == Left(<<a, a + z>>, length) IN
                         IF there[1] = there[2] THEN <<0, 0>> ELSE there
<1> DEFINE e == a + z
           there == Left(<<a, e>>, length)
           m == Amount(n)
<1>0. e \in Nat /\ a <= e /\ Truth(save, n) = <<a, e>>
  OBVIOUS
<1>1. /\ length \in Nat /\ m \in Nat
      /\ length <= a => m = 0 /\ Begin(n) = length
      /\ a <= length => Begin(n) = a
      /\ a <= length /\ length <= e => m = length - a /\ got[n][2] = length
      /\ e <= length => m = e - a /\ got[n][2] = e
  <2> HIDE DEF e
  <2> QED
    BY <1>0, Amounts
<1>2. Part(n, 0, z) = IF m <= 0 THEN <<0, 0>>
                      ELSE <<Begin(n) + 0, IF m <= 0 + z THEN got[n][2] ELSE Begin(n) + 0 + z>>
  BY DEF Part
<1>3. there = <<IF a <= length THEN a ELSE length, IF e <= length THEN e ELSE length>>
  BY DEF Left
<1>4. e = a + z
  OBVIOUS
<1> SUFFICES Part(n, 0, z) = IF there[1] = there[2] THEN <<0, 0>> ELSE there
  OBVIOUS
<1> HIDE DEF e, there, m
<1>5. CASE m = 0
  <2>1. there[1] = there[2]
    BY <1>0, <1>1, <1>3, <1>5
  <2> QED
    BY <1>2, <1>5, <2>1
<1>6. CASE m > 0
  <2>1. a < length /\ a < e
    BY <1>0, <1>1, <1>6
  <2>2. there[1] # there[2] /\ there[1] = a
    BY <1>0, <1>1, <1>3, <2>1
  <2>3. m <= z /\ got[n][2] = there[2] /\ Begin(n) = a
    BY <1>0, <1>1, <1>3, <1>4, <2>1
  <2>4. there = <<there[1], there[2]>>
    BY <1>3
  <2> QED
    BY <1>1, <1>2, <1>6, <2>2, <2>3, <2>4
<1> QED
  BY <1>1, <1>5, <1>6

-----------------------------------------------------------------------------
(* What the conversion makes, in the state it makes it in.                  *)

Out == [done |-> TRUE,
        numbers  |-> {n \in Numbers : There(n)},
        channels |-> {i \in 0..7 : There(Channel(i))},
        oam   |-> Part("ppu", 464, 544),
        cgram |-> Part("ppu", 1488, 512),
        wram  |-> Part("wram", 0, 131072),
        vram  |-> Part("vram", 0, 65536),
        spcRam |-> Sound.spcRam, dsp |-> Sound.dsp, rom |-> Sound.rom,
        echo |-> Sound.echo]

\* Each number is made from the bytes the dump has of it.
LEMMA NumbersMade ==
  ASSUME IInv, Taken, pc = "done"
  PROVE  /\ Out.numbers  = {n \in Numbers : \A b \in n : InFile(b)}
         /\ Out.channels = {i \in 0..7 : \A b \in Channel(i) : InFile(b)}
         /\ Out.oam[2] - Out.oam[1]     = Cardinality({b \in Oam : InFile(b)})
         /\ Out.cgram[2] - Out.cgram[1] = Cardinality({b \in Cgram : InFile(b)})
         /\ \A n \in {"wram", "vram"} :
              LET there == Left(Truth(save, n), length) IN
              Out[n] = IF there[1] = there[2] THEN <<0, 0>> ELSE there
<1>1. Out.numbers = {n \in Numbers : \A b \in n : InFile(b)}
  <2>1. \A n \in Numbers : n \in Fields
    BY DEF Fields
  <2>2. \A n \in Numbers : There(n) <=> \A b \in n : InFile(b)
    BY <2>1, ThereIsInFile
  <2>3. Out.numbers = {n \in Numbers : There(n)}
    BY DEF Out
  <2> QED
    BY <2>2, <2>3
<1>2. Out.channels = {i \in 0..7 : \A b \in Channel(i) : InFile(b)}
  <2>1. \A i \in 0..7 : Channel(i) \in Fields
    BY DEF Fields
  <2>2. \A i \in 0..7 : There(Channel(i)) <=> \A b \in Channel(i) : InFile(b)
    BY <2>1, ThereIsInFile
  <2>3. Out.channels = {i \in 0..7 : There(Channel(i))}
    BY DEF Out
  <2> QED
    BY <2>2, <2>3
<1>3. /\ Out.oam[2] - Out.oam[1]     = Cardinality({b \in Oam : InFile(b)})
      /\ Out.cgram[2] - Out.cgram[1] = Cardinality({b \in Cgram : InFile(b)})
  <2>1. Out.oam = Part("ppu", 464, 544) /\ Out.cgram = Part("ppu", 1488, 512)
    BY DEF Out
  <2>2. 464 + 544 <= 3019 /\ 1488 + 512 <= 3019
    OBVIOUS
  <2>3. Part("ppu", 464, 544)[2] - Part("ppu", 464, 544)[1]
          = Cardinality({b \in Bytes(464, 544) : InFile(b)})
    BY <2>2, MemoryPart
  <2>4. Part("ppu", 1488, 512)[2] - Part("ppu", 1488, 512)[1]
          = Cardinality({b \in Bytes(1488, 512) : InFile(b)})
    BY <2>2, MemoryPart
  <2> QED
    BY <2>1, <2>3, <2>4 DEF Oam, Cgram
<1>4. ASSUME NEW n, n = "wram" \/ n = "vram"
      PROVE  Out[n] = LET there == Left(Truth(save, n), length) IN
                      IF there[1] = there[2] THEN <<0, 0>> ELSE there
  <2>1. save \in Save /\ n \in DOMAIN got \ {"extra", "sram"}
    BY <1>4 DEF IInv, TypeOK, Taken
  <2>2. /\ At(save)["wram"] = 3063 /\ SizeIn(save)["wram"] = 131072
        /\ At(save)["vram"] = 134135 /\ SizeIn(save)["vram"] = 65536
    BY <2>1, Places, Sizes
  <2> DEFINE a == At(save)[n]
             z == SizeIn(save)[n]
  <2>3. a \in Nat /\ z \in Nat /\ Out[n] = Part(n, 0, z)
    BY <1>4, <2>2 DEF Out
  <2>4. Truth(save, n) = <<a, a + z>>
    BY DEF Truth
  <2> HIDE DEF a, z
  <2>5. Part(n, 0, z) = LET there == Left(<<a, a + z>>, length) IN
                        IF there[1] = there[2] THEN <<0, 0>> ELSE there
    BY <2>1, <2>3, <2>4, WholePart
  <2> QED
    BY <2>3, <2>4, <2>5
<1> QED
  BY <1>1, <1>2, <1>3, <1>4

\* The sound processor's RAM, put together from its two places.
LEMMA SoundMade ==
  ASSUME IInv, Taken, pc = "done"
  PROVE  IF save.spcon
         THEN /\ ~Out.rom
              /\ length >= At(save).chips =>
                   /\ \E low, high \in Out.spcRam :
                        /\ low.at = 0 /\ low.range[1] = At(save).spc
                        /\ low.range[2] - low.range[1] = high.at
                        /\ high.at + (high.range[2] - high.range[1]) = 65536
                        /\ low.range[2] <= high.range[1]
                   /\ Out.dsp[2] - Out.dsp[1] = 128
                   /\ Out.echo = "saved"
         ELSE Out.rom /\ Out.echo = "off" /\ Out.spcRam = {}
<1>1. save \in Save /\ save.spcon \in BOOLEAN
  BY Sizes DEF IInv, TypeOK
<1>2. /\ Out.rom = Sound.rom /\ Out.echo = Sound.echo
      /\ Out.spcRam = Sound.spcRam /\ Out.dsp = Sound.dsp
  BY DEF Out
<1>3. CASE ~save.spcon
  BY <1>2, <1>3 DEF Sound
<1>4. CASE save.spcon
  <2>1. /\ ~Sound.rom /\ Sound.spcRam = SpcRam /\ Sound.dsp = Part("dspmem", 0, 128)
        /\ Sound.echo = IF Amount("dspmem") > 108 THEN "saved" ELSE "on"
    BY <1>4 DEF Sound
  <2>2. /\ At(save)["spc"] = 199671 /\ SizeIn(save)["spc"] = 65856
        /\ At(save)["dspmem"] = 266595 /\ SizeIn(save)["dspmem"] = 256
        /\ At(save).chips = 266851
    BY <1>1, <1>4, Places, Sizes
  <2>3. /\ "spc" \in DOMAIN got \ {"extra", "sram"}
        /\ "dspmem" \in DOMAIN got \ {"extra", "sram"}
    BY <1>4 DEF Taken
  <2>4. Truth(save, "spc") = <<199671, 265527>> /\ Truth(save, "dspmem") = <<266595, 266851>>
    BY <2>2 DEF Truth
  <2> SUFFICES ASSUME length >= At(save).chips
               PROVE  /\ \E low, high \in SpcRam :
                           /\ low.at = 0 /\ low.range[1] = At(save).spc
                           /\ low.range[2] - low.range[1] = high.at
                           /\ high.at + (high.range[2] - high.range[1]) = 65536
                           /\ low.range[2] <= high.range[1]
                      /\ Sound.dsp[2] - Sound.dsp[1] = 128
                      /\ Sound.echo = "saved"
    BY <1>2, <1>4, <2>1
  <2>5. /\ Amount("spc") = 65856 /\ got["spc"][2] = 265527 /\ Begin("spc") = 199671
    <3> DEFINE a == 199671
               e == 265527
    <3>1. a \in Nat /\ e \in Nat /\ a <= e /\ e <= At(save).chips
          /\ Truth(save, "spc") = <<a, e>>
      BY <2>2, <2>4
    <3> HIDE DEF a, e
    <3>2. length \in Nat
      BY <2>3, <3>1, Amounts
    <3>3. At(save).chips \in Nat
      BY <2>2
    <3>4. Amount("spc") = e - a /\ got["spc"][2] = e /\ Begin("spc") = a
      BY <2>3, <3>1, <3>2, <3>3, Amounts
    <3> QED
      BY <3>4 DEF a, e
  <2>6. Amount("dspmem") = 256 /\ got["dspmem"][2] = 266851 /\ Begin("dspmem") = 266595
    <3> DEFINE a == 266595
               e == 266851
    <3>1. a \in Nat /\ e \in Nat /\ a <= e /\ e <= At(save).chips
          /\ Truth(save, "dspmem") = <<a, e>>
      BY <2>2, <2>4
    <3> HIDE DEF a, e
    <3>2. length \in Nat
      BY <2>3, <3>1, Amounts
    <3>3. At(save).chips \in Nat
      BY <2>2
    <3>4. Amount("dspmem") = e - a /\ got["dspmem"][2] = e /\ Begin("dspmem") = a
      BY <2>3, <3>1, <3>2, <3>3, Amounts
    <3> QED
      BY <3>4 DEF a, e
  <2>7. Part("dspmem", 0, 128) = <<266595, 266723>>
    BY <2>3, <2>6 DEF Part
  <2>8. Part("spc", 0, 65472) = <<199671, 265143>>
    BY <2>3, <2>5 DEF Part
  <2>9. Part("spc", 65600, 64) = <<265271, 265335>>
    BY <2>3, <2>5 DEF Part
  <2>10. SpcRamBelow = 65472 /\ TcallAt = 65600
    BY DEF SpcRamBelow, TcallAt, SpcIndexed
  <2>11. SpcRam = {Piece(0, <<199671, 265143>>), Piece(65472, <<265271, 265335>>)}
    BY <2>8, <2>9, <2>10 DEF SpcRam
  <2>12. \E low, high \in SpcRam :
           /\ low.at = 0 /\ low.range[1] = At(save).spc
           /\ low.range[2] - low.range[1] = high.at
           /\ high.at + (high.range[2] - high.range[1]) = 65536
           /\ low.range[2] <= high.range[1]
    <3> DEFINE l == Piece(0, <<199671, 265143>>)
               h == Piece(65472, <<265271, 265335>>)
    <3>1. l \in SpcRam /\ h \in SpcRam
      BY <2>11
    <3>2. l.at = 0 /\ l.range = <<199671, 265143>>
      BY DEF Piece
    <3>3. h.at = 65472 /\ h.range = <<265271, 265335>>
      BY DEF Piece
    <3> HIDE DEF l, h
    <3>4. /\ l.at = 0 /\ l.range[1] = At(save).spc
          /\ l.range[2] - l.range[1] = h.at
          /\ h.at + (h.range[2] - h.range[1]) = 65536
          /\ l.range[2] <= h.range[1]
      BY <2>2, <3>2, <3>3
    <3> QED
      BY <3>1, <3>4
  <2> QED
    BY <2>1, <2>6, <2>7, <2>12
<1> QED
  BY <1>1, <1>3, <1>4

-----------------------------------------------------------------------------
(* The converter runs the reader to its end and then converts, once.        *)

CInv ==
  /\ IInv /\ Taken
  /\ out.done => pc = "done"
  /\ NumbersWhole /\ SoundWhole

\* A parser that has returned takes no step.
LEMMA DoneStays == pc = "done" => ~Next
  BY DEF Next, Unwrap, ReadCpu, ReadPpu, ReadWram, ReadVram, ReadSpc, ReadDsp, ReadDspMem,
         ReadExtra, ReadSram, ReadSlice

\* The converter has made nothing yet.
LEMMA CInitInv == CInit => CInv
<1> SUFFICES ASSUME CInit PROVE CInv
  OBVIOUS
<1>1. IInv /\ Taken
  BY InitInv, InitTaken DEF CInit
<1>2. ~out.done
  BY DEF CInit, Blank
<1> QED
  BY <1>1, <1>2 DEF CInv, NumbersWhole, SoundWhole, Converted

\* The step that converts.
LEMMA ConvertStep == CInv /\ Convert => CInv'
<1> SUFFICES ASSUME CInv, Convert PROVE CInv'
  OBVIOUS
<1>1. IInv /\ Taken /\ pc = "done" /\ out' = Out /\ UNCHANGED vars
  BY DEF CInv, Convert, Out
<1>2. /\ save' = save /\ length' = length /\ got' = got /\ pc' = pc
  BY <1>1 DEF vars
<1>3. IInv' /\ Taken'
  BY <1>1, StepInv, StepTaken
<1>4. \A b : InFile(b)' <=> InFile(b)
  BY <1>2 DEF InFile
<1>5. NumbersWhole'
  <2>1. FieldsApart'
    BY FieldsStandApart DEF FieldsApart
  <2>2. /\ Out.numbers  = {n \in Numbers : \A b \in n : InFile(b)}
        /\ Out.channels = {i \in 0..7 : \A b \in Channel(i) : InFile(b)}
    BY <1>1, NumbersMade
  <2>3. /\ Out.oam[2] - Out.oam[1]     = Cardinality({b \in Oam : InFile(b)})
        /\ Out.cgram[2] - Out.cgram[1] = Cardinality({b \in Cgram : InFile(b)})
    BY <1>1, NumbersMade
  <2>4. \A n \in {"wram", "vram"} :
          LET there == Left(Truth(save, n), length) IN
          Out[n] = IF there[1] = there[2] THEN <<0, 0>> ELSE there
    BY <1>1, NumbersMade
  <2>5. out'.numbers  = {n \in Numbers : \A b \in n : InFile(b)'}
    BY <1>1, <1>4, <2>2
  <2>6. out'.channels = {i \in 0..7 : \A b \in Channel(i) : InFile(b)'}
    BY <1>1, <1>4, <2>2
  <2>7. out'.oam[2] - out'.oam[1] = Cardinality({b \in Oam : InFile(b)'})
    <3>1. {b \in Oam : InFile(b)'} = {b \in Oam : InFile(b)}
      BY <1>4
    <3> QED
      BY <1>1, <2>3, <3>1
  <2>8. out'.cgram[2] - out'.cgram[1] = Cardinality({b \in Cgram : InFile(b)'})
    <3>1. {b \in Cgram : InFile(b)'} = {b \in Cgram : InFile(b)}
      BY <1>4
    <3> QED
      BY <1>1, <2>3, <3>1
  <2>9. \A n \in {"wram", "vram"} :
          LET there == Left(Truth(save', n), length') IN
          out'[n] = IF there[1] = there[2] THEN <<0, 0>> ELSE there
    BY <1>1, <1>2, <2>4
  <2> QED
    BY <2>1, <2>5, <2>6, <2>7, <2>8, <2>9 DEF NumbersWhole
<1>6. SoundWhole'
  <2>1. IF save.spcon
        THEN /\ ~Out.rom
             /\ length >= At(save).chips =>
                  /\ \E low, high \in Out.spcRam :
                       /\ low.at = 0 /\ low.range[1] = At(save).spc
                       /\ low.range[2] - low.range[1] = high.at
                       /\ high.at + (high.range[2] - high.range[1]) = 65536
                       /\ low.range[2] <= high.range[1]
                  /\ Out.dsp[2] - Out.dsp[1] = 128
                  /\ Out.echo = "saved"
        ELSE Out.rom /\ Out.echo = "off" /\ Out.spcRam = {}
    BY <1>1, SoundMade
  <2> HIDE DEF Out
  <2> QED
    BY <1>1, <1>2, <2>1 DEF SoundWhole
<1> QED
  BY <1>1, <1>2, <1>3, <1>5, <1>6 DEF CInv

\* Every step of the parser and of the converter keeps the invariant.
LEMMA CStepInv == CInv /\ [CNext]_cvars => CInv'
<1> SUFFICES ASSUME CInv, [CNext]_cvars PROVE CInv'
  OBVIOUS
<1>1. CASE Next /\ UNCHANGED out
  <2>1. IInv' /\ Taken'
    BY <1>1, StepInv, StepTaken DEF CInv
  <2>2. ~out'.done
    BY <1>1, DoneStays DEF CInv
  <2> QED
    BY <2>1, <2>2 DEF CInv, NumbersWhole, SoundWhole, Converted
<1>2. CASE Convert
  BY <1>2, ConvertStep
<1>3. CASE UNCHANGED cvars
  <2>1. UNCHANGED vars /\ UNCHANGED out
    BY <1>3 DEF cvars, vars
  <2>2. IInv' /\ Taken'
    BY <2>1, StepInv, StepTaken DEF CInv
  <2>3. NumbersWhole'
    BY <2>1 DEF CInv, vars, NumbersWhole, Converted, InFile, FieldsApart
  <2>4. SoundWhole'
    BY <2>1 DEF CInv, vars, SoundWhole, Converted
  <2> QED
    BY <2>1, <2>2, <2>3, <2>4 DEF CInv, vars
<1> QED
  BY <1>1, <1>2, <1>3 DEF CNext

\* The invariant holds in every reachable state.
LEMMA CInvariant == CSpec => []CInv
<1>1. CInit => CInv
  BY CInitInv
<1>2. CInv /\ [CNext]_cvars => CInv'
  BY CStepInv
<1> QED
  BY <1>1, <1>2, PTL DEF CSpec

\* Wherever a dump was cut, a number of the canonical state is made of its own
\* bytes only, all of them or none; sprites, colours and memories are what the
\* file has of them.
THEOREM NumbersAreWhole == CSpec => []NumbersWhole
<1>1. CInv => NumbersWhole
  BY DEF CInv
<1> QED
  BY <1>1, CInvariant, PTL

\* The 64K of the sound processor come from one section, without a gap or an
\* overlap where the TCALL vectors are put back, and only with the boot ROM
\* off; a save without sound has it on and writes no echo.
THEOREM SoundIsWhole == CSpec => []SoundWhole
<1>1. CInv => SoundWhole
  BY DEF CInv
<1> QED
  BY <1>1, CInvariant, PTL
=============================================================================
