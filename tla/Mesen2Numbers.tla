--------------------------- MODULE Mesen2Numbers ---------------------------
(***************************************************************************)
(* The numbers that go from the blocks of a Snes9x save into the fields of  *)
(* a Mesen2 state, by their width alone: what the decoder can return, what  *)
(* the emulator has there, and how many bits are written.  A serializer     *)
(* call for an unsigned field drops the bits that are too many; one for a   *)
(* signed field raises.  Fields that always get the same constant, flags,   *)
(* and the two sizes that are looked up in a table are left out.            *)
(***************************************************************************)
EXTENDS Integers

U(n) == [signed |-> FALSE, bits |-> n]
Sgn(n) == [signed |-> TRUE, bits |-> n]

\* Every number of type v is a number of type t.
Fits(v, t) ==
  IF t.signed THEN v.bits + (IF v.signed THEN 0 ELSE 1) <= t.bits
  ELSE ~v.signed /\ v.bits <= t.bits

\* Numbers the decoder returns with one width, of which the emulator uses
\* held, and which are written with another; named by the fields written.
Using(held, decoded, written, fields) ==
  {[field |-> f, held |-> held, decoded |-> decoded, written |-> written] : f \in fields}
All(decoded, written, fields) == Using(decoded, decoded, written, fields)

\* mesen2/converter.convert, sound processor.  Numbers decoded & 0xFF are U(8).
Spc ==
  All(U(16), U(16), {"pc"})
    \cup All(U(8), U(8), {"a", "ps", "sp", "x", "y", "cpuRegs", "outputReg", "dspReg",
                          "target", "newCpuRegs", "ram"})
    \cup Using(U(8), U(32), U(8), {"ramReg", "stage0", "stage2", "opCode"})
    \cup Using(U(4), U(32), U(4), {"output"})
    \cup All(U(2), U(8), {"externalSpeed", "internalSpeed"})

\* mesen2/converter.convert, DSP and its voices.
Dsp ==
  All(U(16), Sgn(32), {"envVolume", "prevCalculatedEnv", "interpolationPos", "noiseLfsr",
                     "pitch"})
    \cup All(Sgn(16), Sgn(32), {"voiceOutput", "outSamples", "echoIn", "echoOut"})
    \cup All(Sgn(16), Sgn(16), {"sampleBuffer", "echoHistory"})
    \cup All(U(16), U(16), {"brrAddress", "counter", "sampleAddress", "brrNextAddress",
                            "echoPointer", "echoLength", "echoOffset"})
    \cup All(U(8), U(32), {"envMode"}) \cup All(U(8), U(16), {"brrOffset"})
    \cup All(U(8), U(8),
             {"voiceBit", "keyOnDelay", "envOut", "bufferPos", "step", "outRegBuffer",
              "envRegBuffer", "voiceEndBuffer", "dirSampleTableAddress", "noiseOn",
              "pitchModulationOn", "keyOn", "newKeyOn", "keyOff", "everyOtherSample",
              "sourceNumber", "brrHeader", "brrData", "looped", "adsr1",
              "echoRingBufferAddress", "echoOn", "regs", "externalRegs"})

\* write_gsu: Snes9x keeps the chip's registers of 8 and 16 bits in 32.
Gsu ==
  Using(U(8), U(32), U(8), {"programBank", "romBank", "ramBank", "screenBase",
                            "colorGradient", "colorReg"})
    \cup Using(U(16), U(32), U(16), {"cacheBase", "ramWriteAddress", "ramAddress", "r"})
    \cup All(U(8), U(8), {"romReadBuffer", "programReadBuffer", "cache"})
    \cup All(U(4), U(8), {"srcReg", "destReg"})   \* max(0, offset // 4) & 0xF
    \cup All(U(1), U(8), {"cacheValid"})

\* write_sa1: Cycles is decoded as signed and written from zero up.
Sa1 ==
  All(U(16), U(16), {"cpu.a", "cpu.d", "cpu.pc", "cpu.sp", "cpu.x", "cpu.y",
                     "multiplicandDividend", "multiplierDivisor", "sa1ResetVector",
                     "sa1IrqVector", "sa1NmiVector", "cpuIrqVector", "cpuNmiVector"})
    \cup All(U(31), U(64), {"cpu.cycleCount"}) \cup All(U(64), U(64), {"mathOpResult"})
    \cup Using(U(8), U(16), U(8), {"cpu.ps"})
    \cup All(U(8), U(8), {"cpu.dbr", "cpu.k", "mathOverflow", "varLenBitCount",
                          "sa1MessageReceived", "cpuMessageReceived", "cpuBwBank",
                          "sa1BwBank", "bwWriteProtectedArea", "banks"})
    \cup Using(U(8), Sgn(32), U(8), {"mathOp"})
    \cup Using(U(16), Sgn(32), U(16), {"hTimer", "vTimer"})

\* write_spc7110: most numbers are put together from registers of a byte.
Spc7110 ==
  All(U(24), U(32), {"directoryBase", "readBase"})
    \cup All(U(32), U(32), {"dividend", "decompOffset"})
    \cup All(U(16), U(16), {"targetOffset", "dataLengthCounter", "multiplier", "divisor",
                            "readOffset", "readStep"})
    \cup All(U(8), U(8), {"dataRomBanks", "sramEnabled", "dataRomSize", "readMode"})
    \cup Using(U(8), U(32), U(8), {"decompMode"})

\* The clock: its index counts registers, its mode is one of a few.
Rtc ==
  Using(Sgn(8), Sgn(32), Sgn(16), {"mode"}) \cup Using(U(4), U(32), Sgn(16), {"index"})
    \cup All(U(8), U(8), {"regs"})

\* Mutant: the track is written as a byte.
Msu1TrackByte ==
  All(U(32), U(32), {"tmpDataPointer", "dataPointer", "offset"})
    \cup All(U(16), U(8), {"trackSelect"}) \cup All(U(8), U(8), {"volume"})

\* write_msu1
Msu1 ==
  All(U(32), U(32), {"tmpDataPointer", "dataPointer", "offset"})
    \cup All(U(16), U(16), {"trackSelect"}) \cup All(U(8), U(8), {"volume"})

\* write_bsx_cart
Bsx == All(U(8), U(8), {"regs", "dirtyRegs", "extOutput"})

\* What a section holds; write_nec_dsp and write_cx4 write constants only.
NumbersOf(section, type) ==
  CASE section = "spc"                  -> Spc
    [] section = "spc.dsp"              -> Dsp
    [] section = "msu1"                 -> Msu1
    [] section = "cart.coprocessor.rtc" -> Rtc
    [] section = "cart.coprocessor"     ->
         (CASE type = "gsu" -> Gsu [] type = "sa1" -> Sa1 [] type = "spc7110" -> Spc7110
            [] type = "bsx" -> Bsx [] OTHER -> {})
    [] OTHER                            -> {}

\* Some block can make struct.pack raise while the section is written.
MayRaise(section, type) ==
  \E n \in NumbersOf(section, type) : n.written.signed /\ ~Fits(n.decoded, n.written)
=============================================================================
