---------------------------- MODULE Snes9xLayouts ---------------------------
(***************************************************************************)
(* How the decoders of snes9x/decoders.py and snes9x/coprocessors.py walk   *)
(* through a block.  A layout is the sequence of reads a decoder makes,     *)
(* neighbouring reads of one kind taken together:                           *)
(*   "index"  bytes read as data[o]: IndexError when one is missing; also a *)
(*            run of fields that ends in such bytes, since it raises as soon *)
(*            as its last byte is missing                                    *)
(*   "slice"  fields read through data[o : o + n]: short when some are      *)
(*   "skip"   bytes stepped over                                            *)
(*   "pad"    bytes stepped over if there are any left                      *)
(*   "tail"   bytes that are read only if all of them are there             *)
(***************************************************************************)
EXTENDS Integers, Sequences

Read(kind, n) == [kind |-> kind, bytes |-> n]
I(n) == Read("index", n)
S(n) == Read("slice", n)

Times(n, s) == [i \in 1..n * Len(s) |-> s[((i - 1) % Len(s)) + 1]]
When(c, s)  == IF c THEN s ELSE <<>>

(* decoders.py *)

\* Mutant: what was added in version 7 is taken for an addition of version 8.
CPUGateLate(v) ==
  <<S(16)>> \o When(v < 7, <<I(1)>>) \o <<S(16), I(6), S(4), I(1)>>
    \o When(v < 7, <<Read("skip", 12)>>) \o When(v >= 8, <<I(5)>>)

CPU(v) ==
  <<S(16)>> \o When(v < 7, <<I(1)>>) \o <<S(16), I(6), S(4), I(1)>>
    \o When(v < 7, <<Read("skip", 12)>>) \o When(v >= 7, <<I(5)>>)

REG == <<I(2), S(14)>>

PPU(v) ==
  <<I(2), S(12)>>
    \o Times(4, <<S(6), I(1), S(4)>>)                       \* backgrounds
    \o <<I(5)>> \o When(v >= 11, <<I(1)>>)
    \o <<S(512)>>                                           \* palette
    \o <<I(128 * 11)>>                                      \* sprites
    \o <<I(3), S(4), I(1), S(4), I(3), S(4), S(544)>>       \* OAM
    \o <<I(4), S(8), I(2), S(8), I(1)>>                     \* timers, beam
    \o <<I(3), S(16)>>                                      \* mode 7
    \o <<I(11), I(36), I(5), S(2), I(7)>>                   \* windows, colours
    \o When(v >= 11, <<S(2)>>)

DMA == Times(8, <<I(7), S(2), I(1), S(2), I(1), S(2), I(4)>>)

SND ==
  <<S(65536), S(41 * 4), S(128)>>
    \o Times(8, <<S(32), I(5), Read("skip", 1)>>)           \* voices
    \o <<S(32), I(2), S(8), I(10), S(2), I(6), S(20), I(1), S(128)>>
    \o <<Read("pad", 1), Read("tail", 16)>>

\* Mutant: the field of version 11 is read of every later save than version 6.
TIMGateEarly(v) ==
  <<S(44), I(1), S(16)>> \o When(v >= 7, <<S(4), I(1), S(4)>>)

TIM(v) ==
  <<S(44), I(1), S(16)>> \o When(v >= 7, <<S(4), I(1)>>)
    \o When(v >= 11, <<S(4)>>)

(* coprocessors.py *)

SFX == <<S(108), I(2), S(28), I(1), S(24), S(4), S(256), S(28), S(16), I(1),
         S(4), S(512), S(12)>>
SA1(v) == <<S(12), I(3), S(16), I(2)>> \o When(v >= 7, <<S(40)>>)
SAR    == <<I(2), S(14)>>
DP1    == <<I(3), S(16), S(1024)>>
DP2    == <<I(2), S(16), S(1024)>>
DP4    == <<I(2), S(18), S(1024)>>
ST0    == <<S(32), I(3)>>
OBC    == <<S(6)>>
S71    == <<I(44), S(12), I(3), S(12), S(84), I(64)>>
SRT    == <<S(8)>>
BSX    == <<I(6), S(12), I(1), S(128)>>
MSU    == <<I(1), S(16), I(2), S(8)>>

\* The blocks that are decoded or kept.
BlockNames ==
  {"CPU", "REG", "PPU", "DMA", "SND", "TIM", "SFX", "SA1", "SAR", "DP1", "DP2",
   "DP4", "ST0", "OBC", "S71", "SRT", "BSX", "MSU", "CX4"}

\* The decoder that is called for a block.  CX4 is kept as it is.
LayoutOf(b, v) ==
  CASE b = "CPU" -> CPU(v) [] b = "REG" -> REG    [] b = "PPU" -> PPU(v)
    [] b = "DMA" -> DMA    [] b = "SND" -> SND    [] b = "TIM" -> TIM(v)
    [] b = "SFX" -> SFX    [] b = "SA1" -> SA1(v) [] b = "SAR" -> SAR
    [] b = "DP1" -> DP1    [] b = "DP2" -> DP2    [] b = "DP4" -> DP4
    [] b = "ST0" -> ST0    [] b = "OBC" -> OBC    [] b = "S71" -> S71
    [] b = "SRT" -> SRT    [] b = "BSX" -> BSX    [] b = "MSU" -> MSU
    [] b = "CX4" -> <<>>

-----------------------------------------------------------------------------
(* The positions a layout gives to its reads.                               *)

\* Offsets(l)[k]: where read k starts; the last entry is the layout's size.
Offsets(l) ==
  LET at[k \in 1..Len(l) + 1] ==
        IF k = 1 THEN 0 ELSE at[k - 1] + l[k - 1].bytes
  IN  at

Size(l) == Offsets(l)[Len(l) + 1]

\* One past the last byte that is read by index: a block shorter than this
\* raises IndexError, and any other block decodes.
Needed(l) ==
  LET at == Offsets(l)
      indexed == {k \in 1..Len(l) : l[k].kind = "index"}
  IN  IF indexed = {} THEN 0
      ELSE at[(CHOOSE k \in indexed : \A j \in indexed : j <= k) + 1]
=============================================================================
