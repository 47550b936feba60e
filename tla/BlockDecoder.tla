---------------------------- MODULE BlockDecoder ----------------------------
(***************************************************************************)
(* A decoder on a block that may be shorter or longer than its layout.  It  *)
(* goes from read to read; each one raises, comes out whole, or comes out   *)
(* short, and short fields are silently taken for smaller numbers.          *)
(***************************************************************************)
EXTENDS Snes9xLayouts, FiniteSetsExt

CONSTANTS
  Blocks,    \* names of blocks
  Versions,  \* versions of the save format
  Lengths    \* Lengths[<<b, v>>]: lengths the block is tried with

ASSUME InputsAssumption ==
  /\ Blocks \subseteq BlockNames
  /\ \A b \in Blocks, v \in Versions : Lengths[<<b, v>>] \subseteq Nat

(* What Snes9x writes.  Its blocks are tables of fields, and a field belongs *)
(* to the versions from one on, or up to another: these are the fields that *)
(* are not in all of them, and the bytes of those that are.                 *)
Lifetime(block, bytes, since, until) ==
  [block |-> block, bytes |-> bytes, since |-> since, until |-> until]

Passing ==
  {Lifetime("CPU", 1, 6, 6),     \* IRQActive
   Lifetime("CPU", 12, 6, 6),    \* WaitAddress, WaitCounter, PBPCAtOpcodeStart
   Lifetime("CPU", 5, 7, 12),    \* NMIPending, IRQLine and what belongs to it
   Lifetime("PPU", 1, 11, 12),   \* CGSavedByte
   Lifetime("PPU", 2, 11, 12),   \* VRAMReadBuffer
   Lifetime("TIM", 5, 7, 12),    \* IRQTriggerCycles, APUAllowTimeOverflow
   Lifetime("TIM", 4, 11, 12),   \* NextIRQTimer
   Lifetime("SA1", 40, 7, 12)}   \* Cycles and the ten timer fields behind it

Lasting == [CPU |-> 43, PPU |-> 2649, TIM |-> 61, SA1 |-> 33]

\* The length of a block in a version.
WrittenBytes(b, v) ==
  MapThenSumSet(LAMBDA f : f.bytes,
                {f \in Passing : f.block = b /\ v \in f.since..f.until}) + Lasting[b]

-----------------------------------------------------------------------------
VARIABLES
  from,    \* the block and the version of the save
  layout,  \* the reads of this decoder
  length,  \* len(data)
  k,       \* the next read
  o,       \* the offset in data
  short,   \* the reads that came out short
  tail,    \* the optional tail was read
  pc       \* "reading", "done" or "failed"

vars == <<from, layout, length, k, o, short, tail, pc>>

Init ==
  /\ \E b \in Blocks, v \in Versions :
       /\ from = <<b, v>>
       /\ layout = LayoutOf(b, v)
       /\ length \in Lengths[<<b, v>>]
  /\ k = 1
  /\ o = 0
  /\ short = {}
  /\ tail = FALSE
  /\ pc = "reading"

Next_(kind) ==
  /\ pc = "reading"
  /\ k <= Len(layout) /\ layout[k].kind = kind
  /\ k' = k + 1
  /\ UNCHANGED <<from, layout, length>>

End == o + layout[k].bytes

\* Mutant: one byte behind the block passes.
ReadIndexedLoosely ==
  /\ Next_("index") /\ End <= length + 1
  /\ o' = End
  /\ UNCHANGED <<short, tail, pc>>

\* Mutant: single bytes are read through slices too.
ReadIndexedSliced ==
  /\ Next_("index")
  /\ o' = End
  /\ UNCHANGED <<short, tail, pc>>

ReadIndexed ==
  /\ Next_("index") /\ End <= length
  /\ o' = End
  /\ UNCHANGED <<short, tail, pc>>

Raise ==
  /\ Next_("index") /\ End > length
  /\ pc' = "failed"
  /\ UNCHANGED <<o, short, tail>>

\* Mutant: the field behind the short one is noted.
ReadSliceNotesNext ==
  /\ Next_("slice")
  /\ o' = End
  /\ short' = IF End > length THEN short \cup {k'} ELSE short
  /\ UNCHANGED <<tail, pc>>

ReadSlice ==
  /\ Next_("slice")
  /\ o' = End
  /\ short' = IF End > length THEN short \cup {k} ELSE short
  /\ UNCHANGED <<tail, pc>>

Skip ==
  /\ Next_("skip")
  /\ o' = End
  /\ UNCHANGED <<short, tail, pc>>

\* decode_snd_block: "if o < len(data): o += 1"
Pad ==
  /\ Next_("pad")
  /\ o' = IF o < length THEN End ELSE o
  /\ UNCHANGED <<short, tail, pc>>

\* Mutant: < for <=.
ReadTailInside ==
  /\ Next_("tail")
  /\ o' = IF End < length THEN End ELSE o
  /\ tail' = (End < length)
  /\ UNCHANGED <<short, pc>>

\* decode_snd_block: "if o + 16 <= len(data)"
ReadTail ==
  /\ Next_("tail")
  /\ o' = IF End <= length THEN End ELSE o
  /\ tail' = (End <= length)
  /\ UNCHANGED <<short, pc>>

Return ==
  /\ pc = "reading" /\ k > Len(layout)
  /\ pc' = "done"
  /\ UNCHANGED <<from, layout, length, k, o, short, tail>>

Next ==
  \/ ReadIndexed \/ Raise \/ ReadSlice \/ Skip \/ Pad \/ ReadTail \/ Return

Spec == Init /\ [][Next]_vars /\ WF_vars(Next)

-----------------------------------------------------------------------------
TypeOK ==
  /\ from \in Blocks \X Versions
  /\ length \in Nat /\ o \in Nat
  /\ k \in 1..Len(layout) + 1
  /\ short \subseteq 1..Len(layout)
  /\ tail \in BOOLEAN
  /\ pc \in {"reading", "done", "failed"}

(* Whether a block of some length decodes depends on its last indexed byte  *)
(* and on nothing before it.  The converter's defaults and the damage a cut *)
(* does are judged by this number.                                          *)
RaisesBelowNeeded ==
  /\ pc = "failed" => length < Needed(layout)
  /\ pc = "done" => length >= Needed(layout)

(* A decoded field is short only behind the last indexed byte: what stands  *)
(* before it was read whole, from its own place, although no slice checks.  *)
ShortOnlyBehind ==
  pc = "done" =>
    \A j \in short : Offsets(layout)[j + 1] > Needed(layout)

(* A block that is as long as its layout, padding and tail left aside, has  *)
(* no short field; the optional tail is read when it is there with the      *)
(* padding before it, and never over bytes of the fields in front.          *)
WholeWhenLong ==
  pc = "done" =>
    LET size == Size(layout)
        opt  == {j \in 1..Len(layout) : layout[j].kind \in {"pad", "tail"}}
    IN  /\ opt = {} => ((short # {}) =>  length < size)
        /\ opt # {} => ((short # {}) =>  length < size - 17)
        /\ tail <=> opt # {} /\ length >= size

(* In every version a block that is as long as Snes9x writes it in that     *)
(* version is read to its end and not beyond: no field is looked for that   *)
(* the version did not have, and none that it had is taken for the next.    *)
ReadsItsVersion ==
  LET b == from[1]  v == from[2] IN
  b \in DOMAIN Lasting =>
    /\ pc = "failed" => length < WrittenBytes(b, v)
    /\ pc = "done" /\ length = WrittenBytes(b, v) => o = length /\ short = {}
=============================================================================
