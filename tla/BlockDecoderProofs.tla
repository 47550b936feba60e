------------------------- MODULE BlockDecoderProofs -------------------------
(***************************************************************************)
(* For every block, version and length: whether a decoder raises, which of  *)
(* its fields come out short, and whether the optional tail is read.        *)
(*                                                                          *)
(* The state says how far the decoder is; the inductive invariant says what *)
(* came of every read so far, in terms of the places that LayoutProofs      *)
(* proves of the layout.                                                    *)
(***************************************************************************)
EXTENDS BlockDecoder, LayoutProofs

\* Padding and a tail come last, both or neither.
Shaped(l) ==
  \A j \in 1..Len(l) :
    /\ l[j].kind = "pad"  => j + 1 = Len(l) /\ l[j].bytes = 1 /\ l[j + 1].kind = "tail"
    /\ l[j].kind = "tail" => j = Len(l) /\ l[j].bytes = 16 /\ j > 1 /\ l[j - 1].kind = "pad"

Typed ==
  /\ from \in Blocks \X Versions
  /\ layout \in Seq(Reads) /\ Shaped(layout)
  /\ length \in Nat /\ o \in Nat
  /\ k \in 1..Len(layout) + 1
  /\ short \subseteq 1..Len(layout)
  /\ tail \in BOOLEAN
  /\ pc \in {"reading", "done", "failed"}

\* The offset is the place of the next read, until some bytes of the end are
\* missing.
AtPlace ==
  LET at == Offsets(layout) IN
  IF k > 1 /\ layout[k - 1].kind = "pad"
  THEN o = IF at[k - 1] < length THEN at[k] ELSE at[k - 1]
  ELSE (k = 1 \/ layout[k - 1].kind # "tail") => o = at[k]

\* What came of the reads in front of the next one.
ReadSoFar ==
  LET at == Offsets(layout) IN
  /\ \A j \in 1..k - 1 : layout[j].kind = "index" => at[j + 1] <= length
  /\ short = {j \in 1..k - 1 : layout[j].kind = "slice" /\ at[j + 1] > length}
  /\ tail <=> k > 1 /\ layout[k - 1].kind = "tail" /\ at[k] <= length

Missed ==
  \E j \in 1..Len(layout) : layout[j].kind = "index" /\ length < Offsets(layout)[j + 1]

IInv ==
  /\ Typed
  /\ IF pc = "failed" THEN Missed ELSE AtPlace /\ ReadSoFar
  /\ pc = "done" => k = Len(layout) + 1

-----------------------------------------------------------------------------
\* What stands where in a sequence with two more entries.
LEMMA TwoMore ==
  ASSUME NEW R, NEW s \in Seq(R), NEW t \in Seq(R), Len(t) = 2
  PROVE  /\ Len(s \o t) = Len(s) + 2
         /\ \A j \in 1..Len(s) : (s \o t)[j] = s[j]
         /\ (s \o t)[Len(s) + 1] = t[1] /\ (s \o t)[Len(s) + 2] = t[2]
<1> DEFINE n == Len(s)
           u == s \o t
<1>1. n \in Nat /\ Len(u) = n + 2
      /\ \A i \in 1..n + 2 : u[i] = IF i <= n THEN s[i] ELSE t[i - n]
  <2>1. /\ Len(s \o t) = Len(s) + Len(t)
        /\ \A i \in 1..Len(s) + Len(t) :
             (s \o t)[i] = IF i <= Len(s) THEN s[i] ELSE t[i - Len(s)]
    BY ConcatProperties, Zenon
  <2>2. n \in Nat
    OBVIOUS
  <2> QED
    BY <2>1, <2>2, Zenon
<1> HIDE DEF n, u
<1>2. /\ \A j \in 1..n : u[j] = s[j]
      /\ u[n + 1] = t[1] /\ u[n + 2] = t[2]
  <2>1. /\ \A j \in 1..n : j \in 1..n + 2 /\ j <= n
        /\ n + 1 \in 1..n + 2 /\ ~(n + 1 <= n) /\ (n + 1) - n = 1
        /\ n + 2 \in 1..n + 2 /\ ~(n + 2 <= n) /\ (n + 2) - n = 2
    BY <1>1
  <2>2. u[n + 1] = t[(n + 1) - n] /\ u[n + 2] = t[(n + 2) - n]
    BY <1>1, <2>1
  <2> QED
    BY <1>1, <2>1, <2>2
<1> QED
  BY <1>1, <1>2 DEF n, u

\* Every well-formed layout has the shape the invariant speaks of.
LEMMA WellFormedIsShaped ==
  ASSUME NEW l, WellFormed(l)
  PROVE  Shaped(l)
<1>1. ASSUME l \in Seq(PlainReads) PROVE Shaped(l)
  <2>1. \A j \in 1..Len(l) : l[j] \in PlainReads
    BY <1>1
  <2>2. \A j \in 1..Len(l) : l[j].kind \notin {"pad", "tail"}
    BY <2>1 DEF PlainReads
  <2> QED
    BY <2>2 DEF Shaped
<1>2. ASSUME NEW s \in Seq(PlainReads), l = s \o PadAndTail PROVE Shaped(l)
  <2> DEFINE n == Len(s)
  <2>1. /\ n \in Nat /\ Len(l) = n + 2
        /\ \A j \in 1..n : l[j] = s[j] /\ s[j] \in PlainReads
        /\ l[n + 1] = PadAndTail[1] /\ l[n + 2] = PadAndTail[2]
    <3>1. n \in Nat /\ PadAndTail \in Seq(Reads) /\ Len(PadAndTail) = 2 /\ s \in Seq(Reads)
      BY PadAndTailTyped, PlainIsRead
    <3>2. \A j \in 1..n : s[j] \in PlainReads
      OBVIOUS
    <3>3. /\ Len(s \o PadAndTail) = n + 2
          /\ \A j \in 1..n : (s \o PadAndTail)[j] = s[j]
          /\ (s \o PadAndTail)[n + 1] = PadAndTail[1]
          /\ (s \o PadAndTail)[n + 2] = PadAndTail[2]
      BY <3>1, TwoMore
    <3> QED
      BY <1>2, <3>1, <3>2, <3>3
  <2> HIDE DEF n
  <2>2. \A j \in 1..n : l[j].kind \notin {"pad", "tail"}
    BY <2>1 DEF PlainReads
  <2>3. /\ l[n + 1].kind = "pad" /\ l[n + 1].bytes = 1
        /\ l[n + 2].kind = "tail" /\ l[n + 2].bytes = 16
    BY <2>1, PadAndTailTyped DEF Read
  <2>4. \A j \in 1..Len(l) : j \in 1..n \/ j = n + 1 \/ j = n + 2
    BY <2>1
  <2> QED
    BY <2>1, <2>2, <2>3, <2>4 DEF Shaped
<1> QED
  BY <1>1, <1>2 DEF WellFormed

-----------------------------------------------------------------------------
\* The decoder starts in front of its first read.
LEMMA InitInv == Init => IInv
<1> SUFFICES ASSUME Init PROVE IInv
  OBVIOUS
<1>1. PICK b \in Blocks, v \in Versions :
        from = <<b, v>> /\ layout = LayoutOf(b, v) /\ length \in Lengths[<<b, v>>]
  BY DEF Init
<1>2. WellFormed(layout) /\ length \in Nat
  BY <1>1, InputsAssumption, LayoutsWellFormed
<1>3. layout \in Seq(Reads) /\ Shaped(layout)
  BY <1>2, WellFormedIsShaped, WellFormedIsTyped
<1>4. k = 1 /\ o = 0 /\ short = {} /\ tail = FALSE /\ pc = "reading"
  BY DEF Init
<1>5. Len(layout) \in Nat
  BY <1>3
<1>6. Typed
  <2>1. k \in 1..Len(layout) + 1 /\ short \subseteq 1..Len(layout)
    BY <1>4, <1>5
  <2> QED
    BY <1>1, <1>2, <1>3, <1>4, <2>1 DEF Typed
<1>7. Offsets(layout)[1] = 0
  BY <1>3, OffsetsAre
<1>8. AtPlace
  BY <1>4, <1>7 DEF AtPlace
<1>9. ReadSoFar
  BY <1>4 DEF ReadSoFar
<1> QED
  BY <1>4, <1>6, <1>8, <1>9 DEF IInv

\* Where the decoder stands in front of a read.
LEMMA Here ==
  ASSUME IInv, pc = "reading", k <= Len(layout)
  PROVE  /\ k \in 1..Len(layout) /\ k + 1 \in 1..Len(layout) + 1
         /\ layout[k].bytes \in Nat
         /\ Offsets(layout)[k] \in Nat
         /\ Offsets(layout)[k + 1] = Offsets(layout)[k] + layout[k].bytes
         /\ layout[k].kind # "tail" => o = Offsets(layout)[k]
         /\ layout[k].kind = "tail" =>
              /\ k > 1 /\ layout[k - 1].kind = "pad" /\ layout[k].bytes = 16
              /\ Offsets(layout)[k - 1] \in Nat
              /\ Offsets(layout)[k] = Offsets(layout)[k - 1] + 1
<1> DEFINE at == Offsets(layout)
<1>1. /\ layout \in Seq(Reads) /\ Shaped(layout) /\ k \in 1..Len(layout) + 1
      /\ Len(layout) \in Nat
  BY DEF IInv, Typed
<1>2. AtPlace
  BY DEF IInv
<1>3. k \in 1..Len(layout) /\ k + 1 \in 1..Len(layout) + 1
  BY <1>1
<1>4. layout[k].bytes \in Nat
  <2>1. layout[k] \in Reads
    BY <1>1, <1>3
  <2> QED
    BY <2>1 DEF Reads
<1>5. /\ \A j \in 1..Len(layout) + 1 : at[j] \in Nat
      /\ \A j \in 1..Len(layout) : at[j + 1] = at[j] + layout[j].bytes
  <2>1. at \in [1..Len(layout) + 1 -> Nat]
    BY <1>1, OffsetsAre
  <2>2. \A j \in 1..Len(layout) : at[j + 1] = at[j] + layout[j].bytes
    BY <1>1, OffsetsAre
  <2> HIDE DEF at
  <2> QED
    BY <2>1, <2>2
<1>6. /\ AtPlace <=> IF k > 1 /\ layout[k - 1].kind = "pad"
                     THEN o = IF at[k - 1] < length THEN at[k] ELSE at[k - 1]
                     ELSE (k = 1 \/ layout[k - 1].kind # "tail") => o = at[k]
  BY DEF AtPlace
<1> HIDE DEF at
<1>7. /\ layout[k].kind = "tail" => k > 1 /\ layout[k - 1].kind = "pad" /\ layout[k].bytes = 16
  BY <1>1, <1>3 DEF Shaped
<1>8. k > 1 => /\ layout[k - 1].kind = "pad" => layout[k].kind = "tail" /\ layout[k - 1].bytes = 1
               /\ layout[k - 1].kind # "tail"
  <2> SUFFICES ASSUME k > 1
               PROVE  /\ layout[k - 1].kind = "pad" => layout[k].kind = "tail" /\ layout[k - 1].bytes = 1
                      /\ layout[k - 1].kind # "tail"
    OBVIOUS
  <2>1. k - 1 \in 1..Len(layout) /\ (k - 1) + 1 = k /\ k - 1 # Len(layout)
    BY <1>1, <1>3
  <2> QED
    BY <1>1, <2>1 DEF Shaped
<1>9. layout[k].kind # "tail" => o = at[k]
  BY <1>2, <1>3, <1>6, <1>8
<1>10. layout[k].kind = "tail" => at[k - 1] \in Nat /\ at[k] = at[k - 1] + 1
  <2> SUFFICES ASSUME layout[k].kind = "tail"
               PROVE  at[k - 1] \in Nat /\ at[k] = at[k - 1] + 1
    OBVIOUS
  <2>1. k - 1 \in 1..Len(layout) /\ k - 1 \in 1..Len(layout) + 1 /\ (k - 1) + 1 = k
    BY <1>1, <1>3, <1>7
  <2>2. at[(k - 1) + 1] = at[k - 1] + layout[k - 1].bytes
    BY <1>5, <2>1
  <2> QED
    BY <1>5, <1>7, <1>8, <2>1, <2>2
<1>11. k \in 1..Len(layout) + 1
  BY <1>1
<1> QED
  BY <1>3, <1>4, <1>5, <1>7, <1>9, <1>10, <1>11 DEF at

\* A read that raises: byte k of the layout is not there.
LEMMA RaiseKeeps == ASSUME IInv, Raise PROVE IInv'
<1>1. /\ pc = "reading" /\ k <= Len(layout) /\ layout[k].kind = "index"
      /\ k' = k + 1 /\ UNCHANGED <<from, layout, length, o, short, tail>>
      /\ pc' = "failed" /\ o + layout[k].bytes > length
  BY DEF Raise, Next_, End
<1>2. /\ k \in 1..Len(layout) /\ k + 1 \in 1..Len(layout) + 1
      /\ layout[k].bytes \in Nat /\ Offsets(layout)[k] \in Nat
      /\ Offsets(layout)[k + 1] = Offsets(layout)[k] + layout[k].bytes
      /\ o = Offsets(layout)[k]
  BY <1>1, Here
<1>3. Typed
  BY DEF IInv
<1>4. Typed'
  BY <1>1, <1>2, <1>3 DEF Typed
<1>5. length \in Nat
  BY <1>3 DEF Typed
<1>6. length < Offsets(layout)[k + 1]
  BY <1>1, <1>2, <1>5
<1>7. Missed'
  BY <1>1, <1>2, <1>6 DEF Missed
<1> QED
  BY <1>1, <1>4, <1>7 DEF IInv

\* What a read does to the offset, when it does not raise.
Passes(bytes) ==
  o' = CASE layout[k].kind = "pad"  -> (IF o < length THEN o + bytes ELSE o)
         [] layout[k].kind = "tail" -> (IF o + bytes <= length THEN o + bytes ELSE o)
         [] OTHER                   -> o + bytes

\* A read that does not raise.
LEMMA ReadKeeps ==
  ASSUME IInv, pc = "reading", k <= Len(layout), k' = k + 1, pc' = pc,
         UNCHANGED <<from, layout, length>>,
         Passes(layout[k].bytes),
         layout[k].kind = "index" => o + layout[k].bytes <= length,
         short' = IF layout[k].kind = "slice" /\ o + layout[k].bytes > length
                  THEN short \cup {k} ELSE short,
         tail' = IF layout[k].kind = "tail" THEN o + layout[k].bytes <= length ELSE tail
  PROVE  IInv'
<1> DEFINE at == Offsets(layout)
           z  == layout[k].bytes
           kind(j) == layout[j].kind
<1>1. /\ k \in 1..Len(layout) /\ k + 1 \in 1..Len(layout) + 1
      /\ z \in Nat /\ at[k] \in Nat /\ at[k + 1] = at[k] + z
      /\ kind(k) # "tail" => o = at[k]
      /\ kind(k) = "tail" => /\ k > 1 /\ kind(k - 1) = "pad" /\ z = 16
                             /\ at[k - 1] \in Nat /\ at[k] = at[k - 1] + 1
  BY Here
<1>2. /\ Typed /\ AtPlace /\ ReadSoFar
      /\ length \in Nat /\ o \in Nat /\ Len(layout) \in Nat
      /\ short \subseteq 1..Len(layout) /\ tail \in BOOLEAN
  BY DEF IInv, Typed
<1>3. /\ AtPlace' <=> IF k + 1 > 1 /\ kind((k + 1) - 1) = "pad"
                      THEN o' = IF at[(k + 1) - 1] < length THEN at[k + 1] ELSE at[(k + 1) - 1]
                      ELSE (k + 1 = 1 \/ kind((k + 1) - 1) # "tail") => o' = at[k + 1]
  BY DEF AtPlace
<1>4. /\ ReadSoFar' <=>
         /\ \A j \in 1..(k + 1) - 1 : kind(j) = "index" => at[j + 1] <= length
         /\ short' = {j \in 1..(k + 1) - 1 : kind(j) = "slice" /\ at[j + 1] > length}
         /\ tail' <=> k + 1 > 1 /\ kind((k + 1) - 1) = "tail" /\ at[k + 1] <= length
  BY DEF ReadSoFar
<1>5. /\ \A j \in 1..k - 1 : kind(j) = "index" => at[j + 1] <= length
      /\ short = {j \in 1..k - 1 : kind(j) = "slice" /\ at[j + 1] > length}
      /\ tail <=> k > 1 /\ kind(k - 1) = "tail" /\ at[k] <= length
  BY <1>2 DEF ReadSoFar
<1>6. /\ AtPlace <=> IF k > 1 /\ kind(k - 1) = "pad"
                     THEN o = IF at[k - 1] < length THEN at[k] ELSE at[k - 1]
                     ELSE (k = 1 \/ kind(k - 1) # "tail") => o = at[k]
  BY DEF AtPlace
<1>7. /\ kind(k) \notin {"pad", "tail"} => o' = o + z
      /\ kind(k) = "pad" => o' = IF o < length THEN o + z ELSE o
      /\ kind(k) = "tail" => o' = IF o + z <= length THEN o + z ELSE o
  BY DEF Passes
<1>8. /\ kind(k) = "index" => o + z <= length
      /\ short' = IF kind(k) = "slice" /\ o + z > length THEN short \cup {k} ELSE short
      /\ tail' = IF kind(k) = "tail" THEN o + z <= length ELSE tail
  OBVIOUS
<1>9. k > 1 => kind(k - 1) # "tail"
  <2> SUFFICES ASSUME k > 1, layout[k - 1].kind = "tail" PROVE FALSE
    OBVIOUS
  <2>1. k - 1 \in 1..Len(layout) /\ k - 1 # Len(layout)
    BY <1>1, <1>2
  <2> QED
    BY <1>2, <2>1 DEF Typed, Shaped
<1>10. \A j \in 1..k : j \in 1..k - 1 \/ j = k
  BY <1>1
<1>11. (k + 1) - 1 = k /\ k + 1 > 1 /\ k + 1 # 1 /\ k \notin 1..k - 1 /\ 1..k - 1 \subseteq 1..k
       /\ k \in 1..k
  BY <1>1
<1>12. Typed'
  <2>1. o' \in Nat
    BY <1>1, <1>2, <1>7
  <2>2. short' \subseteq 1..Len(layout)
    BY <1>1, <1>2, <1>8
  <2>3. tail' \in BOOLEAN
    <3>1. tail' = (o + z <= length) \/ tail' = tail
      BY <1>8, Zenon
    <3>2. (o + z <= length) \in BOOLEAN
      OBVIOUS
    <3> QED
      BY <1>2, <3>1, <3>2, Zenon
  <2> QED
    BY <1>1, <1>2, <2>1, <2>2, <2>3 DEF Typed
<1> HIDE DEF at, z, kind
<1>13. AtPlace'
  BY <1>1, <1>3, <1>7, <1>11
<1>14. \A j \in 1..k : kind(j) = "index" => at[j + 1] <= length
  BY <1>1, <1>5, <1>8, <1>10
<1>15. short' = {j \in 1..k : kind(j) = "slice" /\ at[j + 1] > length}
  <2>1. kind(k) = "slice" => o + z = at[k + 1]
    BY <1>1
  <2> DEFINE P(j) == kind(j) = "slice" /\ at[j + 1] > length
  <2>2. short = {j \in 1..k - 1 : P(j)}
    BY <1>5
  <2>3. short' = IF P(k) THEN short \cup {k} ELSE short
    BY <1>8, <2>1
  <2> HIDE DEF P
  <2>4. short' = {j \in 1..k : P(j)}
    BY <1>10, <1>11, <2>2, <2>3
  <2> QED
    BY <2>4 DEF P
<1>16. tail' <=> kind(k) = "tail" /\ at[k + 1] <= length
  <2>1. CASE kind(k) # "tail"
    BY <1>5, <1>8, <1>9, <2>1
  <2>2. CASE kind(k) = "tail"
    <3>1. o = IF at[k - 1] < length THEN at[k] ELSE at[k - 1]
      BY <1>1, <1>2, <1>6, <2>2
    <3>2. o + z <= length <=> at[k + 1] <= length
      BY <1>1, <1>2, <2>2, <3>1
    <3> QED
      BY <1>8, <2>2, <3>2
  <2> QED
    BY <2>1, <2>2
<1>17. ReadSoFar'
  BY <1>4, <1>11, <1>14, <1>15, <1>16
<1> QED
  BY <1>12, <1>13, <1>17 DEF IInv

\* What each action does to the read it takes.
LEMMA StepInv == IInv /\ [Next]_vars => IInv'
<1> SUFFICES ASSUME IInv, [Next]_vars PROVE IInv'
  OBVIOUS
<1> USE DEF Next_, End, Passes
<1>1. CASE ReadIndexed
  BY <1>1, ReadKeeps DEF ReadIndexed
<1>2. CASE Raise
  BY <1>2, RaiseKeeps
<1>3. CASE ReadSlice
  BY <1>3, ReadKeeps DEF ReadSlice
<1>4. CASE Skip
  BY <1>4, ReadKeeps DEF Skip
<1>5. CASE Pad
  BY <1>5, ReadKeeps DEF Pad
<1>6. CASE ReadTail
  BY <1>6, ReadKeeps DEF ReadTail
<1>7. CASE Return
  <2>1. /\ pc = "reading" /\ k > Len(layout) /\ pc' = "done"
        /\ UNCHANGED <<from, layout, length, k, o, short, tail>>
    BY <1>7 DEF Return
  <2>2. Typed /\ AtPlace /\ ReadSoFar /\ k \in 1..Len(layout) + 1 /\ Len(layout) \in Nat
    BY <2>1 DEF IInv, Typed
  <2>3. Typed' /\ AtPlace' /\ ReadSoFar'
    BY <2>1, <2>2 DEF Typed, AtPlace, ReadSoFar
  <2>4. k = Len(layout) + 1
    BY <2>1, <2>2
  <2> QED
    BY <2>1, <2>3, <2>4 DEF IInv
<1>8. CASE UNCHANGED vars
  BY <1>8 DEF vars, IInv, Typed, AtPlace, ReadSoFar, Missed
<1> QED
  BY <1>1, <1>2, <1>3, <1>4, <1>5, <1>6, <1>7, <1>8 DEF Next

\* The invariant holds in every reachable state.
THEOREM Inductive == Spec => []IInv
<1> QED
  BY InitInv, StepInv, PTL DEF Spec

-----------------------------------------------------------------------------
\* The offset, the next read and the two notes stay what they are.
THEOREM TypeCorrect == Spec => []TypeOK
<1>1. IInv => TypeOK
  BY DEF IInv, Typed, TypeOK
<1> QED
  BY <1>1, Inductive, PTL

\* What IInv says of a decoder that is through.
LEMMA Through ==
  ASSUME IInv, pc = "done"
  PROVE  /\ layout \in Seq(Reads) /\ Shaped(layout) /\ length \in Nat
         /\ Len(layout) \in Nat /\ k = Len(layout) + 1
         /\ \A j \in 1..Len(layout) : layout[j].kind = "index" => Offsets(layout)[j + 1] <= length
         /\ \A j \in short : /\ j \in 1..Len(layout) /\ layout[j].kind = "slice"
                             /\ Offsets(layout)[j + 1] > length
         /\ tail <=> /\ Len(layout) > 0 /\ layout[Len(layout)].kind = "tail"
                     /\ Size(layout) <= length
<1>1. /\ layout \in Seq(Reads) /\ Shaped(layout) /\ length \in Nat
      /\ k = Len(layout) + 1 /\ ReadSoFar
  BY DEF IInv, Typed
<1>2. Len(layout) \in Nat
  BY <1>1
<1>3. k - 1 = Len(layout) /\ (k > 1 <=> Len(layout) > 0)
  BY <1>1, <1>2
<1>4. Size(layout) = Offsets(layout)[k]
  BY <1>1 DEF Size
<1> QED
  BY <1>1, <1>2, <1>3, <1>4 DEF ReadSoFar

\* A block decodes exactly if it holds every byte that is read by index; what
\* stands before the last of them, and how long the block is, do not matter.
THEOREM RaisesExactlyBelow == Spec => []RaisesBelowNeeded
<1>1. ASSUME IInv PROVE RaisesBelowNeeded
  <2>1. layout \in Seq(Reads) /\ length \in Nat
    BY <1>1 DEF IInv, Typed
  <2>2. /\ Needed(layout) \in Nat
        /\ \A j \in 1..Len(layout) : layout[j].kind = "index" => Offsets(layout)[j + 1] <= Needed(layout)
        /\ \/ Needed(layout) = 0
           \/ \E j \in 1..Len(layout) :
                layout[j].kind = "index" /\ Needed(layout) = Offsets(layout)[j + 1]
    BY <2>1, NeededIs
  <2>3. ASSUME pc = "failed" PROVE length < Needed(layout)
    <3>1. PICK j \in 1..Len(layout) : layout[j].kind = "index" /\ length < Offsets(layout)[j + 1]
      BY <1>1, <2>3 DEF IInv, Missed
    <3>2. Offsets(layout)[j + 1] <= Needed(layout)
      BY <2>2, <3>1
    <3>3. Offsets(layout)[j + 1] \in Nat
      BY <2>1, OffsetsAre
    <3> QED
      BY <2>1, <2>2, <3>1, <3>2, <3>3
  <2>4. ASSUME pc = "done" PROVE length >= Needed(layout)
    <3>1. \A j \in 1..Len(layout) : layout[j].kind = "index" => Offsets(layout)[j + 1] <= length
      BY <1>1, <2>4, Through
    <3> QED
      BY <2>1, <2>2, <3>1
  <2> QED
    BY <2>3, <2>4 DEF RaisesBelowNeeded
<1> QED
  BY <1>1, Inductive, PTL

\* A field comes out short only behind the last byte that is read by index.
THEOREM ShortFieldsBehind == Spec => []ShortOnlyBehind
<1>1. ASSUME IInv, RaisesBelowNeeded PROVE ShortOnlyBehind
  <2> SUFFICES ASSUME pc = "done", NEW j \in short
               PROVE  Offsets(layout)[j + 1] > Needed(layout)
    BY DEF ShortOnlyBehind
  <2>1. /\ layout \in Seq(Reads) /\ length \in Nat /\ j \in 1..Len(layout)
        /\ Offsets(layout)[j + 1] > length
    BY <1>1, Through
  <2>2. Needed(layout) \in Nat /\ Needed(layout) <= length
    BY <1>1, <2>1, NeededIs DEF RaisesBelowNeeded
  <2>3. Offsets(layout)[j + 1] \in Nat
    <3>1. Len(layout) \in Nat /\ j + 1 \in 1..Len(layout) + 1
      BY <2>1
    <3> QED
      BY <2>1, <3>1, OffsetsAre
  <2> QED
    BY <2>1, <2>2, <2>3
<1> QED
  BY <1>1, Inductive, RaisesExactlyBelow, PTL

\* A block as long as its layout has no short field, and the tail of the
\* sound's block is read exactly if it and the padding are there.
THEOREM LongBlocksWhole == Spec => []WholeWhenLong
<1>1. ASSUME IInv PROVE WholeWhenLong
  <2> DEFINE n == Len(layout)
             at == Offsets(layout)
             opt == {j \in 1..n : layout[j].kind \in {"pad", "tail"}}
  <2> SUFFICES ASSUME pc = "done"
               PROVE  /\ opt = {} => ((short # {}) => length < Size(layout))
                      /\ opt # {} => ((short # {}) => length < Size(layout) - 17)
                      /\ tail <=> opt # {} /\ length >= Size(layout)
    BY DEF WholeWhenLong
  <2>1. /\ layout \in Seq(Reads) /\ Shaped(layout) /\ length \in Nat /\ n \in Nat
        /\ \A j \in short : j \in 1..n /\ layout[j].kind = "slice" /\ at[j + 1] > length
        /\ tail <=> n > 0 /\ layout[n].kind = "tail" /\ Size(layout) <= length
    BY <1>1, Through
  <2>2. /\ \A j \in 1..n + 1 : at[j] \in Nat
        /\ \A j \in 1..n : at[j + 1] = at[j] + layout[j].bytes
        /\ \A i, j \in 1..n + 1 : i <= j => at[i] <= at[j]
        /\ Size(layout) = at[n + 1]
    <3>1. at \in [1..n + 1 -> Nat]
      BY <2>1, OffsetsAre
    <3>2. \A j \in 1..n : at[j + 1] = at[j] + layout[j].bytes
      BY <2>1, OffsetsAre
    <3>3. \A i, j \in 1..n + 1 : i <= j => at[i] <= at[j]
      BY <2>1, OffsetsGrow
    <3>4. Size(layout) = at[n + 1]
      BY DEF Size
    <3> HIDE DEF at
    <3> QED
      BY <3>1, <3>2, <3>3, <3>4
  <2>3. opt # {} => /\ n >= 2 /\ layout[n].kind = "tail" /\ layout[n].bytes = 16
                    /\ layout[n - 1].kind = "pad" /\ layout[n - 1].bytes = 1
    <3> SUFFICES ASSUME NEW j \in 1..n, layout[j].kind \in {"pad", "tail"}
                 PROVE  /\ n >= 2 /\ layout[n].kind = "tail" /\ layout[n].bytes = 16
                        /\ layout[n - 1].kind = "pad" /\ layout[n - 1].bytes = 1
      OBVIOUS
    <3>1. CASE layout[j].kind = "pad"
      <4>1. j + 1 = n /\ layout[j + 1].kind = "tail" /\ layout[j].bytes = 1
        BY <2>1, <3>1 DEF Shaped
      <4>2. n \in 1..n /\ n >= 2 /\ n - 1 = j
        BY <2>1, <4>1
      <4>3. layout[n].bytes = 16
        BY <2>1, <4>1, <4>2 DEF Shaped
      <4> QED
        BY <3>1, <4>1, <4>2, <4>3
    <3>2. CASE layout[j].kind = "tail"
      <4>1. j = n /\ layout[j].bytes = 16 /\ j > 1 /\ layout[j - 1].kind = "pad"
        BY <2>1, <3>2 DEF Shaped
      <4>2. n - 1 \in 1..n /\ n >= 2
        BY <2>1, <4>1
      <4>3. layout[n - 1].bytes = 1
        BY <2>1, <4>1, <4>2 DEF Shaped
      <4> QED
        BY <3>2, <4>1, <4>2, <4>3
    <3> QED
      BY <3>1, <3>2
  <2> HIDE DEF at
  <2>4. ASSUME NEW j \in short PROVE length < Size(layout)
    <3>1. j \in 1..n /\ j + 1 \in 1..n + 1 /\ n + 1 \in 1..n + 1 /\ j + 1 <= n + 1
      BY <2>1
    <3> QED
      BY <2>1, <2>2, <3>1
  <2>5. ASSUME NEW j \in short, opt # {} PROVE length < Size(layout) - 17
    <3>1. /\ n >= 2 /\ layout[n].kind = "tail" /\ layout[n].bytes = 16
          /\ layout[n - 1].kind = "pad" /\ layout[n - 1].bytes = 1
      BY <2>3, <2>5
    <3>2. j \in 1..n /\ layout[j].kind = "slice" /\ at[j + 1] > length
      BY <2>1
    <3>3. j # n /\ j # n - 1
      BY <3>1, <3>2
    <3>4. /\ j + 1 \in 1..n + 1 /\ n - 1 \in 1..n /\ n - 1 \in 1..n + 1 /\ j + 1 <= n - 1
          /\ n \in 1..n /\ (n - 1) + 1 = n
      BY <2>1, <3>1, <3>2, <3>3
    <3>5. at[n] = at[n - 1] + 1 /\ at[n + 1] = at[n] + 16 /\ at[j + 1] <= at[n - 1]
      BY <2>2, <3>1, <3>4
    <3>6. at[n] \in Nat /\ at[n - 1] \in Nat /\ at[j + 1] \in Nat /\ at[n + 1] \in Nat
      BY <2>1, <2>2, <3>4
    <3>7. length \in Nat /\ Size(layout) = at[n + 1]
      BY <2>1, <2>2
    <3> QED
      BY <3>2, <3>5, <3>6, <3>7
  <2>6. tail <=> opt # {} /\ length >= Size(layout)
    <3>1. n > 0 /\ layout[n].kind = "tail" => opt # {}
      BY <2>1
    <3>2. Size(layout) \in Nat
      BY <2>1, SizeIsNat
    <3>3. Size(layout) <= length <=> length >= Size(layout)
      BY <2>1, <3>2
    <3>4. opt # {} => n > 0 /\ layout[n].kind = "tail"
      BY <2>1, <2>3
    <3> QED
      BY <2>1, <3>1, <3>3, <3>4
  <2> QED
    BY <2>4, <2>5, <2>6
<1> QED
  BY <1>1, Inductive, PTL
=============================================================================
