------------------------------ MODULE CliProofs ------------------------------
(***************************************************************************)
(* What conversions on one file system guarantee for any number of runs,    *)
(* files, saves and chunks: types, that a file is touched only with a       *)
(* complete result, that an output nobody is writing is whole, and that the *)
(* parsers share the detector's verdict.                                    *)
(***************************************************************************)
EXTENDS Cli, SequenceTheorems, TLAPS

USE DEF Absent, Save, Blob, Piece, Hole

-----------------------------------------------------------------------------
(* Contents of files.                                                       *)

Content(c) ==
  \/ c \in Inputs
  \/ /\ c = Blob(c.chunks)
     /\ c.chunks \in Seq(Pieces)
     /\ Len(c.chunks) <= Chunks

\* What a run may read: a save or nothing, never an output.
LEMMA InputKinds ==
  ASSUME NEW c \in Inputs
  PROVE  /\ c.kind # "blob"
         /\ c.kind = "save" => c.save \in Saves /\ c = Save(c.save)
         /\ Content(c)
BY DEF Inputs, Content

\* An output that was just emptied is an output.
LEMMA EmptyBlob == Content(Blob(<<>>)) /\ Blob(<<>>).kind = "blob"
<1>1. <<>> \in Seq(Pieces) /\ Len(<<>>) = 0 OBVIOUS
<1> QED BY <1>1, CliAssumption DEF Content

(* A write of the next chunk leaves a well-formed output (writer.py:50).    *)
LEMMA OverwriteType ==
  ASSUME NEW cs \in Seq(Pieces), Len(cs) <= Chunks,
         NEW i \in 1..Chunks, NEW c \in Pieces
  PROVE  /\ Overwrite(cs, i, c) \in Seq(Pieces)
         /\ Len(Overwrite(cs, i, c)) <= Chunks
<1> DEFINE n == IF i > Len(cs) THEN i ELSE Len(cs)
<1>1. n \in Nat /\ n <= Chunks BY CliAssumption
<1>2. Overwrite(cs, i, c) = [j \in 1..n |-> IF j = i THEN c ELSE IF j <= Len(cs) THEN cs[j] ELSE Hole]
  BY DEF Overwrite
<1> HIDE DEF n
<1>3. \A j \in 1..n : (IF j = i THEN c ELSE IF j <= Len(cs) THEN cs[j] ELSE Hole) \in Pieces
  BY <1>1 DEF Pieces
<1>4. Overwrite(cs, i, c) \in [1..n -> Pieces] BY <1>2, <1>3
<1>5. Overwrite(cs, i, c) \in Seq(Pieces) /\ Len(Overwrite(cs, i, c)) = n
  BY <1>1, <1>4
<1> QED BY <1>1, <1>5

-----------------------------------------------------------------------------
(* Types.  A chunk can be written only onto an output, which needs that a   *)
(* slot is left alone while a run has it open; and what is written is a     *)
(* piece of a save, which needs that a run in those steps has parsed one.   *)

WritesBlob == \A r \in Run : pc[r] = "writing" => file[Target[r]].kind = "blob"

\* What a run has in hand after parsing and after converting.
Held ==
  \A r \in Run :
    /\ pc[r] \in {"parsed", "built", "writing", "done"} => Accepts(fmt[r], snap[r])
    /\ pc[r] \in {"built", "writing", "done"} => snap[r].save.whole

IInv == TypeOK /\ WritesBlob /\ Held

\* The inputs are there before any run starts.
LEMMA InitInv == Init => IInv
<1> SUFFICES ASSUME Init PROVE IInv OBVIOUS
<1>1. TypeOK
  <2>1. \A p \in Path : file[p] \in Inputs BY DEF Init
  <2>2. Absent \in Inputs BY DEF Inputs
  <2>3. opener \in [Path -> Run] BY CliAssumption DEF Init
  <2>4. 0 \in 0..Chunks /\ 0 \in 0..MaxChanges BY CliAssumption
  <2> QED BY <2>1, <2>2, <2>3, <2>4 DEF Init, TypeOK, Ended
<1> QED BY <1>1 DEF Init, IInv, WritesBlob, Held

\* The steps that leave every file as it is.
Quiet(r) ==
  \/ DetectFormat(r) \/ Refuse(r) \/ Parse(r) \/ ParseHangs(r) \/ ParseRaises(r) \/ Convert(r)
  \/ OpenRaises(r) \/ WriteRaises(r) \/ Close(r) \/ Kill(r)

\* Types, step by step; a writer's step also says which file it changes.
LEMMA QuietType ==
  ASSUME IInv, NEW r \in Run, Quiet(r)
  PROVE  TypeOK'
<1> USE DEF IInv
<1>1. UNCHANGED <<file, off, changes, opener>>
  BY DEF Quiet, DetectFormat, Refuse, Parse, ParseHangs, ParseRaises, Convert, OpenRaises,
         WriteRaises, Close, Kill
<1>2. pc' \in [Run -> {"ready", "detected", "looping", "parsed", "built", "writing"} \cup Ended]
  BY DEF Quiet, DetectFormat, Refuse, Parse, ParseHangs, ParseRaises, Convert, OpenRaises,
         WriteRaises, Close, Kill, TypeOK, Ended
<1>3. fmt' \in [Run -> {"none", "snes9x", "zsnes"}]
  BY DEF Quiet, DetectFormat, Refuse, Parse, ParseHangs, ParseRaises, Convert, OpenRaises,
         WriteRaises, Close, Kill, TypeOK
<1>4. snap' \in [Run -> Inputs]
  <2>1. CASE Parse(r)
    <3>1. Source[r] \in Path BY CliAssumption
    <3>2. file[Source[r]].kind = "save" BY <2>1 DEF Parse, Accepts
    <3>3. file[Source[r]] \in Inputs BY <3>1, <3>2 DEF TypeOK
    <3> QED BY <2>1, <3>3 DEF Parse, TypeOK
  <2>2. CASE ~Parse(r)
    <3>1. snap' = snap
      BY <2>2 DEF Quiet, DetectFormat, Refuse, ParseHangs, ParseRaises, Convert, OpenRaises,
             WriteRaises, Close, Kill
    <3> QED BY <3>1 DEF TypeOK
  <2> QED BY <2>1, <2>2
<1>5. torn' \in [Path -> BOOLEAN]
  BY DEF Quiet, DetectFormat, Refuse, Parse, ParseHangs, ParseRaises, Convert, OpenRaises,
         WriteRaises, Close, Kill, TypeOK
<1> QED BY <1>1, <1>2, <1>3, <1>4, <1>5 DEF TypeOK

LEMMA OpenType ==
  ASSUME IInv, NEW r \in Run, Open(r)
  PROVE  TypeOK'
<1>1. DOMAIN file' = Path BY DEF Open, IInv, TypeOK
<1>2. \A p \in Path : Content(file'[p])
  BY EmptyBlob DEF Open, IInv, TypeOK, Content
<1>3. pc' \in [Run -> {"ready", "detected", "looping", "parsed", "built", "writing"} \cup Ended]
  BY DEF Open, IInv, TypeOK
<1>4. torn' \in [Path -> BOOLEAN]
  <2>1. (Writing(Target[r]) # {}) \in BOOLEAN OBVIOUS
  <2> QED BY <2>1, Zenon DEF Open, IInv, TypeOK
<1>5. opener' \in [Path -> Run] BY DEF Open, IInv, TypeOK
<1> QED BY <1>1, <1>2, <1>3, <1>4, <1>5 DEF Open, IInv, TypeOK, Content

LEMMA WriteType ==
  ASSUME IInv, NEW r \in Run, Write(r)
  PROVE  /\ TypeOK'
         /\ file'[Target[r]] =
              Blob(Overwrite(file[Target[r]].chunks, off[r] + 1,
                             Piece(snap[r].save, off[r] + 1)))
         /\ \A p \in Path \ {Target[r]} : file'[p] = file[p]
<1> DEFINE t == Target[r]
           cs == file[t].chunks
           c  == Piece(snap[r].save, off[r] + 1)
<1>1. t \in Path BY CliAssumption
<1>2. file[t].kind = "blob" BY DEF IInv, WritesBlob, Write
<1>3. cs \in Seq(Pieces) /\ Len(cs) <= Chunks
  BY <1>1, <1>2, InputKinds DEF IInv, TypeOK
<1>4. off[r] + 1 \in 1..Chunks
  <2>1. off[r] \in 0..Chunks /\ off[r] < Chunks BY DEF IInv, TypeOK, Write
  <2>2. Chunks \in Nat BY CliAssumption
  <2> QED BY <2>1, <2>2
<1>5. snap[r].save \in Saves
  <2>1. snap[r] \in Inputs /\ snap[r].kind = "save"
    BY DEF IInv, TypeOK, Held, Write, Accepts
  <2> QED BY <2>1, InputKinds
<1>6. c \in Pieces BY <1>4, <1>5 DEF Pieces
<1> HIDE DEF c
<1>7. file' = [file EXCEPT ![t] = Blob(Overwrite(cs, off[r] + 1, c))]
  BY DEF Write, c
<1>8. Content(Blob(Overwrite(cs, off[r] + 1, c)))
  <2>1. Overwrite(cs, off[r] + 1, c) \in Seq(Pieces)
        /\ Len(Overwrite(cs, off[r] + 1, c)) <= Chunks
    BY <1>3, <1>4, <1>6, OverwriteType
  <2> QED BY <2>1 DEF Content
<1>9. DOMAIN file' = Path /\ \A p \in Path : Content(file'[p])
  BY <1>7, <1>8 DEF IInv, TypeOK, Content
<1>10. off' \in [Run -> 0..Chunks] BY <1>4 DEF Write, IInv, TypeOK
<1>11. TypeOK' BY <1>9, <1>10 DEF Write, IInv, TypeOK, Content
<1>12. DOMAIN file = Path BY DEF IInv, TypeOK
<1> QED BY <1>1, <1>7, <1>11, <1>12 DEF c

LEMMA ChangeType ==
  ASSUME IInv, NEW p \in Slot, ChangeSlot(p)
  PROVE  TypeOK'
<1>1. PICK c \in Inputs : file' = [file EXCEPT ![p] = c] BY DEF ChangeSlot
<1>2. DOMAIN file' = Path /\ \A q \in Path : Content(file'[q])
  BY <1>1, InputKinds DEF IInv, TypeOK, Content
<1>3. changes' \in 0..MaxChanges BY CliAssumption DEF ChangeSlot, IInv, TypeOK
<1> QED BY <1>2, <1>3 DEF ChangeSlot, IInv, TypeOK, Content

\* No step of a run or of the world leaves the types.
LEMMA TypeStep ==
  ASSUME IInv, [Next]_vars
  PROVE  TypeOK'
<1>1. CASE \E r \in Run : Step(r) \/ Kill(r)
  <2>1. PICK r \in Run : Step(r) \/ Kill(r) BY <1>1
  <2>2. Quiet(r) \/ Open(r) \/ Write(r) BY <2>1 DEF Step, Quiet
  <2> QED BY <2>2, QuietType, OpenType, WriteType
<1>2. CASE \E p \in Slot : ChangeSlot(p)
  BY <1>2, ChangeType
<1>3. CASE UNCHANGED vars
  BY <1>3 DEF vars, IInv, TypeOK
<1> QED BY <1>1, <1>2, <1>3 DEF Next

\* No two runs have the same target in a step of one of them alone: what a
\* run writes is its own target, and a slot is changed only when nobody has
\* it open.
LEMMA WritesBlobStep ==
  ASSUME IInv, [Next]_vars
  PROVE  WritesBlob'
<1> SUFFICES ASSUME NEW q \in Run, pc'[q] = "writing"
             PROVE  file'[Target[q]].kind = "blob"
  BY DEF WritesBlob
<1> USE DEF IInv
<1>0. Target[q] \in Path /\ DOMAIN file = Path BY CliAssumption DEF TypeOK
<1>1. CASE \E r \in Run : Quiet(r)
  <2>1. PICK r \in Run : Quiet(r) BY <1>1
  <2>2. file' = file /\ pc[q] = "writing"
    BY <2>1 DEF Quiet, DetectFormat, Refuse, Parse, ParseHangs, ParseRaises, Convert, OpenRaises,
           WriteRaises, Close, Kill, TypeOK
  <2> QED BY <2>2 DEF WritesBlob
<1>2. CASE \E r \in Run : Open(r)
  <2>1. PICK r \in Run : Open(r) BY <1>2
  <2>2. CASE Target[q] = Target[r]
    BY <2>1, <2>2, <1>0 DEF Open
  <2>3. CASE Target[q] # Target[r]
    <3>1. pc[q] = "writing" /\ file'[Target[q]] = file[Target[q]]
      BY <2>1, <2>3, <1>0 DEF Open, TypeOK
    <3> QED BY <3>1 DEF WritesBlob
  <2> QED BY <2>2, <2>3
<1>3. CASE \E r \in Run : Write(r)
  <2>1. PICK r \in Run : Write(r) BY <1>3
  <2>2. pc[q] = "writing" BY <2>1 DEF Write
  <2>3. file[Target[q]].kind = "blob" BY <2>2 DEF WritesBlob
  <2>4. /\ file'[Target[r]].kind = "blob"
        /\ \A p \in Path \ {Target[r]} : file'[p] = file[p]
    <3>1. /\ file'[Target[r]] =
               Blob(Overwrite(file[Target[r]].chunks, off[r] + 1,
                              Piece(snap[r].save, off[r] + 1)))
          /\ \A p \in Path \ {Target[r]} : file'[p] = file[p]
      BY <2>1, WriteType
    <3> QED BY <3>1
  <2> QED BY <2>3, <2>4, <1>0
<1>4. CASE \E p \in Slot : ChangeSlot(p)
  <2>1. PICK p \in Slot : ChangeSlot(p) BY <1>4
  <2>2. pc[q] = "writing" BY <2>1 DEF ChangeSlot
  <2>3. Target[q] # p BY <2>1, <2>2 DEF ChangeSlot, Writing
  <2>4. file'[Target[q]] = file[Target[q]] BY <2>1, <2>3, <1>0 DEF ChangeSlot
  <2> QED BY <2>2, <2>4 DEF WritesBlob
<1>5. CASE UNCHANGED vars
  BY <1>5 DEF vars, WritesBlob
<1> QED BY <1>1, <1>2, <1>3, <1>4, <1>5 DEF Next, Step, Quiet

\* What a run past parsing holds is a save its parser accepted.
LEMMA HeldStep ==
  ASSUME IInv, [Next]_vars
  PROVE  Held'
<1> USE DEF IInv
<1>1. ASSUME NEW r \in Run, Step(r) \/ Kill(r)
      PROVE  Held'
  <2>1. CASE Parse(r)
    <3>1. \A q \in Run : pc'[q] = (IF q = r THEN "parsed" ELSE pc[q])
      BY <2>1 DEF Parse, TypeOK
    <3>2. \A q \in Run : snap'[q] = (IF q = r THEN file[Source[r]] ELSE snap[q])
      BY <2>1 DEF Parse, TypeOK
    <3>3. fmt' = fmt /\ Accepts(fmt[r], file[Source[r]]) BY <2>1 DEF Parse
    <3> QED BY <3>1, <3>2, <3>3 DEF Held
  <2>2. CASE DetectFormat(r)
    <3>1. \A q \in Run : /\ pc'[q] = (IF q = r THEN "detected" ELSE pc[q])
                         /\ q # r => fmt'[q] = fmt[q]
      BY <2>2 DEF DetectFormat, TypeOK
    <3>2. snap' = snap BY <2>2 DEF DetectFormat
    <3> QED BY <3>1, <3>2 DEF Held
  <2>3. CASE Convert(r)
    <3>1. \A q \in Run :
            pc'[q] = (IF q = r THEN IF snap[r].save.whole THEN "built" ELSE "failed"
                      ELSE pc[q])
      BY <2>3 DEF Convert, TypeOK
    <3>2. snap' = snap /\ fmt' = fmt /\ pc[r] = "parsed" BY <2>3 DEF Convert
    <3> QED BY <3>1, <3>2 DEF Held
  <2>4. CASE Open(r) \/ Write(r) \/ Close(r)
    <3>1. \A q \in Run : pc'[q] \in {"built", "writing", "done"} =>
                           pc'[q] = pc[q] \/ pc[q] \in {"built", "writing", "done"}
      BY <2>4 DEF Open, Write, Close, TypeOK
    <3>2. \A q \in Run : pc'[q] = "parsed" => pc[q] = "parsed"
      BY <2>4 DEF Open, Write, Close, TypeOK
    <3>3. snap' = snap /\ fmt' = fmt BY <2>4 DEF Open, Write, Close
    <3> QED BY <3>1, <3>2, <3>3 DEF Held
  <2>5. CASE \/ Refuse(r) \/ ParseHangs(r) \/ ParseRaises(r) \/ OpenRaises(r) \/ WriteRaises(r)
             \/ Kill(r)
    <3>1. \A q \in Run : \/ pc'[q] = pc[q]
                         \/ pc'[q] \in {"failed", "killed", "looping"}
      BY <2>5 DEF Refuse, ParseHangs, ParseRaises, OpenRaises, WriteRaises, Kill, TypeOK
    <3>2. snap' = snap /\ fmt' = fmt
      BY <2>5 DEF Refuse, ParseHangs, ParseRaises, OpenRaises, WriteRaises, Kill
    <3> QED BY <3>1, <3>2 DEF Held
  <2> QED BY <1>1, <2>1, <2>2, <2>3, <2>4, <2>5 DEF Step
<1>2. ASSUME \/ \E p \in Slot : ChangeSlot(p)
             \/ UNCHANGED vars
      PROVE  Held'
  BY <1>2 DEF ChangeSlot, vars, Held
<1> QED BY <1>1, <1>2 DEF Next

(* The inductive invariant: besides the types, a run that writes has an     *)
(* output in front of it, and a run past parsing has an accepted save.      *)
THEOREM Inductive == Spec => []IInv
<1>1. IInv /\ [Next]_vars => IInv'
  BY TypeStep, WritesBlobStep, HeldStep DEF IInv
<1> QED BY InitInv, <1>1, PTL DEF Spec

(* Every variable keeps its type, for any number of runs and files; an      *)
(* output never grows beyond its chunks.                                    *)
THEOREM TypeCorrect == Spec => []TypeOK
<1>1. IInv => TypeOK BY DEF IInv
<1> QED BY <1>1, Inductive, PTL

(* A run empties or writes a file only with a complete conversion of an     *)
(* accepted save in memory (cli.py:88, writer.py:50).                       *)
THEOREM TouchedWithResult == Spec => TouchedOnlyWithResult
<1> DEFINE Touch == changes' = changes =>
        \A p \in Path :
          file'[p] # file[p] =>
            \E r \in Run : /\ Target[r] = p
                           /\ pc[r] \in {"built", "writing"}
                           /\ Accepts(fmt[r], snap[r]) /\ snap[r].save.whole
<1>1. IInv /\ [Next]_vars => [Touch]_vars
  <2> SUFFICES ASSUME IInv, Next, changes' = changes,
                      NEW p \in Path, file'[p] # file[p]
               PROVE  \E r \in Run : /\ Target[r] = p
                                     /\ pc[r] \in {"built", "writing"}
                                     /\ Accepts(fmt[r], snap[r])
                                     /\ snap[r].save.whole
    OBVIOUS
  <2>1. PICK r \in Run : Step(r) \/ Kill(r)
    <3>1. changes \in Int BY CliAssumption DEF IInv, TypeOK
    <3>2. \A s \in Slot : ~ChangeSlot(s) BY <3>1 DEF ChangeSlot
    <3> QED BY <3>2 DEF Next
  <2>2. Open(r) \/ Write(r)
    BY <2>1 DEF Step, DetectFormat, Refuse, Parse, ParseHangs, ParseRaises, Convert,
           OpenRaises, WriteRaises, Close, Kill
  <2>3. Target[r] = p
    BY <2>2, CliAssumption DEF Open, Write, IInv, TypeOK
  <2>4. pc[r] \in {"built", "writing"} BY <2>2 DEF Open, Write
  <2> QED BY <2>3, <2>4 DEF IInv, Held
<1> QED BY <1>1, Inductive, PTL DEF Spec, TouchedOnlyWithResult

-----------------------------------------------------------------------------
(* What is inside an output, whoever else wrote to it.                      *)

\* A parser accepts saves of its own format only.
LEMMA AcceptedOfItsFormat ==
  ASSUME NEW f \in {"none", "snes9x", "zsnes"}, NEW c \in Inputs, Accepts(f, c)
  PROVE  /\ c.kind = "save" /\ c.save \in Saves
         /\ Parses(FormatOf(c.save), c.save)
<1>1. c.kind = "save" /\ c.save \in Saves BY InputKinds DEF Accepts
<1>2. Possible(c.save) BY <1>1, CliAssumption
<1> QED BY <1>1, <1>2
       DEF Accepts, Parses, ParsesSnes9x, HasSnes9xMagic, ParsesZsnes, FormatOf,
           Possible, StartsWithText

\* What each kind of step does to one path.
LEMMA StepCases ==
  ASSUME IInv, [Next]_vars
  PROVE  \/ \E r \in Run : Quiet(r)
         \/ \E r \in Run : Open(r)
         \/ \E r \in Run : Write(r)
         \/ \E p \in Slot : ChangeSlot(p)
         \/ UNCHANGED vars
BY DEF Next, Step, Quiet

\* Most steps touch no file.
LEMMA QuietFiles ==
  ASSUME NEW r, Quiet(r)
  PROVE  UNCHANGED <<file, off, opener>>
BY DEF Quiet, DetectFormat, Refuse, Parse, ParseHangs, ParseRaises, Convert, OpenRaises,
       WriteRaises, Close, Kill

\* The world changes inputs; an output it leaves alone.
LEMMA ChangedSlotIsNoOutput ==
  ASSUME IInv, NEW s \in Slot, ChangeSlot(s), NEW p \in Path,
         file'[p].kind = "blob"
  PROVE  p # s /\ file'[p] = file[p]
<1>1. PICK c \in Inputs : file' = [file EXCEPT ![s] = c] BY DEF ChangeSlot
<1>2. DOMAIN file = Path BY DEF IInv, TypeOK
<1>3. file'[p] = (IF p = s THEN c ELSE file[p]) BY <1>1, <1>2
<1>4. c.kind # "blob" BY InputKinds
<1> QED BY <1>3, <1>4

\* What stands in an output after a write: the chunk, a hole or the old chunk.
LEMMA OverwriteElements ==
  ASSUME NEW cs \in Seq(Pieces), NEW i \in Nat \ {0}, NEW c,
         NEW j \in 1..Len(Overwrite(cs, i, c))
  PROVE  \/ Overwrite(cs, i, c)[j] = c
         \/ Overwrite(cs, i, c)[j] = Hole
         \/ j \in 1..Len(cs) /\ Overwrite(cs, i, c)[j] = cs[j]
<1> DEFINE n == IF i > Len(cs) THEN i ELSE Len(cs)
<1>1. n \in Nat OBVIOUS
<1>2. Overwrite(cs, i, c) =
        [k \in 1..n |-> IF k = i THEN c ELSE IF k <= Len(cs) THEN cs[k] ELSE Hole]
  BY DEF Overwrite
<1> HIDE DEF n
<1>3. Len(Overwrite(cs, i, c)) = n BY <1>1, <1>2
<1>4. j \in 1..n BY <1>3
<1>5. Overwrite(cs, i, c)[j] =
        (IF j = i THEN c ELSE IF j <= Len(cs) THEN cs[j] ELSE Hole)
  BY <1>2, <1>4
<1> QED BY <1>4, <1>5, <1>1

(* No chunk of an output comes from a save that a parser or the converter   *)
(* refused, however many runs write the same file.                          *)
THEOREM NoDataOfRefusedSaves == Spec => []NoRefusedData
<1> DEFINE Good(c) == c.kind = "piece" => /\ Parses(FormatOf(c.save), c.save)
                                          /\ c.save.whole
<1>1. Init => NoRefusedData
  <2> SUFFICES ASSUME Init PROVE NoRefusedData OBVIOUS
  <2>1. \A p \in Path : file[p].kind # "blob" BY InputKinds DEF Init
  <2> QED BY <2>1 DEF NoRefusedData
<1>2. IInv /\ NoRefusedData /\ [Next]_vars => NoRefusedData'
  <2> SUFFICES ASSUME IInv, NoRefusedData, [Next]_vars,
                      NEW p \in Path, file'[p].kind = "blob",
                      NEW j \in 1..Len(file'[p].chunks)
               PROVE  Good(file'[p].chunks[j])
    BY DEF NoRefusedData
  <2>0. file'[p] = file[p] => Good(file'[p].chunks[j]) BY DEF NoRefusedData
  <2>1. CASE \E r \in Run : Quiet(r)
    BY <2>0, <2>1, QuietFiles
  <2>2. CASE \E r \in Run : Open(r)
    <3>1. PICK r \in Run : Open(r) BY <2>2
    <3>2. file'[p] = Blob(<<>>) \/ file'[p] = file[p]
      BY <3>1 DEF Open, IInv, TypeOK
    <3>3. file'[p] # Blob(<<>>) OBVIOUS
    <3> QED BY <2>0, <3>2, <3>3
  <2>3. CASE \E r \in Run : Write(r)
    <3>1. PICK r \in Run : Write(r) BY <2>3
    <3>2. CASE p # Target[r]
      <4>1. file'[p] = file[p] BY <3>1, <3>2, WriteType
      <4> QED BY <2>0, <4>1
    <3>3. CASE p = Target[r]
      <4> DEFINE cs == file[p].chunks
                 c  == Piece(snap[r].save, off[r] + 1)
      <4>1. file'[p] = Blob(Overwrite(cs, off[r] + 1, c))
        BY <3>1, <3>3, WriteType
      <4>2. file[p].kind = "blob" BY <3>1, <3>3 DEF IInv, WritesBlob, Write
      <4>3. cs \in Seq(Pieces) BY <4>2, InputKinds DEF IInv, TypeOK
      <4>4. off[r] + 1 \in Nat \ {0}
        <5>1. off[r] \in 0..Chunks BY DEF IInv, TypeOK
        <5> QED BY <5>1
      <4>5. Good(c)
        <5>1. Accepts(fmt[r], snap[r]) /\ snap[r].save.whole
          BY <3>1 DEF IInv, Held, Write
        <5>2. fmt[r] \in {"none", "snes9x", "zsnes"} /\ snap[r] \in Inputs
          BY DEF IInv, TypeOK
        <5> QED BY <5>1, <5>2, AcceptedOfItsFormat
      <4>6. \A k \in 1..Len(cs) : Good(cs[k]) BY <4>2 DEF NoRefusedData
      <4>7. Good(Hole) OBVIOUS
      <4> HIDE DEF cs, c, Good
      <4>8. j \in 1..Len(Overwrite(cs, off[r] + 1, c))
            /\ file'[p].chunks[j] = Overwrite(cs, off[r] + 1, c)[j]
        BY <4>1
      <4> QED BY <4>3, <4>4, <4>5, <4>6, <4>7, <4>8, OverwriteElements
    <3> QED BY <3>2, <3>3
  <2>4. CASE \E s \in Slot : ChangeSlot(s)
    BY <2>0, <2>4, ChangedSlotIsNoOutput
  <2>5. CASE UNCHANGED vars
    BY <2>0, <2>5 DEF vars
  <2> QED BY <2>1, <2>2, <2>3, <2>4, <2>5, StepCases
<1> QED BY <1>1, <1>2, Inductive, PTL DEF Spec

-----------------------------------------------------------------------------
(* Whole outputs.  As long as no second writer and no interruption is on    *)
(* record, an output has one writer, the last run that opened it, and holds *)
(* exactly the chunks this run has written so far.                          *)

Fresh ==
  \A r \in Run : pc[r] \in {"ready", "detected", "parsed", "built"} => off[r] = 0

Written(b, n) == [k \in 1..n |-> Piece(b, k)]

OneWriter(p) ==
  LET r == opener[p] IN
  /\ Target[r] = p
  /\ pc[r] \in {"writing", "done"}
  /\ pc[r] = "done" => off[r] = Chunks
  /\ \A q \in Run : q # r /\ Target[q] = p => pc[q] # "writing"
  /\ file[p].chunks = Written(snap[r].save, off[r])

UntornWhole ==
  \A p \in Path : file[p].kind = "blob" /\ ~torn[p] => OneWriter(p)

\* A write at the end of what one run has written adds the next chunk.
LEMMA OverwriteNext ==
  ASSUME NEW b, NEW n \in Nat
  PROVE  Overwrite(Written(b, n), n + 1, Piece(b, n + 1)) = Written(b, n + 1)
<1>1. Len(Written(b, n)) = n BY DEF Written
<1>2. Overwrite(Written(b, n), n + 1, Piece(b, n + 1)) =
        [j \in 1..(n + 1) |-> IF j = n + 1 THEN Piece(b, n + 1)
                             ELSE IF j <= n THEN Written(b, n)[j] ELSE Hole]
  BY <1>1 DEF Overwrite
<1>3. \A j \in 1..(n + 1) :
        (IF j = n + 1 THEN Piece(b, n + 1)
         ELSE IF j <= n THEN Written(b, n)[j] ELSE Hole) = Piece(b, j)
  BY DEF Written
<1> QED BY <1>2, <1>3 DEF Written

\* A run has written nothing before it opens its output.
LEMMA FreshStep ==
  ASSUME IInv, Fresh, [Next]_vars
  PROVE  Fresh'
<1> SUFFICES ASSUME NEW q \in Run,
                    pc'[q] \in {"ready", "detected", "parsed", "built"}
             PROVE  off'[q] = 0
  BY DEF Fresh
<1>1. off'[q] = off[q] /\ pc[q] \in {"ready", "detected", "parsed", "built"}
  <2>1. ASSUME NEW r \in Run, Quiet(r) \/ Open(r)
        PROVE  off'[q] = off[q] /\ pc[q] \in {"ready", "detected", "parsed", "built"}
    BY <2>1 DEF Quiet, DetectFormat, Refuse, Parse, ParseHangs, ParseRaises, Convert, OpenRaises,
           WriteRaises, Close, Kill, Open, IInv, TypeOK
  <2>2. ASSUME NEW r \in Run, Write(r)
        PROVE  off'[q] = off[q] /\ pc[q] \in {"ready", "detected", "parsed", "built"}
    BY <2>2 DEF Write, IInv, TypeOK
  <2>3. ASSUME (\E s \in Slot : ChangeSlot(s)) \/ UNCHANGED vars
        PROVE  off'[q] = off[q] /\ pc[q] \in {"ready", "detected", "parsed", "built"}
    BY <2>3 DEF ChangeSlot, vars
  <2> QED BY <2>1, <2>2, <2>3, StepCases
<1> QED BY <1>1 DEF Fresh

\* One writer per path without trouble, step by step.
LEMMA QuietOneWriter ==
  ASSUME IInv, UntornWhole, NEW r \in Run, Quiet(r),
         NEW p \in Path, file'[p].kind = "blob", ~torn'[p]
  PROVE  OneWriter(p)'
<1> DEFINE w == opener[p]
<1>1. UNCHANGED <<file, off, opener>> BY QuietFiles
<1>2. ~torn[p]
  BY DEF Quiet, DetectFormat, Refuse, Parse, ParseHangs, ParseRaises, Convert, OpenRaises,
         WriteRaises, Close, Kill, IInv, TypeOK
<1>3. OneWriter(p) BY <1>1, <1>2 DEF UntornWhole
<1>4. w \in Run BY DEF IInv, TypeOK
<1>5. \A q \in Run : pc'[q] = "writing" => pc[q] = "writing"
  BY DEF Quiet, DetectFormat, Refuse, Parse, ParseHangs, ParseRaises, Convert, OpenRaises,
         WriteRaises, Close, Kill, IInv, TypeOK
<1>6. snap'[w] = snap[w]
  <2>1. pc[w] \in {"writing", "done"} BY <1>3 DEF OneWriter
  <2> QED BY <1>4, <2>1
          DEF Quiet, DetectFormat, Refuse, Parse, ParseHangs, ParseRaises, Convert, OpenRaises,
              WriteRaises, Close, Kill, IInv, TypeOK
<1>7. pc'[w] \in {"writing", "done"} /\ (pc'[w] = "done" => off[w] = Chunks)
  <2>1. CASE r # w
    <3>1. pc'[w] = pc[w]
      BY <2>1, <1>4 DEF Quiet, DetectFormat, Refuse, Parse, ParseHangs, ParseRaises, Convert,
             OpenRaises, WriteRaises, Close, Kill, IInv, TypeOK
    <3> QED BY <3>1, <1>3 DEF OneWriter
  <2>2. CASE r = w
    <3>1. pc[r] \in {"writing", "done"} /\ Target[r] = p BY <1>3, <2>2 DEF OneWriter
    <3>2. Close(r)
      <4>1. ~WriteRaises(r)
        BY <3>1 DEF WriteRaises, IInv, TypeOK
      <4>2. ~Kill(r)
        BY <3>1 DEF Kill, Ended, IInv, TypeOK
      <4> QED BY <3>1, <4>1, <4>2
             DEF Quiet, DetectFormat, Refuse, Parse, ParseHangs, ParseRaises, Convert, OpenRaises
    <3> QED BY <2>2, <3>2, <1>4 DEF Close, IInv, TypeOK
  <2> QED BY <2>1, <2>2
<1> QED BY <1>1, <1>3, <1>5, <1>6, <1>7 DEF OneWriter

LEMMA OpenOneWriter ==
  ASSUME IInv, Fresh, UntornWhole, NEW r \in Run, Open(r),
         NEW p \in Path, file'[p].kind = "blob", ~torn'[p]
  PROVE  OneWriter(p)'
<1>0. /\ UNCHANGED <<snap, off>>
      /\ \A q \in Run : pc'[q] = (IF q = r THEN "writing" ELSE pc[q])
      /\ pc[r] = "built"
  BY DEF Open, IInv, TypeOK
<1>1. CASE p = Target[r]
  <2>1. opener'[p] = r /\ file'[p] = Blob(<<>>) BY <1>1 DEF Open, IInv, TypeOK
  <2>2. Writing(p) = {} BY <1>1 DEF Open, IInv, TypeOK
  <2>3. \A q \in Run : q # r /\ Target[q] = p => pc'[q] # "writing"
    BY <2>2, <1>0 DEF Writing
  <2>4. off'[r] = 0 BY <1>0 DEF Fresh
  <2>5. Written(snap[r].save, 0) = <<>> BY DEF Written
  <2> QED BY <1>0, <1>1, <2>1, <2>3, <2>4, <2>5 DEF OneWriter
<1>2. CASE p # Target[r]
  <2>1. opener'[p] = opener[p] /\ file'[p] = file[p] /\ torn'[p] = torn[p]
    BY <1>2 DEF Open, IInv, TypeOK
  <2>2. OneWriter(p) BY <2>1 DEF UntornWhole
  <2>3. opener[p] \in Run /\ opener[p] # r
    BY <1>2, <2>2 DEF OneWriter, IInv, TypeOK
  <2> QED BY <1>0, <1>2, <2>1, <2>2, <2>3 DEF OneWriter
<1> QED BY <1>1, <1>2

LEMMA WriteOneWriter ==
  ASSUME IInv, UntornWhole, NEW r \in Run, Write(r),
         NEW p \in Path, file'[p].kind = "blob", ~torn'[p]
  PROVE  OneWriter(p)'
<1>0. /\ UNCHANGED <<pc, snap, torn, opener>>
      /\ \A q \in Run : off'[q] = (IF q = r THEN off[r] + 1 ELSE off[q])
      /\ pc[r] = "writing"
  BY DEF Write, IInv, TypeOK
<1>1. CASE p = Target[r]
  <2>1. file[p].kind = "blob" BY <1>0, <1>1 DEF IInv, WritesBlob
  <2>2. OneWriter(p) BY <1>0, <2>1 DEF UntornWhole
  <2>3. opener[p] = r BY <1>0, <1>1, <2>2 DEF OneWriter
  <2>4. file'[p].chunks = Overwrite(file[p].chunks, off[r] + 1,
                                    Piece(snap[r].save, off[r] + 1))
    <3>1. file'[p] = Blob(Overwrite(file[p].chunks, off[r] + 1,
                                    Piece(snap[r].save, off[r] + 1)))
      BY <1>1, WriteType
    <3> QED BY <3>1
  <2>5. file[p].chunks = Written(snap[r].save, off[r])
    BY <2>2, <2>3 DEF OneWriter
  <2>6. off[r] \in Nat
    <3>1. off[r] \in 0..Chunks BY DEF IInv, TypeOK
    <3> QED BY <3>1
  <2>7. file'[p].chunks = Written(snap[r].save, off[r] + 1)
    BY <2>4, <2>5, <2>6, OverwriteNext
  <2> QED BY <1>0, <1>1, <2>2, <2>3, <2>7 DEF OneWriter
<1>2. CASE p # Target[r]
  <2>1. file'[p] = file[p] BY <1>2, WriteType
  <2>2. OneWriter(p) BY <1>0, <2>1 DEF UntornWhole
  <2>3. opener[p] # r BY <1>2, <2>2 DEF OneWriter
  <2>4. opener[p] \in Run BY DEF IInv, TypeOK
  <2> QED BY <1>0, <2>1, <2>2, <2>3, <2>4 DEF OneWriter
<1> QED BY <1>1, <1>2

(* An output that nobody is writing holds the complete conversion of the    *)
(* save its last writer read, unless a writer of it was interrupted or met  *)
(* another one (writer.py:50), for any number of runs and of chunks.        *)
THEOREM WholeOutputs == Spec => []OutputsWhole
<1>1. Init => Fresh /\ UntornWhole
  <2> SUFFICES ASSUME Init PROVE Fresh /\ UntornWhole OBVIOUS
  <2>1. \A p \in Path : file[p].kind # "blob" BY InputKinds DEF Init
  <2> QED BY <2>1 DEF Init, Fresh, UntornWhole
<1>2. IInv /\ Fresh /\ UntornWhole /\ [Next]_vars => Fresh' /\ UntornWhole'
  <2> SUFFICES ASSUME IInv, Fresh, UntornWhole, [Next]_vars,
                      NEW p \in Path, file'[p].kind = "blob", ~torn'[p]
               PROVE  OneWriter(p)'
    BY FreshStep DEF UntornWhole
  <2>1. CASE \E s \in Slot : ChangeSlot(s)
    <3>1. file'[p] = file[p] BY <2>1, ChangedSlotIsNoOutput
    <3>2. UNCHANGED <<pc, snap, off, torn, opener>> BY <2>1 DEF ChangeSlot
    <3>3. OneWriter(p) BY <3>1, <3>2 DEF UntornWhole
    <3> QED BY <3>1, <3>2, <3>3 DEF OneWriter
  <2>2. CASE UNCHANGED vars
    BY <2>2 DEF vars, UntornWhole, OneWriter
  <2> QED BY <2>1, <2>2, StepCases, QuietOneWriter, OpenOneWriter, WriteOneWriter
<1>3. IInv /\ UntornWhole => OutputsWhole
  <2> SUFFICES ASSUME IInv, UntornWhole, NEW p \in Path,
                      file[p].kind = "blob", Writing(p) = {}, ~torn[p]
               PROVE  /\ pc[opener[p]] = "done"
                      /\ file[p] = Converted(snap[opener[p]].save)
    BY DEF OutputsWhole
  <2>1. OneWriter(p) /\ opener[p] \in Run BY DEF UntornWhole, IInv, TypeOK
  <2>2. pc[opener[p]] = "done" BY <2>1 DEF OneWriter, Writing
  <2>3. file[p] = Blob(file[p].chunks) BY InputKinds DEF IInv, TypeOK
  <2> QED BY <2>1, <2>2, <2>3 DEF OneWriter, Written, Converted
<1> QED BY <1>1, <1>2, <1>3, Inductive, PTL DEF Spec

-----------------------------------------------------------------------------
(* Detector and parsers.  Two lemmas compare their questions over every     *)
(* shape a save can have; the invariant carries the verdict from the first  *)
(* read of a file to the second one.                                        *)

\* Detector and parsers over every shape: a detected save that is refused.
LEMMA RefusedIsDisputed ==
  ASSUME NEW b \in Shape, Possible(b), NEW f \in {"snes9x", "zsnes"},
         Detect(b) = f, ~DetectRaises(b), ~Parses(f, b), ~Loops(f, b)
  PROVE  b.body = "raises" \/ Disputed(b)
BY DEF Shape, Possible, Detect, DetectRaises, Parses, ParsesSnes9x, LoopsSnes9x,
       HasSnes9xMagic, Loops, ParsesZsnes, Disputed, StartsWithText

\* The other direction: a save that would parse and is not detected.
LEMMA UndetectedIsOdd ==
  ASSUME NEW b \in Shape, Possible(b), b.whole, Parses(FormatOf(b), b),
         DetectRaises(b) \/ Detect(b) \notin {"snes9x", "zsnes"}
  PROVE  b.gzip = "broken" \/ (b.inflates /\ b.size = "beyond")
BY DEF Shape, Possible, Detect, DetectRaises, Parses, ParsesSnes9x, HasSnes9xMagic,
       ParsesZsnes, FormatOf, StartsWithText

VerdictOf(r) ==
  LET c == file[Source[r]] IN
  /\ pc[r] = "ready" => fmt[r] = "none"
  /\ pc[r] \in {"detected", "parsed", "built", "writing"} => fmt[r] # "none"
  /\ c.kind = "save" =>
       /\ pc[r] = "detected" => Detects(c, fmt[r])
       /\ pc[r] = "failed" /\ fmt[r] = "none" =>
            \A f \in {"snes9x", "zsnes"} : ~Detects(c, f)
       /\ pc[r] = "failed" /\ fmt[r] # "none" /\ snap[r] = Absent =>
            c.save.body = "raises" \/ Disputed(c.save)

Verdicts == changes = 0 => \A r \in Run : VerdictOf(r)

\* Every save in a file has one of the possible shapes.
LEMMA SaveInFile ==
  ASSUME IInv, NEW p \in Path, file[p].kind = "save"
  PROVE  file[p].save \in Shape /\ Possible(file[p].save)
<1>1. file[p] \in Inputs BY DEF IInv, TypeOK
<1>2. file[p].save \in Saves BY <1>1, InputKinds
<1> QED BY <1>2, CliAssumption

\* Only a slot that changes makes a save appear in a file.
LEMMA SavesStay ==
  ASSUME IInv, NEW r \in Run, Quiet(r) \/ Open(r) \/ Write(r),
         NEW p \in Path, file'[p].kind = "save"
  PROVE  file'[p] = file[p]
<1>1. CASE Quiet(r) BY <1>1, QuietFiles
<1>2. CASE Open(r)
  BY <1>2 DEF Open, IInv, TypeOK
<1>3. CASE Write(r)
  <2>1. file'[Target[r]].kind = "blob"
    <3>1. file'[Target[r]] =
            Blob(Overwrite(file[Target[r]].chunks, off[r] + 1,
                           Piece(snap[r].save, off[r] + 1)))
      BY <1>3, WriteType
    <3> QED BY <3>1
  <2> QED BY <1>3, <2>1, WriteType
<1> QED BY <1>1, <1>2, <1>3

\* A run carries its verdict from the first read of the file to the second.
LEMMA VerdictStep ==
  ASSUME IInv, NEW r \in Run, VerdictOf(r), Quiet(r) \/ Open(r) \/ Write(r)
  PROVE  VerdictOf(r)'
<1> DEFINE c == file[Source[r]]
<1>0. Source[r] \in Path BY CliAssumption
<1>1. c'.kind = "save" => c' = c BY <1>0, SavesStay
<1>2. CASE DetectFormat(r)
  <2>1. c' = c /\ pc'[r] = "detected" /\ fmt'[r] # "none" /\ Detects(c, fmt'[r])
    BY <1>2 DEF DetectFormat, IInv, TypeOK
  <2> QED BY <2>1 DEF VerdictOf, Detects
<1>3. CASE Refuse(r)
  <2>1. /\ c' = c /\ pc'[r] = "failed" /\ fmt'[r] = "none"
        /\ \A f \in {"snes9x", "zsnes"} : ~Detects(c, f)
    BY <1>3 DEF Refuse, VerdictOf, IInv, TypeOK
  <2> QED BY <2>1 DEF VerdictOf, Detects
<1>4. CASE ParseRaises(r)
  <2>1. /\ c' = c /\ pc'[r] = "failed" /\ fmt' = fmt /\ fmt[r] \in {"snes9x", "zsnes"}
        /\ pc[r] = "detected" /\ ~Accepts(fmt[r], c) /\ ~Hangs(fmt[r], c)
    BY <1>4 DEF ParseHangs, ParseRaises, VerdictOf, IInv, TypeOK
  <2>2. ASSUME c.kind = "save" PROVE c.save.body = "raises" \/ Disputed(c.save)
    <3>1. Detects(c, fmt[r]) /\ ~Parses(fmt[r], c.save) /\ ~Loops(fmt[r], c.save)
      BY <2>1, <2>2 DEF VerdictOf, Accepts, Hangs
    <3>2. c.save \in Shape /\ Possible(c.save) BY <1>0, <2>2, SaveInFile
    <3> QED BY <2>1, <3>1, <3>2, RefusedIsDisputed DEF Detects
  <2> QED BY <2>1, <2>2 DEF VerdictOf
<1>5. CASE Parse(r) \/ ParseHangs(r)
  BY <1>5 DEF Parse, ParseHangs, VerdictOf, IInv, TypeOK
<1>6. CASE Open(r) \/ Write(r) \/ Close(r) \/ Kill(r)
  <2>1. fmt' = fmt /\ pc'[r] \in {"writing", "done", "killed"}
    BY <1>6 DEF Open, Write, Close, Kill, IInv, TypeOK
  <2>2. pc'[r] = "writing" => pc[r] \in {"built", "writing"}
    BY <1>6 DEF Open, Write, Close, Kill, IInv, TypeOK
  <2> QED BY <2>1, <2>2 DEF VerdictOf
<1>7. CASE Convert(r) \/ OpenRaises(r) \/ WriteRaises(r)
  <2>1. /\ fmt' = fmt /\ snap' = snap /\ pc'[r] \in {"built", "failed"}
        /\ pc[r] \in {"parsed", "built", "writing"}
    BY <1>7 DEF Convert, OpenRaises, WriteRaises, IInv, TypeOK
  <2>2. snap[r].kind = "save" BY <2>1 DEF IInv, Held, Accepts
  <2>3. snap[r] # Absent BY <2>2
  <2>4. fmt[r] # "none" BY <2>1 DEF VerdictOf
  <2> QED BY <2>1, <2>3, <2>4 DEF VerdictOf
<1> QED BY <1>2, <1>3, <1>4, <1>5, <1>6, <1>7 DEF Quiet

\* The verdicts hold in every reachable state.
LEMMA VerdictsHold == Spec => []Verdicts
<1>1. Init => Verdicts
  BY DEF Init, Verdicts, VerdictOf
<1>2. IInv /\ Verdicts /\ [Next]_vars => Verdicts'
  <2> SUFFICES ASSUME IInv, Verdicts, [Next]_vars, changes' = 0, NEW q \in Run
               PROVE  VerdictOf(q)'
    BY DEF Verdicts
  <2>0. Source[q] \in Path BY CliAssumption
  <2>1. ASSUME NEW r \in Run, Quiet(r) \/ Open(r) \/ Write(r)
        PROVE  VerdictOf(q)'
    <3>1. changes' = changes
      BY <2>1 DEF Quiet, DetectFormat, Refuse, Parse, ParseHangs, ParseRaises, Convert, OpenRaises,
             WriteRaises, Close, Kill, Open, Write
    <3>2. VerdictOf(q) BY <3>1 DEF Verdicts
    <3>3. CASE q = r BY <2>1, <3>2, <3>3, VerdictStep
    <3>4. CASE q # r
      <4>1. pc'[q] = pc[q] /\ fmt'[q] = fmt[q] /\ snap'[q] = snap[q]
        BY <2>1, <3>4 DEF Quiet, DetectFormat, Refuse, Parse, ParseHangs, ParseRaises, Convert,
               OpenRaises, WriteRaises, Close, Kill, Open, Write, IInv, TypeOK
      <4>2. file'[Source[q]].kind = "save" => file'[Source[q]] = file[Source[q]]
        BY <2>0, <2>1, SavesStay
      <4> QED BY <3>2, <4>1, <4>2 DEF VerdictOf, Detects
    <3> QED BY <3>3, <3>4
  <2>2. ~\E s \in Slot : ChangeSlot(s)
    <3>1. changes \in Nat
      <4>1. changes \in 0..MaxChanges BY DEF IInv, TypeOK
      <4> QED BY <4>1
    <3> QED BY <3>1 DEF ChangeSlot
  <2>3. CASE UNCHANGED vars
    BY <2>3 DEF vars, Verdicts, VerdictOf, Detects
  <2> QED BY <2>1, <2>2, <2>3, StepCases
<1> QED BY <1>1, <1>2, Inductive, PTL DEF Spec

(* A save that was detected, and not changed since, is refused by a parser  *)
(* only where the parser's reading fails behind the first bytes, or where   *)
(* it is one of the three disputed kinds (cli.py:65-77).                    *)
THEOREM VerdictsStand == Spec => []VerdictStands
<1>1. Verdicts => VerdictStands
  BY DEF Verdicts, VerdictOf, VerdictStands
<1> QED BY <1>1, VerdictsHold, PTL

(* A whole save that a parser accepts is detected, but for a ZSNES save     *)
(* whose size field looks like a gzip file or says too much (cli.py:28-51). *)
THEOREM SoundSavesAreDetected == Spec => []SoundSavesDetected
<1>1. IInv /\ Verdicts => SoundSavesDetected
  <2> SUFFICES ASSUME IInv, Verdicts, changes = 0, NEW r \in Run,
                      pc[r] = "failed", fmt[r] = "none",
                      NEW c, c = file[Source[r]], c.kind = "save", c.save.whole,
                      Parses(FormatOf(c.save), c.save)
               PROVE  \/ c.save.gzip = "broken"
                      \/ c.save.inflates /\ c.save.size = "beyond"
    BY DEF SoundSavesDetected
  <2>1. \A f \in {"snes9x", "zsnes"} : ~Detects(c, f) BY DEF Verdicts, VerdictOf
  <2>2. DetectRaises(c.save) \/ Detect(c.save) \notin {"snes9x", "zsnes"}
    BY <2>1 DEF Detects
  <2>3. c.save \in Shape /\ Possible(c.save) BY SaveInFile, CliAssumption
  <2> QED BY <2>2, <2>3, UndetectedIsOdd
<1> QED BY <1>1, Inductive, VerdictsHold, PTL
-----------------------------------------------------------------------------
(* Refinement.  A conversion in steps, which reads its input twice, does    *)
(* what AtomicConversion does in one: it takes its input at the second read *)
(* and publishes when it closes the output; the other steps move no job.    *)

Jobs == [r \in Run |-> Job(r)]

\* A step of one run moves its own job only.
LEMMA OwnJob ==
  ASSUME NEW r \in Run,
         \A q \in Run \ {r} : pc'[q] = pc[q] /\ snap'[q] = snap[q]
  PROVE  Jobs' = [Jobs EXCEPT ![r] = Job(r)']
<1>1. \A q \in Run \ {r} : Job(q)' = Job(q) BY DEF Job
<1> QED BY <1>1 DEF Jobs

\* A job that looks the same after the step has not moved.
LEMMA SameJob ==
  ASSUME NEW r \in Run, Job(r)' = Job(r),
         \A q \in Run \ {r} : pc'[q] = pc[q] /\ snap'[q] = snap[q]
  PROVE  Jobs' = Jobs
<1>1. \A q \in Run : Job(q)' = Job(q) BY DEF Job
<1> QED BY <1>1 DEF Jobs

\* Both specifications mean the same parsers.
LEMMA SameParsers ==
  ASSUME NEW b, Parses(FormatOf(b), b)
  PROVE  Atomic!Parses(Atomic!FormatOf(b), b)
BY DEF Parses, ParsesSnes9x, HasSnes9xMagic, ParsesZsnes, FormatOf, StartsWithText,
       Atomic!Parses, Atomic!ParsesSnes9x, Atomic!HasSnes9xMagic,
       Atomic!ParsesZsnes, Atomic!FormatOf, Atomic!StartsWithText

\* Every step of one run is a step of its job or leaves the jobs alone.
LEMMA StepRefines ==
  ASSUME IInv, NEW r \in Run, Quiet(r) \/ Open(r) \/ Write(r)
  PROVE  \/ Atomic!Take(r) \/ Atomic!Publish(r) \/ Atomic!Abandon(r)
         \/ Jobs' = Jobs
<1>1. /\ pc \in [Run -> {"ready", "detected", "looping", "parsed", "built", "writing"} \cup Ended]
      /\ snap \in [Run -> Inputs]
  BY DEF IInv, TypeOK
<1>2. \A q \in Run \ {r} : pc'[q] = pc[q] /\ snap'[q] = snap[q]
  BY <1>1 DEF Quiet, DetectFormat, Refuse, Parse, ParseHangs, ParseRaises, Convert, OpenRaises,
              WriteRaises, Close, Kill, Open, Write
<1>3. Jobs' = [Jobs EXCEPT ![r] = Job(r)'] BY <1>2, OwnJob
<1>4. Jobs[r] = Job(r) BY DEF Jobs
<1>5. CASE DetectFormat(r) \/ ParseHangs(r) \/ Open(r) \/ Write(r)
  <2>1. Job(r)' = Job(r) BY <1>1, <1>5 DEF DetectFormat, ParseHangs, Open, Write, Job
  <2> QED BY <1>2, <2>1, SameJob
<1>6. CASE Parse(r)
  <2> DEFINE c == file[Source[r]]
  <2>1. c.kind = "save" /\ Parses(FormatOf(c.save), c.save)
    <3>1. Accepts(fmt[r], c) BY <1>6 DEF Parse
    <3>2. c \in Inputs BY <3>1, CliAssumption DEF IInv, TypeOK, Accepts
    <3>3. fmt[r] \in {"none", "snes9x", "zsnes"} BY DEF IInv, TypeOK
    <3> QED BY <3>1, <3>2, <3>3, AcceptedOfItsFormat
  <2>2. Job(r).state = "pending" BY <1>6 DEF Parse, Job
  <2>3. Job(r)' = [state |-> "taken", save |-> c] BY <1>1, <1>6 DEF Parse, Job
  <2>4. UNCHANGED file BY <1>6 DEF Parse
  <2>5. Atomic!Parses(Atomic!FormatOf(c.save), c.save) BY <2>1, SameParsers
  <2>6. Atomic!Take(r)
    BY <1>3, <1>4, <2>1, <2>2, <2>3, <2>4, <2>5 DEF Atomic!Take, Atomic!Move, Jobs
  <2> QED BY <2>6
<1>7. CASE Close(r)
  <2>1. /\ Job(r).state = "taken" /\ Job(r).save = snap[r]
        /\ Job(r)' = [state |-> "published", save |-> snap[r]]
    BY <1>1, <1>7 DEF Close, Job
  <2>2. snap[r].save.whole BY <1>7 DEF Close, IInv, Held
  <2>3. UNCHANGED file BY <1>7 DEF Close
  <2>4. Atomic!Publish(r)
    BY <1>3, <1>4, <2>1, <2>2, <2>3 DEF Atomic!Publish, Atomic!Move, Jobs
  <2> QED BY <2>4
<1>8. CASE Refuse(r) \/ ParseRaises(r) \/ OpenRaises(r) \/ WriteRaises(r) \/ Kill(r)
  <2>1. /\ Job(r).state \in {"pending", "taken"} /\ Job(r).save = snap[r]
        /\ Job(r)' = [state |-> "abandoned", save |-> snap[r]]
    BY <1>1, <1>8 DEF Refuse, ParseRaises, OpenRaises, WriteRaises, Kill, Ended, Job
  <2>2. UNCHANGED file BY <1>8 DEF Refuse, ParseRaises, OpenRaises, WriteRaises, Kill
  <2>3. Atomic!Abandon(r)
    BY <1>3, <1>4, <2>1, <2>2 DEF Atomic!Abandon, Atomic!Move, Jobs
  <2> QED BY <2>3
<1>9. CASE Convert(r)
  <2>1. CASE snap[r].save.whole
    <3>1. Job(r)' = Job(r) BY <1>1, <1>9, <2>1 DEF Convert, Job
    <3> QED BY <1>2, <3>1, SameJob
  <2>2. CASE ~snap[r].save.whole
    <3>1. /\ Job(r).state = "taken" /\ Job(r).save = snap[r]
          /\ Job(r)' = [state |-> "abandoned", save |-> snap[r]]
      BY <1>1, <1>9, <2>2 DEF Convert, Job
    <3>2. UNCHANGED file BY <1>9 DEF Convert
    <3>3. Atomic!Abandon(r)
      BY <1>3, <1>4, <3>1, <3>2 DEF Atomic!Abandon, Atomic!Move, Jobs
    <3> QED BY <3>3
  <2> QED BY <2>1, <2>2
<1> QED BY <1>5, <1>6, <1>7, <1>8, <1>9 DEF Quiet

(* Although the input is read twice (cli.py:66 and the parsers) and the     *)
(* output written in steps (writer.py:50), a conversion takes one snapshot  *)
(* of its input, of the format it was saved in, and publishes that or       *)
(* nothing: every behaviour of the command line is one of AtomicConversion. *)
THEOREM Refines == Spec => ConvertsSnapshots
<1>1. Init => Atomic!Init
  BY DEF Init, Atomic!Init, Job
<1>2. IInv /\ [Next]_vars => [Atomic!Next]_Atomic!vars
  <2> SUFFICES ASSUME IInv, [Next]_vars PROVE Atomic!Next \/ UNCHANGED Atomic!vars
    OBVIOUS
  <2>1. CASE \E r \in Run : Quiet(r) \/ Open(r) \/ Write(r)
    <3>1. PICK r \in Run : Quiet(r) \/ Open(r) \/ Write(r) BY <2>1
    <3>2. CASE Jobs' = Jobs BY <3>2 DEF Atomic!Next, Atomic!Change, Jobs
    <3>3. CASE Atomic!Take(r) \/ Atomic!Publish(r) \/ Atomic!Abandon(r)
      BY <3>3 DEF Atomic!Next
    <3> QED BY <3>1, <3>2, <3>3, StepRefines
  <2>2. CASE \E p \in Slot : ChangeSlot(p)
    <3>1. UNCHANGED <<pc, snap>> BY <2>2 DEF ChangeSlot
    <3>2. Jobs' = Jobs BY <3>1 DEF Jobs, Job
    <3> QED BY <3>2 DEF Atomic!Next, Atomic!Change, Jobs
  <2>3. CASE UNCHANGED vars
    <3>1. UNCHANGED <<file, pc, snap>> BY <2>3 DEF vars
    <3>2. Jobs' = Jobs BY <3>1 DEF Jobs, Job
    <3> QED BY <3>2 DEF Atomic!Next, Atomic!Change, Jobs
  <2> QED BY <2>1, <2>2, <2>3, StepCases
<1> QED BY <1>1, <1>2, Inductive, PTL DEF Spec, ConvertsSnapshots, Atomic!Spec
=============================================================================
