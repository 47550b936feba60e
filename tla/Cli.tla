-------------------------------- MODULE Cli ---------------------------------
(***************************************************************************)
(* The converter's command line, cli.py and mesen2/writer.py, as processes  *)
(* on one file system: several conversions may run at once, the emulator    *)
(* goes on saving to the slots they read, and any of them may be killed.    *)
(*                                                                          *)
(* A run reads its input twice.  The first read decides the format, the     *)
(* second one gives the bytes that are converted; nothing ties the two      *)
(* together.  The output is opened, which empties it, and then written.     *)
(***************************************************************************)
EXTENDS Integers, Sequences, SaveFile

CONSTANTS
  Run,         \* conversions
  Path,        \* file names
  Source,      \* Source[r]: the input of run r
  Target,      \* Target[r]: its output, from -o or input.with_suffix(".mss")
  Slot,        \* paths the emulator and the user change
  Saves,       \* what the emulator saves there
  Chunks,      \* system calls that write one converted state
  MaxChanges   \* bound: changes to the slots in a behaviour

ASSUME CliAssumption ==
  /\ Run # {}
  /\ Source \in [Run -> Path] /\ Target \in [Run -> Path]
  /\ Slot \subseteq Path
  /\ Saves \subseteq {b \in Shape : Possible(b)}
  /\ Chunks \in Nat \ {0}
  /\ MaxChanges \in Nat

-----------------------------------------------------------------------------
(* Contents of a file: a save, or an output written so far chunk by chunk.  *)

Absent    == [kind |-> "absent"]
Save(b)   == [kind |-> "save", save |-> b]
Blob(cs)  == [kind |-> "blob", chunks |-> cs]

Piece(b, k) == [kind |-> "piece", save |-> b, part |-> k]
Hole        == [kind |-> "hole"]     \* bytes nobody wrote; they read as zeros

\* The complete output for save b.
Converted(b) == Blob([k \in 1..Chunks |-> Piece(b, k)])

Pieces == {Piece(b, k) : b \in Saves, k \in 1..Chunks} \cup {Hole}
Inputs == {Absent} \cup {Save(b) : b \in Saves}

\* A write at a position of its own replaces what is there, and fills the
\* gap with zeros when the file has become shorter than that position.
Overwrite(cs, i, c) ==
  [j \in 1..(IF i > Len(cs) THEN i ELSE Len(cs)) |->
     IF j = i THEN c ELSE IF j <= Len(cs) THEN cs[j] ELSE Hole]

-----------------------------------------------------------------------------
VARIABLES
  file,     \* path -> content
  pc,       \* run -> where it is
  fmt,      \* run -> the format detected at the first read
  snap,     \* run -> the content that was read to be converted
  off,      \* run -> chunks written
  changes,  \* changes made to the slots
  torn,     \* path -> a writer was interrupted here or met another one
  opener    \* path -> the last run that opened it; meaningful for outputs

vars == <<file, pc, fmt, snap, off, changes, torn, opener>>

Ended   == {"done", "failed", "killed"}
Writing(p) == {r \in Run : pc[r] = "writing" /\ Target[r] = p}

Init ==
  /\ file \in [Path -> Inputs]
  /\ \A p \in Path \ Slot : file[p] = Absent
  /\ pc = [r \in Run |-> "ready"]
  /\ fmt = [r \in Run |-> "none"]
  /\ snap = [r \in Run |-> Absent]
  /\ off = [r \in Run |-> 0]
  /\ changes = 0
  /\ torn = [p \in Path |-> FALSE]
  /\ opener = [p \in Path |-> CHOOSE r \in Run : TRUE]

\* cli._detect_format on what is there now; an output being written, or left
\* behind, is no save: it starts with "MSS", with zeros, or is empty.
Detects(c, f) ==
  c.kind = "save" /\ ~DetectRaises(c.save) /\ Detect(c.save) = f

DetectFormat(r) ==
  /\ pc[r] = "ready"
  /\ \E f \in {"snes9x", "zsnes"} :
       /\ Detects(file[Source[r]], f)
       /\ fmt' = [fmt EXCEPT ![r] = f]
  /\ pc' = [pc EXCEPT ![r] = "detected"]
  /\ UNCHANGED <<file, snap, off, changes, torn, opener>>

\* Mutant: a missing input is waited for.
RefusePresent(r) ==
  /\ pc[r] = "ready"
  /\ file[Source[r]].kind # "absent"
  /\ \A f \in {"snes9x", "zsnes"} : ~Detects(file[Source[r]], f)
  /\ pc' = [pc EXCEPT ![r] = "failed"]
  /\ UNCHANGED <<file, fmt, snap, off, changes, torn, opener>>

\* The file is missing, its gzip layer is broken, or the format is unknown.
Refuse(r) ==
  /\ pc[r] = "ready"
  /\ \A f \in {"snes9x", "zsnes"} : ~Detects(file[Source[r]], f)
  /\ pc' = [pc EXCEPT ![r] = "failed"]
  /\ UNCHANGED <<file, fmt, snap, off, changes, torn, opener>>

Accepts(f, c) == c.kind = "save" /\ Parses(f, c.save)

\* parse_snes9x or parse_zsnes, whichever was chosen, reads the file again.
Parse(r) ==
  /\ pc[r] = "detected"
  /\ Accepts(fmt[r], file[Source[r]])
  /\ snap' = [snap EXCEPT ![r] = file[Source[r]]]
  /\ pc' = [pc EXCEPT ![r] = "parsed"]
  /\ UNCHANGED <<file, fmt, off, changes, torn, opener>>

\* The block loop of parse_snes9x goes round in the file and never returns;
\* nothing but a signal ends the process.
Hangs(f, c) == c.kind = "save" /\ Loops(f, c.save)

ParseHangs(r) ==
  /\ pc[r] = "detected"
  /\ Hangs(fmt[r], file[Source[r]])
  /\ pc' = [pc EXCEPT ![r] = "looping"]
  /\ UNCHANGED <<file, fmt, snap, off, changes, torn, opener>>

\* The file is gone or no save any more, or the parser raises on it.
ParseRaises(r) ==
  /\ pc[r] = "detected"
  /\ ~Accepts(fmt[r], file[Source[r]])
  /\ ~Hangs(fmt[r], file[Source[r]])
  /\ pc' = [pc EXCEPT ![r] = "failed"]
  /\ UNCHANGED <<file, fmt, snap, off, changes, torn, opener>>

\* Mutant: what the converter raises is swallowed.
ConvertAnything(r) ==
  /\ pc[r] = "parsed"
  /\ pc' = [pc EXCEPT ![r] = "built"]
  /\ UNCHANGED <<file, fmt, snap, off, changes, torn, opener>>

\* Mutant: the converter goes back to the file for the data.
ConvertReread(r) ==
  /\ pc[r] = "parsed"
  /\ snap' = [snap EXCEPT ![r] = IF file[Source[r]].kind = "save"
                                 THEN file[Source[r]] ELSE @]
  /\ pc' = [pc EXCEPT ![r] = IF snap'[r].save.whole THEN "built" ELSE "failed"]
  /\ UNCHANGED <<file, fmt, off, changes, torn, opener>>

\* convert_*, convert_to_mesen2 and the envelope are computed in memory.
Convert(r) ==
  /\ pc[r] = "parsed"
  /\ pc' = [pc EXCEPT ![r] = IF snap[r].save.whole THEN "built" ELSE "failed"]
  /\ UNCHANGED <<file, fmt, snap, off, changes, torn, opener>>

\* Mutant: the output is opened before the input is parsed.
OpenEarly(r) ==
  /\ pc[r] = "detected"
  /\ file' = [file EXCEPT ![Target[r]] = Blob(<<>>)]
  /\ pc' = [pc EXCEPT ![r] = "writing"]
  /\ torn' = [torn EXCEPT ![Target[r]] = Writing(Target[r]) # {}]
  /\ opener' = [opener EXCEPT ![Target[r]] = r]
  /\ UNCHANGED <<fmt, snap, off, changes>>

\* write_bytes opens the output "wb".
Open(r) ==
  /\ pc[r] = "built"
  /\ file' = [file EXCEPT ![Target[r]] = Blob(<<>>)]
  /\ pc' = [pc EXCEPT ![r] = "writing"]
  /\ torn' = [torn EXCEPT ![Target[r]] = Writing(Target[r]) # {}]
  /\ opener' = [opener EXCEPT ![Target[r]] = r]
  /\ UNCHANGED <<fmt, snap, off, changes>>

OpenRaises(r) ==
  /\ pc[r] = "built"
  /\ pc' = [pc EXCEPT ![r] = "failed"]
  /\ UNCHANGED <<file, fmt, snap, off, changes, torn, opener>>

\* Mutant: one chunk too many is written.
WriteOnceMore(r) ==
  /\ pc[r] = "writing" /\ off[r] <= Chunks
  /\ off' = [off EXCEPT ![r] = @ + 1]
  /\ file' = [file EXCEPT ![Target[r]] =
                Blob(Overwrite(@.chunks, off[r] + 1,
                               Piece(snap[r].save, off[r] + 1)))]
  /\ UNCHANGED <<pc, fmt, snap, changes, torn, opener>>

Write(r) ==
  /\ pc[r] = "writing" /\ off[r] < Chunks
  /\ off' = [off EXCEPT ![r] = @ + 1]
  /\ file' = [file EXCEPT ![Target[r]] =
                Blob(Overwrite(@.chunks, off[r] + 1,
                               Piece(snap[r].save, off[r] + 1)))]
  /\ UNCHANGED <<pc, fmt, snap, changes, torn, opener>>

\* The disk is full: write raises and leaves what was written.
WriteRaises(r) ==
  /\ pc[r] = "writing" /\ off[r] < Chunks
  /\ pc' = [pc EXCEPT ![r] = "failed"]
  /\ torn' = [torn EXCEPT ![Target[r]] = TRUE]
  /\ UNCHANGED <<file, fmt, snap, off, changes, opener>>

\* Mutant: a short write is taken for a complete one.
CloseShort(r) ==
  /\ pc[r] = "writing" /\ off[r] > 0
  /\ pc' = [pc EXCEPT ![r] = "done"]
  /\ UNCHANGED <<file, fmt, snap, off, changes, torn, opener>>

Close(r) ==
  /\ pc[r] = "writing" /\ off[r] = Chunks
  /\ pc' = [pc EXCEPT ![r] = "done"]
  /\ UNCHANGED <<file, fmt, snap, off, changes, torn, opener>>

Kill(r) ==
  /\ pc[r] \notin Ended
  /\ pc' = [pc EXCEPT ![r] = "killed"]
  /\ torn' = IF pc[r] = "writing" THEN [torn EXCEPT ![Target[r]] = TRUE] ELSE torn
  /\ UNCHANGED <<file, fmt, snap, off, changes, opener>>

\* The emulator saves to a slot, or the user deletes it, in one piece.  A
\* slot that a run has open as its output is left alone.
ChangeSlot(p) ==
  /\ changes < MaxChanges
  /\ Writing(p) = {}
  /\ \E c \in Inputs :
       file' = [file EXCEPT ![p] = c]
  /\ changes' = changes + 1
  /\ UNCHANGED <<pc, fmt, snap, off, torn, opener>>

Step(r) ==
  \/ DetectFormat(r) \/ Refuse(r) \/ Parse(r) \/ ParseHangs(r) \/ ParseRaises(r)
  \/ Convert(r) \/ Open(r) \/ OpenRaises(r) \/ Write(r) \/ WriteRaises(r) \/ Close(r)

Next ==
  \/ \E r \in Run : Step(r) \/ Kill(r)
  \/ \E p \in Slot : ChangeSlot(p)

\* The operating system schedules every process; nothing makes it kill one.
Spec == Init /\ [][Next]_vars /\ \A r \in Run : WF_vars(Step(r))

-----------------------------------------------------------------------------
TypeOK ==
  /\ DOMAIN file = Path
  /\ \A p \in Path :
       \/ file[p] \in Inputs
       \/ /\ file[p] = Blob(file[p].chunks)
          /\ file[p].chunks \in Seq(Pieces)
          /\ Len(file[p].chunks) <= Chunks
  /\ pc \in [Run -> {"ready", "detected", "looping", "parsed", "built", "writing"}
                      \cup Ended]
  /\ fmt \in [Run -> {"none", "snes9x", "zsnes"}]
  /\ snap \in [Run -> Inputs]
  /\ off \in [Run -> 0..Chunks]
  /\ changes \in 0..MaxChanges
  /\ torn \in [Path -> BOOLEAN]
  /\ opener \in [Path -> Run]

(* An output nobody is writing is complete: every piece of it comes from    *)
(* the one save its last writer read, unless a writer was interrupted there *)
(* or two had it open at once (writer.py:50 truncates and writes in place). *)
OutputsWhole ==
  \A p \in Path :
    file[p].kind = "blob" /\ Writing(p) = {} /\ ~torn[p] =>
      /\ pc[opener[p]] = "done"
      /\ file[p] = Converted(snap[opener[p]].save)

(* Two writers of one output leave a mixture, but also then no byte of it   *)
(* comes from a save that a parser or the converter refused.                *)
NoRefusedData ==
  \A p \in Path :
    file[p].kind = "blob" =>
      \A i \in 1..Len(file[p].chunks) :
        LET c == file[p].chunks[i] IN
        c.kind = "piece" =>
          /\ Parses(FormatOf(c.save), c.save)
          /\ c.save.whole

(* A file is emptied or written by a run only once the run has a complete   *)
(* conversion in memory: a run that fails or is killed earlier leaves an    *)
(* older output, or an input named as output, as it was.                    *)
TouchedOnlyWithResult ==
  [][ changes' = changes =>
        \A p \in Path :
          file'[p] # file[p] =>
            \E r \in Run : /\ Target[r] = p
                           /\ pc[r] \in {"built", "writing"}
                           /\ Accepts(fmt[r], snap[r]) /\ snap[r].save.whole ]_vars

(* Detector and parser ask different questions of the same bytes.  As long  *)
(* as nobody changes the file in between, a parser refuses what was         *)
(* detected only where its own reading behind the first bytes fails, or     *)
(* where the two disagree on these: on a ZSNES save inside gzip, which only *)
(* the detector unpacks, a flagged one that is not v1.43, and one that      *)
(* starts with the magic of a version the parser does not know.             *)
Disputed(b) ==
  /\ ~b.s9x
  /\ \/ b.gzip = "sound"
     \/ b.magic = "offset3" /\ b.version # "143"
     \/ b.magic = "start" /\ b.version = "other"

VerdictStands ==
  \A r \in Run :
    pc[r] = "failed" /\ fmt[r] # "none" /\ snap[r] = Absent /\ changes = 0 =>
      LET c == file[Source[r]] IN
      c.kind = "save" => c.save.body = "raises" \/ Disputed(c.save)

(* The other way round, a whole save that the parser of its format accepts  *)
(* is never left undetected, but for a ZSNES save whose size field starts   *)
(* like a gzip file, or a compressed one whose size field says too much.    *)
SoundSavesDetected ==
  \A r \in Run :
    pc[r] = "failed" /\ fmt[r] = "none" /\ changes = 0 =>
      LET c == file[Source[r]] IN
      c.kind = "save" /\ c.save.whole /\ Parses(FormatOf(c.save), c.save) =>
        \/ c.save.gzip = "broken"
        \/ c.save.inflates /\ c.save.size = "beyond"

(* Every conversion comes to an end, whatever happens to its input, unless  *)
(* its parser has met a Snes9x file on which its loop does not end.         *)
EveryRunEnds == \A r \in Run : <>(pc[r] \in Ended \cup {"looping"})

-----------------------------------------------------------------------------
(* What a conversion promises although it reads twice: it takes a snapshot  *)
(* of its input at one moment and converts it as the format it has.         *)
Job(r) ==
  [state |-> CASE pc[r] \in {"ready", "detected", "looping"} -> "pending"
               [] pc[r] \in {"parsed", "built", "writing"}   -> "taken"
               [] pc[r] = "done"                             -> "published"
               [] OTHER                                      -> "abandoned",
   save  |-> snap[r]]

Atomic == INSTANCE AtomicConversion WITH
            job <- [r \in Run |-> Job(r)]

ConvertsSnapshots == Atomic!Spec
=============================================================================
