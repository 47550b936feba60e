---------------------------- MODULE Snes9xRestore ---------------------------
(***************************************************************************)
(* parse_snes9x reading what an emulator saved.  A save is a header line    *)
(* and a sequence of named blocks; the copy the converter is given may end  *)
(* anywhere, because a disk filled up or a transfer was cut.  The module    *)
(* adds to the reader what it cannot see: which save the bytes come from    *)
(* and where the copy ends.                                                 *)
(***************************************************************************)
EXTENDS Snes9xParser

CONSTANT Saves   \* records [file, blocks, at]: see Layout

(***************************************************************************)
(* The format the reader was written for.  Block k of the save stands at    *)
(* position at[k], with its name, two colons and its data, and its length   *)
(* field is one the reader takes for the length of the data.                *)
(***************************************************************************)
Layout(s) ==
  LET N == Len(s.blocks) IN
  /\ s.blocks \in Seq([name : Seq(Ascii), data : Seq(Byte)])
  /\ s.file \in Seq(Byte)
  /\ s.at \in [1..N + 1 -> Nat]
  /\ s.at[1] >= 1 /\ HeaderAt(s.file, s.at[1] - 1)
  /\ s.at[N + 1] = Len(s.file)
  /\ \A k \in 1..N :
       /\ BlockAt(s.file, s.at[k])
       /\ NameAt(s.file, s.at[k]) = s.blocks[k].name
       /\ LengthAt(s.file, s.at[k]) = Len(s.blocks[k].data)
       /\ DataAt(s.file, s.at[k]) = s.blocks[k].data
       /\ s.at[k + 1] = s.at[k] + HeaderLength + Len(s.blocks[k].data)
  /\ \A j, k \in 1..N + 1 : j <= k => s.at[j] <= s.at[k]   \* and so

ASSUME SavesAssumption ==
  \A s \in Saves :
    /\ Layout(s)
    /\ \A c \in 0..Len(s.file) : Slice(s.file, 0, c) \in Files

VARIABLES
  save,   \* the save the file was copied from
  cut     \* how many bytes of it the copy has

rvars == <<raw, version, blocks, pos, pc, save, cut>>

RInit ==
  /\ save \in Saves
  /\ cut \in 0..Len(save.file)
  /\ raw = Slice(save.file, 0, cut)
  /\ Init

RNext == Next /\ UNCHANGED <<save, cut>>

RSpec == RInit /\ [][RNext]_rvars /\ WF_rvars(RNext)

-----------------------------------------------------------------------------
\* A block the reader can still recognise: its header is in the copy whole.
Survives(k) == save.at[k] + HeaderLength <= cut

\* The data of block k that are in the copy.
Kept(k) == Slice(save.blocks[k].data, 0, cut - (save.at[k] + HeaderLength))

Survivors == {k \in 1..Len(save.blocks) : Survives(k)}

\* The last surviving block of name n, which is the one that counts.
LastOf(n) ==
  CHOOSE k \in Survivors :
    /\ save.blocks[k].name = n
    /\ \A j \in Survivors : save.blocks[j].name = n => j <= k

\* The log of BlockLog: surviving blocks with the data they have left.
\* Headers stand in increasing positions, so survivors are a prefix.
SurvivingLog ==
  [k \in Survivors |->
    [name |-> save.blocks[k].name, data |-> Kept(k)]]

-----------------------------------------------------------------------------
(* The reader is always at a place where a block of the save starts or      *)
(* where its last one ends, also when the copy ends before it: the content  *)
(* of a block, even one that reads like a header, never moves it elsewhere. *)
InStep ==
  pc \in {"loop", "done"} =>
    \E k \in 1..Len(save.blocks) + 1 : pos = save.at[k]

(* A copy that still has its header line is read to the end, without an     *)
(* exception, and gives exactly the names of the surviving blocks.  Under   *)
(* each name are the data of its last surviving block, as far as the copy   *)
(* has them: an earlier block of the same name never shines through.        *)
ReadsSurvivors ==
  pc = "done" =>
    /\ DOMAIN blocks = {save.blocks[k].name : k \in Survivors}
    /\ \A n \in DOMAIN blocks : blocks[n] = Kept(LastOf(n))

(* A copy that ends after the header line is never refused.                 *)
RefusedOnlyWithoutHeader == pc = "failed" => cut < save.at[1]

(* The byte-level reader implements the replay of the surviving blocks.     *)
Abstract ==
  INSTANCE BlockLog WITH
    log   <- SurvivingLog,
    taken <- IF pc \in {"header", "failed"} THEN 0
             ELSE CHOOSE k \in 0..Len(save.blocks) : pos = save.at[k + 1],
    store <- blocks,
    phase <- CASE pc = "done"   -> "closed"
               [] pc = "failed" -> "refused"
               [] OTHER         -> "open"

Replays == Abstract!Spec
=============================================================================
