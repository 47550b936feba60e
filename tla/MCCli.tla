------------------------------- MODULE MCCli --------------------------------
(***************************************************************************)
(* Two conversions on one file system, in the arrangement that has all that *)
(* can meet: both write game.000, which is also the input of the first (-o  *)
(* names it), while the second reads game.zst, the slot of the same game in *)
(* another emulator; and the emulators save to both.                        *)
(***************************************************************************)
EXTENDS Cli

\* Names for the processes and files.
First  == "first"
Second == "second"
MCRun  == {First, Second}
MCPath == {"game.000", "game.zst"}
MCSlot == MCPath

MCSource == [r \in MCRun |-> IF r = First THEN "game.000" ELSE "game.zst"]
MCTarget == [r \in MCRun |-> "game.000"]

\* One save of each way through the detector and the parsers.
Plain == [gzip |-> "no", s9x |-> FALSE, magic |-> "none", version |-> "other",
          flag |-> FALSE, size |-> "beyond", inflates |-> FALSE,
          long |-> TRUE, body |-> "sound", whole |-> TRUE]
S9x       == [Plain EXCEPT !.s9x = TRUE]
S9xGz     == [S9x EXCEPT !.gzip = "sound"]
S9xShort  == [S9x EXCEPT !.whole = FALSE]
S9xRaises == [S9xShort EXCEPT !.body = "raises"]     \* a bad header line
S9xLoops  == [S9xShort EXCEPT !.body = "endless"]    \* a negative length
Broken    == [Plain EXCEPT !.gzip = "broken"]
Zst143    == [Plain EXCEPT !.magic = "start", !.version = "143"]
ZstShort  == [Zst143 EXCEPT !.body = "raises", !.whole = FALSE]
Zst143Gz  == [Zst143 EXCEPT !.gzip = "sound"]
Flagged   == [Plain EXCEPT !.flag = TRUE, !.magic = "offset3", !.version = "143"]
Flagged60 == [Flagged EXCEPT !.version = "060"]
FlaggedIn == [Flagged EXCEPT !.size = "fits"]
Zst150    == [Zst143 EXCEPT !.version = "other"]
Deflated  == [Plain EXCEPT !.size = "fits", !.inflates = TRUE]
DeflatedShort == [Deflated EXCEPT !.body = "raises", !.whole = FALSE]
LikeGzip  == [Deflated EXCEPT !.gzip = "broken"]   \* the size is 1f 8b xx
TooLong   == [Deflated EXCEPT !.size = "beyond"]

MCSaves ==
  {S9x, S9xGz, S9xShort, S9xRaises, S9xLoops, Broken, Zst143, ZstShort, Zst143Gz,
   Zst150, Flagged, FlaggedIn, Flagged60, Deflated, DeflatedShort, LikeGzip, TooLong,
   Plain}
=============================================================================
