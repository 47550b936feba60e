------------------------------ MODULE SaveFile ------------------------------
(***************************************************************************)
(* What a save file looks like to the code that decides what it is.  Three  *)
(* places read the first bytes of the same file and each asks its own       *)
(* questions: cli._detect_format, parse_snes9x and parse_zsnes.  A file is  *)
(* represented by the answers.                                              *)
(***************************************************************************)

(* gzip      "no", or "sound" / "broken": it starts with 1f 8b and          *)
(*           gzip.decompress returns / raises                               *)
(* The other fields describe the bytes inside a sound gzip layer, and else  *)
(* those of the file                                                        *)
(* s9x       they start with "#!s9xsnp:"                                    *)
(* magic     where "ZSNES Save State File " stands: "start", after a 3-byte *)
(*           size ("offset3"), or "none"                                    *)
(* version   what follows that magic                                        *)
(* flag      bit 23 of the 3-byte size is set                               *)
(* size      the other 23 bits: "zero", "fits" the file, or "beyond" it     *)
(* inflates  zlib.decompress accepts the bytes the size delimits            *)
(* long      there are more than 31 bytes                                   *)
(* body      what the parser makes of the bytes behind the first ones: it   *)
(*           returns ("sound"), "raises" (a Snes9x header line without an   *)
(*           end or a number, a name that is not ASCII, a ZSNES dump that   *)
(*           ends before the last byte read by index), or its block loop    *)
(*           comes back to where it was ("endless")                         *)
(* whole     the converter's indexed reads stay inside what was parsed      *)
Shape ==
  [gzip : {"no", "sound", "broken"}, s9x : BOOLEAN,
   magic : {"none", "start", "offset3"}, version : {"143", "060", "other"},
   flag : BOOLEAN, size : {"zero", "fits", "beyond"}, inflates : BOOLEAN,
   long : BOOLEAN, body : {"sound", "raises", "endless"}, whole : BOOLEAN]

\* The size field of a file that starts with text is the text's first three
\* bytes: "#!s" and "ZSN" have no flag and name more bytes than a file has,
\* and no zlib stream starts with "9x" or "ES".
StartsWithText(b) == b.s9x \/ b.magic = "start"

Possible(b) ==
  /\ b.s9x => b.magic = "none"
  /\ StartsWithText(b) => ~b.flag /\ b.size = "beyond" /\ ~b.inflates
  /\ b.magic = "offset3" => ~b.inflates          \* "ZS" starts no stream
  /\ b.size = "zero" => ~b.inflates              \* nor do no bytes
  /\ b.magic # "none" /\ b.body = "sound" => b.long
  /\ b.body = "endless" => b.s9x
  /\ b.whole => b.body = "sound"       \* else there is nothing to convert
  /\ b.magic = "none" => b.version = "other"
  /\ b.gzip = "broken" => ~StartsWithText(b)     \* 1f 8b is no text

\* Mutant: the size field of a flagged save is checked too.
DetectByLength(b) ==
  CASE b.s9x                                       -> "snes9x"
    [] ~b.s9x /\ b.magic = "start"                 -> "zsnes"
    [] ~StartsWithText(b) /\ b.long /\ b.flag
         /\ b.magic = "offset3" /\ b.size = "fits"  -> "zsnes"
    [] ~StartsWithText(b) /\ ~b.flag
         /\ b.size = "fits" /\ b.inflates          -> "zsnes"
    [] OTHER                                       -> "none"

\* cli._detect_format; "none" for a file it does not know.
Detect(b) ==
  CASE b.s9x                                       -> "snes9x"
    [] ~b.s9x /\ b.magic = "start"                 -> "zsnes"
    [] ~StartsWithText(b) /\ b.long /\ b.flag
         /\ b.magic = "offset3"                    -> "zsnes"
    [] ~StartsWithText(b) /\ ~b.flag
         /\ b.size = "fits" /\ b.inflates          -> "zsnes"
    [] OTHER                                       -> "none"

\* The same question raises when the gzip layer is broken.
DetectRaises(b) == b.gzip = "broken"

\* parse_snes9x removes the gzip layer itself.
HasSnes9xMagic(b) == b.gzip # "broken" /\ b.s9x
ParsesSnes9x(b)   == HasSnes9xMagic(b) /\ b.body = "sound"
LoopsSnes9x(b)    == HasSnes9xMagic(b) /\ b.body = "endless"

\* Mutant: the parser has no branch for compressed saves.
ParsesZsnesHeaders(b) ==
  /\ b.gzip # "sound" /\ b.body = "sound"
  /\ \/ b.magic = "start" /\ b.version \in {"143", "060"}
     \/ ~StartsWithText(b) /\ b.flag /\ b.magic = "offset3" /\ b.version = "143"

\* parse_zsnes does not: the bytes 1f 8b 08 are an unflagged size to it, and
\* what follows them in a gzip header is no zlib stream.  A ZSNES save whose
\* size field happens to start with 1f 8b it reads like any other.
ParsesZsnes(b) ==
  /\ b.gzip # "sound" /\ b.body = "sound"
  /\ \/ b.magic = "start" /\ b.version \in {"143", "060"}
     \/ ~StartsWithText(b) /\ b.flag /\ b.magic = "offset3" /\ b.version = "143"
     \/ ~b.flag /\ b.inflates

\* The parser of format f returns on the file.
Parses(f, b) == IF f = "snes9x" THEN ParsesSnes9x(b) ELSE ParsesZsnes(b)

\* It neither returns nor raises.
Loops(f, b) == f = "snes9x" /\ LoopsSnes9x(b)

\* The format a file has, whoever asks.
FormatOf(b) == IF b.s9x THEN "snes9x" ELSE "zsnes"
=============================================================================
