--------------------------- MODULE MCBlockDecoder ---------------------------
(***************************************************************************)
(* Every decoder in every version of the format, on blocks that end in      *)
(* front of, within and behind every read, on those Snes9x writes, and on   *)
(* blocks that are longer.                                                  *)
(***************************************************************************)
EXTENDS BlockDecoder

MCBlocks == BlockNames

MCLengths ==
  [bv \in MCBlocks \X Versions |->
     LET l    == LayoutOf(bv[1], bv[2])
         at   == Offsets(l)
         near == UNION {{at[j] - 1, at[j], at[j] + 1} : j \in 1..Len(l) + 1}
         whole == IF bv[1] \in DOMAIN Lasting THEN {WrittenBytes(bv[1], bv[2])} ELSE {}
     IN  {n \in near \cup whole \cup {Size(l) + 40} : n >= 0}]
=============================================================================
