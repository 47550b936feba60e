------------------------- MODULE MCZsnesConversion --------------------------
(***************************************************************************)
(* The dumps of MCZsnesParser; and the shortest one, which has neither      *)
(* sound nor RAM nor a chip, is also cut at both ends of every field of the *)
(* register block.                                                          *)
(***************************************************************************)
EXTENDS ZsnesConversion, MCZsnesParser

Shortest == [version |-> "060", form |-> "raw", spcon |-> FALSE, chips |-> 0, sram |-> 0]

FieldEnds ==
  {b \in 0..PPU_REG_SIZE :
     \E f \in Fields : (b \in f /\ b + 1 \notin f) \/ (b \notin f /\ b + 1 \in f)}

\* Seen from the end of the dump; a field is cut behind each of these bytes.
MCFieldCuts ==
  MCCuts \cup {Total(Shortest) - At(Shortest).ppu - b - 1 : b \in FieldEnds}
=============================================================================
