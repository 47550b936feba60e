--------------------------- MODULE MCZsnesParser ----------------------------
(***************************************************************************)
(* Real section sizes; a cut is chosen at, just before and just after every *)
(* boundary of the sections and of the indexed part of the SPC section.     *)
(***************************************************************************)
EXTENDS ZsnesParser

MCSramSizes == {0, 100, 8192}
MCChipSizes == {0, 2112}

\* Where the sections of a dump begin and end, and its last indexed byte.
Boundaries(s) ==
  {At(s)[n] : n \in DOMAIN At(s)} \cup {At(s).spc + SpcIndexed}

Near(s) ==
  UNION {{Total(s) - b - 1, Total(s) - b, Total(s) - b + 1} : b \in Boundaries(s)}

\* Boundaries of saves with and without sound and RAM, seen from the end.
MCCuts ==
  UNION {Near([version |-> v, form |-> "raw", spcon |-> c, chips |-> 0, sram |-> r]) :
           v \in {"143", "060"}, c \in BOOLEAN, r \in MCSramSizes} \cap Nat

NoCut == {0}
=============================================================================
