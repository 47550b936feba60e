----------------------------- MODULE MCTransfer -----------------------------
(***************************************************************************)
(* Every line of a frame; and one register at a time through all its        *)
(* values while the others are 0, and through its bits while they are 255.  *)
(***************************************************************************)
EXTENDS Transfer

Base(b) == [n \in RegisterNames |-> b]

Moment(line, over, pal, tim, regs) ==
  [line |-> line, overscan |-> over, pal |-> pal, tim |-> tim, regs |-> regs]

\* Block TIM is missing on the lines Snes9x saves on.
MCLines ==
  UNION {{Moment(l, o, p, TRUE, Base(0)) : l \in 0..LinesOf(p) - 1, o \in BOOLEAN} :
           p \in BOOLEAN}
    \cup {Moment(FirstBlankLine(o), o, p, FALSE, Base(0)) : o \in BOOLEAN, p \in BOOLEAN}

Registered(r) ==
  LET over == Bit(r.setini, 2) IN Moment(FirstBlankLine(over), over, FALSE, TRUE, r)

\* Among registers full of ones, every single bit set or clear.
OneBit == {2^i : i \in 0..7} \cup {255 - 2^i : i \in 0..7}

MCRegisters ==
  {Registered([Base(0) EXCEPT ![n] = v]) : n \in RegisterNames, v \in 0..255}
    \cup {Registered([Base(255) EXCEPT ![n] = v]) : n \in RegisterNames, v \in OneBit}

MCMoments == MCLines \cup MCRegisters

\* The last line but ten of a PAL frame, which only ZSNES can be saved on, and
\* the first blank line of a frame; all registers full of ones.
LateMoment  == {Moment(301, TRUE, TRUE, TRUE, Base(255))}
BlankMoment == {Registered(Base(255))}
=============================================================================
