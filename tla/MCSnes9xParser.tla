--------------------------- MODULE MCSnes9xParser ---------------------------
(***************************************************************************)
(* Files for Snes9xParser that no emulator wrote: a save of up to two       *)
(* blocks in which one byte was changed, anywhere from the magic to the     *)
(* last data byte.  The changes turn digits into other lengths, colons into *)
(* digits and back, names into non-ASCII text and into each other, and      *)
(* put signs and underscores into the lengths.  One damaged digit is enough *)
(* to make a length negative that leads back to a block.                    *)
(***************************************************************************)
EXTENDS Snes9xParser

\* The damaged byte becomes one of these.
CONSTANT Changes

Line(v)       == SNES9X_MAGIC \o v \o <<Newline>>
Block(n, l, d) == n \o <<Colon>> \o l \o <<Colon>> \o d

SND == <<83, 78, 68>>
TIM == <<84, 73, 77>>

\* Length fields in decimal, 2 between blanks, and 1 in binary.
Zero   == <<48, 48, 48, 48, 48, 48>>
One    == <<48, 48, 48, 48, 48, 49>>
Two    == <<48, 48, 48, 48, 48, 50>>
Eleven == <<48, 48, 48, 48, 49, 49>>
Twelve == <<48, 48, 48, 48, 49, 50>>
Double == <<48, 48, 48, 48, 50, 50>>
ThirtyFive == <<48, 48, 48, 48, 51, 53>>
Padded == <<32, 32, 32, 50, 32, 32>>
Binary == <<1, 0, 0, 0, 0, 0>>

Nested == Block(TIM, One, <<5>>)

Numbered(n) == [i \in 1..n |-> i]

\* An empty block, and one whose length with a minus sign in front leads back
\* to itself (11) or to the empty one (22).
TwoBlocks(l) == Line(<<49, 50>>) \o Block(SND, Zero, <<>>) \o Block(TIM, l, Numbered(22))

\* Whole files.  The length 35 leads, as -35, to 12 bytes before the end of
\* the file, where the position is negative and a block stands.
Sound ==
  {Line(<<48, 49, 50>>) \o Block(n, Twelve, Nested) \o Block(SND, l, <<Colon, 7>>) :
     n \in {SND, TIM}, l \in {Zero, One, Two, Padded, Binary}}
  \cup {Line(<<49, 50>>) \o Block(SND, Zero, <<>>) \o Block(TIM, l, <<7, 200>>) :
     l \in {Two, Padded, Binary}}
  \cup {Line(<<49, 50>>) \o Block(SND, ThirtyFive, Numbered(23) \o Nested)}
  \cup {TwoBlocks(l) : l \in {Eleven, Double}}

\* Positions past the end leave the file as it is.
Damage(s, i, v) == [j \in 1..Len(s) |-> IF j = i THEN v ELSE s[j]]

Damaged(S) == {Damage(s, i, v) : s \in S, i \in 1..52, v \in Changes}

MCFiles      == Damaged(Sound)
EndlessFiles == Damaged({TwoBlocks(Double)})
=============================================================================
