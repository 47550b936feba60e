---------------------------- MODULE LayoutProofs ----------------------------
(***************************************************************************)
(* The layouts of the decoders as sequences of reads, for every version:    *)
(* where a read begins, how long a layout is, and that the last byte that   *)
(* is read by index lies within.                                            *)
(*                                                                          *)
(* The positions are defined by recursion along a layout, and what holds of *)
(* them by induction.  The induction theorems of the library take the       *)
(* statement as an operator; here it is the set of the numbers for which    *)
(* the statement holds, and the least number outside of it is refuted.      *)
(***************************************************************************)
EXTENDS Snes9xLayouts, SequenceTheorems, WellFoundedInduction, TLAPS

Kinds == {"index", "slice", "skip", "pad", "tail"}
Reads == [kind : Kinds, bytes : Nat]

-----------------------------------------------------------------------------
\* Induction over a set of numbers.
LEMMA Induction ==
  ASSUME NEW T, 0 \in T, \A n \in Nat : n \in T => n + 1 \in T
  PROVE  \A n \in Nat : n \in T
<1> SUFFICES ASSUME NEW m \in Nat, m \notin T PROVE FALSE
  OBVIOUS
<1> DEFINE U == {n \in Nat : n \notin T}
<1>1. U \subseteq Nat /\ U # {}
  OBVIOUS
<1>2. PICK x \in U : \A y \in U : ~ (<<y, x>> \in OpToRel(<, Nat))
  BY <1>1, NatLessThanWellFounded, WFMin
<1>3. \A y \in U : ~ (y < x)
  BY <1>2 DEF OpToRel
<1>4. x \in Nat /\ x \notin T
  OBVIOUS
<1>5. x # 0 /\ x - 1 \in Nat /\ x - 1 < x /\ (x - 1) + 1 = x
  BY <1>4
<1>6. x - 1 \in T
  BY <1>3, <1>5
<1> QED
  BY <1>4, <1>5, <1>6

-----------------------------------------------------------------------------
(* Positions.                                                               *)

Recursion(l, f, n) ==
  \A k \in 1..n : f[k] = IF k = 1 THEN 0 ELSE f[k - 1] + l[k - 1].bytes

\* The recursion has a solution, which is built number by number.
LEMMA Solvable ==
  ASSUME NEW l \in Seq(Reads)
  PROVE  \E f \in [1..Len(l) + 1 -> Nat] : Recursion(l, f, Len(l) + 1)
<1> DEFINE T == {n \in Nat : n <= Len(l) + 1 => \E f \in [1..n -> Nat] : Recursion(l, f, n)}
<1>1. 0 \in T
  <2> DEFINE f == [k \in 1..0 |-> 0]
  <2>1. f \in [1..0 -> Nat] /\ Recursion(l, f, 0)
    BY DEF Recursion
  <2> QED
    BY <2>1
<1>2. ASSUME NEW n \in Nat, n \in T PROVE n + 1 \in T
  <2> SUFFICES ASSUME n + 1 <= Len(l) + 1
               PROVE  \E f \in [1..n + 1 -> Nat] : Recursion(l, f, n + 1)
    OBVIOUS
  <2>1. n <= Len(l) + 1 /\ Len(l) \in Nat
    OBVIOUS
  <2>2. PICK g \in [1..n -> Nat] : Recursion(l, g, n)
    BY <1>2, <2>1
  <2> DEFINE next == IF n = 0 THEN 0 ELSE g[n] + l[n].bytes
             f == [k \in 1..n + 1 |-> IF k = n + 1 THEN next ELSE g[k]]
  <2>3. next \in Nat
    <3>1. CASE n = 0
      BY <3>1
    <3>2. CASE n # 0
      <4>1. n \in 1..n /\ n \in 1..Len(l)
        BY <2>1, <3>2
      <4>2. g[n] \in Nat /\ l[n] \in Reads
        BY <4>1
      <4> QED
        BY <3>2, <4>2 DEF Reads
    <3> QED
      BY <3>1, <3>2
  <2> HIDE DEF next
  <2>4. f \in [1..n + 1 -> Nat]
    BY <2>3
  <2>5. ASSUME NEW k \in 1..n + 1
        PROVE  f[k] = IF k = 1 THEN 0 ELSE f[k - 1] + l[k - 1].bytes
    <3>1. CASE k = n + 1
      BY <3>1 DEF next
    <3>2. CASE k # n + 1
      <4>1. k \in 1..n /\ k - 1 \in 0..n /\ (k # 1 => k - 1 \in 1..n)
        BY <3>2
      <4> QED
        BY <2>2, <4>1 DEF Recursion
    <3> QED
      BY <3>1, <3>2
  <2> QED
    BY <2>4, <2>5 DEF Recursion
<1> HIDE DEF T
<1>3. Len(l) + 1 \in T
  BY <1>1, <1>2, Induction
<1> QED
  BY <1>3 DEF T

\* So the positions are what the recursion says.
LEMMA OffsetsAre ==
  ASSUME NEW l \in Seq(Reads)
  PROVE  /\ Offsets(l) \in [1..Len(l) + 1 -> Nat]
         /\ Offsets(l)[1] = 0
         /\ \A k \in 1..Len(l) : Offsets(l)[k + 1] = Offsets(l)[k] + l[k].bytes
<1> DEFINE D == 1..Len(l) + 1
           Def(f) == f = [k \in D |-> IF k = 1 THEN 0 ELSE f[k - 1] + l[k - 1].bytes]
<1>1. \E f : Def(f)
  <2>1. PICK f \in [D -> Nat] : Recursion(l, f, Len(l) + 1)
    BY Solvable
  <2>2. \A k \in D : f[k] = IF k = 1 THEN 0 ELSE f[k - 1] + l[k - 1].bytes
    BY <2>1 DEF Recursion
  <2>3. Def(f)
    BY <2>2
  <2> QED
    BY <2>3
<1>2. Offsets(l) = CHOOSE f : Def(f)
  BY DEF Offsets
<1>3. Def(Offsets(l))
  <2> HIDE DEF Def
  <2> QED
    BY <1>1, <1>2
<1> DEFINE at == Offsets(l)
<1>4. /\ DOMAIN at = D
      /\ \A k \in D : at[k] = IF k = 1 THEN 0 ELSE at[k - 1] + l[k - 1].bytes
  <2> HIDE DEF at
  <2>1. at = [k \in D |-> IF k = 1 THEN 0 ELSE at[k - 1] + l[k - 1].bytes]
    BY <1>3 DEF at
  <2> QED
    BY <2>1
<1> HIDE DEF at
<1>5. Len(l) \in Nat /\ \A k \in 1..Len(l) : l[k].bytes \in Nat
  <2>1. \A k \in 1..Len(l) : l[k] \in Reads
    OBVIOUS
  <2> QED
    BY <2>1 DEF Reads
<1>6. at[1] = 0
  BY <1>4, <1>5
<1>7. \A k \in 1..Len(l) : at[k + 1] = at[k] + l[k].bytes
  <2> SUFFICES ASSUME NEW k \in 1..Len(l) PROVE at[k + 1] = at[k] + l[k].bytes
    OBVIOUS
  <2>1. k + 1 \in D /\ k + 1 # 1 /\ (k + 1) - 1 = k
    BY <1>5
  <2> QED
    BY <1>4, <2>1
<1> DEFINE T == {n \in Nat : n + 1 \in D => at[n + 1] \in Nat}
<1>8. 0 \in T
  BY <1>6
<1>9. ASSUME NEW n \in Nat, n \in T PROVE n + 1 \in T
  <2> SUFFICES ASSUME (n + 1) + 1 \in D PROVE at[(n + 1) + 1] \in Nat
    OBVIOUS
  <2>1. n + 1 \in D /\ n + 1 \in 1..Len(l)
    BY <1>5
  <2> QED
    BY <1>5, <1>7, <1>9, <2>1
<1> HIDE DEF T
<1>10. \A n \in Nat : n \in T
  BY <1>8, <1>9, Induction
<1>11. at \in [D -> Nat]
  <2>1. ASSUME NEW k \in D PROVE at[k] \in Nat
    <3>1. k - 1 \in Nat /\ (k - 1) + 1 = k
      BY <1>5
    <3> QED
      BY <1>10, <3>1 DEF T
  <2>2. at = [k \in D |-> at[k]]
    <3>1. at = [k \in D |-> IF k = 1 THEN 0 ELSE at[k - 1] + l[k - 1].bytes]
      BY <1>3 DEF at
    <3> QED
      BY <3>1, <1>4
  <2> QED
    BY <2>1, <2>2
<1> QED
  BY <1>6, <1>7, <1>11 DEF at

\* Positions never go down.
LEMMA OffsetsGrow ==
  ASSUME NEW l \in Seq(Reads), NEW j \in 1..Len(l) + 1, NEW k \in 1..Len(l) + 1, j <= k
  PROVE  Offsets(l)[j] <= Offsets(l)[k]
<1> DEFINE at == Offsets(l)
           T == {n \in Nat : j + n <= Len(l) + 1 => at[j] <= at[j + n]}
<1>0. Len(l) \in Nat
  OBVIOUS
<1>1. /\ \A i \in 1..Len(l) + 1 : at[i] \in Nat
      /\ \A i \in 1..Len(l) : at[i + 1] = at[i] + l[i].bytes
  BY OffsetsAre
<1>2. \A i \in 1..Len(l) : l[i].bytes \in Nat
  <2>1. \A i \in 1..Len(l) : l[i] \in Reads
    OBVIOUS
  <2> QED
    BY <2>1 DEF Reads
<1> HIDE DEF at
<1>3. 0 \in T
  BY <1>0, <1>1
<1>4. ASSUME NEW n \in Nat, n \in T PROVE n + 1 \in T
  <2> SUFFICES ASSUME j + (n + 1) <= Len(l) + 1 PROVE at[j] <= at[j + (n + 1)]
    OBVIOUS
  <2>1. j + n \in 1..Len(l) /\ (j + n) + 1 = j + (n + 1) /\ j + n \in 1..Len(l) + 1
    BY <1>0
  <2>2. at[j] <= at[j + n]
    BY <1>4, <2>1
  <2>3. at[j + (n + 1)] = at[j + n] + l[j + n].bytes
    BY <1>1, <2>1
  <2> QED
    BY <1>1, <1>2, <2>1, <2>2, <2>3
<1> HIDE DEF T
<1>5. k - j \in Nat /\ j + (k - j) = k
  BY <1>0
<1>6. k - j \in T
  BY <1>3, <1>4, <1>5, Induction
<1> QED
  BY <1>5, <1>6 DEF T, at

\* What stands in front does not depend on what follows, and what follows is
\* moved by the size of what stands in front.
LEMMA OffsetsOfConcat ==
  ASSUME NEW s \in Seq(Reads), NEW t \in Seq(Reads)
  PROVE  /\ \A k \in 1..Len(s) + 1 : Offsets(s \o t)[k] = Offsets(s)[k]
         /\ \A k \in 1..Len(t) + 1 : Offsets(s \o t)[Len(s) + k] = Size(s) + Offsets(t)[k]
<1> DEFINE u == s \o t
           ps == Offsets(s)
           pt == Offsets(t)
           pu == Offsets(u)
<1>1. /\ u \in Seq(Reads) /\ Len(u) = Len(s) + Len(t)
      /\ Len(s) \in Nat /\ Len(t) \in Nat
      /\ \A i \in 1..Len(s) : u[i] = s[i]
      /\ \A i \in 1..Len(t) : u[Len(s) + i] = t[i]
  <2>1. u \in Seq(Reads) /\ Len(u) = Len(s) + Len(t) /\ Len(s) \in Nat /\ Len(t) \in Nat
    OBVIOUS
  <2>2. \A i \in 1..Len(s) : u[i] = s[i]
    BY <2>1
  <2>3. \A i \in 1..Len(t) : u[Len(s) + i] = t[i]
    BY <2>1
  <2> QED
    BY <2>1, <2>2, <2>3
<1>2. /\ ps[1] = 0 /\ \A i \in 1..Len(s) : ps[i + 1] = ps[i] + s[i].bytes
      /\ \A i \in 1..Len(s) + 1 : ps[i] \in Nat
  BY OffsetsAre
<1>3. /\ pt[1] = 0 /\ \A i \in 1..Len(t) : pt[i + 1] = pt[i] + t[i].bytes
      /\ \A i \in 1..Len(t) + 1 : pt[i] \in Nat
  BY OffsetsAre
<1>4. /\ pu[1] = 0 /\ \A i \in 1..Len(u) : pu[i + 1] = pu[i] + u[i].bytes
  <2> HIDE DEF u
  <2> QED
    BY <1>1, OffsetsAre
<1>5. /\ \A i \in 1..Len(s) : s[i].bytes \in Nat
      /\ \A i \in 1..Len(t) : t[i].bytes \in Nat
  <2>1. (\A i \in 1..Len(s) : s[i] \in Reads) /\ (\A i \in 1..Len(t) : t[i] \in Reads)
    OBVIOUS
  <2> QED
    BY <2>1 DEF Reads
<1>6. Size(s) = ps[Len(s) + 1]
  BY DEF Size
<1> HIDE DEF u, ps, pt, pu
<1> DEFINE T == {n \in Nat : n <= Len(s) => pu[n + 1] = ps[n + 1]}
<1>7. 0 \in T
  BY <1>2, <1>4
<1>8. ASSUME NEW n \in Nat, n \in T PROVE n + 1 \in T
  <2> SUFFICES ASSUME n + 1 <= Len(s) PROVE pu[(n + 1) + 1] = ps[(n + 1) + 1]
    OBVIOUS
  <2>1. n + 1 \in 1..Len(s) /\ n + 1 \in 1..Len(u)
    BY <1>1
  <2>2. /\ pu[(n + 1) + 1] = pu[n + 1] + u[n + 1].bytes
        /\ ps[(n + 1) + 1] = ps[n + 1] + s[n + 1].bytes
    BY <1>2, <1>4, <2>1
  <2>3. pu[n + 1] = ps[n + 1]
    BY <1>1, <1>8, <2>1
  <2> QED
    BY <1>1, <2>1, <2>2, <2>3
<1> HIDE DEF T
<1>9. \A k \in 1..Len(s) + 1 : pu[k] = ps[k]
  <2> SUFFICES ASSUME NEW k \in 1..Len(s) + 1 PROVE pu[k] = ps[k]
    OBVIOUS
  <2>1. k - 1 \in Nat /\ k - 1 <= Len(s) /\ (k - 1) + 1 = k
    BY <1>1
  <2>2. k - 1 \in T
    BY <1>7, <1>8, <2>1, Induction
  <2> QED
    BY <2>1, <2>2 DEF T
<1> DEFINE R == {n \in Nat : n <= Len(t) => pu[Len(s) + (n + 1)] = ps[Len(s) + 1] + pt[n + 1]}
<1>10. 0 \in R
  <2>1. pu[Len(s) + 1] = ps[Len(s) + 1] /\ ps[Len(s) + 1] \in Nat
    BY <1>1, <1>2, <1>9
  <2> QED
    BY <1>3, <2>1
<1>11. ASSUME NEW n \in Nat, n \in R PROVE n + 1 \in R
  <2> SUFFICES ASSUME n + 1 <= Len(t)
               PROVE  pu[Len(s) + ((n + 1) + 1)] = ps[Len(s) + 1] + pt[(n + 1) + 1]
    OBVIOUS
  <2> DEFINE m == Len(s) + (n + 1)
  <2>1. /\ n + 1 \in 1..Len(t) /\ m \in 1..Len(u)
        /\ m + 1 = Len(s) + ((n + 1) + 1)
    BY <1>1
  <2>2. u[m] = t[n + 1]
    BY <1>1, <2>1
  <2>3. pu[m] = ps[Len(s) + 1] + pt[n + 1]
    BY <1>1, <1>11, <2>1
  <2> HIDE DEF m
  <2>4. pu[m + 1] = pu[m] + t[n + 1].bytes
    BY <1>4, <2>1, <2>2
  <2>5. pt[(n + 1) + 1] = pt[n + 1] + t[n + 1].bytes
    BY <1>3, <2>1
  <2>6. ps[Len(s) + 1] \in Nat /\ pt[n + 1] \in Nat /\ t[n + 1].bytes \in Nat
    BY <1>1, <1>2, <1>3, <1>5, <2>1
  <2> QED
    BY <2>1, <2>3, <2>4, <2>5, <2>6
<1> HIDE DEF R
<1>12. \A k \in 1..Len(t) + 1 : pu[Len(s) + k] = ps[Len(s) + 1] + pt[k]
  <2> SUFFICES ASSUME NEW k \in 1..Len(t) + 1
               PROVE  pu[Len(s) + k] = ps[Len(s) + 1] + pt[k]
    OBVIOUS
  <2>1. k - 1 \in Nat /\ k - 1 <= Len(t) /\ (k - 1) + 1 = k
    BY <1>1
  <2>2. k - 1 \in R
    BY <1>10, <1>11, <2>1, Induction
  <2> QED
    BY <2>1, <2>2 DEF R
<1> QED
  BY <1>6, <1>9, <1>12 DEF u, ps, pt, pu

\* Sizes add up.
LEMMA SizeOfConcat ==
  ASSUME NEW s \in Seq(Reads), NEW t \in Seq(Reads)
  PROVE  s \o t \in Seq(Reads) /\ Size(s \o t) = Size(s) + Size(t)
<1>1. s \o t \in Seq(Reads) /\ Len(s \o t) = Len(s) + Len(t)
      /\ Len(s) \in Nat /\ Len(t) \in Nat
  OBVIOUS
<1>2. Len(t) + 1 \in 1..Len(t) + 1 /\ Len(s) + (Len(t) + 1) = Len(s \o t) + 1
  BY <1>1
<1>3. Offsets(s \o t)[Len(s) + (Len(t) + 1)] = Size(s) + Offsets(t)[Len(t) + 1]
  BY <1>2, OffsetsOfConcat
<1> QED
  BY <1>1, <1>2, <1>3 DEF Size

\* A layout has a size.
LEMMA SizeIsNat ==
  ASSUME NEW l \in Seq(Reads)
  PROVE  Size(l) \in Nat
<1>1. Len(l) + 1 \in 1..Len(l) + 1
  OBVIOUS
<1> QED
  BY <1>1, OffsetsAre DEF Size

\* A block as long as Needed says holds every byte that is read by index, and
\* a shorter one lacks the last of them.
LEMMA NeededIs ==
  ASSUME NEW l \in Seq(Reads)
  PROVE  /\ Needed(l) \in Nat /\ Needed(l) <= Size(l)
         /\ \A j \in 1..Len(l) : l[j].kind = "index" => Offsets(l)[j + 1] <= Needed(l)
         /\ \/ Needed(l) = 0
            \/ \E j \in 1..Len(l) : l[j].kind = "index" /\ Needed(l) = Offsets(l)[j + 1]
<1> DEFINE at == Offsets(l)
           indexed == {k \in 1..Len(l) : l[k].kind = "index"}
<1>0. Len(l) \in Nat /\ \A k \in 1..Len(l) + 1 : at[k] \in Nat
  <2>1. Len(l) \in Nat
    OBVIOUS
  <2>2. at \in [1..Len(l) + 1 -> Nat]
    BY OffsetsAre
  <2> HIDE DEF at
  <2> QED
    BY <2>1, <2>2
<1>1. CASE indexed = {}
  <2>1. Needed(l) = 0
    BY <1>1 DEF Needed
  <2> QED
    BY <1>1, <2>1, SizeIsNat
<1>2. CASE indexed # {}
  <2> DEFINE last == CHOOSE k \in indexed : \A j \in indexed : j <= k
             T == {n \in Nat : \E k \in indexed : n = Len(l) - k}
  <2>1. \E k \in indexed : \A j \in indexed : j <= k
    <3>1. T \subseteq Nat /\ T # {}
      <4>1. PICK k \in indexed : TRUE
        BY <1>2
      <4>2. Len(l) - k \in Nat
        BY <1>0, <4>1
      <4>3. Len(l) - k \in T
        BY <4>1, <4>2
      <4> QED
        BY <4>3
    <3>2. PICK x \in T : \A y \in T : ~ (<<y, x>> \in OpToRel(<, Nat))
      BY <3>1, NatLessThanWellFounded, WFMin
    <3>3. \A y \in T : ~ (y < x)
      BY <3>2 DEF OpToRel
    <3>4. PICK k \in indexed : x = Len(l) - k
      OBVIOUS
    <3>5. ASSUME NEW j \in indexed PROVE j <= k
      <4>1. Len(l) - j \in T
        BY <1>0
      <4>2. ~ (Len(l) - j < Len(l) - k)
        BY <3>3, <3>4, <4>1
      <4> QED
        BY <1>0, <4>2
    <3> QED
      BY <3>5
  <2>2. last \in indexed /\ \A j \in indexed : j <= last
    BY <2>1
  <2>3. Needed(l) = at[last + 1]
    BY <1>2 DEF Needed
  <2> HIDE DEF last
  <2>4. last \in 1..Len(l) /\ last + 1 \in 1..Len(l) + 1 /\ Len(l) + 1 \in 1..Len(l) + 1
        /\ last + 1 <= Len(l) + 1
    BY <1>0, <2>2
  <2>5. at[last + 1] <= at[Len(l) + 1]
    BY <2>4, OffsetsGrow
  <2>6. ASSUME NEW j \in 1..Len(l), l[j].kind = "index"
        PROVE  at[j + 1] <= at[last + 1]
    <3>1. j + 1 \in 1..Len(l) + 1 /\ j + 1 <= last + 1
      BY <1>0, <2>2, <2>4, <2>6
    <3> QED
      BY <2>4, <3>1, OffsetsGrow
  <2> QED
    BY <1>0, <2>2, <2>3, <2>4, <2>5, <2>6 DEF Size
<1> QED
  BY <1>1, <1>2

-----------------------------------------------------------------------------
(* The layouts of the decoders.                                             *)

PlainReads == [kind : {"index", "slice", "skip"}, bytes : Nat]

PadAndTail == <<Read("pad", 1), Read("tail", 16)>>

\* Reads that depend on what is left stand at the end or nowhere.
WellFormed(l) ==
  \/ l \in Seq(PlainReads)
  \/ \E s \in Seq(PlainReads) : l = s \o PadAndTail

\* Plain reads are reads.
LEMMA PlainIsRead == \A l \in Seq(PlainReads) : l \in Seq(Reads)
<1>1. PlainReads \subseteq Reads
  BY DEF PlainReads, Reads, Kinds
<1> QED
  BY <1>1

\* The three kinds of plain reads.
LEMMA ReadTyped ==
  ASSUME NEW n \in Nat
  PROVE  /\ I(n) \in PlainReads /\ S(n) \in PlainReads /\ Read("skip", n) \in PlainReads
         /\ I(n).bytes = n /\ S(n).bytes = n /\ Read("skip", n).bytes = n
  BY DEF I, S, Read, PlainReads

\* The end of the sound's layout.
LEMMA PadAndTailTyped ==
  /\ PadAndTail \in Seq(Reads) /\ Len(PadAndTail) = 2
  /\ PadAndTail[1] = Read("pad", 1) /\ PadAndTail[2] = Read("tail", 16)
  BY DEF PadAndTail, Read, Reads, Kinds

\* A well-formed layout is a sequence of reads.
LEMMA WellFormedIsTyped ==
  ASSUME NEW l, WellFormed(l)
  PROVE  l \in Seq(Reads)
<1>1. ASSUME NEW s \in Seq(PlainReads), l = s \o PadAndTail PROVE l \in Seq(Reads)
  <2>1. s \in Seq(Reads)
    BY PlainIsRead
  <2> QED
    BY <1>1, <2>1, PadAndTailTyped
<1> QED
  BY <1>1, PlainIsRead DEF WellFormed

\* A group that is there or not.
LEMMA WhenTyped ==
  ASSUME NEW R, NEW c, NEW s \in Seq(R)
  PROVE  When(c, s) \in Seq(R) /\ (When(c, s) = s \/ When(c, s) = <<>>)
  BY DEF When

\* n + 1 copies of a group are n copies and one; groups have 3 or 7 reads.
LEMMA TimesOneMore ==
  ASSUME NEW R, NEW L \in {3, 7}, NEW s \in Seq(R), Len(s) = L, NEW n \in Nat,
         Times(n, s) \in Seq(R)
  PROVE  /\ Times(n + 1, s) \in Seq(R)
         /\ Times(n + 1, s) = Times(n, s) \o s
<1> DEFINE a == Times(n, s)
           b == Times(n + 1, s)
<1>1. /\ a = [i \in 1..n * L |-> s[((i - 1) % L) + 1]]
      /\ b = [i \in 1..(n + 1) * L |-> s[((i - 1) % L) + 1]]
  BY DEF Times
<1>2. n * L \in Nat /\ (n + 1) * L = n * L + L
  OBVIOUS
<1>3. ASSUME NEW i \in 1..L PROVE (n * L + i - 1) % L = i - 1
  <2>1. CASE L = 3
    BY <2>1, <1>3
  <2>2. CASE L = 7
    BY <2>2, <1>3
  <2> QED
    BY <2>1, <2>2
<1>4. Len(a) = n * L
  <2> HIDE DEF a
  <2>1. DOMAIN a = 1..n * L
    BY <1>1
  <2> QED
    BY <1>2, <2>1 DEF a
<1> DEFINE c == a \o s
<1>5. c \in Seq(R) /\ Len(c) = n * L + L
  <2> HIDE DEF a
  <2> QED
    BY <1>2, <1>4 DEF a
<1>6. DOMAIN c = 1..(n + 1) * L
  <2> HIDE DEF c
  <2> QED
    BY <1>2, <1>5
<1>7. ASSUME NEW i \in 1..(n + 1) * L PROVE c[i] = b[i]
  <2>0. b[i] = s[((i - 1) % L) + 1]
    <3> HIDE DEF b
    <3> QED
      BY <1>1
  <2>1. CASE i <= n * L
    <3>1. i \in 1..n * L
      BY <1>2, <2>1
    <3>2. c[i] = a[i]
      <4> HIDE DEF a
      <4> QED
        BY <1>4, <3>1 DEF a
    <3>3. a[i] = s[((i - 1) % L) + 1]
      <4> HIDE DEF a
      <4> QED
        BY <1>1, <3>1
    <3> QED
      BY <2>0, <3>2, <3>3
  <2>2. CASE ~(i <= n * L)
    <3> DEFINE j == i - n * L
    <3>1. j \in 1..L /\ i = n * L + j
      BY <1>2, <2>2
    <3> HIDE DEF j
    <3>2. c[i] = s[j]
      <4> HIDE DEF a
      <4> QED
        BY <1>2, <1>4, <3>1 DEF a
    <3>3. (i - 1) % L = j - 1 /\ (j - 1) + 1 = j
      BY <1>2, <1>3, <3>1
    <3> QED
      BY <2>0, <3>2, <3>3
  <2> QED
    BY <2>1, <2>2
<1>8. b = c
  <2> HIDE DEF b, c
  <2>1. b = [i \in 1..(n + 1) * L |-> b[i]] /\ c = [i \in 1..(n + 1) * L |-> c[i]]
    BY <1>1, <1>5, <1>6
  <2> QED
    BY <1>7, <2>1
<1> QED
  BY <1>5, <1>8

\* No copies of a group.
LEMMA TimesNone ==
  ASSUME NEW R, NEW s \in Seq(R)
  PROVE  Times(0, s) = <<>> /\ Times(0, s) \in Seq(R)
<1>1. 0 * Len(s) = 0 /\ 1..0 = {}
  OBVIOUS
<1> QED
  BY <1>1 DEF Times

\* Copies of a group are a sequence of its reads.
LEMMA TimesTyped ==
  ASSUME NEW R, NEW L \in {3, 7}, NEW s \in Seq(R), Len(s) = L, NEW n \in Nat
  PROVE  Times(n, s) \in Seq(R)
<1> DEFINE T == {m \in Nat : Times(m, s) \in Seq(R)}
<1>1. 0 \in T
  BY TimesNone
<1>2. ASSUME NEW m \in Nat, m \in T PROVE m + 1 \in T
  <2>1. Times(m, s) \in Seq(R)
    BY <1>2
  <2>2. Times(m + 1, s) \in Seq(R)
    BY <2>1, TimesOneMore
  <2> QED
    BY <2>2
<1> HIDE DEF T
<1>3. n \in T
  BY <1>1, <1>2, Induction
<1> QED
  BY <1>3 DEF T

\* So eight copies are eight times as long as one.
LEMMA SizeOfTimes ==
  ASSUME NEW L \in {3, 7}, NEW s \in Seq(Reads), Len(s) = L
  PROVE  Size(Times(4, s)) = 4 * Size(s) /\ Size(Times(8, s)) = 8 * Size(s)
<1> DEFINE z(n) == Size(Times(n, s))
<1>1. z(0) = 0
  <2>1. Times(0, s) = <<>> /\ <<>> \in Seq(Reads) /\ Len(<<>>) = 0
    BY TimesNone
  <2>2. Offsets(<<>>)[1] = 0
    BY <2>1, OffsetsAre
  <2> QED
    BY <2>1, <2>2 DEF Size
<1>2. ASSUME NEW n \in Nat PROVE z(n + 1) = z(n) + Size(s) /\ z(n) \in Nat
  <2>1. Times(n, s) \in Seq(Reads)
    BY TimesTyped
  <2>2. Times(n + 1, s) = Times(n, s) \o s
    BY <2>1, TimesOneMore
  <2> QED
    BY <2>1, <2>2, SizeOfConcat, SizeIsNat
<1> HIDE DEF z
<1>3. Size(s) \in Nat
  BY SizeIsNat
<1>4. /\ z(0 + 1) = z(0) + Size(s) /\ z(1 + 1) = z(1) + Size(s)
      /\ z(2 + 1) = z(2) + Size(s) /\ z(3 + 1) = z(3) + Size(s)
      /\ z(4 + 1) = z(4) + Size(s) /\ z(5 + 1) = z(5) + Size(s)
      /\ z(6 + 1) = z(6) + Size(s) /\ z(7 + 1) = z(7) + Size(s)
  BY <1>2
<1>5. z(4) = 4 * Size(s) /\ z(8) = 8 * Size(s)
  BY <1>1, <1>3, <1>4
<1> QED
  BY <1>5 DEF z

\* The size of a layout that is given read by read.
LEMMA SizeOfReads ==
  ASSUME NEW l \in Seq(Reads)
  PROVE  /\ Len(l) = 0 => Size(l) = 0
         /\ Len(l) = 1 => Size(l) = l[1].bytes
         /\ Len(l) = 2 => Size(l) = l[1].bytes + l[2].bytes
         /\ Len(l) = 3 => Size(l) = l[1].bytes + l[2].bytes + l[3].bytes
         /\ Len(l) = 4 => Size(l) = l[1].bytes + l[2].bytes + l[3].bytes + l[4].bytes
         /\ Len(l) = 5 => Size(l) = l[1].bytes + l[2].bytes + l[3].bytes + l[4].bytes
                                      + l[5].bytes
         /\ Len(l) = 7 => Size(l) = l[1].bytes + l[2].bytes + l[3].bytes + l[4].bytes
                                      + l[5].bytes + l[6].bytes + l[7].bytes
         /\ Len(l) = 9 => Size(l) = l[1].bytes + l[2].bytes + l[3].bytes + l[4].bytes
                                      + l[5].bytes + l[6].bytes + l[7].bytes
                                      + l[8].bytes + l[9].bytes
<1> DEFINE at == Offsets(l)
           z(k) == l[k].bytes
<1>1. Len(l) \in Nat /\ at[1] = 0 /\ \A k \in 1..Len(l) : at[k + 1] = at[k] + z(k)
  BY OffsetsAre
<1>2. \A k \in 1..Len(l) : z(k) \in Nat
  <2>1. \A k \in 1..Len(l) : l[k] \in Reads
    OBVIOUS
  <2> QED
    BY <2>1 DEF Reads
<1>3. Size(l) = at[Len(l) + 1]
  BY DEF Size
<1> HIDE DEF at, z
<1>4. at[1] = 0
  BY <1>1
<1>5. 1 <= Len(l) => z(1) \in Nat /\ at[2] = z(1)
  BY <1>1, <1>2, <1>4
<1>6. 2 <= Len(l) => z(2) \in Nat /\ at[3] = z(1) + z(2)
  BY <1>1, <1>2, <1>4, <1>5
<1>7. 3 <= Len(l) => z(3) \in Nat /\ at[4] = z(1) + z(2) + z(3)
  BY <1>1, <1>2, <1>4, <1>5, <1>6
<1>8. 4 <= Len(l) => z(4) \in Nat /\ at[5] = z(1) + z(2) + z(3) + z(4)
  BY <1>1, <1>2, <1>4, <1>5, <1>6, <1>7
<1>9. 5 <= Len(l) => z(5) \in Nat /\ at[6] = z(1) + z(2) + z(3) + z(4) + z(5)
  BY <1>1, <1>2, <1>4, <1>5, <1>6, <1>7, <1>8
<1>10. 6 <= Len(l) => z(6) \in Nat /\ at[7] = z(1) + z(2) + z(3) + z(4) + z(5) + z(6)
  BY <1>1, <1>2, <1>4, <1>5, <1>6, <1>7, <1>8, <1>9
<1>11. 7 <= Len(l) => z(7) \in Nat /\ at[8] = z(1) + z(2) + z(3) + z(4) + z(5) + z(6) + z(7)
  BY <1>1, <1>2, <1>4, <1>5, <1>6, <1>7, <1>8, <1>9, <1>10
<1>12. 8 <= Len(l) => z(8) \in Nat /\ at[9] = z(1) + z(2) + z(3) + z(4) + z(5) + z(6) + z(7) + z(8)
  BY <1>1, <1>2, <1>4, <1>5, <1>6, <1>7, <1>8, <1>9, <1>10, <1>11
<1>13. 9 <= Len(l) => z(9) \in Nat /\ at[10] = z(1) + z(2) + z(3) + z(4) + z(5) + z(6) + z(7) + z(8) + z(9)
  BY <1>1, <1>2, <1>4, <1>5, <1>6, <1>7, <1>8, <1>9, <1>10, <1>11, <1>12
<1>14. Len(l) \in Nat
  BY <1>1
<1> DEFINE n == Len(l)
<1>15. n \in Nat /\ Size(l) = at[n + 1]
  BY <1>3, <1>14
<1> HIDE DEF n
<1>16. n = 0 => Size(l) = 0
  BY <1>4, <1>15
<1>17. n = 1 => Size(l) = z(1)
  <2>1. n = 1 => n + 1 = 2
    BY <1>15
  <2> QED
    BY <2>1, <1>5, <1>15 DEF n
<1>18. n = 2 => Size(l) = z(1) + z(2)
  <2>1. n = 2 => n + 1 = 3 /\ 2 <= n
    BY <1>15
  <2> QED
    BY <2>1, <1>6, <1>15 DEF n
<1>19. n = 3 => Size(l) = z(1) + z(2) + z(3)
  <2>1. n = 3 => n + 1 = 4 /\ 3 <= n
    BY <1>15
  <2> QED
    BY <2>1, <1>7, <1>15 DEF n
<1>20. n = 4 => Size(l) = z(1) + z(2) + z(3) + z(4)
  <2>1. n = 4 => n + 1 = 5 /\ 4 <= n
    BY <1>15
  <2> QED
    BY <2>1, <1>8, <1>15 DEF n
<1>21. n = 5 => Size(l) = z(1) + z(2) + z(3) + z(4) + z(5)
  <2>1. n = 5 => n + 1 = 6 /\ 5 <= n
    BY <1>15
  <2> QED
    BY <2>1, <1>9, <1>15 DEF n
<1>22. n = 7 => Size(l) = z(1) + z(2) + z(3) + z(4) + z(5) + z(6) + z(7)
  <2>1. n = 7 => n + 1 = 8 /\ 7 <= n
    BY <1>15
  <2> QED
    BY <2>1, <1>11, <1>15 DEF n
<1>23. n = 9 => Size(l) = z(1) + z(2) + z(3) + z(4) + z(5) + z(6) + z(7) + z(8) + z(9)
  <2>1. n = 9 => n + 1 = 10 /\ 9 <= n
    BY <1>15
  <2> QED
    BY <2>1, <1>13, <1>15 DEF n
<1> QED
  BY <1>16, <1>17, <1>18, <1>19, <1>20, <1>21, <1>22, <1>23 DEF n, z

\* Concatenation of plain layouts.
LEMMA Both ==
  ASSUME NEW s \in Seq(PlainReads), NEW t \in Seq(PlainReads)
  PROVE  s \o t \in Seq(PlainReads) /\ Size(s \o t) = Size(s) + Size(t)
<1>1. s \in Seq(Reads) /\ t \in Seq(Reads)
  BY PlainIsRead
<1> QED
  BY <1>1, SizeOfConcat

\* A plain layout has a size.
LEMMA PlainSize ==
  ASSUME NEW s \in Seq(PlainReads)
  PROVE  Size(s) \in Nat
BY PlainIsRead, SizeIsNat

\* A group that may be missing is no longer than the group.
LEMMA WhenSize ==
  ASSUME NEW c, NEW s \in Seq(PlainReads)
  PROVE  /\ When(c, s) \in Seq(PlainReads)
         /\ Size(When(c, s)) \in Nat /\ Size(When(c, s)) <= Size(s)
<1>1. <<>> \in Seq(Reads) /\ Len(<<>>) = 0
  OBVIOUS
<1>2. Size(<<>>) = 0
  BY <1>1, SizeOfReads
<1> QED
  BY <1>2, PlainSize, WhenTyped
\* Layouts given read by read.
LEMMA LayoutOf1 ==
  ASSUME NEW r1 \in PlainReads
  PROVE  /\ <<r1>> \in Seq(PlainReads)
         /\ Size(<<r1>>) =
              r1.bytes
<1> DEFINE t == <<r1>>
<1>1. t \in Seq(PlainReads) /\ Len(t) = 1
      /\ t[1] = r1
  OBVIOUS
<1> HIDE DEF t
<1>2. t \in Seq(Reads)
  BY <1>1, PlainIsRead
<1>3. Size(t) =
              r1.bytes
  BY <1>1, <1>2, SizeOfReads
<1> QED
  BY <1>1, <1>3 DEF t

\* Short layouts, written out: their reads and their sizes.
LEMMA LayoutOf2 ==
  ASSUME NEW r1 \in PlainReads, NEW r2 \in PlainReads
  PROVE  /\ <<r1, r2>> \in Seq(PlainReads)
         /\ Size(<<r1, r2>>) =
              r1.bytes + r2.bytes
<1> DEFINE t == <<r1, r2>>
<1>1. t \in Seq(PlainReads) /\ Len(t) = 2
      /\ t[1] = r1 /\ t[2] = r2
  OBVIOUS
<1> HIDE DEF t
<1>2. t \in Seq(Reads)
  BY <1>1, PlainIsRead
<1>3. Size(t) =
              r1.bytes + r2.bytes
  BY <1>1, <1>2, SizeOfReads
<1> QED
  BY <1>1, <1>3 DEF t

LEMMA LayoutOf3 ==
  ASSUME NEW r1 \in PlainReads, NEW r2 \in PlainReads,
         NEW r3 \in PlainReads
  PROVE  /\ <<r1, r2, r3>> \in Seq(PlainReads)
         /\ Size(<<r1, r2, r3>>) =
              r1.bytes + r2.bytes + r3.bytes
<1> DEFINE t == <<r1, r2, r3>>
<1>1. t \in Seq(PlainReads) /\ Len(t) = 3
      /\ t[1] = r1 /\ t[2] = r2 /\ t[3] = r3
  OBVIOUS
<1> HIDE DEF t
<1>2. t \in Seq(Reads)
  BY <1>1, PlainIsRead
<1>3. Size(t) =
              r1.bytes + r2.bytes + r3.bytes
  BY <1>1, <1>2, SizeOfReads
<1> QED
  BY <1>1, <1>3 DEF t

LEMMA LayoutOf4 ==
  ASSUME NEW r1 \in PlainReads, NEW r2 \in PlainReads,
         NEW r3 \in PlainReads, NEW r4 \in PlainReads
  PROVE  /\ <<r1, r2, r3, r4>> \in Seq(PlainReads)
         /\ Size(<<r1, r2, r3, r4>>) =
              r1.bytes + r2.bytes + r3.bytes + r4.bytes
<1> DEFINE t == <<r1, r2, r3, r4>>
<1>1. t \in Seq(PlainReads) /\ Len(t) = 4
      /\ t[1] = r1 /\ t[2] = r2 /\ t[3] = r3 /\ t[4] = r4
  OBVIOUS
<1> HIDE DEF t
<1>2. t \in Seq(Reads)
  BY <1>1, PlainIsRead
<1>3. Size(t) =
              r1.bytes + r2.bytes + r3.bytes + r4.bytes
  BY <1>1, <1>2, SizeOfReads
<1> QED
  BY <1>1, <1>3 DEF t

LEMMA LayoutOf5 ==
  ASSUME NEW r1 \in PlainReads, NEW r2 \in PlainReads,
         NEW r3 \in PlainReads, NEW r4 \in PlainReads,
         NEW r5 \in PlainReads
  PROVE  /\ <<r1, r2, r3, r4, r5>> \in Seq(PlainReads)
         /\ Size(<<r1, r2, r3, r4, r5>>) =
              r1.bytes + r2.bytes + r3.bytes + r4.bytes + r5.bytes
<1> DEFINE t == <<r1, r2, r3, r4, r5>>
<1>1. t \in Seq(PlainReads) /\ Len(t) = 5
      /\ t[1] = r1 /\ t[2] = r2 /\ t[3] = r3 /\ t[4] = r4
      /\ t[5] = r5
  OBVIOUS
<1> HIDE DEF t
<1>2. t \in Seq(Reads)
  BY <1>1, PlainIsRead
<1>3. Size(t) =
              r1.bytes + r2.bytes + r3.bytes + r4.bytes + r5.bytes
  BY <1>1, <1>2, SizeOfReads
<1> QED
  BY <1>1, <1>3 DEF t

LEMMA LayoutOf7 ==
  ASSUME NEW r1 \in PlainReads, NEW r2 \in PlainReads,
         NEW r3 \in PlainReads, NEW r4 \in PlainReads,
         NEW r5 \in PlainReads, NEW r6 \in PlainReads,
         NEW r7 \in PlainReads
  PROVE  /\ <<r1, r2, r3, r4, r5, r6, r7>> \in Seq(PlainReads)
         /\ Size(<<r1, r2, r3, r4, r5, r6, r7>>) =
              r1.bytes + r2.bytes + r3.bytes + r4.bytes + r5.bytes +
              r6.bytes + r7.bytes
<1> DEFINE t == <<r1, r2, r3, r4, r5, r6, r7>>
<1>1. t \in Seq(PlainReads) /\ Len(t) = 7
      /\ t[1] = r1 /\ t[2] = r2 /\ t[3] = r3 /\ t[4] = r4
      /\ t[5] = r5 /\ t[6] = r6 /\ t[7] = r7
  OBVIOUS
<1> HIDE DEF t
<1>2. t \in Seq(Reads)
  BY <1>1, PlainIsRead
<1>3. Size(t) =
              r1.bytes + r2.bytes + r3.bytes + r4.bytes + r5.bytes +
              r6.bytes + r7.bytes
  BY <1>1, <1>2, SizeOfReads
<1> QED
  BY <1>1, <1>3 DEF t

-----------------------------------------------------------------------------
(* The decoders of the core, whose blocks may be missing.                   *)

\* The layouts of the core blocks, with a bound of their size.
LEMMA CpuLayout ==
  ASSUME NEW v
  PROVE  CPU(v) \in Seq(PlainReads) /\ Size(CPU(v)) <= 100
<1> DEFINE a == <<S(16)>>
<1>1. a \in Seq(PlainReads) /\ Size(a) = 16
  <2>1. /\ S(16) \in PlainReads /\ S(16).bytes = 16
    BY ReadTyped
  <2> QED
    BY <2>1, LayoutOf1
<1> HIDE DEF a
<1> DEFINE b == When(v < 7, <<I(1)>>)
<1>2. b \in Seq(PlainReads) /\ Size(b) \in Nat /\ Size(b) <= 1
  <2>1. /\ I(1) \in PlainReads /\ I(1).bytes = 1
    BY ReadTyped
  <2>2. <<I(1)>> \in Seq(PlainReads) /\ Size(<<I(1)>>) = 1
    BY <2>1, LayoutOf1
  <2> QED
    BY <2>2, WhenSize
<1> HIDE DEF b
<1> DEFINE c == <<S(16), I(6), S(4), I(1)>>
<1>3. c \in Seq(PlainReads) /\ Size(c) = 27
  <2>1. /\ S(16) \in PlainReads /\ S(16).bytes = 16
        /\ I(6) \in PlainReads /\ I(6).bytes = 6
        /\ S(4) \in PlainReads /\ S(4).bytes = 4
        /\ I(1) \in PlainReads /\ I(1).bytes = 1
    BY ReadTyped
  <2> QED
    BY <2>1, LayoutOf4
<1> HIDE DEF c
<1> DEFINE d == When(v < 7, <<Read("skip", 12)>>)
<1>4. d \in Seq(PlainReads) /\ Size(d) \in Nat /\ Size(d) <= 12
  <2>1. /\ Read("skip", 12) \in PlainReads /\ Read("skip", 12).bytes = 12
    BY ReadTyped
  <2>2. <<Read("skip", 12)>> \in Seq(PlainReads) /\ Size(<<Read("skip", 12)>>) = 12
    BY <2>1, LayoutOf1
  <2> QED
    BY <2>2, WhenSize
<1> HIDE DEF d
<1> DEFINE e == When(v >= 7, <<I(5)>>)
<1>5. e \in Seq(PlainReads) /\ Size(e) \in Nat /\ Size(e) <= 5
  <2>1. /\ I(5) \in PlainReads /\ I(5).bytes = 5
    BY ReadTyped
  <2>2. <<I(5)>> \in Seq(PlainReads) /\ Size(<<I(5)>>) = 5
    BY <2>1, LayoutOf1
  <2> QED
    BY <2>2, WhenSize
<1> HIDE DEF e
<1> DEFINE to1 == a \o b
<1>6. to1 \in Seq(PlainReads) /\ Size(to1) \in Nat /\ Size(to1) <= 17
  <2>1. to1 \in Seq(PlainReads) /\ Size(to1) = Size(a) + Size(b)
    BY <1>1, <1>2, Both
  <2> QED
    BY <1>1, <1>2, <2>1
<1> HIDE DEF to1
<1> DEFINE to2 == to1 \o c
<1>7. to2 \in Seq(PlainReads) /\ Size(to2) \in Nat /\ Size(to2) <= 44
  <2>1. to2 \in Seq(PlainReads) /\ Size(to2) = Size(to1) + Size(c)
    BY <1>6, <1>3, Both
  <2> QED
    BY <1>6, <1>3, <2>1
<1> HIDE DEF to2
<1> DEFINE to3 == to2 \o d
<1>8. to3 \in Seq(PlainReads) /\ Size(to3) \in Nat /\ Size(to3) <= 56
  <2>1. to3 \in Seq(PlainReads) /\ Size(to3) = Size(to2) + Size(d)
    BY <1>7, <1>4, Both
  <2> QED
    BY <1>7, <1>4, <2>1
<1> HIDE DEF to3
<1> DEFINE to4 == to3 \o e
<1>9. to4 \in Seq(PlainReads) /\ Size(to4) \in Nat /\ Size(to4) <= 61
  <2>1. to4 \in Seq(PlainReads) /\ Size(to4) = Size(to3) + Size(e)
    BY <1>8, <1>5, Both
  <2> QED
    BY <1>8, <1>5, <2>1
<1> HIDE DEF to4
<1>10. CPU(v) = to4
  BY DEF CPU, a, b, c, d, e, to1, to2, to3, to4
<1> QED
  BY <1>9, <1>10

LEMMA RegLayout == REG \in Seq(PlainReads) /\ Size(REG) = 16
  BY ReadTyped, LayoutOf2 DEF REG

LEMMA PpuLayout ==
  ASSUME NEW v
  PROVE  PPU(v) \in Seq(PlainReads) /\ Size(PPU(v)) <= 5000
<1> DEFINE a == <<I(2), S(12)>>
<1>1. a \in Seq(PlainReads) /\ Size(a) = 14
  <2>1. /\ I(2) \in PlainReads /\ I(2).bytes = 2
        /\ S(12) \in PlainReads /\ S(12).bytes = 12
    BY ReadTyped
  <2> QED
    BY <2>1, LayoutOf2
<1> HIDE DEF a
<1> DEFINE w == <<S(6), I(1), S(4)>>
<1>2. w \in Seq(PlainReads) /\ Size(w) = 11
  <2>1. /\ S(6) \in PlainReads /\ S(6).bytes = 6
        /\ I(1) \in PlainReads /\ I(1).bytes = 1
        /\ S(4) \in PlainReads /\ S(4).bytes = 4
    BY ReadTyped
  <2> QED
    BY <2>1, LayoutOf3
<1>3. Len(w) = 3
  OBVIOUS
<1> HIDE DEF w
<1> DEFINE b == Times(4, w)
<1>4. b \in Seq(PlainReads) /\ Size(b) = 44
  <2>1. w \in Seq(Reads)
    BY <1>2, <1>3, PlainIsRead
  <2>2. Size(b) = 4 * Size(w)
    BY <1>2, <1>3, <2>1, SizeOfTimes
  <2> QED
    BY <1>2, <1>3, <2>2, TimesTyped
<1> HIDE DEF b
<1> DEFINE c == <<I(5)>>
<1>5. c \in Seq(PlainReads) /\ Size(c) = 5
  <2>1. /\ I(5) \in PlainReads /\ I(5).bytes = 5
    BY ReadTyped
  <2> QED
    BY <2>1, LayoutOf1
<1> HIDE DEF c
<1> DEFINE d == When(v >= 11, <<I(1)>>)
<1>6. d \in Seq(PlainReads) /\ Size(d) \in Nat /\ Size(d) <= 1
  <2>1. /\ I(1) \in PlainReads /\ I(1).bytes = 1
    BY ReadTyped
  <2>2. <<I(1)>> \in Seq(PlainReads) /\ Size(<<I(1)>>) = 1
    BY <2>1, LayoutOf1
  <2> QED
    BY <2>2, WhenSize
<1> HIDE DEF d
<1> DEFINE e == <<S(512)>>
<1>7. e \in Seq(PlainReads) /\ Size(e) = 512
  <2>1. /\ S(512) \in PlainReads /\ S(512).bytes = 512
    BY ReadTyped
  <2> QED
    BY <2>1, LayoutOf1
<1> HIDE DEF e
<1> DEFINE f == <<I(128 * 11)>>
<1>8. f \in Seq(PlainReads) /\ Size(f) = 1408
  <2>1. /\ I(128 * 11) \in PlainReads /\ I(128 * 11).bytes = 1408
    BY ReadTyped
  <2> QED
    BY <2>1, LayoutOf1
<1> HIDE DEF f
<1> DEFINE g == <<I(3), S(4), I(1), S(4), I(3), S(4), S(544)>>
<1>9. g \in Seq(PlainReads) /\ Size(g) = 563
  <2>1. /\ I(3) \in PlainReads /\ I(3).bytes = 3
        /\ S(4) \in PlainReads /\ S(4).bytes = 4
        /\ I(1) \in PlainReads /\ I(1).bytes = 1
        /\ S(544) \in PlainReads /\ S(544).bytes = 544
    BY ReadTyped
  <2> QED
    BY <2>1, LayoutOf7
<1> HIDE DEF g
<1> DEFINE h == <<I(4), S(8), I(2), S(8), I(1)>>
<1>10. h \in Seq(PlainReads) /\ Size(h) = 23
  <2>1. /\ I(4) \in PlainReads /\ I(4).bytes = 4
        /\ S(8) \in PlainReads /\ S(8).bytes = 8
        /\ I(2) \in PlainReads /\ I(2).bytes = 2
        /\ I(1) \in PlainReads /\ I(1).bytes = 1
    BY ReadTyped
  <2> QED
    BY <2>1, LayoutOf5
<1> HIDE DEF h
<1> DEFINE i == <<I(3), S(16)>>
<1>11. i \in Seq(PlainReads) /\ Size(i) = 19
  <2>1. /\ I(3) \in PlainReads /\ I(3).bytes = 3
        /\ S(16) \in PlainReads /\ S(16).bytes = 16
    BY ReadTyped
  <2> QED
    BY <2>1, LayoutOf2
<1> HIDE DEF i
<1> DEFINE j == <<I(11), I(36), I(5), S(2), I(7)>>
<1>12. j \in Seq(PlainReads) /\ Size(j) = 61
  <2>1. /\ I(11) \in PlainReads /\ I(11).bytes = 11
        /\ I(36) \in PlainReads /\ I(36).bytes = 36
        /\ I(5) \in PlainReads /\ I(5).bytes = 5
        /\ S(2) \in PlainReads /\ S(2).bytes = 2
        /\ I(7) \in PlainReads /\ I(7).bytes = 7
    BY ReadTyped
  <2> QED
    BY <2>1, LayoutOf5
<1> HIDE DEF j
<1> DEFINE m == When(v >= 11, <<S(2)>>)
<1>13. m \in Seq(PlainReads) /\ Size(m) \in Nat /\ Size(m) <= 2
  <2>1. /\ S(2) \in PlainReads /\ S(2).bytes = 2
    BY ReadTyped
  <2>2. <<S(2)>> \in Seq(PlainReads) /\ Size(<<S(2)>>) = 2
    BY <2>1, LayoutOf1
  <2> QED
    BY <2>2, WhenSize
<1> HIDE DEF m
<1> DEFINE to1 == a \o b
<1>14. to1 \in Seq(PlainReads) /\ Size(to1) \in Nat /\ Size(to1) <= 58
  <2>1. to1 \in Seq(PlainReads) /\ Size(to1) = Size(a) + Size(b)
    BY <1>1, <1>4, Both
  <2> QED
    BY <1>1, <1>4, <2>1
<1> HIDE DEF to1
<1> DEFINE to2 == to1 \o c
<1>15. to2 \in Seq(PlainReads) /\ Size(to2) \in Nat /\ Size(to2) <= 63
  <2>1. to2 \in Seq(PlainReads) /\ Size(to2) = Size(to1) + Size(c)
    BY <1>14, <1>5, Both
  <2> QED
    BY <1>14, <1>5, <2>1
<1> HIDE DEF to2
<1> DEFINE to3 == to2 \o d
<1>16. to3 \in Seq(PlainReads) /\ Size(to3) \in Nat /\ Size(to3) <= 64
  <2>1. to3 \in Seq(PlainReads) /\ Size(to3) = Size(to2) + Size(d)
    BY <1>15, <1>6, Both
  <2> QED
    BY <1>15, <1>6, <2>1
<1> HIDE DEF to3
<1> DEFINE to4 == to3 \o e
<1>17. to4 \in Seq(PlainReads) /\ Size(to4) \in Nat /\ Size(to4) <= 576
  <2>1. to4 \in Seq(PlainReads) /\ Size(to4) = Size(to3) + Size(e)
    BY <1>16, <1>7, Both
  <2> QED
    BY <1>16, <1>7, <2>1
<1> HIDE DEF to4
<1> DEFINE to5 == to4 \o f
<1>18. to5 \in Seq(PlainReads) /\ Size(to5) \in Nat /\ Size(to5) <= 1984
  <2>1. to5 \in Seq(PlainReads) /\ Size(to5) = Size(to4) + Size(f)
    BY <1>17, <1>8, Both
  <2> QED
    BY <1>17, <1>8, <2>1
<1> HIDE DEF to5
<1> DEFINE to6 == to5 \o g
<1>19. to6 \in Seq(PlainReads) /\ Size(to6) \in Nat /\ Size(to6) <= 2547
  <2>1. to6 \in Seq(PlainReads) /\ Size(to6) = Size(to5) + Size(g)
    BY <1>18, <1>9, Both
  <2> QED
    BY <1>18, <1>9, <2>1
<1> HIDE DEF to6
<1> DEFINE to7 == to6 \o h
<1>20. to7 \in Seq(PlainReads) /\ Size(to7) \in Nat /\ Size(to7) <= 2570
  <2>1. to7 \in Seq(PlainReads) /\ Size(to7) = Size(to6) + Size(h)
    BY <1>19, <1>10, Both
  <2> QED
    BY <1>19, <1>10, <2>1
<1> HIDE DEF to7
<1> DEFINE to8 == to7 \o i
<1>21. to8 \in Seq(PlainReads) /\ Size(to8) \in Nat /\ Size(to8) <= 2589
  <2>1. to8 \in Seq(PlainReads) /\ Size(to8) = Size(to7) + Size(i)
    BY <1>20, <1>11, Both
  <2> QED
    BY <1>20, <1>11, <2>1
<1> HIDE DEF to8
<1> DEFINE to9 == to8 \o j
<1>22. to9 \in Seq(PlainReads) /\ Size(to9) \in Nat /\ Size(to9) <= 2650
  <2>1. to9 \in Seq(PlainReads) /\ Size(to9) = Size(to8) + Size(j)
    BY <1>21, <1>12, Both
  <2> QED
    BY <1>21, <1>12, <2>1
<1> HIDE DEF to9
<1> DEFINE to10 == to9 \o m
<1>23. to10 \in Seq(PlainReads) /\ Size(to10) \in Nat /\ Size(to10) <= 2652
  <2>1. to10 \in Seq(PlainReads) /\ Size(to10) = Size(to9) + Size(m)
    BY <1>22, <1>13, Both
  <2> QED
    BY <1>22, <1>13, <2>1
<1> HIDE DEF to10
<1>24. PPU(v) = to10
  BY DEF PPU, a, w, b, c, d, e, f, g, h, i, j, m, to1, to2, to3, to4, to5,
         to6, to7, to8, to9, to10
<1> QED
  BY <1>23, <1>24

LEMMA DmaLayout == DMA \in Seq(PlainReads) /\ Size(DMA) = 152
<1> DEFINE w == <<I(7), S(2), I(1), S(2), I(1), S(2), I(4)>>
<1>1. w \in Seq(PlainReads) /\ Size(w) = 19
  <2>1. /\ I(7) \in PlainReads /\ I(7).bytes = 7
        /\ S(2) \in PlainReads /\ S(2).bytes = 2
        /\ I(1) \in PlainReads /\ I(1).bytes = 1
        /\ I(4) \in PlainReads /\ I(4).bytes = 4
    BY ReadTyped
  <2> QED
    BY <2>1, LayoutOf7
<1>2. Len(w) = 7
  OBVIOUS
<1> HIDE DEF w
<1> DEFINE a == Times(8, w)
<1>3. a \in Seq(PlainReads) /\ Size(a) = 152
  <2>1. w \in Seq(Reads)
    BY <1>1, <1>2, PlainIsRead
  <2>2. Size(a) = 8 * Size(w)
    BY <1>1, <1>2, <2>1, SizeOfTimes
  <2> QED
    BY <1>1, <1>2, <2>2, TimesTyped
<1> HIDE DEF a
<1>4. DMA = a
  BY DEF DMA, a, w
<1> QED
  BY <1>3, <1>4

LEMMA TimLayout ==
  ASSUME NEW v
  PROVE  TIM(v) \in Seq(PlainReads) /\ Size(TIM(v)) <= 100
<1> DEFINE a == <<S(44), I(1), S(16)>>
<1>1. a \in Seq(PlainReads) /\ Size(a) = 61
  <2>1. /\ S(44) \in PlainReads /\ S(44).bytes = 44
        /\ I(1) \in PlainReads /\ I(1).bytes = 1
        /\ S(16) \in PlainReads /\ S(16).bytes = 16
    BY ReadTyped
  <2> QED
    BY <2>1, LayoutOf3
<1> HIDE DEF a
<1> DEFINE b == When(v >= 7, <<S(4), I(1)>>)
<1>2. b \in Seq(PlainReads) /\ Size(b) \in Nat /\ Size(b) <= 5
  <2>1. /\ S(4) \in PlainReads /\ S(4).bytes = 4
        /\ I(1) \in PlainReads /\ I(1).bytes = 1
    BY ReadTyped
  <2>2. <<S(4), I(1)>> \in Seq(PlainReads) /\ Size(<<S(4), I(1)>>) = 5
    BY <2>1, LayoutOf2
  <2> QED
    BY <2>2, WhenSize
<1> HIDE DEF b
<1> DEFINE c == When(v >= 11, <<S(4)>>)
<1>3. c \in Seq(PlainReads) /\ Size(c) \in Nat /\ Size(c) <= 4
  <2>1. /\ S(4) \in PlainReads /\ S(4).bytes = 4
    BY ReadTyped
  <2>2. <<S(4)>> \in Seq(PlainReads) /\ Size(<<S(4)>>) = 4
    BY <2>1, LayoutOf1
  <2> QED
    BY <2>2, WhenSize
<1> HIDE DEF c
<1> DEFINE to1 == a \o b
<1>4. to1 \in Seq(PlainReads) /\ Size(to1) \in Nat /\ Size(to1) <= 66
  <2>1. to1 \in Seq(PlainReads) /\ Size(to1) = Size(a) + Size(b)
    BY <1>1, <1>2, Both
  <2> QED
    BY <1>1, <1>2, <2>1
<1> HIDE DEF to1
<1> DEFINE to2 == to1 \o c
<1>5. to2 \in Seq(PlainReads) /\ Size(to2) \in Nat /\ Size(to2) <= 70
  <2>1. to2 \in Seq(PlainReads) /\ Size(to2) = Size(to1) + Size(c)
    BY <1>4, <1>3, Both
  <2> QED
    BY <1>4, <1>3, <2>1
<1> HIDE DEF to2
<1>6. TIM(v) = to2
  BY DEF TIM, a, b, c, to1, to2
<1> QED
  BY <1>5, <1>6

LEMMA SndLayout ==
  /\ WellFormed(SND)
  /\ SND \in Seq(Reads) /\ Size(SND) <= 66560
<1> DEFINE a == <<S(65536), S(41 * 4), S(128)>>
<1>1. a \in Seq(PlainReads) /\ Size(a) = 65828
  <2>1. /\ S(65536) \in PlainReads /\ S(65536).bytes = 65536
        /\ S(41 * 4) \in PlainReads /\ S(41 * 4).bytes = 164
        /\ S(128) \in PlainReads /\ S(128).bytes = 128
    BY ReadTyped
  <2> QED
    BY <2>1, LayoutOf3
<1> HIDE DEF a
<1> DEFINE w == <<S(32), I(5), Read("skip", 1)>>
<1>2. w \in Seq(PlainReads) /\ Size(w) = 38
  <2>1. /\ S(32) \in PlainReads /\ S(32).bytes = 32
        /\ I(5) \in PlainReads /\ I(5).bytes = 5
        /\ Read("skip", 1) \in PlainReads /\ Read("skip", 1).bytes = 1
    BY ReadTyped
  <2> QED
    BY <2>1, LayoutOf3
<1>3. Len(w) = 3
  OBVIOUS
<1> HIDE DEF w
<1> DEFINE b == Times(8, w)
<1>4. b \in Seq(PlainReads) /\ Size(b) = 304
  <2>1. w \in Seq(Reads)
    BY <1>2, <1>3, PlainIsRead
  <2>2. Size(b) = 8 * Size(w)
    BY <1>2, <1>3, <2>1, SizeOfTimes
  <2> QED
    BY <1>2, <1>3, <2>2, TimesTyped
<1> HIDE DEF b
<1> DEFINE c == <<S(32), I(2), S(8), I(10), S(2), I(6), S(20), I(1), S(128)>>
<1>5. c \in Seq(PlainReads) /\ Size(c) = 209
  <2>1. /\ S(32) \in PlainReads /\ S(32).bytes = 32
        /\ I(2) \in PlainReads /\ I(2).bytes = 2
        /\ S(8) \in PlainReads /\ S(8).bytes = 8
        /\ I(10) \in PlainReads /\ I(10).bytes = 10
        /\ S(2) \in PlainReads /\ S(2).bytes = 2
        /\ I(6) \in PlainReads /\ I(6).bytes = 6
        /\ S(20) \in PlainReads /\ S(20).bytes = 20
        /\ I(1) \in PlainReads /\ I(1).bytes = 1
        /\ S(128) \in PlainReads /\ S(128).bytes = 128
    BY ReadTyped
  <2>2. /\ c \in Seq(PlainReads) /\ Len(c) = 9
        /\ c[1].bytes = 32
        /\ c[2].bytes = 2
        /\ c[3].bytes = 8
        /\ c[4].bytes = 10
        /\ c[5].bytes = 2
        /\ c[6].bytes = 6
        /\ c[7].bytes = 20
        /\ c[8].bytes = 1
        /\ c[9].bytes = 128
    BY <2>1
  <2> HIDE DEF c
  <2>3. c \in Seq(Reads)
    BY <2>2, PlainIsRead
  <2>4. Size(c) = c[1].bytes + c[2].bytes + c[3].bytes + c[4].bytes + c[5].bytes
                  + c[6].bytes + c[7].bytes + c[8].bytes + c[9].bytes
    BY <2>2, <2>3, SizeOfReads
  <2> QED
    BY <2>2, <2>4
<1> HIDE DEF c
<1> DEFINE to1 == a \o b
<1>6. to1 \in Seq(PlainReads) /\ Size(to1) \in Nat /\ Size(to1) <= 66132
  <2>1. to1 \in Seq(PlainReads) /\ Size(to1) = Size(a) + Size(b)
    BY <1>1, <1>4, Both
  <2> QED
    BY <1>1, <1>4, <2>1
<1> HIDE DEF to1
<1> DEFINE to2 == to1 \o c
<1>7. to2 \in Seq(PlainReads) /\ Size(to2) \in Nat /\ Size(to2) <= 66341
  <2>1. to2 \in Seq(PlainReads) /\ Size(to2) = Size(to1) + Size(c)
    BY <1>6, <1>5, Both
  <2> QED
    BY <1>6, <1>5, <2>1
<1> HIDE DEF to2
<1>8. PadAndTail \in Seq(Reads) /\ Size(PadAndTail) = 17
  <2>1. Size(PadAndTail) = PadAndTail[1].bytes + PadAndTail[2].bytes
    BY PadAndTailTyped, SizeOfReads
  <2>2. Read("pad", 1).bytes = 1 /\ Read("tail", 16).bytes = 16
    BY DEF Read
  <2> QED
    BY <2>1, <2>2, PadAndTailTyped
<1>9. SND = to2 \o PadAndTail
  BY DEF SND, PadAndTail, a, w, b, c, to1, to2
<1>10. to2 \in Seq(Reads)
  BY <1>7, PlainIsRead
<1>11. /\ to2 \o PadAndTail \in Seq(Reads)
      /\ Size(to2 \o PadAndTail) = Size(to2) + Size(PadAndTail)
  BY <1>8, <1>10, SizeOfConcat
<1>12. WellFormed(SND)
  BY <1>7, <1>9 DEF WellFormed
<1>13. SND \in Seq(Reads) /\ Size(SND) = Size(to2) + Size(PadAndTail)
  BY <1>9, <1>11
<1>14. Size(SND) <= 66560
  <2> DEFINE x == Size(SND)
             y == Size(to2)
             z == Size(PadAndTail)
  <2>1. x = y + z /\ y \in Nat /\ y <= 66341 /\ z = 17
    BY <1>7, <1>8, <1>13
  <2> HIDE DEF x, y, z
  <2>2. x <= 66560
    BY <2>1
  <2> QED
    BY <2>2 DEF x
<1> QED
  BY <1>12, <1>13, <1>14

-----------------------------------------------------------------------------
(* Every decoder.                                                           *)

\* Every read of a decoder is of a kind that BlockDecoder knows, and only the
\* sound's decoder has reads that depend on how much is left.
THEOREM LayoutsWellFormed ==
  ASSUME NEW b \in BlockNames, NEW v
  PROVE  WellFormed(LayoutOf(b, v))
<1>1. SFX \in Seq(PlainReads)
  <2>1. /\ I(1) \in PlainReads
        /\ I(2) \in PlainReads
        /\ S(4) \in PlainReads
        /\ S(12) \in PlainReads
        /\ S(16) \in PlainReads
        /\ S(24) \in PlainReads
        /\ S(28) \in PlainReads
        /\ S(108) \in PlainReads
        /\ S(256) \in PlainReads
        /\ S(512) \in PlainReads
    BY ReadTyped
  <2> QED
    BY <2>1 DEF SFX
<1>2. SAR \in Seq(PlainReads)
  <2>1. /\ I(2) \in PlainReads
        /\ S(14) \in PlainReads
    BY ReadTyped
  <2> QED
    BY <2>1 DEF SAR
<1>3. DP1 \in Seq(PlainReads)
  <2>1. /\ I(3) \in PlainReads
        /\ S(16) \in PlainReads
        /\ S(1024) \in PlainReads
    BY ReadTyped
  <2> QED
    BY <2>1 DEF DP1
<1>4. DP2 \in Seq(PlainReads)
  <2>1. /\ I(2) \in PlainReads
        /\ S(16) \in PlainReads
        /\ S(1024) \in PlainReads
    BY ReadTyped
  <2> QED
    BY <2>1 DEF DP2
<1>5. DP4 \in Seq(PlainReads)
  <2>1. /\ I(2) \in PlainReads
        /\ S(18) \in PlainReads
        /\ S(1024) \in PlainReads
    BY ReadTyped
  <2> QED
    BY <2>1 DEF DP4
<1>6. ST0 \in Seq(PlainReads)
  <2>1. /\ I(3) \in PlainReads
        /\ S(32) \in PlainReads
    BY ReadTyped
  <2> QED
    BY <2>1 DEF ST0
<1>7. OBC \in Seq(PlainReads)
  <2>1. /\ S(6) \in PlainReads
    BY ReadTyped
  <2> QED
    BY <2>1 DEF OBC
<1>8. S71 \in Seq(PlainReads)
  <2>1. /\ I(3) \in PlainReads
        /\ I(44) \in PlainReads
        /\ I(64) \in PlainReads
        /\ S(12) \in PlainReads
        /\ S(84) \in PlainReads
    BY ReadTyped
  <2> QED
    BY <2>1 DEF S71
<1>9. SRT \in Seq(PlainReads)
  <2>1. /\ S(8) \in PlainReads
    BY ReadTyped
  <2> QED
    BY <2>1 DEF SRT
<1>10. BSX \in Seq(PlainReads)
  <2>1. /\ I(1) \in PlainReads
        /\ I(6) \in PlainReads
        /\ S(12) \in PlainReads
        /\ S(128) \in PlainReads
    BY ReadTyped
  <2> QED
    BY <2>1 DEF BSX
<1>11. MSU \in Seq(PlainReads)
  <2>1. /\ I(1) \in PlainReads
        /\ I(2) \in PlainReads
        /\ S(8) \in PlainReads
        /\ S(16) \in PlainReads
    BY ReadTyped
  <2> QED
    BY <2>1 DEF MSU
<1>12. SA1(v) \in Seq(PlainReads)
  <2>1. /\ <<S(12), I(3), S(16), I(2)>> \in Seq(PlainReads)
        /\ <<S(40)>> \in Seq(PlainReads)
    <3>1. /\ S(12) \in PlainReads /\ I(3) \in PlainReads /\ S(16) \in PlainReads
          /\ I(2) \in PlainReads /\ S(40) \in PlainReads
      BY ReadTyped
    <3> QED
      BY <3>1
  <2>2. When(v >= 7, <<S(40)>>) \in Seq(PlainReads)
    BY <2>1, WhenTyped
  <2> QED
    BY <2>1, <2>2 DEF SA1
<1>13. <<>> \in Seq(PlainReads)
  OBVIOUS
<1>14. CASE b = "SND"
  BY <1>14, SndLayout DEF LayoutOf
<1>15. CASE b # "SND"
  <2>1. LayoutOf(b, v) \in Seq(PlainReads)
    <3>1. CASE b = "CPU"
      BY <3>1, CpuLayout DEF LayoutOf
    <3>2. CASE b = "REG"
      BY <3>2, RegLayout DEF LayoutOf
    <3>3. CASE b = "PPU"
      BY <3>3, PpuLayout DEF LayoutOf
    <3>4. CASE b = "DMA"
      BY <3>4, DmaLayout DEF LayoutOf
    <3>5. CASE b = "TIM"
      BY <3>5, TimLayout DEF LayoutOf
    <3>6. CASE b = "SFX"
      BY <3>6, <1>1 DEF LayoutOf
    <3>7. CASE b = "SA1"
      BY <3>7, <1>12 DEF LayoutOf
    <3>8. CASE b = "SAR"
      BY <3>8, <1>2 DEF LayoutOf
    <3>9. CASE b = "DP1"
      BY <3>9, <1>3 DEF LayoutOf
    <3>10. CASE b = "DP2"
      BY <3>10, <1>4 DEF LayoutOf
    <3>11. CASE b = "DP4"
      BY <3>11, <1>5 DEF LayoutOf
    <3>12. CASE b = "ST0"
      BY <3>12, <1>6 DEF LayoutOf
    <3>13. CASE b = "OBC"
      BY <3>13, <1>7 DEF LayoutOf
    <3>14. CASE b = "S71"
      BY <3>14, <1>8 DEF LayoutOf
    <3>15. CASE b = "SRT"
      BY <3>15, <1>9 DEF LayoutOf
    <3>16. CASE b = "BSX"
      BY <3>16, <1>10 DEF LayoutOf
    <3>17. CASE b = "MSU"
      BY <3>17, <1>11 DEF LayoutOf
    <3>18. CASE b = "CX4"
      BY <3>18, <1>13 DEF LayoutOf
    <3> QED
      BY <1>15, <3>1, <3>2, <3>3, <3>4, <3>5, <3>6, <3>7, <3>8, <3>9,
         <3>10, <3>11, <3>12, <3>13, <3>14, <3>15, <3>16, <3>17, <3>18 DEF BlockNames
  <2> QED
    BY <2>1 DEF WellFormed
<1> QED
  BY <1>14, <1>15

=============================================================================
