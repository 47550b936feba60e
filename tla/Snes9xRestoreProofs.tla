------------------------- MODULE Snes9xRestoreProofs -------------------------
(***************************************************************************)
(* What is read of a save that was cut, for every save, every cut and any   *)
(* number of blocks: the reader stays in step with the blocks, refuses only *)
(* a copy without its header line, and returns the surviving blocks.        *)
(***************************************************************************)
EXTENDS Snes9xRestore, Snes9xParserProofs, WellFoundedInduction

-----------------------------------------------------------------------------
(* Slices of a cut copy.                                                    *)

\* A slice, entry by entry: shorter past the end, never an error.
LEMMA SliceIs ==
  ASSUME NEW S, NEW s \in Seq(S), NEW i \in Nat, NEW j \in Nat
  PROVE  LET e == IF j <= Len(s) THEN j ELSE Len(s) IN
         /\ Slice(s, i, j) \in Seq(S)
         /\ Len(Slice(s, i, j)) = IF i < e THEN e - i ELSE 0
         /\ \A k \in 1..Len(Slice(s, i, j)) : Slice(s, i, j)[k] = s[i + k]
<1> DEFINE n == Len(s)
           e == IF j <= n THEN j ELSE n
           b == IF i <= n THEN i ELSE n
           t == SubSeq(s, b + 1, e)
<1>0. n \in Nat OBVIOUS
<1>1. e \in Nat /\ e <= n /\ b \in Nat /\ b <= i /\ (i < e => b = i) /\ (e <= i => e <= b)
  BY <1>0
<1>2. Slice(s, i, j) = t
  <2>1. Index(s, i) = b /\ Index(s, j) = e BY <1>0 DEF Index
  <2> QED BY <2>1 DEF Slice
<1> HIDE DEF e, b
<1>3. /\ t \in Seq(S)
      /\ Len(t) = IF b + 1 <= e THEN e - (b + 1) + 1 ELSE 0
      /\ \A k \in 1..(e - (b + 1) + 1) : t[k] = s[(b + 1) + k - 1]
  <2>1. \A k \in (b + 1)..e : s[k] \in S BY <1>0, <1>1
  <2>2. b + 1 \in Int /\ e \in Int BY <1>1
  <2> QED BY <2>1, <2>2, SubSeqProperties
<1> HIDE DEF t
<1>4. Len(t) = IF i < e THEN e - i ELSE 0 BY <1>1, <1>3
<1>5. \A k \in 1..Len(t) : t[k] = s[i + k] BY <1>1, <1>3, <1>4
<1> QED BY <1>2, <1>3, <1>4, <1>5 DEF e

\* The copy is the save up to the cut.
LEMMA CopyIs ==
  ASSUME NEW s \in Seq(Byte), NEW c \in 0..Len(s)
  PROVE  /\ Slice(s, 0, c) \in Seq(Byte)
         /\ Len(Slice(s, 0, c)) = c
         /\ \A k \in 1..c : Slice(s, 0, c)[k] = s[k]
<1>1. c \in Nat /\ c <= Len(s) OBVIOUS
<1>2. Len(Slice(s, 0, c)) = c /\ Slice(s, 0, c) \in Seq(Byte) BY <1>1, SliceIs
<1>3. \A k \in 1..c : Slice(s, 0, c)[k] = s[0 + k] BY <1>1, <1>2, SliceIs
<1> QED BY <1>2, <1>3

(* Before the cut the copy reads as the save does.                          *)
LEMMA SameSlice ==
  ASSUME NEW s \in Seq(Byte), NEW c \in 0..Len(s), NEW i \in Nat, NEW j \in Nat,
         j <= c
  PROVE  Slice(Slice(s, 0, c), i, j) = Slice(s, i, j)
<1> DEFINE r == Slice(s, 0, c)
           a == Slice(r, i, j)
           b == Slice(s, i, j)
<1>1. r \in Seq(Byte) /\ Len(r) = c /\ \A k \in 1..c : r[k] = s[k] BY CopyIs
<1> HIDE DEF r
<1>2. /\ a \in Seq(Byte)
      /\ Len(a) = IF i < j THEN j - i ELSE 0
      /\ \A k \in 1..Len(a) : a[k] = r[i + k]
  BY <1>1, SliceIs
<1>3. /\ b \in Seq(Byte)
      /\ Len(b) = IF i < j THEN j - i ELSE 0
      /\ \A k \in 1..Len(b) : b[k] = s[i + k]
  BY SliceIs
<1> HIDE DEF a, b
<1>4. \A k \in 1..Len(a) : i + k \in 1..c BY <1>2
<1>5. \A k \in 1..Len(a) : a[k] = b[k] BY <1>1, <1>2, <1>3, <1>4
<1>6. Len(a) = Len(b) BY <1>2, <1>3
<1>7. a = b BY <1>2, <1>3, <1>5, <1>6, SeqEqual
<1> QED BY <1>7 DEF a, b, r

(* A slice that the cut shortens is the beginning of the slice of the save. *)
LEMMA CutSlice ==
  ASSUME NEW s \in Seq(Byte), NEW c \in 0..Len(s), NEW i \in Nat, NEW n \in Nat,
         i <= c, i + n <= Len(s)
  PROVE  Slice(Slice(s, 0, c), i, i + n) = Slice(Slice(s, i, i + n), 0, c - i)
<1> DEFINE r == Slice(s, 0, c)
           d == Slice(s, i, i + n)
           a == Slice(r, i, i + n)
           b == Slice(d, 0, c - i)
           m == IF n <= c - i THEN n ELSE c - i
<1>0. c - i \in Nat /\ i + n \in Nat OBVIOUS
<1>1. r \in Seq(Byte) /\ Len(r) = c /\ \A k \in 1..c : r[k] = s[k] BY CopyIs
<1>2. d \in Seq(Byte) /\ Len(d) = n /\ \A k \in 1..n : d[k] = s[i + k]
  <2>1. d \in Seq(Byte) /\ Len(d) = n BY <1>0, SliceIs
  <2> QED BY <1>0, <2>1, SliceIs
<1> HIDE DEF r, d
<1>3. /\ a \in Seq(Byte)
      /\ Len(a) = m
      /\ \A k \in 1..Len(a) : a[k] = r[i + k]
  <2>1. a \in Seq(Byte) /\ \A k \in 1..Len(a) : a[k] = r[i + k]
    BY <1>0, <1>1, SliceIs
  <2>2. Len(a) = LET e == IF i + n <= c THEN i + n ELSE c
                 IN  IF i < e THEN e - i ELSE 0
    BY <1>0, <1>1, SliceIs
  <2> QED BY <2>1, <2>2
<1>4. /\ b \in Seq(Byte)
      /\ Len(b) = m
      /\ \A k \in 1..Len(b) : b[k] = d[0 + k]
  <2>1. b \in Seq(Byte) /\ \A k \in 1..Len(b) : b[k] = d[0 + k]
    BY <1>0, <1>2, SliceIs
  <2>2. Len(b) = LET e == IF c - i <= n THEN c - i ELSE n
                 IN  IF 0 < e THEN e - 0 ELSE 0
    BY <1>0, <1>2, SliceIs
  <2> QED BY <1>0, <2>1, <2>2
<1> HIDE DEF a, b
<1>5. \A k \in 1..m : i + k \in 1..c /\ k \in 1..n OBVIOUS
<1>6. \A k \in 1..Len(a) : a[k] = b[k]
  <2> SUFFICES ASSUME NEW k \in 1..m PROVE a[k] = b[k]
    BY <1>3
  <2>1. i + k \in 1..c /\ k \in 1..n BY <1>5
  <2>2. a[k] = s[i + k] BY <1>1, <1>3, <2>1
  <2>3. b[k] = d[k]
    <3>1. b[k] = d[0 + k] BY <1>4
    <3> QED BY <3>1
  <2> QED BY <1>2, <2>1, <2>2, <2>3
<1>7. a = b BY <1>3, <1>4, <1>6, SeqEqual
<1> QED BY <1>7 DEF a, b, d, r

-----------------------------------------------------------------------------
(* A save and its copy.                                                     *)

N == Len(save.blocks)

Copied ==
  /\ save \in Saves
  /\ cut \in 0..Len(save.file)
  /\ raw = Slice(save.file, 0, cut)

\* What is known of a save and its copy.
LEMMA SaveFacts ==
  ASSUME Copied
  PROVE  /\ Layout(save)
         /\ N \in Nat
         /\ save.file \in Seq(Byte)
         /\ raw \in Seq(Byte) /\ Len(raw) = cut
         /\ cut \in Nat /\ cut <= Len(save.file)
         /\ \A k \in 1..cut : raw[k] = save.file[k]
         /\ \A k \in 1..N + 1 : save.at[k] \in Nat /\ save.at[k] <= Len(save.file)
         /\ save.at[N + 1] = Len(save.file)
<1>1. Layout(save) BY SavesAssumption DEF Copied
<1>2. N \in Nat /\ save.file \in Seq(Byte) BY <1>1 DEF Layout, N
<1>3. \A k \in 1..N + 1 : save.at[k] \in Nat /\ save.at[k] <= Len(save.file)
  <2>1. save.at \in [1..N + 1 -> Nat] /\ save.at[N + 1] = Len(save.file)
        /\ \A j, k \in 1..N + 1 : j <= k => save.at[j] <= save.at[k]
    BY <1>1 DEF Layout, N
  <2>2. N + 1 \in 1..N + 1 /\ \A k \in 1..N + 1 : k <= N + 1 BY <1>2
  <2> QED BY <2>1, <2>2
<1>4. save.at[N + 1] = Len(save.file) BY <1>1 DEF Layout, N
<1>5. cut \in 0..Len(save.file) /\ raw = Slice(save.file, 0, cut) BY DEF Copied
<1>6. cut \in Nat /\ cut <= Len(save.file) BY <1>2, <1>5
<1>7. /\ raw \in Seq(Byte) /\ Len(raw) = cut
      /\ \A k \in 1..cut : raw[k] = save.file[k]
  BY <1>2, <1>5, CopyIs
<1> QED BY <1>1, <1>2, <1>3, <1>4, <1>6, <1>7

\* The data of a block are bytes.
LEMMA BlockData ==
  ASSUME Copied, NEW k \in 1..N
  PROVE  save.blocks[k].data \in Seq(Byte)
<1> DEFINE R == [name : Seq(Ascii), data : Seq(Byte)]
           b == save.blocks
<1>1. b \in Seq(R) BY SaveFacts DEF Layout
<1>2. k \in 1..Len(b) BY DEF N
<1> HIDE DEF b, R
<1>3. b[k] \in R BY <1>1, <1>2
<1> QED BY <1>3 DEF R, b

(* The header of a surviving block reads as in the save, and its data are   *)
(* what the copy has of them.                                               *)
LEMMA SurvivorReads ==
  ASSUME Copied, NEW k \in 1..N, Survives(k)
  PROVE  /\ BlockAt(raw, save.at[k])
         /\ NameAt(raw, save.at[k]) = save.blocks[k].name
         /\ DataAt(raw, save.at[k]) = Kept(k)
         /\ save.at[k] + HeaderLength + LengthAt(raw, save.at[k]) = save.at[k + 1]
<1> DEFINE s == save.file
           p == save.at[k]
           d == save.blocks[k].data
<1> USE DEF HeaderLength, NameLength, LengthField
<1>1. /\ p \in Nat /\ s \in Seq(Byte) /\ raw \in Seq(Byte) /\ Len(raw) = cut
      /\ cut \in 0..Len(s) /\ cut \in Nat /\ raw = Slice(s, 0, cut)
      /\ \A j \in 1..cut : raw[j] = s[j]
  BY SaveFacts DEF Copied
<1>2. p + 11 <= cut BY DEF Survives
<1>3. /\ BlockAt(s, p) /\ NameAt(s, p) = save.blocks[k].name
      /\ LengthAt(s, p) = Len(d) /\ DataAt(s, p) = d
      /\ save.at[k + 1] = p + 11 + Len(d)
  BY SaveFacts DEF Layout, N
<1>4. Len(d) \in Nat
  <2>1. d \in Seq(Byte) BY BlockData
  <2> QED BY <2>1
<1>5. p + 11 + Len(d) <= Len(s)
  <2>1. k + 1 \in 1..N + 1 BY SaveFacts
  <2>2. save.at[k + 1] <= Len(s) BY <2>1, SaveFacts
  <2> QED BY <1>3, <2>2
<1> HIDE DEF p, s, d
<1>6. NameAt(raw, p) = NameAt(s, p)
  BY <1>1, <1>2, SameSlice DEF NameAt
<1>7. LengthAt(raw, p) = LengthAt(s, p)
  <2>1. Slice(raw, p + 4, p + 10) = Slice(s, p + 4, p + 10)
    BY <1>1, <1>2, SameSlice
  <2>2. p + 3 + 1 = p + 4 /\ p + 3 + 1 + 6 = p + 10 BY <1>1
  <2> QED BY <2>1, <2>2 DEF LengthAt
<1>8. BlockAt(raw, p)
  <2>1. ColonAt(raw, p + 3) /\ ColonAt(raw, p + 3 + 1 + 6)
    <3>1. raw[p + 4] = s[p + 4] /\ raw[p + 11] = s[p + 11] BY <1>1, <1>2
    <3>2. /\ p + 3 \in Nat /\ p + 3 + 1 + 6 \in Nat /\ p + 3 + 1 = p + 4
          /\ p + 3 + 1 + 6 + 1 = p + 11
      BY <1>1
    <3>3. ColonAt(s, p + 3) /\ ColonAt(s, p + 3 + 1 + 6) BY <1>3 DEF BlockAt
    <3>4. s[p + 4] = Colon /\ s[p + 11] = Colon
      BY <1>1, <3>2, <3>3, ColonIs
    <3>5. p + 3 < Len(raw) /\ p + 3 + 1 + 6 < Len(raw) BY <1>1, <1>2
    <3> QED BY <1>1, <3>1, <3>2, <3>4, <3>5, ColonIs
  <2>2. Readable(raw, p)
    BY <1>1, <1>2, <1>3, <1>6 DEF Readable, FitsName, BlockAt
  <2> QED BY <2>1, <2>2 DEF BlockAt
<1>9. DataAt(raw, p) = Kept(k)
  <2>1. DataAt(raw, p) = Slice(raw, p + 11, p + 11 + Len(d))
    BY <1>3, <1>7 DEF DataAt
  <2>2. d = Slice(s, p + 11, p + 11 + Len(d)) BY <1>3 DEF DataAt
  <2>3. Slice(raw, p + 11, p + 11 + Len(d))
          = Slice(Slice(s, p + 11, p + 11 + Len(d)), 0, cut - (p + 11))
    <3> DEFINE i == p + 11
    <3>1. i \in Nat /\ i <= cut /\ i + Len(d) <= Len(s) BY <1>1, <1>2, <1>5
    <3> HIDE DEF i
    <3>2. Slice(Slice(s, 0, cut), i, i + Len(d))
            = Slice(Slice(s, i, i + Len(d)), 0, cut - i)
      BY <1>1, <1>4, <3>1, CutSlice
    <3> QED BY <1>1, <3>2 DEF i
  <2>4. Kept(k) = Slice(d, 0, cut - (p + 11)) BY DEF Kept, p, d
  <2> QED BY <2>1, <2>2, <2>3, <2>4
<1>10. p + 11 + LengthAt(raw, p) = save.at[k + 1] BY <1>3, <1>7
<1> QED BY <1>3, <1>6, <1>8, <1>9, <1>10 DEF p

-----------------------------------------------------------------------------
(* The header line.                                                         *)

(* A header line that the copy has is the one of the save.                  *)
LEMMA SameHeader ==
  ASSUME Copied, NEW n \in 0..Len(raw) - 1, HeaderAt(raw, n)
  PROVE  n + 1 = save.at[1]
<1> DEFINE m == save.at[1] - 1
<1>1. HeaderAt(save.file, m) /\ save.at[1] \in Nat /\ m \in Nat
  BY SaveFacts DEF Layout, N
<1>2. /\ n \in Nat /\ n < cut /\ Len(raw) = cut /\ cut <= Len(save.file)
      /\ cut \in Nat /\ Len(save.file) \in Nat
      /\ \A k \in 1..cut : raw[k] = save.file[k]
  BY SaveFacts
<1> HIDE DEF m
<1>3. raw[n + 1] = Newline /\ \A i \in 0..n - 1 : raw[i + 1] # Newline
  BY DEF HeaderAt, FirstNewline
<1>4. save.file[m + 1] = Newline /\ \A i \in 0..m - 1 : save.file[i + 1] # Newline
  BY <1>1 DEF HeaderAt, FirstNewline
<1>5. ~ n < m
  <2>1. save.file[n + 1] = Newline BY <1>2, <1>3
  <2> QED BY <1>1, <1>2, <1>4, <2>1
<1>6. ~ m < n
  <2> SUFFICES ASSUME m < n PROVE FALSE OBVIOUS
  <2>1. m \in 0..n - 1 /\ m + 1 \in 1..cut BY <1>1, <1>2
  <2> QED BY <1>2, <1>3, <1>4, <2>1
<1>7. n = m BY <1>1, <1>2, <1>5, <1>6
<1> QED BY <1>1, <1>7 DEF m

(* The header line is found in every copy that has it whole.                *)
LEMMA HeaderSurvives ==
  ASSUME Copied, save.at[1] <= cut
  PROVE  \E n \in 0..Len(raw) - 1 : HeaderAt(raw, n)
<1> DEFINE m == save.at[1] - 1
           s == save.file
<1>1. HeaderAt(s, m) /\ save.at[1] \in Nat /\ m \in Nat
  BY SaveFacts DEF Layout, N
<1>2. /\ m + 1 <= cut /\ Len(raw) = cut /\ cut \in Nat /\ cut \in 0..Len(s)
      /\ s \in Seq(Byte) /\ raw = Slice(s, 0, cut)
      /\ \A k \in 1..cut : raw[k] = s[k]
  BY <1>1, SaveFacts DEF Copied
<1> HIDE DEF m, s
<1>3. Len(SNES9X_MAGIC) = 9 BY DEF SNES9X_MAGIC
<1>4. 9 < m
  <2> SUFFICES ASSUME m <= 9 PROVE FALSE BY <1>1
  <2>1. Len(Slice(s, 9, m)) = 0
    <3> DEFINE f == 9
    <3>1. f \in Nat /\ m \in Nat /\ s \in Seq(Byte) BY <1>1, <1>2
    <3> HIDE DEF f
    <3>2. Len(Slice(s, f, m)) = LET e == IF m <= Len(s) THEN m ELSE Len(s)
                                IN  IF f < e THEN e - f ELSE 0
      BY ONLY <3>1, SliceIs
    <3>3. Len(s) \in Nat BY <3>1
    <3> QED BY <1>1, <3>2, <3>3 DEF f
  <2>2. IsDecimal(Slice(s, 9, m), StripBlank) BY <1>1, <1>3 DEF HeaderAt
  <2> QED BY <2>1, <2>2 DEF IsDecimal
<1>5. Slice(raw, 0, 9) = Slice(s, 0, 9)
  BY <1>1, <1>2, <1>4, SameSlice
<1>6. Slice(raw, 9, m) = Slice(s, 9, m)
  BY <1>1, <1>2, SameSlice
<1>7. FirstNewline(raw, m)
  <2>1. s[m + 1] = Newline /\ \A i \in 0..m - 1 : s[i + 1] # Newline
    BY <1>1 DEF HeaderAt, FirstNewline
  <2>2. raw[m + 1] = Newline BY <1>1, <1>2, <2>1
  <2>3. \A i \in 0..m - 1 : raw[i + 1] # Newline BY <1>1, <1>2, <2>1
  <2> QED BY <1>1, <1>2, <2>2, <2>3 DEF FirstNewline
<1>8. HeaderAt(raw, m) BY <1>1, <1>3, <1>5, <1>6, <1>7 DEF HeaderAt
<1> QED BY <1>1, <1>2, <1>8

-----------------------------------------------------------------------------
(* The invariant: before block k the dict is the replay of blocks 1..k-1.   *)

LastBefore(k, j, n) ==
  /\ j \in 1..k - 1
  /\ save.blocks[j].name = n
  /\ \A i \in 1..k - 1 : save.blocks[i].name = n => i <= j

Before(k) ==
  /\ k \in 1..N + 1
  /\ pos = save.at[k]
  /\ \A j \in 1..k - 1 : Survives(j)
  /\ DOMAIN blocks = {save.blocks[j].name : j \in 1..k - 1}
  /\ \A n \in DOMAIN blocks :
       \E j \in 1..k - 1 : LastBefore(k, j, n) /\ blocks[n] = Kept(j)

Ended(k) == k = N + 1 \/ ~Survives(k)

RInv ==
  /\ Copied
  /\ pc \in {"header", "loop", "done", "failed"}
  /\ pc = "header" => DOMAIN blocks = {}
  /\ pc = "loop"   => \E k \in 1..N + 1 : Before(k)
  /\ pc = "done"   => \E k \in 1..N + 1 : Before(k) /\ Ended(k)
  /\ pc = "failed" => cut < save.at[1]

\* Nothing is read yet.
LEMMA RInvInit == RInit => RInv
<1> SUFFICES ASSUME RInit PROVE RInv
  OBVIOUS
<1>1. DOMAIN blocks = {} BY DEF RInit, Init
<1> QED BY <1>1 DEF RInit, Init, RInv, Copied

(* Where the copy ends before block k, no block stands and no name fails.   *)
LEMMA NothingBehindTheCut ==
  ASSUME Copied, NEW k \in 1..N + 1, Ended(k)
  PROVE  /\ ~BlockAt(raw, save.at[k])
         /\ FitsName(raw, save.at[k]) => Readable(raw, save.at[k])
<1> DEFINE p == save.at[k]
           s == save.file
<1> USE DEF HeaderLength, NameLength, LengthField
<1>1. /\ p \in Nat /\ Len(raw) = cut /\ cut \in Nat /\ cut \in 0..Len(s)
      /\ s \in Seq(Byte) /\ raw = Slice(s, 0, cut) /\ N \in Nat
  BY SaveFacts DEF Copied
<1>2. k = N + 1 => p >= cut BY SaveFacts
<1>3. k # N + 1 => ~ p + 11 <= cut BY DEF Ended, Survives
<1>4. ~ p + 11 <= cut BY <1>1, <1>2, <1>3
<1> HIDE DEF p, s
<1>5. ~ColonAt(raw, p + 3 + 1 + 6) BY <1>1, <1>4 DEF ColonAt
<1>6. ASSUME FitsName(raw, p) PROVE Readable(raw, p)
  <2>1. p + 3 <= cut BY <1>1, <1>6 DEF FitsName
  <2>2. k \in 1..N BY <1>1, <1>2, <2>1
  <2>3. NameAt(raw, p) = NameAt(s, p) BY <1>1, <2>1, SameSlice DEF NameAt
  <2>4. AllIn(NameAt(s, p), Ascii)
    BY <2>2, SaveFacts DEF Layout, N, BlockAt, Readable, p, s
  <2> QED BY <1>6, <2>3, <2>4 DEF Readable
<1> QED BY <1>5, <1>6 DEF BlockAt, p

(* Storing block k moves the reader on to block k + 1.                      *)
LEMMA StoreMovesOn ==
  ASSUME Copied, NEW k \in 1..N, Before(k), Survives(k), StoreBlock,
         UNCHANGED <<save, cut>>
  PROVE  Before(k + 1)'
<1> DEFINE b == save.blocks
           m == b[k].name
<1>1. /\ NameAt(raw, pos) = m /\ DataAt(raw, pos) = Kept(k)
      /\ pos' = save.at[k + 1]
  BY SurvivorReads DEF Before, StoreBlock
<1>2. blocks' = Put(blocks, m, Kept(k)) BY <1>1 DEF StoreBlock
<1>3. N \in Nat /\ N' = N /\ save' = save /\ cut' = cut BY SaveFacts DEF N
<1>4. \A j : Kept(j)' = Kept(j) /\ Survives(j)' = Survives(j)
  BY <1>3 DEF Kept, Survives
<1>5. 1..(k + 1) - 1 = (1..k - 1) \cup {k} BY <1>3
<1>6. k + 1 \in 1..N + 1 BY <1>3
<1> HIDE DEF m
<1>7. DOMAIN blocks' = {b[j].name : j \in 1..(k + 1) - 1}
  BY <1>2, <1>5 DEF Put, Before, m
<1>8. ASSUME NEW n \in DOMAIN blocks'
      PROVE  \E j \in 1..(k + 1) - 1 :
               LastBefore(k + 1, j, n) /\ blocks'[n] = Kept(j)
  <2>1. CASE n = m
    <3>1. blocks'[n] = Kept(k) BY <1>2, <1>8, <2>1 DEF Put
    <3>2. LastBefore(k + 1, k, n)
      BY <1>3, <1>5, <2>1 DEF LastBefore, m
    <3> QED BY <1>5, <3>1, <3>2
  <2>2. CASE n # m
    <3>1. n \in DOMAIN blocks /\ blocks'[n] = blocks[n]
      BY <1>2, <1>8, <2>2 DEF Put
    <3>2. PICK j \in 1..k - 1 : LastBefore(k, j, n) /\ blocks[n] = Kept(j)
      BY <3>1 DEF Before
    <3>3. LastBefore(k + 1, j, n)
      BY <1>5, <2>2, <3>2 DEF LastBefore, m
    <3> QED BY <1>5, <3>1, <3>2, <3>3
  <2> QED BY <2>1, <2>2
<1>9. \A j, n : LastBefore(k + 1, j, n)' = LastBefore(k + 1, j, n)
  BY <1>3 DEF LastBefore
<1>10. \A j \in 1..(k + 1) - 1 : Survives(j) BY <1>5 DEF Before
<1> QED BY <1>1, <1>3, <1>4, <1>6, <1>7, <1>8, <1>9, <1>10 DEF Before

\* No name of a block fails to decode.
LEMMA NeverABadName == RInv => ~BadName
<1> SUFFICES ASSUME RInv, BadName PROVE FALSE OBVIOUS
<1>0. Copied /\ N \in Nat BY SaveFacts DEF RInv
<1>1. PICK k \in 1..N + 1 : Before(k) BY DEF BadName, RInv
<1>2. pos = save.at[k] BY <1>1 DEF Before
<1>3. ~Ended(k) BY <1>0, <1>2, NothingBehindTheCut DEF BadName
<1>4. k \in 1..N /\ Survives(k) BY <1>0, <1>3 DEF Ended
<1>5. Readable(raw, pos) BY <1>0, <1>2, <1>4, SurvivorReads DEF BlockAt
<1> QED BY <1>5 DEF BadName

\* Every step keeps the invariant.
LEMMA RInvStep == RInv /\ [RNext]_rvars => RInv'
<1> SUFFICES ASSUME RInv, [RNext]_rvars PROVE RInv'
  OBVIOUS
<1>0. Copied BY DEF RInv
<1>1. /\ save' = save /\ cut' = cut /\ raw' = raw
      /\ N' = N /\ N \in Nat
  <2>1. save' = save /\ cut' = cut /\ raw' = raw
    BY DEF RNext, rvars, Next, ReadHeader, RejectHeader, StoreBlock, BadName, Leave
  <2> QED BY <1>0, <2>1, SaveFacts DEF N
<1>2. Copied' BY <1>0, <1>1 DEF Copied
<1>3. ASSUME UNCHANGED <<blocks, pos>>, NEW k
      PROVE  Before(k)' <=> Before(k)
  BY <1>1, <1>3 DEF Before, LastBefore, Survives, Kept
<1>4. \A k : Ended(k)' <=> Ended(k) BY <1>1 DEF Ended, Survives
<1>5. CASE ReadHeader
  <2>1. PICK n \in 0..Len(raw) - 1 : HeaderAt(raw, n) /\ pos' = n + 1
    BY <1>5 DEF ReadHeader
  <2>2. pos' = save.at[1] BY <1>0, <2>1, SameHeader
  <2>3. blocks' = blocks /\ DOMAIN blocks = {} /\ pc' = "loop"
    BY <1>5 DEF ReadHeader, RInv
  <2>4. 1 \in 1..N + 1 /\ 1..1 - 1 = {} BY <1>1
  <2>5. Before(1)' BY <1>1, <2>2, <2>3, <2>4 DEF Before
  <2> QED BY <1>1, <1>2, <2>3, <2>4, <2>5 DEF RInv
<1>6. CASE RejectHeader
  <2>1. ~ save.at[1] <= cut
    BY <1>0, <1>6, HeaderSurvives DEF RejectHeader
  <2>2. save.at[1] \in Nat /\ cut \in Nat
    <3>1. 1 \in 1..N + 1 BY <1>1
    <3> QED BY <1>0, <3>1, SaveFacts
  <2>3. pc' = "failed" BY <1>6 DEF RejectHeader
  <2> QED BY <1>1, <1>2, <2>1, <2>2, <2>3 DEF RInv
<1>7. CASE StoreBlock
  <2>1. PICK k \in 1..N + 1 : Before(k) BY <1>7 DEF StoreBlock, RInv
  <2>2. pos = save.at[k] BY <2>1 DEF Before
  <2>3. ~Ended(k) BY <1>0, <1>7, <2>2, NothingBehindTheCut DEF StoreBlock
  <2>4. k \in 1..N /\ Survives(k) BY <1>1, <2>3 DEF Ended
  <2>5. Before(k + 1)' BY <1>0, <1>1, <1>7, <2>1, <2>4, StoreMovesOn
  <2>6. k + 1 \in 1..N + 1 BY <1>1, <2>4
  <2>7. pc' = "loop" BY <1>7 DEF StoreBlock
  <2> QED BY <1>1, <1>2, <2>5, <2>6, <2>7 DEF RInv
<1>8. CASE BadName
  BY <1>8, NeverABadName
<1>9. CASE Leave
  <2>1. PICK k \in 1..N + 1 : Before(k) BY <1>9 DEF Leave, RInv
  <2>2. pos = save.at[k] BY <2>1 DEF Before
  <2>3. Ended(k)
    <3> SUFFICES ASSUME ~Ended(k) PROVE FALSE
      OBVIOUS
    <3>1. k \in 1..N /\ Survives(k) BY <1>1 DEF Ended
    <3>2. BlockAt(raw, pos) BY <1>0, <2>2, <3>1, SurvivorReads
    <3> QED BY <1>9, <3>2 DEF Leave
  <2>4. Before(k)' /\ Ended(k)' /\ pc' = "done"
    BY <1>3, <1>4, <1>9, <2>1, <2>3 DEF Leave
  <2> QED BY <1>1, <1>2, <2>4 DEF RInv
<1>10. CASE UNCHANGED rvars
  <2>1. UNCHANGED <<blocks, pos>> /\ pc' = pc BY <1>10 DEF rvars
  <2> QED BY <1>1, <1>2, <1>3, <1>4, <2>1 DEF RInv
<1> QED BY <1>5, <1>6, <1>7, <1>8, <1>9, <1>10 DEF RNext, Next

\* The invariant holds in every reachable state.
LEMMA Inductive == RSpec => []RInv
BY RInvInit, RInvStep, PTL DEF RSpec

-----------------------------------------------------------------------------
(* Whatever the blocks hold and wherever the copy ends, the loop's position *)
(* is the start of a block of the save or the end of its last one.          *)
THEOREM StaysInStep == RSpec => []InStep
<1>1. RInv => InStep BY DEF RInv, Before, InStep, N
<1> QED BY <1>1, Inductive, PTL

(* A ValueError or a UnicodeDecodeError means that the copy ends within the *)
(* header line (lines 27-38 and 43): no block can cause one.                *)
THEOREM OnlyTheHeaderIsRefused == RSpec => []RefusedOnlyWithoutHeader
<1>1. RInv => RefusedOnlyWithoutHeader BY DEF RInv, RefusedOnlyWithoutHeader
<1> QED BY <1>1, Inductive, PTL

(* The dict that line 64 returns has the names of the surviving blocks, and *)
(* under each the data of its last one, as far as the copy has them.        *)
THEOREM SurvivorsAreRead == RSpec => []ReadsSurvivors
<1>1. RInv => ReadsSurvivors
  <2> SUFFICES ASSUME RInv, pc = "done"
               PROVE  /\ DOMAIN blocks = {save.blocks[k].name : k \in Survivors}
                      /\ \A n \in DOMAIN blocks : blocks[n] = Kept(LastOf(n))
    BY DEF ReadsSurvivors
  <2>1. PICK k \in 1..N + 1 : Before(k) /\ Ended(k) BY DEF RInv
  <2>2. N \in Nat BY SaveFacts DEF RInv
  <2>3. Survivors = 1..k - 1
    <3>1. \A j \in 1..k - 1 : j \in 1..N /\ Survives(j) BY <2>1, <2>2 DEF Before
    <3>2. ASSUME NEW j \in 1..N, Survives(j), ~ j <= k - 1 PROVE FALSE
      <4>1. k <= j /\ k \in 1..N /\ j \in 1..N + 1 BY <2>2, <3>2
      <4>2. save.at[k] <= save.at[j]
        BY <4>1, SaveFacts DEF RInv, Layout, N
      <4>3. save.at[k] \in Nat /\ save.at[j] \in Nat /\ cut \in Nat
        BY <4>1, SaveFacts DEF RInv
      <4>4. Survives(k)
        BY <3>2, <4>2, <4>3 DEF Survives, HeaderLength, NameLength, LengthField
      <4> QED BY <2>1, <2>2, <4>1, <4>4 DEF Ended
    <3> QED BY <2>1, <2>2, <3>1, <3>2 DEF Survivors, N
  <2>4. ASSUME NEW n \in DOMAIN blocks PROVE blocks[n] = Kept(LastOf(n))
    <3>1. PICK j \in 1..k - 1 : LastBefore(k, j, n) /\ blocks[n] = Kept(j)
      BY <2>1 DEF Before
    <3>2. /\ j \in Survivors /\ save.blocks[j].name = n
          /\ \A i \in Survivors : save.blocks[i].name = n => i <= j
      BY <2>3, <3>1 DEF LastBefore
    <3> DEFINE c == LastOf(n)
    <3>3. /\ c \in Survivors /\ save.blocks[c].name = n
          /\ \A i \in Survivors : save.blocks[i].name = n => i <= c
      BY <3>2 DEF LastOf
    <3> HIDE DEF c
    <3>4. c <= j /\ j <= c /\ c \in Int /\ j \in Int BY <2>3, <3>2, <3>3
    <3>5. c = j BY <3>4
    <3> QED BY <3>1, <3>5 DEF c
  <2> QED BY <2>1, <2>3, <2>4 DEF Before
<1> QED BY <1>1, Inductive, PTL

-----------------------------------------------------------------------------
(* The surviving blocks as a log.                                           *)

\* Block headers stand in strictly increasing positions.
LEMMA Increasing ==
  ASSUME Copied, NEW j \in 1..N + 1, NEW k \in 1..N + 1, j < k
  PROVE  save.at[j] < save.at[k]
<1>1. N \in Nat /\ j \in 1..N /\ j + 1 \in 1..N + 1 /\ j + 1 <= k BY SaveFacts
<1>2. save.at[j] \in Nat /\ save.at[j + 1] \in Nat /\ save.at[k] \in Nat
  BY <1>1, SaveFacts
<1>3. /\ LengthAt(save.file, save.at[j]) = Len(save.blocks[j].data)
      /\ save.at[j + 1] = save.at[j] + HeaderLength + Len(save.blocks[j].data)
  BY <1>1, SaveFacts DEF Layout, N
<1>4. Len(save.blocks[j].data) \in Nat
  <2>1. save.blocks[j].data \in Seq(Byte) BY <1>1, BlockData
  <2> QED BY <2>1
<1>5. save.at[j + 1] <= save.at[k] BY <1>1, SaveFacts DEF Layout, N
<1>6. HeaderLength = 11 BY DEF HeaderLength, NameLength, LengthField
<1>7. save.at[j] < save.at[j + 1] BY <1>2, <1>3, <1>4, <1>6
<1> QED BY <1>2, <1>5, <1>7

\* No block survives behind one that does not.
LEMMA SurvivesBefore ==
  ASSUME Copied, NEW j \in 1..N, NEW k \in 1..N, j <= k, Survives(k)
  PROVE  Survives(j)
<1>1. j \in 1..N + 1 /\ k \in 1..N + 1 BY SaveFacts
<1>2. save.at[j] <= save.at[k] BY <1>1, SaveFacts DEF Layout, N
<1>3. save.at[j] \in Nat /\ save.at[k] \in Nat /\ cut \in Nat BY <1>1, SaveFacts
<1> QED BY <1>2, <1>3 DEF Survives, HeaderLength, NameLength, LengthField

\* The survivors are the first blocks of the save.
LEMMA SurvivorsArePrefix ==
  ASSUME Copied
  PROVE  \E n \in 0..N : Survivors = 1..n
<1> DEFINE U == {k \in 1..N + 1 : k \notin Survivors}
<1>0. N \in Nat BY SaveFacts
<1>1. Survivors = {k \in 1..N : Survives(k)} BY DEF Survivors, N
<1>2. N + 1 \in U BY <1>0, <1>1
<1>3. U \subseteq Nat /\ U # {} BY <1>0, <1>2
<1>4. PICK x \in U : \A y \in U : ~ (<<y, x>> \in OpToRel(<, Nat))
  BY <1>3, NatLessThanWellFounded, WFMin
<1>5. \A y \in U : ~ (y < x) BY <1>3, <1>4 DEF OpToRel
<1>6. x \in 1..N + 1 /\ x \notin Survivors BY <1>4
<1>7. \A j \in 1..x - 1 : j \in Survivors
  <2> TAKE j \in 1..x - 1
  <2>1. j \in 1..N + 1 /\ j < x BY <1>0, <1>6
  <2> QED BY <1>5, <2>1
<1>8. ASSUME NEW j \in Survivors PROVE j \in 1..x - 1
  <2>1. j \in 1..N /\ Survives(j) BY <1>1
  <2> SUFFICES ASSUME x <= j PROVE FALSE BY <1>0, <1>6, <2>1
  <2>2. x \in 1..N BY <1>0, <1>6, <2>1
  <2>3. Survives(x) BY <2>1, <2>2, SurvivesBefore
  <2> QED BY <1>1, <1>6, <2>2, <2>3
<1>9. x - 1 \in 0..N BY <1>0, <1>6
<1> HIDE DEF U
<1>10. Survivors = 1..x - 1 BY <1>7, <1>8
<1> QED BY <1>9, <1>10

\* When the reader has met the end before block k, k - 1 blocks survive.
LEMMA SurvivorsAtTheEnd ==
  ASSUME Copied, NEW k \in 1..N + 1, Ended(k), \A j \in 1..k - 1 : Survives(j)
  PROVE  Survivors = 1..k - 1
<1>1. N \in Nat BY SaveFacts
<1>2. \A j \in 1..k - 1 : j \in 1..N BY <1>1
<1>3. ASSUME NEW j \in 1..N, Survives(j), ~ j <= k - 1 PROVE FALSE
  <2>1. k <= j /\ k \in 1..N BY <1>1, <1>3
  <2>2. Survives(k) BY <1>3, <2>1, SurvivesBefore
  <2> QED BY <1>1, <2>1, <2>2 DEF Ended
<1> QED BY <1>1, <1>2, <1>3 DEF Survivors, N

\* The log has one entry for each survivor.
LEMMA LogIs ==
  ASSUME Copied, NEW n \in 0..N, Survivors = 1..n
  PROVE  /\ Len(SurvivingLog) = n
         /\ \A k \in 1..n : /\ SurvivingLog[k].name = save.blocks[k].name
                            /\ SurvivingLog[k].data = Kept(k)
<1> DEFINE e(k) == [name |-> save.blocks[k].name, data |-> Kept(k)]
           S == {e(k) : k \in 1..n}
           l == [k \in 1..n |-> e(k)]
<1>0. n \in Nat BY SaveFacts
<1>1. SurvivingLog = l BY DEF SurvivingLog
<1>2. l \in [1..n -> S] OBVIOUS
<1>3. \A k \in 1..n : l[k].name = save.blocks[k].name /\ l[k].data = Kept(k)
  OBVIOUS
<1> HIDE DEF l, S
<1>4. l \in Seq(S) BY <1>0, <1>2
<1>5. DOMAIN l = 1..n BY <1>2
<1>6. Len(l) \in Nat /\ DOMAIN l = 1..Len(l) BY <1>4
<1>7. Len(l) = n BY <1>0, <1>5, <1>6
<1> QED BY <1>1, <1>3, <1>7

-----------------------------------------------------------------------------
(* The refinement mapping.                                                  *)

Taken ==
  IF pc \in {"header", "failed"} THEN 0
  ELSE CHOOSE k \in 0..Len(save.blocks) : pos = save.at[k + 1]

Phase ==
  CASE pc = "done"   -> "closed"
    [] pc = "failed" -> "refused"
    [] OTHER         -> "open"

\* The position tells how many blocks have been taken.
LEMMA TakenIs ==
  ASSUME Copied, NEW k \in 1..N + 1, pos = save.at[k],
         pc \notin {"header", "failed"}
  PROVE  Taken = k - 1
<1> DEFINE c == CHOOSE j \in 0..N : pos = save.at[j + 1]
<1>0. N \in Nat BY SaveFacts
<1>1. k - 1 \in 0..N /\ pos = save.at[(k - 1) + 1] BY <1>0
<1>2. c \in 0..N /\ pos = save.at[c + 1]
  <2>1. \E j \in 0..N : pos = save.at[j + 1] BY <1>1
  <2> QED BY <2>1
<1>3. Taken = c BY DEF Taken, N
<1> HIDE DEF c
<1>4. c + 1 \in 1..N + 1 BY <1>0, <1>2
<1>5. save.at[k] \in Nat BY SaveFacts
<1>6. ~ c + 1 < k
  <2>1. c + 1 < k => save.at[c + 1] < save.at[k] BY <1>4, Increasing
  <2> QED BY <1>2, <1>5, <2>1
<1>7. ~ k < c + 1
  <2>1. k < c + 1 => save.at[k] < save.at[c + 1] BY <1>4, Increasing
  <2> QED BY <1>2, <1>5, <2>1
<1>8. c = k - 1 BY <1>0, <1>2, <1>6, <1>7
<1> QED BY <1>3, <1>8

\* A dict is a function.
IsDict(d) == d = [n \in DOMAIN d |-> d[n]]

\* Before block k the dict is the replay of the first k - 1 entries.
LEMMA ReplayIs ==
  ASSUME Copied, NEW k \in 1..N + 1, Before(k), IsDict(blocks)
  PROVE  blocks = Abstract!Replay(SurvivingLog, k - 1)
<1> DEFINE l == SurvivingLog
           here(n) == {i \in 1..k - 1 : l[i].name = n}
           last(n) == CHOOSE i \in here(n) : \A j \in here(n) : j <= i
<1>0. N \in Nat BY SaveFacts
<1>1. \A i \in 1..k - 1 : l[i].name = save.blocks[i].name /\ l[i].data = Kept(i)
  <2>1. PICK m \in 0..N : Survivors = 1..m BY SurvivorsArePrefix
  <2>2. \A i \in 1..k - 1 : i \in Survivors
    BY <1>0 DEF Before, Survivors, N
  <2> QED BY <2>1, <2>2, LogIs
<1> HIDE DEF l
<1>2. DOMAIN blocks = {l[i].name : i \in 1..k - 1} BY <1>1 DEF Before
<1>3. ASSUME NEW n \in DOMAIN blocks PROVE blocks[n] = l[last(n)].data
  <2>1. PICK j \in 1..k - 1 : LastBefore(k, j, n) /\ blocks[n] = Kept(j)
    BY DEF Before
  <2>2. j \in here(n) /\ \A i \in here(n) : i <= j
    BY <1>1, <2>1 DEF LastBefore
  <2> DEFINE c == last(n)
  <2>3. c \in here(n) /\ \A i \in here(n) : i <= c BY <2>2
  <2> HIDE DEF c
  <2>4. c \in 1..k - 1 /\ c <= j /\ j <= c BY <2>2, <2>3
  <2>5. c = j BY <1>0, <2>4
  <2> QED BY <1>1, <2>1, <2>5 DEF c
<1>4. Abstract!Replay(l, k - 1)
        = [n \in {l[i].name : i \in 1..k - 1} |-> l[last(n)].data]
  BY DEF Abstract!Replay
<1> HIDE DEF last
<1> QED BY <1>2, <1>3, <1>4 DEF IsDict, l

\* The invariant under which the reader's steps are steps of the replay.
DictInv == RInv /\ IsDict(blocks)

\* The dict starts empty.
LEMMA DictInit == RInit => DictInv
<1> SUFFICES ASSUME RInit PROVE DictInv OBVIOUS
<1>1. blocks = [n \in {} |-> <<>>] /\ pc = "header" BY DEF RInit, Init
<1>2. IsDict(blocks) BY <1>1 DEF IsDict
<1> QED BY <1>1, <1>2, RInvInit DEF DictInv

\* A dict stays one, whatever is stored.
LEMMA DictKept == DictInv /\ [RNext]_rvars => DictInv'
<1> SUFFICES ASSUME DictInv, [RNext]_rvars PROVE DictInv' OBVIOUS
<1>1. RInv' BY RInvStep DEF DictInv
<1>2. CASE StoreBlock
  <2>1. blocks' = Put(blocks, NameAt(raw, pos), DataAt(raw, pos)) /\ pc' = "loop"
    BY <1>2 DEF StoreBlock
  <2> DEFINE b == blocks
             v == NameAt(raw, pos)
             d == DataAt(raw, pos)
  <2>2. blocks' = Put(b, v, d) BY <2>1
  <2> HIDE DEF b, v, d
  <2>3. IsDict(blocks') BY <2>2 DEF IsDict, Put
  <2> QED BY <1>1, <2>1, <2>3 DEF DictInv, IsDict
<1>3. CASE blocks' = blocks
  BY <1>1, <1>3 DEF DictInv, IsDict
<1> QED BY <1>2, <1>3
        DEF RNext, rvars, Next, ReadHeader, RejectHeader, BadName, Leave

\* The invariant holds in every reachable state.
LEMMA DictInductive == RSpec => []DictInv
BY DictInit, DictKept, PTL DEF RSpec

\* Where the reader stands says what the replay has done.
Mapped ==
  pc \in {"loop", "done"} =>
    \A k \in 1..N + 1 :
      Before(k) => /\ Taken = k - 1
                   /\ blocks = Abstract!Replay(SurvivingLog, k - 1)

\* The mapping follows from the invariant.
LEMMA IsMapped == DictInv => Mapped
<1> SUFFICES ASSUME DictInv, pc \in {"loop", "done"}, NEW k \in 1..N + 1, Before(k)
             PROVE  /\ Taken = k - 1
                    /\ blocks = Abstract!Replay(SurvivingLog, k - 1)
  BY DEF Mapped
<1>1. Copied /\ IsDict(blocks) BY DEF DictInv, RInv
<1>2. pos = save.at[k] BY DEF Before
<1>3. Taken = k - 1 BY <1>1, <1>2, TakenIs
<1>4. blocks = Abstract!Replay(SurvivingLog, k - 1) BY <1>1, ReplayIs
<1> QED BY <1>3, <1>4

\* One step of the reader is one of the replay, or leaves it alone.
LEMMA ReplayStep ==
  DictInv /\ Mapped /\ Mapped' /\ [RNext]_rvars => [Abstract!Next]_Abstract!vars
<1> SUFFICES ASSUME DictInv, Mapped, Mapped', [RNext]_rvars
             PROVE  Abstract!Next \/ UNCHANGED Abstract!vars
  OBVIOUS
<1> DEFINE l == SurvivingLog
<1>0. Copied /\ RInv BY DEF DictInv, RInv
<1>1. save' = save /\ cut' = cut /\ raw' = raw /\ N' = N /\ N \in Nat
  <2>1. save' = save /\ cut' = cut /\ raw' = raw
    BY DEF RNext, rvars, Next, ReadHeader, RejectHeader, StoreBlock, BadName, Leave
  <2> QED BY <1>0, <2>1, SaveFacts DEF N
<1>3. SurvivingLog' = SurvivingLog
  BY <1>1 DEF SurvivingLog, Survivors, Survives, Kept
<1>4. PICK n \in 0..N : Survivors = 1..n BY <1>0, SurvivorsArePrefix
<1>5. Len(l) = n BY <1>0, <1>4, LogIs
<1>6. \A k \in 1..N + 1 : 1 \in 1..N + 1 /\ k - 1 \in 0..N BY <1>1
<1> HIDE DEF l
<1>7. CASE ReadHeader
  <2>1. pc = "header" /\ pc' = "loop" /\ blocks' = blocks BY <1>7 DEF ReadHeader
  <2>2. PICK m \in 0..Len(raw) - 1 : HeaderAt(raw, m) /\ pos' = m + 1
    BY <1>7 DEF ReadHeader
  <2>3. pos' = save'.at[1] BY <1>0, <1>1, <2>2, SameHeader
  <2>4. Before(1)'
    <3>1. DOMAIN blocks = {} /\ 1 \in 1..N' + 1 /\ 1..1 - 1 = {}
      BY <1>0, <1>1, <2>1 DEF RInv
    <3> QED BY <1>1, <2>1, <2>3, <3>1 DEF Before
  <2>5. Taken' = 0
    <3>1. 1 \in 1..N' + 1 BY <1>1
    <3>2. Taken' = 1 - 1 BY <2>1, <2>4, <3>1 DEF Mapped
    <3> QED BY <3>2
  <2>6. Taken = 0 /\ Phase = "open" /\ Phase' = "open" BY <2>1 DEF Taken, Phase
  <2> QED BY <1>3, <2>1, <2>5, <2>6 DEF Abstract!vars, Taken, Phase
<1>8. CASE RejectHeader
  <2>1. pc = "header" /\ pc' = "failed" /\ blocks' = blocks BY <1>8 DEF RejectHeader
  <2>2. /\ Taken = 0 /\ Taken' = 0
        /\ Phase = "open" /\ Phase' = "refused"
    BY <2>1 DEF Taken, Phase
  <2>3. Abstract!Refuse BY <1>3, <2>1, <2>2 DEF Abstract!Refuse, Taken, Phase
  <2> QED BY <2>3 DEF Abstract!Next
<1>9. CASE StoreBlock
  <2>1. pc = "loop" /\ pc' = "loop" BY <1>9 DEF StoreBlock
  <2>2. PICK k \in 1..N + 1 : Before(k) BY <1>0, <2>1 DEF RInv
  <2>3. pos = save.at[k] BY <2>2 DEF Before
  <2>4. ~Ended(k) BY <1>0, <1>9, <2>3, NothingBehindTheCut DEF StoreBlock
  <2>5. k \in 1..N /\ Survives(k) BY <1>1, <2>4 DEF Ended
  <2>6. Before(k + 1)' BY <1>0, <1>1, <1>9, <2>2, <2>5, StoreMovesOn
  <2>7. Taken = k - 1 BY <1>0, <2>1, <2>3, TakenIs
  <2>8. k + 1 \in 1..N' + 1 BY <1>1, <2>5
  <2>9. Taken' = (k + 1) - 1 /\ blocks' = (Abstract!Replay(SurvivingLog, (k + 1) - 1))'
    BY <2>1, <2>6, <2>8 DEF Mapped
  <2>10. Taken' = k /\ blocks' = Abstract!Replay(SurvivingLog, k)
    <3>1. (k + 1) - 1 = k BY <1>1, <2>5
    <3> QED BY <1>3, <2>9, <3>1 DEF Abstract!Replay
  <2>11. k - 1 < Len(l) /\ (k - 1) + 1 = k
    <3>1. k \in Survivors BY <2>5 DEF Survivors, N
    <3> QED BY <1>4, <1>5, <3>1
  <2>12. Phase = "open" /\ Phase' = "open" BY <2>1 DEF Phase
  <2>13. Abstract!Take
    BY <1>3, <2>7, <2>10, <2>11, <2>12 DEF Abstract!Take, Taken, Phase, l
  <2> QED BY <2>13 DEF Abstract!Next
<1>10. CASE BadName
  BY <1>0, <1>10, NeverABadName
<1>11. CASE Leave
  <2>1. pc = "loop" /\ pc' = "done" /\ blocks' = blocks /\ pos' = pos
    BY <1>11 DEF Leave
  <2>2. PICK k \in 1..N + 1 : Before(k) BY <1>0, <2>1 DEF RInv
  <2>3. pos = save.at[k] /\ \A j \in 1..k - 1 : Survives(j) BY <2>2 DEF Before
  <2>4. Ended(k)
    <3> SUFFICES ASSUME ~Ended(k) PROVE FALSE OBVIOUS
    <3>1. k \in 1..N /\ Survives(k) BY <1>1 DEF Ended
    <3>2. BlockAt(raw, pos) BY <1>0, <2>3, <3>1, SurvivorReads
    <3> QED BY <1>11, <3>2 DEF Leave
  <2>5. Len(l) = k - 1
    <3>1. Survivors = 1..k - 1 BY <1>0, <2>3, <2>4, SurvivorsAtTheEnd
    <3> QED BY <1>0, <1>6, <3>1, LogIs DEF l
  <2>6. Taken = k - 1 BY <1>0, <2>1, <2>3, TakenIs
  <2>7. Taken' = Taken BY <1>1, <2>1 DEF Taken
  <2>8. Phase = "open" /\ Phase' = "closed" BY <2>1 DEF Phase
  <2>9. Abstract!Close
    BY <1>3, <2>1, <2>5, <2>6, <2>7, <2>8 DEF Abstract!Close, Taken, Phase, l
  <2> QED BY <2>9 DEF Abstract!Next
<1>12. CASE UNCHANGED rvars
  <2>1. pc' = pc /\ pos' = pos /\ blocks' = blocks BY <1>12 DEF rvars
  <2> QED BY <1>1, <1>3, <2>1 DEF Abstract!vars
<1> QED BY <1>7, <1>8, <1>9, <1>10, <1>11, <1>12 DEF RNext, Next

(* Every behaviour of the byte-level reader replays the log of surviving    *)
(* blocks: one entry per turn of the loop (lines 42-62), the latest of a    *)
(* name winning, refused before the first entry or closed after the last.   *)
(* That it gets to the end is the fairness part of Replays.                 *)
THEOREM ReplaysTheLog ==
  RSpec => Abstract!Init /\ [][Abstract!Next]_Abstract!vars
<1>1. RInit => Abstract!Init
  <2> SUFFICES ASSUME RInit PROVE Abstract!Init OBVIOUS
  <2>1. pc = "header" /\ blocks = [n \in {} |-> <<>>] BY DEF RInit, Init
  <2>2. Taken = 0 /\ Phase = "open" BY <2>1 DEF Taken, Phase
  <2>3. blocks = Abstract!Replay(SurvivingLog, 0)
    <3>1. 1..0 = {} OBVIOUS
    <3> QED BY <2>1, <3>1 DEF Abstract!Replay
  <2> QED BY <2>2, <2>3 DEF Abstract!Init, Taken, Phase
<1> QED BY <1>1, IsMapped, ReplayStep, DictInductive, PTL DEF RSpec
=============================================================================
