-------------------------- MODULE Snes9xParserProofs ------------------------
(***************************************************************************)
(* What the block reader guarantees for every set of files: the types, the  *)
(* attribution of every stored block to a header of the file, and that each *)
(* turn of the loop moves on unless it has read a negative length.          *)
(***************************************************************************)
EXTENDS Snes9xParser, SequenceTheorems, TLAPS

\* Bytes are numbers.
LEMMA ByteNat == Byte \subseteq Nat
BY DEF Byte

(* A slice of a byte string is a byte string, wherever its bounds lie       *)
(* (lines 43, 50 and 61).                                                   *)
LEMMA IndexType ==
  ASSUME NEW S, NEW s \in Seq(S), NEW i \in Int
  PROVE  Index(s, i) \in 0..Len(s)
<1>1. Len(s) \in Nat OBVIOUS
<1> QED BY <1>1 DEF Index

\* The slice itself.
LEMMA SliceType ==
  ASSUME NEW S, NEW s \in Seq(S), NEW i \in Int, NEW j \in Int
  PROVE  Slice(s, i, j) \in Seq(S)
<1> DEFINE b == Index(s, i)
           e == Index(s, j)
<1>1. b \in 0..Len(s) /\ e \in 0..Len(s) BY IndexType
<1> HIDE DEF b, e
<1>2. b + 1 \in Int /\ e \in Int /\ e <= Len(s) BY <1>1
<1>3. SubSeq(s, b + 1, e) \in Seq(S)
  <2>1. \A k \in (b + 1)..e : s[k] \in S BY <1>1, <1>2
  <2> QED BY <2>1, <1>2, SubSeqProperties
<1> QED BY <1>3 DEF Slice, b, e

\* s[i:i+1] for i >= 0 is the byte at position i.
LEMMA ColonIs ==
  ASSUME NEW S, NEW s \in Seq(S), NEW i \in Nat
  PROVE  ColonAt(s, i) <=> i < Len(s) /\ s[i + 1] = Colon
<1> SUFFICES ASSUME i < Len(s)
             PROVE  (Slice(s, i, i + 1) = <<Colon>>) <=> (s[i + 1] = Colon)
  BY DEF ColonAt
<1>1. Len(s) \in Nat OBVIOUS
<1>2. Index(s, i) = i /\ Index(s, i + 1) = i + 1 BY <1>1 DEF Index
<1>3. Slice(s, i, i + 1) = SubSeq(s, i + 1, i + 1) BY <1>2 DEF Slice
<1> DEFINE t == SubSeq(s, i + 1, i + 1)
<1>4. t \in Seq(S) /\ Len(t) = 1 /\ t[1] = s[i + 1]
  <2>1. \A k \in (i + 1)..(i + 1) : s[k] \in S BY <1>1
  <2>2. i + 1 \in Int BY <1>1
  <2> QED BY <1>1, <2>1, <2>2, SubSeqProperties
<1> HIDE DEF t
<1>5. t = <<Colon>> <=> t[1] = Colon
  <2>1. ASSUME t[1] = Colon PROVE t = <<Colon>>
    <3>1. <<Colon>> \in Seq({Colon}) /\ Len(<<Colon>>) = 1 OBVIOUS
    <3>2. \A k \in 1..Len(t) : t[k] = <<Colon>>[k] BY <1>4, <2>1
    <3> QED BY <1>4, <3>1, <3>2, SeqEqual
  <2> QED BY <2>1
<1> QED BY <1>3, <1>4, <1>5 DEF t

(* A decimal field has an integer as its value (line 53).                   *)
LEMMA DigitOfType ==
  ASSUME NEW s, NEW k
  PROVE  DigitOf(s, k) \in Nat
<1> DEFINE c == CHOOSE i \in AtPower(s, k) : TRUE
<1>1. ASSUME AtPower(s, k) # {} PROVE s[c] - 48 \in Nat
  <2>1. c \in AtPower(s, k) BY <1>1
  <2>2. s[c] \in Digit BY <2>1 DEF AtPower, Digits
  <2> QED BY <2>2 DEF Digit
<1> QED BY <1>1 DEF DigitOf

\* Digits that are numbers make a number.
LEMMA MagnitudeType ==
  ASSUME NEW s
  PROVE  Magnitude(s) \in Nat
<1>1. /\ DigitOf(s, 0) \in Nat /\ DigitOf(s, 1) \in Nat /\ DigitOf(s, 2) \in Nat
      /\ DigitOf(s, 3) \in Nat /\ DigitOf(s, 4) \in Nat /\ DigitOf(s, 5) \in Nat
  BY DigitOfType
<1> QED BY <1>1 DEF Magnitude

\* With or without a sign.
LEMMA DecimalType ==
  ASSUME NEW s
  PROVE  Decimal(s) \in Int
<1>1. Magnitude(s) \in Int BY MagnitudeType
<1>2. -Magnitude(s) \in Int BY <1>1
<1> QED BY <1>1, <1>2 DEF Decimal

(* A binary one has a natural number (line 55).                             *)
LEMMA LittleEndianType ==
  ASSUME NEW s \in Seq(Byte)
  PROVE  LittleEndian(s) \in Nat
<1>1. ASSUME NEW k \in Nat
      PROVE  ByteOf(s, k) \in Nat
  <2>1. k < Len(s) => s[k + 1] \in Byte OBVIOUS
  <2> QED BY <2>1, ByteNat DEF ByteOf
<1>2. ByteOf(s, 0) \in Nat /\ ByteOf(s, 1) \in Nat /\ ByteOf(s, 2) \in Nat
  BY <1>1
<1> QED BY <1>2 DEF LittleEndian

\* Whatever stands in the length field, the length is an integer.
LEMMA LengthType ==
  ASSUME NEW s \in Seq(Byte), NEW p \in Int
  PROVE  LengthAt(s, p) \in Int
<1>1. Slice(s, p + NameLength + 1, p + NameLength + 1 + LengthField) \in Seq(Byte)
  <2>1. p + NameLength + 1 \in Int /\ p + NameLength + 1 + LengthField \in Int
    BY DEF NameLength, LengthField
  <2> QED BY <2>1, SliceType
<1> QED BY <1>1, DecimalType, LittleEndianType DEF LengthAt, BlockLength

\* A block header stands within reach of the file's bytes.
LEMMA HeaderInPositions ==
  ASSUME NEW s \in Seq(Byte), NEW p \in Int, BlockAt(s, p)
  PROVE  -(Len(s) + HeaderLength) <= p /\ p < Len(s)
<1> USE DEF HeaderLength, NameLength, LengthField
<1> DEFINE n == Len(s)
           t == Slice(s, p + 3, p + 3 + 1)
<1>1. n \in Nat OBVIOUS
<1>2. p + 3 <= n BY DEF BlockAt, Readable, FitsName
<1>3. t = <<Colon>> BY DEF BlockAt, ColonAt
<1>4. SUFFICES ASSUME p < -(n + 11) PROVE FALSE BY <1>1, <1>2
<1>5. Index(s, p + 3) = 0 /\ Index(s, p + 3 + 1) = 0 BY <1>1, <1>4 DEF Index
<1>6. t = SubSeq(s, 0 + 1, 0) BY <1>5 DEF Slice
<1>7. Len(SubSeq(s, 0 + 1, 0)) = 0 BY SubSeqProperties
<1> HIDE DEF t
<1>8. Len(t) = 1 BY <1>3
<1> QED BY <1>6, <1>7, <1>8

-----------------------------------------------------------------------------
(* Types.  The position is an integer because announced lengths are; names  *)
(* are ASCII because a name is decoded before it is used.                   *)

\* d[k] = v adds one name and changes no other.
LEMMA PutType ==
  ASSUME NEW N, NEW V, NEW d, DOMAIN d \subseteq N, d \in [DOMAIN d -> V],
         NEW k \in N, NEW v \in V
  PROVE  /\ DOMAIN Put(d, k, v) = DOMAIN d \cup {k}
         /\ DOMAIN Put(d, k, v) \subseteq N
         /\ Put(d, k, v) \in [DOMAIN Put(d, k, v) -> V]
BY DEF Put

\* A name that decodes is ASCII.
LEMMA NameType ==
  ASSUME NEW s \in Seq(Byte), NEW p \in Int, AllIn(NameAt(s, p), Ascii)
  PROVE  NameAt(s, p) \in Seq(Ascii)
<1> DEFINE n == NameAt(s, p)
<1>1. n \in Seq(Byte)
  <2>1. p + NameLength \in Int BY DEF NameLength
  <2> QED BY <2>1, SliceType DEF NameAt
<1> HIDE DEF n
<1>2. \A i \in 1..Len(n) : n[i] \in Ascii BY DEF AllIn, n
<1>3. n \in Seq(Ascii)
  <2>1. n = [i \in 1..Len(n) |-> n[i]] BY <1>1
  <2>2. Len(n) \in Nat BY <1>1
  <2> QED BY <1>2, <2>1, <2>2
<1> QED BY <1>3 DEF n

\* A slice of a byte string is one.
LEMMA DataType ==
  ASSUME NEW s \in Seq(Byte), NEW p \in Int
  PROVE  DataAt(s, p) \in Seq(Byte)
<1>1. LengthAt(s, p) \in Int BY LengthType
<1>2. p + HeaderLength \in Int /\ p + HeaderLength + LengthAt(s, p) \in Int
  BY <1>1 DEF HeaderLength, NameLength, LengthField
<1> QED BY <1>2, SliceType DEF DataAt

(* Every file is read into values of the declared types, by line 64 or the  *)
(* exception before it.                                                     *)
THEOREM TypeCorrect == Spec => []TypeOK
<1>1. Init => TypeOK
  BY FilesAssumption DEF Init, TypeOK
<1>2. TypeOK /\ [Next]_vars => TypeOK'
  <2> SUFFICES ASSUME TypeOK, [Next]_vars PROVE TypeOK'
    OBVIOUS
  <2>1. CASE ReadHeader
    <3>1. PICK n \in 0..Len(raw) - 1 :
            /\ HeaderAt(raw, n)
            /\ version' = Decimal(Slice(raw, Len(SNES9X_MAGIC), n))
            /\ pos' = n + 1
      BY <2>1 DEF ReadHeader
    <3>2. version' \in Int BY <3>1, DecimalType
    <3>3. pos' \in Int
      <4>1. n \in Int BY DEF TypeOK
      <4> QED BY <3>1, <4>1
    <3> QED BY <2>1, <3>2, <3>3 DEF ReadHeader, TypeOK
  <2>2. CASE RejectHeader
    BY <2>2 DEF RejectHeader, TypeOK
  <2>3. CASE StoreBlock
    <3> DEFINE n == NameAt(raw, pos)
               d == DataAt(raw, pos)
    <3>1. n \in Seq(Ascii)
      BY <2>3, NameType DEF StoreBlock, BlockAt, Readable, TypeOK
    <3>2. d \in Seq(Byte) BY DataType DEF TypeOK
    <3>3. LengthAt(raw, pos) \in Int BY LengthType DEF TypeOK
    <3> HIDE DEF n, d
    <3>4. blocks' = Put(blocks, n, d) BY <2>3 DEF StoreBlock, n, d
    <3>5. DOMAIN blocks' \subseteq Seq(Ascii) /\ blocks' \in [DOMAIN blocks' -> Seq(Byte)]
      BY <3>1, <3>2, <3>4, PutType DEF TypeOK
    <3>6. pos' \in Int
      BY <2>3, <3>3 DEF StoreBlock, TypeOK, HeaderLength, NameLength, LengthField
    <3> QED BY <2>3, <3>5, <3>6 DEF StoreBlock, TypeOK
  <2>4. CASE BadName
    BY <2>4 DEF BadName, TypeOK
  <2>5. CASE Leave
    BY <2>5 DEF Leave, TypeOK
  <2>6. CASE UNCHANGED vars
    BY <2>6 DEF vars, TypeOK
  <2> QED BY <2>1, <2>2, <2>3, <2>4, <2>5, <2>6 DEF Next
<1> QED BY <1>1, <1>2, PTL DEF Spec

-----------------------------------------------------------------------------
(* Attribution is inductive once it is known that the dict is empty before  *)
(* the header line is accepted: ReadHeader sets pos anew, and any block     *)
(* stored earlier would lose its place before it.                           *)

EmptyBeforeHeader == pc = "header" => DOMAIN blocks = {}

AttributionInv == EmptyBeforeHeader /\ Attribution

\* What a turn of the loop does to the dict.
LEMMA StoredIs ==
  ASSUME StoreBlock
  PROVE  /\ DOMAIN blocks' = DOMAIN blocks \cup {NameAt(raw, pos)}
         /\ blocks'[NameAt(raw, pos)] = DataAt(raw, pos)
         /\ \A n \in DOMAIN blocks \ {NameAt(raw, pos)} : blocks'[n] = blocks[n]
BY DEF StoreBlock, Put

\* A turn of the loop keeps every block attributed to a header.
LEMMA StoreAttributes ==
  ASSUME TypeOK, Attribution, StoreBlock
  PROVE  \A n \in DOMAIN blocks' : \E p \in Positions' : StoredFrom(n, p)'
<1>1. raw' = raw /\ Positions' = Positions BY DEF StoreBlock, Positions
<1>2. BlockAt(raw, pos) /\ pos \in Positions
  <2>1. BlockAt(raw, pos) /\ raw \in Seq(Byte) /\ pos \in Int
    BY DEF StoreBlock, TypeOK
  <2>2. -(Len(raw) + HeaderLength) <= pos /\ pos < Len(raw)
    BY <2>1, HeaderInPositions
  <2>3. Len(raw) \in Nat BY <2>1
  <2> QED BY <2>1, <2>2, <2>3 DEF Positions, HeaderLength, NameLength, LengthField
<1> SUFFICES ASSUME NEW n \in DOMAIN blocks'
             PROVE  \E p \in Positions : StoredFrom(n, p)'
  BY <1>1
<1>3. CASE n = NameAt(raw, pos)
  <2> DEFINE Here(p) == /\ BlockAt(raw, p)
                        /\ NameAt(raw, p) = n
                        /\ DataAt(raw, p) = blocks'[n]
  <2>1. Here(pos) BY <1>2, <1>3, StoredIs
  <2>2. \A p : StoredFrom(n, p)' <=> Here(p) BY <1>1 DEF StoredFrom
  <2> QED BY <1>2, <2>1, <2>2
<1>4. CASE n # NameAt(raw, pos)
  <2>1. n \in DOMAIN blocks /\ blocks'[n] = blocks[n] BY <1>4, StoredIs
  <2>2. PICK p \in Positions : StoredFrom(n, p) BY <2>1 DEF Attribution
  <2> QED BY <1>1, <2>1, <2>2 DEF StoredFrom
<1> QED BY <1>3, <1>4

\* And where no length is negative, to one before the position.
LEMMA StoreMovesForward ==
  ASSUME TypeOK, Attribution, StoreBlock, ~GoesBack
  PROVE  /\ pos' >= 0
         /\ \A n \in DOMAIN blocks' :
              \E p \in 0..pos' - 1 :
                /\ StoredFrom(n, p)'
                /\ p + HeaderLength + LengthAt(raw, p) <= pos'
<1> DEFINE len == LengthAt(raw, pos)
           Here(n, p) == /\ BlockAt(raw, p)
                         /\ NameAt(raw, p) = n
                         /\ DataAt(raw, p) = blocks'[n]
<1>1. raw \in Seq(Byte) /\ Len(raw) \in Nat /\ raw' = raw BY DEF TypeOK, StoreBlock
<1>2. pos \in Nat BY DEF TypeOK, Attribution
<1>3. BlockAt(raw, pos) /\ pos < Len(raw)
  <2>1. BlockAt(raw, pos) BY DEF StoreBlock
  <2> QED BY <1>1, <1>2, <2>1, HeaderInPositions
<1>4. len \in Nat
  <2>1. len \in Int BY <1>1, <1>2, LengthType
  <2>2. pos \in 0..Len(raw) - 1 BY <1>1, <1>2, <1>3
  <2>3. ~ len < 0 BY <1>3, <2>2 DEF GoesBack
  <2> QED BY <2>1, <2>3
<1>5. HeaderLength = 11 BY DEF HeaderLength, NameLength, LengthField
<1>6. pos' = pos + 11 + len BY <1>5 DEF StoreBlock
<1>7. \A n, p : StoredFrom(n, p)' <=> Here(n, p) BY <1>1 DEF StoredFrom
<1> HIDE DEF len
<1>8. pos' >= 0 BY <1>2, <1>4, <1>6
<1> SUFFICES ASSUME NEW n \in DOMAIN blocks'
             PROVE  \E p \in 0..pos' - 1 :
                      Here(n, p) /\ p + HeaderLength + LengthAt(raw, p) <= pos'
  BY <1>7, <1>8
<1>9. CASE n = NameAt(raw, pos)
  <2>1. Here(n, pos) BY <1>3, <1>9, StoredIs
  <2>2. pos \in 0..pos' - 1 BY <1>2, <1>4, <1>6
  <2>3. pos + HeaderLength + LengthAt(raw, pos) <= pos'
    BY <1>2, <1>4, <1>5, <1>6 DEF len
  <2> HIDE DEF Here
  <2> QED BY <2>1, <2>2, <2>3
<1>10. CASE n # NameAt(raw, pos)
  <2>1. n \in DOMAIN blocks /\ blocks'[n] = blocks[n] BY <1>10, StoredIs
  <2>2. PICK p \in 0..pos - 1 :
          StoredFrom(n, p) /\ p + HeaderLength + LengthAt(raw, p) <= pos
    BY <2>1 DEF Attribution
  <2>3. Here(n, p) BY <2>1, <2>2 DEF StoredFrom
  <2>4. p \in 0..pos' - 1 BY <1>2, <1>4, <1>6
  <2>5. LengthAt(raw, p) \in Int BY <1>1, <2>4, LengthType
  <2>6. p + HeaderLength + LengthAt(raw, p) <= pos'
    BY <1>2, <1>4, <1>5, <1>6, <2>2, <2>5
  <2> HIDE DEF Here
  <2> QED BY <2>3, <2>4, <2>6
<1> QED BY <1>9, <1>10

(* Every block that parse_snes9x has stored has name and data from one      *)
(* header of the file, and where no length is negative that header and its  *)
(* data stand before the position of the loop.                              *)
THEOREM BlocksAttributed == Spec => []Attribution
<1>1. Init => AttributionInv
  <2> SUFFICES ASSUME Init PROVE AttributionInv OBVIOUS
  <2>1. DOMAIN blocks = {} /\ pos = 0 BY DEF Init
  <2>2. EmptyBeforeHeader BY <2>1 DEF EmptyBeforeHeader
  <2>3. Attribution BY <2>1 DEF Attribution
  <2> QED BY <2>2, <2>3 DEF AttributionInv
<1>2. TypeOK /\ AttributionInv /\ [Next]_vars => AttributionInv'
  <2> SUFFICES ASSUME TypeOK, AttributionInv, [Next]_vars PROVE AttributionInv'
    OBVIOUS
  <2>1. CASE ReadHeader
    <3>1. DOMAIN blocks = {} /\ blocks' = blocks /\ pc' = "loop"
      BY <2>1 DEF ReadHeader, AttributionInv, EmptyBeforeHeader
    <3>2. pos' >= 0
      <4>1. PICK n \in 0..Len(raw) - 1 : pos' = n + 1 BY <2>1 DEF ReadHeader
      <4>2. n \in Nat BY DEF TypeOK
      <4> QED BY <4>1, <4>2
    <3> QED BY <3>1, <3>2 DEF AttributionInv, EmptyBeforeHeader, Attribution
  <2>2. CASE StoreBlock
    <3>1. pc' = "loop" /\ (GoesBack' <=> GoesBack) /\ raw' = raw
      BY <2>2 DEF StoreBlock, GoesBack
    <3>2. Attribution BY DEF AttributionInv
    <3>3. \A n \in DOMAIN blocks' : \E p \in Positions' : StoredFrom(n, p)'
      BY <2>2, <3>2, StoreAttributes
    <3>4. ~GoesBack' =>
            /\ pos' >= 0
            /\ \A n \in DOMAIN blocks' :
                 \E p \in 0..pos' - 1 :
                   /\ StoredFrom(n, p)'
                   /\ p + HeaderLength + LengthAt(raw, p) <= pos'
      BY <2>2, <3>1, <3>2, StoreMovesForward
    <3>5. Attribution' BY <3>1, <3>3, <3>4 DEF Attribution
    <3> QED BY <3>1, <3>5 DEF AttributionInv, EmptyBeforeHeader
  <2>3. CASE RejectHeader \/ BadName \/ Leave \/ UNCHANGED vars
    <3>1. UNCHANGED <<raw, blocks, pos>> /\ (pc' = "header" => pc = "header")
      BY <2>3 DEF RejectHeader, BadName, Leave, vars
    <3> QED BY <3>1 DEF AttributionInv, EmptyBeforeHeader, Attribution,
                        StoredFrom, GoesBack, Positions
  <2> QED BY <2>1, <2>2, <2>3 DEF Next
<1>3. AttributionInv => Attribution BY DEF AttributionInv
<1> QED BY <1>1, <1>2, <1>3, TypeCorrect, PTL DEF Spec

(* Each turn of the loop that has read no negative length moves on by at    *)
(* least a block header; and any turn leaves all other names of the dict    *)
(* alone.                                                                   *)
THEOREM LoopMovesOn == Spec => LoopAdvances
<1> DEFINE Step == pc = "loop" /\ pc' = "loop" =>
                     /\ LengthAt(raw, pos) >= 0 => pos' >= pos + HeaderLength
                     /\ \A n \in DOMAIN blocks \ {NameAt(raw, pos)} :
                          n \in DOMAIN blocks' /\ blocks'[n] = blocks[n]
<1>1. TypeOK /\ [Next]_vars => [Step]_vars
  <2> SUFFICES ASSUME TypeOK, Next, pc = "loop", pc' = "loop" PROVE Step
    OBVIOUS
  <2>1. StoreBlock
    BY DEF Next, ReadHeader, RejectHeader, BadName, Leave
  <2>2. LengthAt(raw, pos) \in Int /\ pos \in Int
    BY LengthType DEF TypeOK
  <2>3. HeaderLength \in Nat BY DEF HeaderLength, NameLength, LengthField
  <2>4. LengthAt(raw, pos) >= 0 => pos' >= pos + HeaderLength
    BY <2>1, <2>2, <2>3 DEF StoreBlock
  <2>5. \A n \in DOMAIN blocks \ {NameAt(raw, pos)} :
          n \in DOMAIN blocks' /\ blocks'[n] = blocks[n]
    BY <2>1, StoredIs
  <2> QED BY <2>4, <2>5
<1> QED BY <1>1, TypeCorrect, PTL DEF Spec, LoopAdvances
=============================================================================
