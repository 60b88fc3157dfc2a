---------------------------- MODULE PcbCodecProofs ----------------------------
(***************************************************************************)
(* The parallel encoder of the wire format makes, in whatever order its    *)
(* tasks run and however the columns are cut into parts, the bytes the     *)
(* serial encoder makes; and no two of its writes ever meet.               *)
(*                                                                         *)
(* From the bottom up, on what RecursionProofs says of concatenations: the *)
(* buffers of a column, and of its parts; what the copies of a task write; *)
(* where both encoders put a column; the buffers of both, byte by byte;    *)
(* and the invariant of the tasks, which says that a byte is the serial    *)
(* encoder's or has a copy pending that will make it so.                   *)
(***************************************************************************)
EXTENDS PcbCodec, RecursionProofs, SequenceTheorems

\* One sequence is its concatenation.
LEMMA FlattenOne ==
    ASSUME NEW S, NEW s, s \in Seq(S)
    PROVE  FlattenSeq(<<s>>) = s
PROOF
<1>1. PICK one : one = <<s>>
  OBVIOUS
<1>2. one \in Seq(Seq(S)) /\ Len(one) = 1 /\ one[1] = s
  BY <1>1
<1>3. InTurn(S, one, 1)
  BY <1>2, FlattenUpto
<1>4. Upto(one, 1) = Upto(one, 0) \o s /\ Upto(one, 0) = <<>> /\ Upto(one, 1) = FlattenSeq(one)
  <2>1. 1 \in 1..1 /\ 1 - 1 = 0
    OBVIOUS
  <2>2. Upto(one, 1) = Upto(one, 1 - 1) \o one[1]
    BY ONLY <1>3, <2>1 DEF InTurn
  <2> QED
    BY <1>2, <1>3, <2>1, <2>2 DEF InTurn
<1> QED
  BY <1>1, <1>4

\* Sequences as long as each other.
AllOf(seqs, n, w) == \A i \in 1..n : Len(seqs[i]) = w

\* Sequences of one length come at its multiples.
LEMMA FlattenEven ==
    ASSUME NEW S, NEW seqs, seqs \in Seq(Seq(S)), NEW n, n = Len(seqs), NEW w \in Nat,
           AllOf(seqs, n, w)
    PROVE  (\A k \in 0..n : Length(seqs, k) = w * k) /\ Len(FlattenSeq(seqs)) = w * n
PROOF
<1>1. n \in Nat /\ InPlace(seqs, n, FlattenSeq(seqs))
  BY FlattenPlaces
<1>2. PICK P : P = {k \in 0..n : Length(seqs, k) = w * k}
  OBVIOUS
<1>3. 0 \in P
  BY <1>1, <1>2 DEF InPlace
<1>4. ASSUME NEW i \in 1..n, i - 1 \in P PROVE i \in P
  <2>1. i \in 0..n /\ i \in Nat
    BY <1>1
  <2>2. Length(seqs, i) = Length(seqs, i - 1) + w
    BY <1>1 DEF InPlace, AllOf
  <2>3. Length(seqs, i - 1) = w * (i - 1)
    BY <1>2, <1>4
  <2>4. w * (i - 1) + w = w * i
    BY <2>1
  <2> QED
    BY <1>2, <2>1, <2>2, <2>3, <2>4
<1>5. 0..n \subseteq P
  BY ONLY <1>1, <1>3, <1>4, UpTo
<1>6. Length(seqs, n) = Len(FlattenSeq(seqs)) /\ n \in 0..n
  BY <1>1 DEF InPlace
<1> QED
  BY <1>2, <1>5, <1>6

\* The first of two sequences of sequences, and then of the second.
LengthBehind(c, a, n, b, m) ==
    /\ \A k \in 0..n : Length(c, k) = Length(a, k)
    /\ \A k \in 0..m : Length(c, n + k) = Len(FlattenSeq(a)) + Length(b, k)

\* Lengths in a concatenation of lists count on from the first list's.
LEMMA LengthConcat ==
    ASSUME NEW S, NEW a, a \in Seq(Seq(S)), NEW b, b \in Seq(Seq(S)),
           NEW n, n = Len(a), NEW m, m = Len(b), NEW c, c = a \o b
    PROVE  LengthBehind(c, a, n, b, m)
PROOF
<1>1. /\ c \in Seq(Seq(S)) /\ Len(c) = n + m /\ n \in Nat /\ m \in Nat
      /\ \A i \in 1..n : c[i] = a[i]
      /\ \A i \in 1..m : c[n + i] = b[i]
  OBVIOUS
<1>2. ASSUME NEW k \in 0..n PROVE Length(c, k) = Length(a, k)
  <2>1. PICK x, y : x = SubSeq(c, 1, k) /\ y = SubSeq(a, 1, k)
    OBVIOUS
  <2>2. /\ x \in Seq(Seq(S)) /\ Len(x) = k /\ \A i \in 1..k : x[i] = c[i]
    BY <1>1, <2>1
  <2>3. /\ y \in Seq(Seq(S)) /\ Len(y) = k /\ \A i \in 1..k : y[i] = a[i]
    BY <1>1, <2>1
  <2>4. 1..k \subseteq 1..n
    BY <1>1
  <2>5. x = y
    BY <1>1, <2>2, <2>3, <2>4, SeqEqual
  <2> QED
    BY <2>1, <2>5 DEF Length, Upto
<1>3. ASSUME NEW k \in 0..m PROVE Length(c, n + k) = Len(FlattenSeq(a)) + Length(b, k)
  <2>1. PICK x, y, z, l : x = SubSeq(c, 1, l) /\ y = SubSeq(b, 1, k) /\ z = a \o y /\ l = n + k
    OBVIOUS
  <2>2. l \in 0..(n + m) /\ l \in Nat
    BY <1>1, <2>1
  <2>3. /\ x \in Seq(Seq(S)) /\ Len(x) = l /\ \A i \in 1..l : x[i] = c[i]
    BY <1>1, <2>1, <2>2
  <2>4. /\ y \in Seq(Seq(S)) /\ Len(y) = k /\ \A i \in 1..k : y[i] = b[i]
    BY <1>1, <2>1
  <2>5. /\ z \in Seq(Seq(S)) /\ Len(z) = l /\ \A i \in 1..n : z[i] = a[i]
        /\ \A i \in 1..k : z[n + i] = y[i]
    BY <2>1, <2>4
  <2>6. ASSUME NEW i \in 1..l PROVE x[i] = z[i]
    <3>1. CASE i \in 1..n
      BY <1>1, <2>3, <2>5, <3>1
    <3>2. CASE i \notin 1..n
      <4>1. PICK j \in 1..k : i = n + j
        <5>1. i - n \in 1..k /\ i = n + (i - n)
          BY <1>1, <2>1, <3>2
        <5> QED
          BY <5>1
      <4>2. j \in 1..m
        BY <1>1
      <4>3. x[i] = c[n + j] /\ c[n + j] = b[j]
        BY <1>1, <2>3, <4>1, <4>2
      <4>4. z[i] = y[j] /\ y[j] = b[j]
        BY <2>4, <2>5, <4>1
      <4> QED
        BY <4>3, <4>4
    <3> QED
      BY <3>1, <3>2
  <2>7. x = z
    BY <2>3, <2>5, <2>6, SeqEqual
  <2>8. FlattenSeq(z) = FlattenSeq(a) \o FlattenSeq(y)
    <3>1. FlattenSeq(a \o y) = FlattenSeq(a) \o FlattenSeq(y)
      BY ONLY <2>4, a \in Seq(Seq(S)), FlattenConcat
    <3> QED
      BY <2>1, <3>1
  <2>9. FlattenSeq(a) \in Seq(S) /\ FlattenSeq(y) \in Seq(S)
    BY <2>4, FlattenType
  <2>10. Len(FlattenSeq(z)) = Len(FlattenSeq(a)) + Len(FlattenSeq(y))
    BY <2>8, <2>9
  <2> QED
    BY <2>1, <2>7, <2>10 DEF Length, Upto
<1> QED
  BY <1>2, <1>3 DEF LengthBehind

-----------------------------------------------------------------------------
(* Numbers and offsets. *)

\* A number as bytes is as many bytes as it is wide.
LEMMA LittleBytes ==
    ASSUME NEW n \in Nat, NEW w \in Nat
    PROVE  Little(n, w) \in Seq(Bytes) /\ Len(Little(n, w)) = w
PROOF
<1>1. \A i \in 1..w : (IF i > 3 THEN 0 ELSE (n \div Place[i]) % 256) \in Bytes
  <2> TAKE i \in 1..w
  <2>1. i > 3 \/ i = 1 \/ i = 2 \/ i = 3
    OBVIOUS
  <2>2. Place[1] = 1 /\ Place[2] = 256 /\ Place[3] = 65536
    BY DEF Place
  <2>3. (n \div 1) % 256 \in 0..255 /\ (n \div 256) % 256 \in 0..255 /\ (n \div 65536) % 256 \in 0..255
    OBVIOUS
  <2> QED
    BY <2>1, <2>2, <2>3 DEF Bytes
<1>2. Little(n, w) \in [1..w -> Bytes]
  BY <1>1 DEF Little
<1> QED
  BY <1>2

\* The widths in use: 8 bytes, and 4.
LEMMA LittleWidths ==
    /\ \A n \in Nat : Little(n, 8) \in Seq(Bytes) /\ Len(Little(n, 8)) = 8
    /\ \A n \in Nat : Little(n, 4) \in Seq(Bytes) /\ Len(Little(n, 4)) = 4
PROOF
<1>1. 8 \in Nat /\ 4 \in Nat
  OBVIOUS
<1> QED
  BY ONLY <1>1, LittleBytes

\* Numbers of eight bytes.
Eights(numbers) == FlattenSeq([i \in DOMAIN numbers |-> Little(numbers[i], 8)])

\* A number is 8 bytes.
LEMMA EightsLength ==
    ASSUME NEW s, s \in Seq(Nat)
    PROVE  Eights(s) \in Seq(Bytes) /\ Len(Eights(s)) = 8 * Len(s)
PROOF
<1>1. PICK m : m = [i \in DOMAIN s |-> Little(s[i], 8)]
  OBVIOUS
<1>2. PICK n \in Nat : n = Len(s) /\ DOMAIN s = 1..n
  OBVIOUS
<1>3. \A i \in 1..n : m[i] \in Seq(Bytes) /\ Len(m[i]) = 8
  <2> TAKE i \in 1..n
  <2>1. s[i] \in Nat /\ m[i] = Little(s[i], 8)
    BY <1>1, <1>2
  <2> QED
    BY <2>1, LittleWidths
<1>4. m \in Seq(Seq(Bytes)) /\ Len(m) = n
  BY <1>1, <1>2, <1>3
<1>5. FlattenSeq(m) \in Seq(Bytes) /\ Len(FlattenSeq(m)) = 8 * n
  <2>1. FlattenSeq(m) \in Seq(Bytes)
    BY <1>4, FlattenType
  <2>2. Len(FlattenSeq(m)) = 8 * n
    <3>1. PICK w \in Nat : w = 8
      OBVIOUS
    <3>2. AllOf(m, n, w)
      BY <1>3, <3>1 DEF AllOf
    <3>3. Len(FlattenSeq(m)) = w * n
    BY ONLY <1>4, <3>1, <3>2, FlattenEven
    <3> QED
      BY <3>1, <3>3
  <2> QED
    BY <2>1, <2>2
<1> QED
  BY <1>1, <1>2, <1>5 DEF Eights

\* Numbers can be written part by part.
LEMMA EightsConcat ==
    ASSUME NEW a, a \in Seq(Nat), NEW b, b \in Seq(Nat)
    PROVE  Eights(a \o b) = Eights(a) \o Eights(b)
PROOF
<1>1. PICK n \in Nat, m \in Nat : n = Len(a) /\ m = Len(b) /\ DOMAIN a = 1..n /\ DOMAIN b = 1..m
  OBVIOUS
<1>2. PICK c : c = a \o b
  OBVIOUS
<1>3. /\ c \in Seq(Nat) /\ Len(c) = n + m /\ DOMAIN c = 1..(n + m)
      /\ \A i \in 1..n : c[i] = a[i]
      /\ \A i \in 1..m : c[n + i] = b[i]
  BY <1>1, <1>2
<1>4. PICK x, y, z : /\ x = [i \in DOMAIN a |-> Little(a[i], 8)]
                     /\ y = [i \in DOMAIN b |-> Little(b[i], 8)]
                     /\ z = [i \in DOMAIN c |-> Little(c[i], 8)]
  OBVIOUS
<1>5. x \in Seq(Seq(Bytes)) /\ Len(x) = n /\ \A i \in 1..n : x[i] = Little(a[i], 8)
  <2>1. \A i \in 1..n : a[i] \in Nat /\ Little(a[i], 8) \in Seq(Bytes)
    BY <1>1, LittleWidths
  <2> QED
    BY <1>1, <1>4, <2>1
<1>6. y \in Seq(Seq(Bytes)) /\ Len(y) = m /\ \A i \in 1..m : y[i] = Little(b[i], 8)
  <2>1. \A i \in 1..m : b[i] \in Nat /\ Little(b[i], 8) \in Seq(Bytes)
    BY <1>1, LittleWidths
  <2> QED
    BY <1>1, <1>4, <2>1
<1>7. z \in Seq(Seq(Bytes)) /\ Len(z) = n + m /\ \A i \in 1..(n + m) : z[i] = Little(c[i], 8)
  <2>1. \A i \in 1..(n + m) : c[i] \in Nat /\ Little(c[i], 8) \in Seq(Bytes)
    BY <1>3, LittleWidths
  <2> QED
    BY <1>1, <1>3, <1>4, <2>1
<1>8. z = x \o y
  <2>1. PICK w : w = x \o y
    OBVIOUS
  <2>2. /\ w \in Seq(Seq(Bytes)) /\ Len(w) = n + m
        /\ \A i \in 1..n : w[i] = x[i]
        /\ \A i \in 1..m : w[n + i] = y[i]
    <3>1. w \in Seq(Seq(Bytes)) /\ AndThen(w, x, n, y, m)
      BY ONLY <1>5, <1>6, <2>1, ConcatIs
    <3> QED
      BY <3>1 DEF AndThen
  <2>3. ASSUME NEW i \in 1..(n + m) PROVE z[i] = w[i]
    <3>1. CASE i \in 1..n
      BY <1>3, <1>5, <1>7, <2>2, <3>1
    <3>2. CASE i \notin 1..n
      <4>1. PICK j \in 1..m : i = n + j
        <5>1. i - n \in 1..m /\ i = n + (i - n)
          BY <1>1, <3>2
        <5> QED
          BY <5>1
      <4> QED
        BY <1>3, <1>6, <1>7, <2>2, <4>1
    <3> QED
      BY <3>1, <3>2
  <2> QED
    BY <1>7, <2>1, <2>2, <2>3, SeqEqual
<1>9. FlattenSeq(z) = FlattenSeq(x) \o FlattenSeq(y)
  BY <1>5, <1>6, <1>8, FlattenConcat
<1> QED
  BY <1>2, <1>4, <1>9 DEF Eights

\* Each offset is the number of characters before it.
LEMMA OffsetsAre ==
    ASSUME NEW S, NEW texts, texts \in Seq(Seq(S)), NEW n, n = Len(texts)
    PROVE  /\ DOMAIN Offsets(texts) = 1..(n + 1)
           /\ \A i \in 0..n : Offsets(texts)[i + 1] = Length(texts, i) /\ Length(texts, i) \in Nat
PROOF
<1>1. n \in Nat /\ InPlace(texts, n, FlattenSeq(texts))
  BY FlattenPlaces
<1>2. ASSUME NEW i \in 0..n PROVE Offsets(texts)[i + 1] = Length(texts, i)
  <2>1. i + 1 \in 1..(Len(texts) + 1) /\ (i + 1) - 1 = i
    BY <1>1
  <2>2. Offsets(texts)[i + 1] = Len(FlattenSeq(SubSeq(texts, 1, (i + 1) - 1)))
    BY <2>1 DEF Offsets
  <2> QED
    BY <2>1, <2>2 DEF Length, Upto
<1> QED
  BY <1>1, <1>2 DEF InPlace, Offsets

\* The ends of the texts, counted from shift, in four bytes each.
FourSeq(texts, shift) == [i \in 1..Len(texts) |-> Little(Offsets(texts)[i + 1] + shift, 4)]
Fours(texts, shift) == FlattenSeq(FourSeq(texts, shift))

FourSeqIs(m, texts, n, shift) ==
    /\ m \in Seq(Seq(Bytes)) /\ Len(m) = n /\ AllOf(m, n, 4)
    /\ \A i \in 1..n : m[i] = Little(Length(texts, i) + shift, 4)

\* Each text's end, in 4 bytes.
LEMMA FourSeqMade ==
    ASSUME NEW texts, texts \in Seq(Seq(Bytes)), NEW shift \in Nat, NEW n, n = Len(texts)
    PROVE  FourSeqIs(FourSeq(texts, shift), texts, n, shift)
PROOF
<1>1. n \in Nat
  OBVIOUS
<1>2. PICK m : m = FourSeq(texts, shift)
  OBVIOUS
<1>3. ASSUME NEW i \in 1..n
      PROVE  /\ m[i] = Little(Length(texts, i) + shift, 4) /\ m[i] \in Seq(Bytes) /\ Len(m[i]) = 4
  <2>1. i \in 0..n
    BY <1>1
  <2>2. Offsets(texts)[i + 1] = Length(texts, i) /\ Length(texts, i) \in Nat
    BY <2>1, OffsetsAre
  <2>3. m[i] = Little(Length(texts, i) + shift, 4)
    BY <1>2, <2>2 DEF FourSeq
  <2>4. PICK v \in Nat : v = Length(texts, i) + shift
    BY <2>2
  <2> QED
    BY <2>3, <2>4, LittleWidths
<1>4. m = [i \in 1..n |-> m[i]]
  BY <1>2 DEF FourSeq
<1>5. m \in Seq(Seq(Bytes)) /\ Len(m) = n
  BY <1>1, <1>3, <1>4
<1> QED
  BY <1>2, <1>3, <1>5 DEF FourSeqIs, AllOf

\* An offset is 4 bytes.
LEMMA FoursLength ==
    ASSUME NEW texts, texts \in Seq(Seq(Bytes)), NEW shift \in Nat
    PROVE  Fours(texts, shift) \in Seq(Bytes) /\ Len(Fours(texts, shift)) = 4 * Len(texts)
PROOF
<1>1. PICK n, m : n = Len(texts) /\ m = FourSeq(texts, shift)
  OBVIOUS
<1>2. n \in Nat /\ FourSeqIs(m, texts, n, shift)
  BY <1>1, FourSeqMade
<1>3. m \in Seq(Seq(Bytes)) /\ Len(m) = n /\ AllOf(m, n, 4)
  BY <1>2 DEF FourSeqIs
<1>4. FlattenSeq(m) \in Seq(Bytes)
  BY <1>3, FlattenType
<1>5. PICK w \in Nat : w = 4
  OBVIOUS
<1>6. Len(FlattenSeq(m)) = w * n
  <2>1. AllOf(m, n, w)
    BY <1>3, <1>5
  <2> QED
    BY ONLY <1>3, <1>5, <2>1, FlattenEven
<1> QED
  BY <1>1, <1>4, <1>5, <1>6 DEF Fours

\* Ends can be written part by part, shifted by the characters before.
LEMMA FoursConcat ==
    ASSUME NEW a, a \in Seq(Seq(Bytes)), NEW b, b \in Seq(Seq(Bytes)), NEW sh \in Nat
    PROVE  Fours(a \o b, sh) = Fours(a, sh) \o Fours(b, Len(FlattenSeq(a)) + sh)
PROOF
<1>1. PICK n, m, c, l : n = Len(a) /\ m = Len(b) /\ c = a \o b /\ l = Len(FlattenSeq(a))
  OBVIOUS
<1>2. c \in Seq(Seq(Bytes)) /\ AndThen(c, a, n, b, m)
  <2>1. PICK T : T = Seq(Bytes)
    OBVIOUS
  <2>2. c \in Seq(T) /\ AndThen(c, a, n, b, m)
    BY <1>1, <2>1, ConcatIs
  <2> QED
    BY <2>1, <2>2
<1>3. n \in Nat /\ m \in Nat /\ Len(c) = n + m
  BY <1>2 DEF AndThen
<1>4. l \in Nat
  <2>1. FlattenSeq(a) \in Seq(Bytes)
    BY FlattenType
  <2> QED
    BY <1>1, <2>1
<1>5. PICK x, y, z, t : /\ x = FourSeq(a, sh) /\ y = FourSeq(b, t) /\ z = FourSeq(c, sh)
                        /\ t = l + sh /\ t \in Nat
  BY <1>4
<1>6. FourSeqIs(x, a, n, sh) /\ FourSeqIs(y, b, m, t) /\ FourSeqIs(z, c, n + m, sh)
  BY <1>1, <1>2, <1>3, <1>5, FourSeqMade
<1>6a. /\ \A k \in 0..n : Length(c, k) = Length(a, k)
      /\ \A k \in 0..m : Length(c, n + k) = l + Length(b, k)
  <2>1. LengthBehind(c, a, n, b, m)
    BY ONLY <1>1, a \in Seq(Seq(Bytes)), b \in Seq(Seq(Bytes)), LengthConcat
  <2> QED
    BY <1>1, <2>1 DEF LengthBehind
<1>7. PICK w : w = x \o y
  OBVIOUS
<1>8. w \in Seq(Seq(Bytes)) /\ AndThen(w, x, n, y, m)
  <2>1. x \in Seq(Seq(Bytes)) /\ y \in Seq(Seq(Bytes)) /\ n = Len(x) /\ m = Len(y)
    BY <1>6 DEF FourSeqIs
  <2> QED
    BY ONLY <1>7, <2>1, ConcatIs
<1>9. ASSUME NEW i \in 1..(n + m) PROVE z[i] = w[i]
  <2>1. CASE i \in 1..n
    <3>1. i \in 0..n
      BY <1>3, <2>1
    <3>2. Length(c, i) = Length(a, i)
      BY <1>6a, <3>1
    <3>3. z[i] = Little(Length(c, i) + sh, 4) /\ x[i] = Little(Length(a, i) + sh, 4)
      BY <1>6, <2>1 DEF FourSeqIs
    <3>4. w[i] = x[i]
      BY <1>8, <2>1 DEF AndThen
    <3> QED
      BY <3>2, <3>3, <3>4
  <2>2. CASE i \notin 1..n
    <3>1. PICK j \in 1..m : i = n + j
      <4>1. i - n \in 1..m /\ i = n + (i - n)
        BY <1>3, <2>2
      <4> QED
        BY <4>1
    <3>2. j \in 0..m
      BY <1>3
    <3>3. Length(c, n + j) = l + Length(b, j)
      BY <1>6a, <3>2
    <3>4. z[i] = Little(Length(c, i) + sh, 4) /\ y[j] = Little(Length(b, j) + t, 4)
      BY <1>6, <3>1 DEF FourSeqIs
    <3>5. w[i] = y[j]
      BY <1>8, <3>1 DEF AndThen
    <3>6. Length(b, j) \in Nat
      BY <1>1, <3>2, OffsetsAre
    <3>7. (l + Length(b, j)) + sh = Length(b, j) + t
      BY <1>4, <1>5, <3>6
    <3> QED
      BY <3>1, <3>3, <3>4, <3>5, <3>7
  <2> QED
    BY <2>1, <2>2
<1>10. z = w
  <2>1. z \in Seq(Seq(Bytes)) /\ Len(z) = n + m /\ Len(w) = n + m
    BY <1>6, <1>8 DEF FourSeqIs, AndThen
  <2> QED
    BY <1>8, <1>9, <2>1, SeqEqual
<1>11. FlattenSeq(x \o y) = FlattenSeq(x) \o FlattenSeq(y)
  <2>1. x \in Seq(Seq(Bytes)) /\ y \in Seq(Seq(Bytes))
    BY <1>6 DEF FourSeqIs
  <2> QED
    BY ONLY <2>1, FlattenConcat
<1> QED
  BY <1>1, <1>5, <1>7, <1>10, <1>11 DEF Fours

-----------------------------------------------------------------------------
(* What the parts of a column are made into is what the whole column is. *)

\* Parts of numbers.
NumberBlocks(blocks, parts, n) ==
    /\ blocks \in Seq(Seq(Bytes)) /\ Len(blocks) = n
    /\ FlattenSeq(blocks) = Eights(FlattenSeq(parts))
    /\ \A k \in 0..n : Length(blocks, k) = 8 * Length(parts, k)

\* The numbers of the parts, one after the other, are those of the column.
LEMMA EightsOfParts ==
    ASSUME NEW parts, parts \in Seq(Seq(Nat)), NEW n, n = Len(parts),
           NEW blocks, blocks = [k \in 1..n |-> Eights(parts[k])]
    PROVE  NumberBlocks(blocks, parts, n)
PROOF
<1>1. n \in Nat /\ InTurn(Nat, parts, n)
  BY FlattenUpto
<1>2. \A k \in 1..n : parts[k] \in Seq(Nat) /\ Eights(parts[k]) \in Seq(Bytes)
  <2> TAKE k \in 1..n
  <2>1. parts[k] \in Seq(Nat)
    BY <1>1 DEF InTurn
  <2> QED
    BY <2>1, EightsLength
<1>3. blocks \in Seq(Seq(Bytes)) /\ Len(blocks) = n
  BY <1>1, <1>2
<1>4. PICK G : G = [k \in 0..n |-> Eights(Upto(parts, k))]
  OBVIOUS
<1>5. \A k \in 0..n : Upto(parts, k) \in Seq(Nat) /\ G[k] \in Seq(Bytes) /\ Len(G[k]) = 8 * Length(parts, k)
  <2> TAKE k \in 0..n
  <2>1. Upto(parts, k) \in Seq(Nat) /\ G[k] = Eights(Upto(parts, k))
    BY <1>1, <1>4 DEF InTurn
  <2> QED
    BY <2>1, EightsLength DEF Length
<1>6. G[0] = <<>>
  <2>1. 0 \in 0..n /\ Upto(parts, 0) = <<>> /\ Len(<<>>) = 0
    BY <1>1 DEF InTurn
  <2>2. Len(G[0]) = 0 /\ G[0] \in Seq(Bytes)
    BY <1>5, <2>1 DEF Length
  <2> QED
    BY <2>2, EmptySeq
<1>7. ASSUME NEW k \in 1..n PROVE G[k] = G[k - 1] \o blocks[k]
  <2>1. k - 1 \in 0..n /\ k \in 0..n
    BY <1>1
  <2>2. Upto(parts, k) = Upto(parts, k - 1) \o parts[k]
    BY <1>1 DEF InTurn
  <2>3. Eights(Upto(parts, k - 1) \o parts[k]) = Eights(Upto(parts, k - 1)) \o Eights(parts[k])
    <3>1. Upto(parts, k - 1) \in Seq(Nat) /\ parts[k] \in Seq(Nat)
      BY <1>2, <1>5, <2>1
    <3> QED
      BY ONLY <3>1, EightsConcat
  <2> QED
    BY <1>4, <2>1, <2>2, <2>3
<1>8. Joins(Bytes, blocks, n, G)
  BY <1>5, <1>6, <1>7 DEF Joins
<1>9. (\A k \in 0..n : Upto(blocks, k) = G[k]) /\ FlattenSeq(blocks) = G[n]
  BY ONLY <1>3, <1>8, UptoIs
<1>10. G[n] = Eights(FlattenSeq(parts))
  <2>1. n \in 0..n
    BY <1>1
  <2> QED
    BY <1>1, <1>4, <2>1 DEF InTurn
<1> QED
  BY <1>3, <1>5, <1>9, <1>10 DEF Length, NumberBlocks

\* A function on 1..n is a sequence.
LEMMA SeqMade ==
    ASSUME NEW T, NEW n \in Nat, NEW f, f \in [1..n -> T]
    PROVE  f \in Seq(T) /\ Len(f) = n /\ DOMAIN f = 1..n
PROOF
  OBVIOUS

\* Parts of texts: their ends, counted on from part to part.
EndBlocks(blocks, parts, n) ==
    /\ blocks \in Seq(Seq(Bytes)) /\ Len(blocks) = n
    /\ FlattenSeq(blocks) = Fours(FlattenSeq(parts), 0)
    /\ \A k \in 0..n : Length(blocks, k) = 4 * Length(parts, k)

\* The shifted ends of the parts are the ends of the column's texts
\* ("rebased", codec.rs encode_parts).
LEMMA FoursOfParts ==
    ASSUME NEW parts, parts \in Seq(Seq(Seq(Bytes))), NEW n, n = Len(parts),
           NEW blocks, blocks = [k \in 1..n |-> Fours(parts[k], Len(FlattenSeq(Upto(parts, k - 1))))]
    PROVE  EndBlocks(blocks, parts, n)
PROOF
<1>0. PICK T : T = Seq(Bytes)
  OBVIOUS
<1>1. n \in Nat /\ InTurn(T, parts, n)
  <2>1. parts \in Seq(Seq(T))
    BY <1>0
  <2> QED
    BY <2>1, FlattenUpto
<1>2. \A k \in 0..n : Upto(parts, k) \in Seq(Seq(Bytes)) /\ Len(FlattenSeq(Upto(parts, k))) \in Nat
  <2> TAKE k \in 0..n
  <2>1. Upto(parts, k) \in Seq(Seq(Bytes))
    BY <1>0, <1>1 DEF InTurn
  <2>2. FlattenSeq(Upto(parts, k)) \in Seq(Bytes)
    BY <2>1, FlattenType
  <2> QED
    BY <2>1, <2>2
<1>3. \A k \in 1..n : /\ k - 1 \in 0..n /\ k \in 0..n /\ parts[k] \in Seq(Seq(Bytes))
                      /\ Upto(parts, k) = Upto(parts, k - 1) \o parts[k]
                      /\ blocks[k] = Fours(parts[k], Len(FlattenSeq(Upto(parts, k - 1))))
                      /\ blocks[k] \in Seq(Bytes)
  <2> TAKE k \in 1..n
  <2>1. k - 1 \in 0..n /\ k \in 0..n
    BY <1>1
  <2>2. parts[k] \in Seq(Seq(Bytes)) /\ Upto(parts, k) = Upto(parts, k - 1) \o parts[k]
    BY <1>0, <1>1 DEF InTurn
  <2>3. PICK s \in Nat : s = Len(FlattenSeq(Upto(parts, k - 1)))
    BY <1>2, <2>1
  <2>4. Fours(parts[k], s) \in Seq(Bytes)
    BY <2>2, FoursLength
  <2> QED
    BY <2>1, <2>2, <2>3, <2>4
<1>4. blocks \in Seq(Seq(Bytes)) /\ Len(blocks) = n
  <2>1. PICK T2 : T2 = Seq(Bytes)
    OBVIOUS
  <2>2. blocks \in [1..n -> T2]
    BY <1>3, <2>1
  <2>3. n \in Nat
    BY <1>1
  <2>4. blocks \in Seq(T2) /\ Len(blocks) = n
    BY ONLY <2>2, <2>3, SeqMade
  <2> QED
    BY <2>1, <2>4
<1>5. PICK G : G = [k \in 0..n |-> Fours(Upto(parts, k), 0)]
  OBVIOUS
<1>6. \A k \in 0..n : G[k] \in Seq(Bytes) /\ Len(G[k]) = 4 * Length(parts, k)
  <2> TAKE k \in 0..n
  <2>1. Upto(parts, k) \in Seq(Seq(Bytes)) /\ G[k] = Fours(Upto(parts, k), 0) /\ 0 \in Nat
    BY <1>2, <1>5
  <2> QED
    BY <2>1, FoursLength DEF Length
<1>7. G[0] = <<>>
  <2>1. 0 \in 0..n /\ Upto(parts, 0) = <<>> /\ Len(<<>>) = 0
    BY <1>1 DEF InTurn
  <2>2. Len(G[0]) = 0 /\ G[0] \in Seq(Bytes)
    BY <1>6, <2>1 DEF Length
  <2> QED
    BY <2>2, EmptySeq
<1>8. ASSUME NEW k \in 1..n PROVE G[k] = G[k - 1] \o blocks[k]
  <2>1. PICK u, p, s : u = Upto(parts, k - 1) /\ p = parts[k] /\ s = Len(FlattenSeq(u))
    OBVIOUS
  <2>2. /\ u \in Seq(Seq(Bytes)) /\ p \in Seq(Seq(Bytes)) /\ 0 \in Nat /\ s + 0 = s
    BY <1>2, <1>3, <2>1
  <2>3. Fours(u \o p, 0) = Fours(u, 0) \o Fours(p, s + 0)
    BY ONLY <2>1, <2>2, FoursConcat
  <2>4. G[k] = Fours(u \o p, 0) /\ G[k - 1] = Fours(u, 0) /\ blocks[k] = Fours(p, s)
    BY <1>3, <1>5, <2>1
  <2> QED
    BY <2>2, <2>3, <2>4
<1>9. Joins(Bytes, blocks, n, G)
  BY <1>6, <1>7, <1>8 DEF Joins
<1>10. (\A k \in 0..n : Upto(blocks, k) = G[k]) /\ FlattenSeq(blocks) = G[n]
  BY ONLY <1>4, <1>9, UptoIs
<1>11. G[n] = Fours(FlattenSeq(parts), 0)
  <2>1. n \in 0..n
    BY <1>1
  <2> QED
    BY <1>1, <1>5, <2>1 DEF InTurn
<1> QED
  BY <1>4, <1>6, <1>10, <1>11 DEF Length, EndBlocks

\* Parts of texts: their characters.
CharBlocks(blocks, parts, n) ==
    /\ blocks \in Seq(Seq(Bytes)) /\ Len(blocks) = n
    /\ FlattenSeq(blocks) = FlattenSeq(FlattenSeq(parts))
    /\ \A k \in 0..n : Length(blocks, k) = Len(FlattenSeq(Upto(parts, k)))

\* The characters of the parts are those of the column's texts.
LEMMA CharsOfParts ==
    ASSUME NEW parts, parts \in Seq(Seq(Seq(Bytes))), NEW n, n = Len(parts),
           NEW blocks, blocks = [k \in 1..n |-> FlattenSeq(parts[k])]
    PROVE  CharBlocks(blocks, parts, n)
PROOF
<1>0. PICK T : T = Seq(Bytes)
  OBVIOUS
<1>1. n \in Nat /\ InTurn(T, parts, n)
  <2>1. parts \in Seq(Seq(T))
    BY <1>0
  <2> QED
    BY <2>1, FlattenUpto
<1>2. \A k \in 0..n : Upto(parts, k) \in Seq(Seq(Bytes)) /\ FlattenSeq(Upto(parts, k)) \in Seq(Bytes)
  <2> TAKE k \in 0..n
  <2>1. Upto(parts, k) \in Seq(Seq(Bytes))
    BY <1>0, <1>1 DEF InTurn
  <2> QED
    BY <2>1, FlattenType
<1>3. \A k \in 1..n : /\ k - 1 \in 0..n /\ k \in 0..n /\ parts[k] \in Seq(Seq(Bytes))
                      /\ Upto(parts, k) = Upto(parts, k - 1) \o parts[k]
                      /\ blocks[k] = FlattenSeq(parts[k]) /\ blocks[k] \in Seq(Bytes)
  <2> TAKE k \in 1..n
  <2>1. k - 1 \in 0..n /\ k \in 0..n
    BY <1>1
  <2>2. parts[k] \in Seq(Seq(Bytes)) /\ Upto(parts, k) = Upto(parts, k - 1) \o parts[k]
    BY <1>0, <1>1 DEF InTurn
  <2>3. FlattenSeq(parts[k]) \in Seq(Bytes)
    BY <2>2, FlattenType
  <2> QED
    BY <2>1, <2>2, <2>3
<1>4. blocks \in Seq(Seq(Bytes)) /\ Len(blocks) = n
  <2>1. PICK T2 : T2 = Seq(Bytes)
    OBVIOUS
  <2>2. blocks \in [1..n -> T2]
    BY <1>3, <2>1
  <2>3. n \in Nat
    BY <1>1
  <2>4. blocks \in Seq(T2) /\ Len(blocks) = n
    BY ONLY <2>2, <2>3, SeqMade
  <2> QED
    BY <2>1, <2>4
<1>5. PICK G : G = [k \in 0..n |-> FlattenSeq(Upto(parts, k))]
  OBVIOUS
<1>6. \A k \in 0..n : G[k] \in Seq(Bytes) /\ Len(G[k]) = Len(FlattenSeq(Upto(parts, k)))
  BY <1>2, <1>5
<1>7. G[0] = <<>>
  <2>1. 0 \in 0..n /\ Upto(parts, 0) = <<>>
    BY <1>1 DEF InTurn
  <2> QED
    BY <1>5, <2>1, FlattenNothing
<1>8. ASSUME NEW k \in 1..n PROVE G[k] = G[k - 1] \o blocks[k]
  <2>1. PICK u, p : u = Upto(parts, k - 1) /\ p = parts[k]
    OBVIOUS
  <2>2. u \in Seq(Seq(Bytes)) /\ p \in Seq(Seq(Bytes))
    BY <1>2, <1>3, <2>1
  <2>3. FlattenSeq(u \o p) = FlattenSeq(u) \o FlattenSeq(p)
    BY ONLY <2>2, FlattenConcat
  <2>4. G[k] = FlattenSeq(u \o p) /\ G[k - 1] = FlattenSeq(u) /\ blocks[k] = FlattenSeq(p)
    BY <1>3, <1>5, <2>1
  <2> QED
    BY <2>3, <2>4
<1>9. Joins(Bytes, blocks, n, G)
  BY <1>6, <1>7, <1>8 DEF Joins
<1>10. (\A k \in 0..n : Upto(blocks, k) = G[k]) /\ FlattenSeq(blocks) = G[n]
  BY ONLY <1>4, <1>9, UptoIs
<1>11. G[n] = FlattenSeq(FlattenSeq(parts))
  <2>1. n \in 0..n
    BY <1>1
  <2> QED
    BY <1>1, <1>5, <2>1 DEF InTurn
<1> QED
  BY <1>4, <1>6, <1>10, <1>11 DEF Length, CharBlocks

-----------------------------------------------------------------------------
(* What copies write. *)

\* The copies write, one behind the other from lo up to hi, the places of a
\* set, each once, and what is to be there.
Writes(copies, lo, hi, to, places) ==
    /\ lo \in Nat /\ hi \in Nat /\ lo <= hi
    /\ copies \in Seq([at : Nat, bytes : Seq(Bytes)])
    /\ \A a \in DOMAIN copies :
         /\ lo <= copies[a].at /\ copies[a].at + Len(copies[a].bytes) <= hi
         /\ Covers(copies[a]) \subseteq places
         /\ \A j \in Covers(copies[a]) : copies[a].bytes[j - copies[a].at] = to[j]
    /\ \A a, b \in DOMAIN copies :
         a < b => copies[a].at + Len(copies[a].bytes) <= copies[b].at
    /\ \A p \in places : \E a \in DOMAIN copies : p \in Covers(copies[a])

\* Blocks, each behind the ones before.
LEMMA WritesBlocks ==
    ASSUME NEW blocks, blocks \in Seq(Seq(Bytes)), NEW n, n = Len(blocks), NEW off \in Nat,
           NEW whole, whole = FlattenSeq(blocks), NEW to, \A p \in 1..Len(whole) : to[off + p] = whole[p],
           NEW copies,
           copies = [k \in 1..n |-> [at |-> off + Length(blocks, k - 1), bytes |-> blocks[k]]]
    PROVE  Writes(copies, off, off + Len(whole), to, (off + 1)..(off + Len(whole)))
PROOF
<1>1. n \in Nat /\ InPlace(blocks, n, whole)
  BY FlattenPlaces
<1>2. PICK l \in Nat : l = Len(whole)
  <2>1. whole \in Seq(Bytes)
    BY FlattenType
  <2>2. Len(whole) \in Nat
    BY <2>1
  <2> QED
    BY <2>2
<1>3. \A k \in 0..n : Length(blocks, k) \in Nat
  BY <1>1 DEF InPlace
<1>4. \A k \in 1..n : /\ k - 1 \in 0..n /\ k \in 0..n /\ Len(blocks[k]) \in Nat /\ blocks[k] \in Seq(Bytes)
                      /\ Length(blocks, k - 1) \in Nat
                      /\ Length(blocks, k) = Length(blocks, k - 1) + Len(blocks[k])
                      /\ copies[k].at = off + Length(blocks, k - 1) /\ copies[k].bytes = blocks[k]
  <2> TAKE k \in 1..n
  <2>1. k - 1 \in 0..n /\ k \in 0..n
    BY <1>1
  <2>2. blocks[k] \in Seq(Bytes) /\ Len(blocks[k]) \in Nat
    OBVIOUS
  <2>3. Length(blocks, k) = Length(blocks, k - 1) + Len(blocks[k])
    BY <1>1 DEF InPlace
  <2> QED
    BY <1>3, <2>1, <2>2, <2>3
<1>5. copies \in Seq([at : Nat, bytes : Seq(Bytes)]) /\ DOMAIN copies = 1..n
  <2>1. \A k \in 1..n : [at |-> off + Length(blocks, k - 1), bytes |-> blocks[k]] \in [at : Nat, bytes : Seq(Bytes)]
    BY <1>4
  <2>2. PICK C : C = [at : Nat, bytes : Seq(Bytes)]
    OBVIOUS
  <2>3. copies \in [1..n -> C]
    BY <2>1, <2>2
  <2>4. n \in Nat
    BY <1>1
  <2>5. copies \in Seq(C) /\ DOMAIN copies = 1..n
    BY ONLY <2>3, <2>4, SeqMade
  <2> QED
    BY <2>2, <2>5
\* The ends, and what copies and blocks have to do with them.
<1>e. PICK E : E = [k \in 0..n |-> Length(blocks, k)]
  OBVIOUS
<1>f. n \in Nat /\ (\A k \in 0..n : E[k] \in Nat) /\ E[n] = l
  <2>1. Length(blocks, n) = l /\ n \in 0..n /\ n \in Nat
    BY <1>1, <1>2 DEF InPlace
  <2> QED
    BY ONLY <1>3, <1>e, <2>1
<1>g. \A k \in 1..n : /\ k - 1 \in 0..n /\ k \in 0..n
                      /\ Len(blocks[k]) \in Nat /\ E[k - 1] \in Nat
                      /\ E[k] = E[k - 1] + Len(blocks[k])
                      /\ copies[k].at = off + E[k - 1]
                      /\ copies[k].at + Len(copies[k].bytes) = off + E[k]
  <2> TAKE k \in 1..n
  <2>1. k - 1 \in 0..n /\ k \in 0..n /\ E[k] = Length(blocks, k) /\ E[k - 1] = Length(blocks, k - 1)
    BY ONLY <1>4, <1>e
  <2>2. /\ Len(blocks[k]) \in Nat /\ Length(blocks, k - 1) \in Nat /\ off \in Nat
        /\ Length(blocks, k) = Length(blocks, k - 1) + Len(blocks[k])
        /\ copies[k].at = off + Length(blocks, k - 1) /\ copies[k].bytes = blocks[k]
    BY <1>4
  <2> QED
    BY ONLY <2>1, <2>2
\* Ends never come back.
<1>6. ASSUME NEW a \in 1..n
      PROVE  \A b \in a..n : E[a] <= E[b]
  <2>1. PICK P : P = {b \in 0..n : b >= a => E[a] <= E[b]}
    OBVIOUS
  <2>2. 0 \in P
    BY ONLY <1>6, <1>f, <2>1
  <2>3. ASSUME NEW b \in 1..n, b - 1 \in P PROVE b \in P
    <3>1. b \in 0..n /\ (b >= a => b = a \/ b - 1 >= a)
      BY ONLY <1>f, <1>6, <2>3
    <3>2. E[b] = E[b - 1] + Len(blocks[b]) /\ Len(blocks[b]) \in Nat /\ E[b - 1] \in Nat
      BY ONLY <1>g, <2>3
    <3>3. E[a] \in Nat
      BY ONLY <1>f, <1>g, <1>6
    <3>4. b - 1 >= a => E[a] <= E[b - 1]
      BY ONLY <2>1, <2>3
    <3>5. b >= a => E[a] <= E[b]
      BY ONLY <3>1, <3>2, <3>3, <3>4
    <3> QED
      BY ONLY <2>1, <3>1, <3>5
  <2>4. 0..n \subseteq P
    BY ONLY <1>f, <2>2, <2>3, UpTo
  <2>5. \A b \in a..n : b \in 0..n /\ b >= a
    BY ONLY <1>f, <1>6
  <2> QED
    BY ONLY <2>1, <2>4, <2>5
<1>7. ASSUME NEW a \in 1..n
      PROVE  off <= copies[a].at /\ copies[a].at + Len(copies[a].bytes) <= off + l
  <2>1. n \in a..n
    BY ONLY <1>f, <1>7
  <2>2. E[a] <= l
    BY ONLY <1>6, <1>7, <1>f, <2>1
  <2>3. /\ copies[a].at = off + E[a - 1] /\ copies[a].at + Len(copies[a].bytes) = off + E[a]
        /\ E[a - 1] \in Nat /\ a \in 0..n
    BY ONLY <1>g, <1>7
  <2>4. E[a] \in Nat /\ off \in Nat
    BY ONLY <1>f, <2>3, off \in Nat
  <2> QED
    BY ONLY <1>2, <2>2, <2>3, <2>4
<1>8. ASSUME NEW a \in 1..n, NEW j \in Covers(copies[a])
      PROVE  copies[a].bytes[j - copies[a].at] = to[j]
  <2>1. PICK c, m : c = E[a - 1] /\ m = Len(blocks[a])
    OBVIOUS
  <2>2. /\ c \in Nat /\ m \in Nat /\ off \in Nat /\ copies[a].at = off + c
        /\ copies[a].bytes = blocks[a] /\ c = Length(blocks, a - 1) /\ Len(copies[a].bytes) = m
    <3>1. copies[a].bytes = blocks[a]
      BY ONLY <1>4, <1>8
    <3>2. c = Length(blocks, a - 1)
      BY ONLY <1>e, <1>g, <1>8, <2>1
    <3>3. c \in Nat /\ m \in Nat /\ copies[a].at = off + c
      BY ONLY <1>g, <1>8, <2>1
    <3> QED
      BY <2>1, <3>1, <3>2, <3>3
  <2>3. PICK i : i = j - (off + c)
    OBVIOUS
  <2>4. j \in (off + c + 1)..(off + c + m)
    BY ONLY <1>8, <2>2 DEF Covers
  <2>5. i \in 1..m /\ j = off + (c + i)
    <3>1. c \in Nat /\ m \in Nat /\ off \in Nat
      BY ONLY <2>2
    <3>2. j \in Int /\ off + c + 1 <= j /\ j <= off + c + m
      BY ONLY <2>4, <3>1
    <3>3. i \in Int /\ 1 <= i /\ i <= m /\ j = off + (c + i)
      BY ONLY <2>3, <3>1, <3>2
    <3> QED
      BY ONLY <3>1, <3>3
  <2>6. c + i \in 1..Len(whole) /\ whole[c + i] = blocks[a][i]
    BY ONLY <1>1, <1>8, <2>1, <2>2, <2>5 DEF InPlace
  <2>7. to[j] = whole[c + i]
    BY <2>5, <2>6
  <2> QED
    BY ONLY <2>2, <2>3, <2>6, <2>7
<1>9. ASSUME NEW a \in 1..n, NEW b \in 1..n, a < b
      PROVE  copies[a].at + Len(copies[a].bytes) <= copies[b].at
  <2>1. b - 1 \in a..n /\ a \in 0..n
    BY ONLY <1>f, <1>9
  <2>2. E[a] <= E[b - 1] /\ E[a] \in Nat
    BY ONLY <1>6, <1>f, <1>9, <2>1
  <2>3. copies[a].at + Len(copies[a].bytes) = off + E[a]
    BY ONLY <1>g, <1>9
  <2>4. copies[b].at = off + E[b - 1] /\ E[b - 1] \in Nat
    BY ONLY <1>g, <1>9
  <2> QED
    BY ONLY <2>2, <2>3, <2>4, off \in Nat
<1>10. ASSUME NEW p \in (off + 1)..(off + l) PROVE \E a \in 1..n : p \in Covers(copies[a])
  <2>1. PICK q : q = p - off
    OBVIOUS
  <2>2. q \in 1..l /\ p = off + q
    BY ONLY <1>2, <1>10, <2>1, off \in Nat
  <2>3. PICK k \in 1..n : \E j \in 1..Len(blocks[k]) : q = Length(blocks, k - 1) + j
    <3>1. q \in 1..Len(whole)
      BY ONLY <1>2, <2>2
    <3> QED
      BY ONLY <1>1, <3>1 DEF InPlace
  <2>4. PICK j \in 1..Len(blocks[k]) : q = Length(blocks, k - 1) + j
    BY ONLY <2>3
  <2>5. PICK c, m : c = E[k - 1] /\ m = Len(blocks[k])
    OBVIOUS
  <2>6. /\ c \in Nat /\ m \in Nat /\ copies[k].at = off + c /\ Len(copies[k].bytes) = m
        /\ c = Length(blocks, k - 1)
    <3>1. k - 1 \in 0..n /\ c \in Nat /\ m \in Nat /\ copies[k].at = off + c
      BY ONLY <1>g, <2>3, <2>5
    <3>2. copies[k].bytes = blocks[k]
      BY ONLY <1>4, <2>3
    <3>3. c = Length(blocks, k - 1)
      BY ONLY <1>e, <2>5, <3>1
    <3> QED
      BY ONLY <2>5, <3>1, <3>2, <3>3
  <2>7. j \in 1..m /\ q = c + j
    BY ONLY <2>4, <2>5, <2>6
  <2>8. p \in (off + c + 1)..(off + c + m)
    <3>1. c \in Nat /\ m \in Nat
      BY ONLY <2>6
    <3>2. p = off + (c + j) /\ j \in 1..m
      BY ONLY <2>2, <2>7
    <3> QED
      BY ONLY <3>1, <3>2, off \in Nat
  <2>9. p \in Covers(copies[k])
    BY ONLY <2>6, <2>8 DEF Covers
  <2> QED
    BY ONLY <2>3, <2>9
<1>11. ASSUME NEW a \in 1..n PROVE Covers(copies[a]) \subseteq (off + 1)..(off + l)
  <2>1. PICK u \in Nat, v \in Nat : u = copies[a].at /\ v = Len(copies[a].bytes)
    <3>1. copies[a].at = off + E[a - 1] /\ E[a - 1] \in Nat
      BY ONLY <1>g, <1>11
    <3>2. copies[a].at \in Nat
      BY ONLY <3>1, off \in Nat
    <3>3. copies[a].bytes = blocks[a] /\ Len(blocks[a]) \in Nat
      BY ONLY <1>4, <1>11
    <3> QED
      BY ONLY <3>2, <3>3
  <2>2. off <= u /\ u + v <= off + l
    BY ONLY <1>7, <1>11, <2>1
  <2>3. (u + 1)..(u + v) \subseteq (off + 1)..(off + l)
    BY ONLY <1>2, <2>1, <2>2, off \in Nat
  <2> QED
    BY ONLY <2>1, <2>3 DEF Covers
<1>12. PICK hi, places : hi = off + l /\ places = (off + 1)..(off + l)
  OBVIOUS
<1>13. off \in Nat /\ hi \in Nat /\ off <= hi
  BY ONLY <1>2, <1>12, off \in Nat
<1>14. \A a \in DOMAIN copies :
          /\ off <= copies[a].at /\ copies[a].at + Len(copies[a].bytes) <= hi
          /\ Covers(copies[a]) \subseteq places
  BY ONLY <1>5, <1>7, <1>11, <1>12
<1>15. \A a \in DOMAIN copies : \A j \in Covers(copies[a]) : copies[a].bytes[j - copies[a].at] = to[j]
  BY ONLY <1>5, <1>8
<1>16. \A a, b \in DOMAIN copies : a < b => copies[a].at + Len(copies[a].bytes) <= copies[b].at
  BY ONLY <1>5, <1>9
<1>17. \A p \in places : \E a \in DOMAIN copies : p \in Covers(copies[a])
  BY ONLY <1>5, <1>10, <1>12
<1>18. Writes(copies, off, hi, to, places)
  BY ONLY <1>5, <1>13, <1>14, <1>15, <1>16, <1>17, Zenon DEF Writes
<1> QED
  BY ONLY <1>2, <1>12, <1>18

\* One copy.
LEMMA WritesOne ==
    ASSUME NEW off \in Nat, NEW s, s \in Seq(Bytes), NEW to, \A p \in 1..Len(s) : to[off + p] = s[p]
    PROVE  Writes(<<[at |-> off, bytes |-> s]>>, off, off + Len(s), to, (off + 1)..(off + Len(s)))
PROOF
<1>1. PICK blocks : blocks = <<s>>
  OBVIOUS
<1>2. blocks \in Seq(Seq(Bytes)) /\ Len(blocks) = 1 /\ blocks[1] = s /\ FlattenSeq(blocks) = s
  <2>1. FlattenSeq(blocks) = s
    BY <1>1, FlattenOne
  <2> QED
    BY <1>1, <2>1
<1>3. InPlace(blocks, 1, s)
  BY <1>2, FlattenPlaces
<1>4. Length(blocks, 0) = 0
  BY <1>3 DEF InPlace
<1>5. PICK copies : copies = [k \in 1..1 |-> [at |-> off + Length(blocks, k - 1), bytes |-> blocks[k]]]
  OBVIOUS
<1>6. copies = <<[at |-> off, bytes |-> s]>>
  <2>1. copies[1] = [at |-> off, bytes |-> s]
    <3>1. 1 - 1 = 0 /\ 1 \in 1..1 /\ off + 0 = off
      OBVIOUS
    <3> QED
      BY <1>2, <1>4, <1>5, <3>1
  <2>2. copies = [k \in 1..1 |-> copies[k]]
    BY <1>5
  <2> QED
    BY <2>1, <2>2
<1>7. Writes(copies, off, off + Len(s), to, (off + 1)..(off + Len(s)))
  BY <1>2, <1>5, WritesBlocks
<1> QED
  BY <1>6, <1>7

\* Copies that write behind what others wrote.
LEMMA WritesBoth ==
    ASSUME NEW x, NEW lo, NEW mid, NEW to, NEW ps, Writes(x, lo, mid, to, ps),
           NEW y, NEW from, NEW hi, NEW qs, Writes(y, from, hi, to, qs),
           mid <= from, NEW all, all = ps \cup qs
    PROVE  Writes(x \o y, lo, hi, to, all)
PROOF
<1>1. PICK C : C = [at : Nat, bytes : Seq(Bytes)]
  OBVIOUS
<1>2. x \in Seq(C) /\ y \in Seq(C) /\ lo \in Nat /\ mid \in Nat /\ from \in Nat /\ hi \in Nat /\ lo <= mid /\ from <= hi
  BY <1>1 DEF Writes
<1>3. PICK n, m, z : n = Len(x) /\ m = Len(y) /\ z = x \o y
  OBVIOUS
<1>4. z \in Seq(C) /\ AndThen(z, x, n, y, m)
  BY ONLY <1>2, <1>3, ConcatIs
<1>5. /\ n \in Nat /\ m \in Nat /\ DOMAIN x = 1..n /\ DOMAIN y = 1..m /\ DOMAIN z = 1..(n + m)
  BY <1>2, <1>3, <1>4 DEF AndThen
<1>6. \A i \in 1..(n + m) : i \in 1..n \/ \E j \in 1..m : i = n + j
  <2> TAKE i \in 1..(n + m)
  <2>1. i \notin 1..n => i - n \in 1..m /\ i = n + (i - n)
    BY <1>5
  <2> QED
    BY <2>1
<1>7. \A i \in 1..n : z[i] = x[i]
  BY <1>4 DEF AndThen
<1>8. \A j \in 1..m : z[n + j] = y[j]
  BY <1>4 DEF AndThen
<1>9. ASSUME NEW a \in 1..n
      PROVE  /\ lo <= x[a].at /\ x[a].at + Len(x[a].bytes) <= mid /\ x[a].at \in Nat /\ Len(x[a].bytes) \in Nat
             /\ Covers(x[a]) \subseteq ps
             /\ \A j \in Covers(x[a]) : x[a].bytes[j - x[a].at] = to[j]
  <2>1. x[a] \in C
    BY <1>2, <1>5
  <2>2. x[a].at \in Nat /\ Len(x[a].bytes) \in Nat
    BY <1>1, <2>1
  <2> QED
    BY <1>5, <2>2 DEF Writes
<1>10. ASSUME NEW a \in 1..m
      PROVE  /\ from <= y[a].at /\ y[a].at + Len(y[a].bytes) <= hi /\ y[a].at \in Nat /\ Len(y[a].bytes) \in Nat
             /\ Covers(y[a]) \subseteq qs
             /\ \A j \in Covers(y[a]) : y[a].bytes[j - y[a].at] = to[j]
  <2>1. y[a] \in C
    BY <1>2, <1>5
  <2>2. y[a].at \in Nat /\ Len(y[a].bytes) \in Nat
    BY <1>1, <2>1
  <2> QED
    BY <1>5, <2>2 DEF Writes
<1>11. ASSUME NEW a \in 1..(n + m)
       PROVE  /\ lo <= z[a].at /\ z[a].at + Len(z[a].bytes) <= hi
              /\ Covers(z[a]) \subseteq all
              /\ \A j \in Covers(z[a]) : z[a].bytes[j - z[a].at] = to[j]
  <2>1. CASE a \in 1..n
    <3>1. z[a] = x[a]
      BY <1>7, <2>1
    <3>2. x[a].at + Len(x[a].bytes) <= hi
      BY <1>2, <1>9, <2>1
    <3> QED
      BY <1>9, <2>1, <3>1, <3>2
  <2>2. ASSUME NEW j \in 1..m, a = n + j
        PROVE  /\ lo <= z[a].at /\ z[a].at + Len(z[a].bytes) <= hi
               /\ Covers(z[a]) \subseteq all
               /\ \A i \in Covers(z[a]) : z[a].bytes[i - z[a].at] = to[i]
    <3>1. z[a] = y[j]
      BY <1>8, <2>2
    <3>2. lo <= y[j].at
      BY <1>2, <1>10
    <3> QED
      BY <1>10, <3>1, <3>2
  <2> QED
    BY <1>6, <2>1, <2>2
<1>12. ASSUME NEW a \in 1..(n + m), NEW b \in 1..(n + m), a < b
       PROVE  z[a].at + Len(z[a].bytes) <= z[b].at
  <2>1. CASE b \in 1..n
    <3>1. a \in 1..n
      BY <1>5, <1>12, <2>1
    <3>2. x[a].at + Len(x[a].bytes) <= x[b].at
      BY <1>5, <1>12, <2>1, <3>1 DEF Writes
    <3> QED
      BY <1>7, <2>1, <3>1, <3>2
  <2>2. ASSUME NEW j \in 1..m, b = n + j PROVE z[a].at + Len(z[a].bytes) <= z[b].at
    <3>1. CASE a \in 1..n
      <4>1. x[a].at + Len(x[a].bytes) <= mid /\ from <= y[j].at /\ x[a].at \in Nat /\ Len(x[a].bytes) \in Nat /\ y[j].at \in Nat
        BY <1>9, <1>10, <3>1
      <4>2. x[a].at + Len(x[a].bytes) <= y[j].at
        <5>1. PICK u \in Nat, v \in Nat, w \in Nat :
                u = x[a].at /\ v = Len(x[a].bytes) /\ w = y[j].at /\ u + v <= mid /\ from <= w
          BY <4>1
        <5>2. mid \in Nat /\ from \in Nat /\ mid <= from
          BY <1>2
        <5>3. u \in Nat /\ v \in Nat /\ w \in Nat /\ u + v <= mid /\ from <= w
          BY <5>1
        <5>4. u + v <= w
          BY ONLY <5>2, <5>3
        <5> QED
          BY <5>1, <5>4
      <4> QED
        BY <1>7, <1>8, <2>2, <3>1, <4>2
    <3>2. ASSUME NEW i \in 1..m, a = n + i PROVE z[a].at + Len(z[a].bytes) <= z[b].at
      <4>1. i < j
        BY <1>5, <1>12, <2>2, <3>2
      <4>2. y[i].at + Len(y[i].bytes) <= y[j].at
        BY <1>5, <4>1 DEF Writes
      <4> QED
        BY <1>8, <2>2, <3>2, <4>2
    <3> QED
      BY <1>6, <3>1, <3>2
  <2> QED
    BY <1>6, <2>1, <2>2
<1>13. ASSUME NEW p \in all PROVE \E a \in 1..(n + m) : p \in Covers(z[a])
  <2>1. CASE p \in ps
    <3>1. PICK a \in 1..n : p \in Covers(x[a])
      BY <1>5, <2>1 DEF Writes
    <3>2. a \in 1..(n + m) /\ z[a] = x[a]
      BY <1>5, <1>7
    <3> QED
      BY <3>1, <3>2
  <2>2. CASE p \in qs
    <3>1. PICK a \in 1..m : p \in Covers(y[a])
      BY <1>5, <2>2 DEF Writes
    <3>2. n + a \in 1..(n + m) /\ z[n + a] = y[a]
      BY <1>5, <1>8
    <3> QED
      BY <3>1, <3>2
  <2> QED
    BY <2>1, <2>2
<1>14. lo <= hi
  BY <1>2
<1>15. z \in Seq([at : Nat, bytes : Seq(Bytes)]) /\ DOMAIN z = 1..(n + m)
  BY <1>1, <1>4, <1>5
<1>16. \A a \in DOMAIN z :
         /\ lo <= z[a].at /\ z[a].at + Len(z[a].bytes) <= hi
         /\ Covers(z[a]) \subseteq all
         /\ \A j \in Covers(z[a]) : z[a].bytes[j - z[a].at] = to[j]
  BY <1>11, <1>15
<1>17. \A a, b \in DOMAIN z : a < b => z[a].at + Len(z[a].bytes) <= z[b].at
  BY <1>12, <1>15
<1>18. \A p \in all : \E a \in DOMAIN z : p \in Covers(z[a])
  BY <1>13, <1>15
<1> QED
  BY <1>2, <1>3, <1>14, <1>15, <1>16, <1>17, <1>18, Zenon DEF Writes

-----------------------------------------------------------------------------
(* A column that is split: its rows, its buffers, its copies. *)

Splits(col) ==
    /\ col.type \in Types /\ col.type # "bool" /\ col \in Pushed(col.type)
    /\ Null \notin ToSet(Rows(col))

\* A part has none but cells of the column's type.
LEMMA SplitParts ==
    ASSUME NEW col, Splits(col), NEW C, C = Cells(col.type)
    PROVE  col.parts \in Seq(Seq(C)) /\ Rows(col) \in Seq(C) /\ Slots(col) = Rows(col)
PROOF
<1>1. PICK D, parts, n : D = {Null} \cup C /\ parts = col.parts /\ n = Len(parts)
  OBVIOUS
<1>2. parts \in Seq(Seq(D)) /\ n \in Nat
  BY <1>1 DEF Splits, Pushed
<1>3. InPlace(parts, n, Rows(col))
  BY <1>1, <1>2, FlattenPlaces DEF Rows
<1>4. Rows(col) \in Seq(D)
  BY <1>1, <1>2, FlattenType DEF Rows
<1>5. \A p \in 1..Len(Rows(col)) : Rows(col)[p] # Null /\ Rows(col)[p] \in C
  BY <1>1, <1>4 DEF Splits, ToSet
<1>6. ASSUME NEW k \in 1..n PROVE parts[k] \in Seq(C)
  <2>1. PICK l : l = Len(parts[k])
    OBVIOUS
  <2>2. parts[k] \in Seq(D) /\ l \in Nat
    BY <1>1, <1>2, <2>1
  <2>3. \A j \in 1..l : parts[k][j] \in C
    BY <1>3, <1>5, <2>1 DEF InPlace
  <2>4. parts[k] = [j \in 1..l |-> parts[k][j]]
    BY <2>1, <2>2
  <2>5. parts[k] \in [1..l -> C]
    BY <2>3, <2>4
  <2> QED
    BY ONLY <2>2, <2>5, SeqMade
<1>7. parts \in Seq(Seq(C))
  <2>1. PICK S : S = Seq(C)
    OBVIOUS
  <2>2. parts = [k \in 1..n |-> parts[k]]
    BY <1>1, <1>2
  <2>3. parts \in [1..n -> S]
    BY <1>6, <2>1, <2>2
  <2>4. parts \in Seq(S)
    BY ONLY <1>2, <2>3, SeqMade
  <2> QED
    BY <2>1, <2>4
<1>8. Rows(col) \in Seq(C)
  BY <1>1, <1>7, FlattenType DEF Rows
<1>9. Slots(col) = Rows(col)
  <2>1. PICK rows, m : rows = Rows(col) /\ m = Len(rows)
    OBVIOUS
  <2>2. rows \in Seq(C) /\ DOMAIN rows = 1..m
    BY <1>8, <2>1
  <2>3. \A i \in 1..m : rows[i] # Null
    BY <1>5, <2>1
  <2>4. Slots(col) = [i \in 1..m |-> IF rows[i] = Null THEN Instead(col) ELSE rows[i]]
    BY <2>1, <2>2 DEF Slots
  <2>5. Slots(col) = [i \in 1..m |-> rows[i]]
    BY <2>3, <2>4
  <2>6. rows = [i \in 1..m |-> rows[i]]
    BY <2>2
  <2> QED
    BY <2>1, <2>5, <2>6
<1> QED
  BY <1>1, <1>7, <1>8, <1>9

\* The buffers of a column that is split.
One(col) == Buf1(Finish(col))
Two(col) == Buf2(Finish(col))

\* A column that is split has no validity, and its rows as they were pushed.
LEMMA SplitFinish ==
    ASSUME NEW col, Splits(col)
    PROVE  /\ Finish(col).type = col.type /\ Finish(col).slots = Rows(col)
           /\ Finish(col).nullable = FALSE /\ Finish(col).validity = <<>>
           /\ Finish(col).len = Len(Rows(col))
PROOF
<1>1. (Null \in ToSet(Rows(col))) = FALSE
  BY DEF Splits
<1>2. Slots(col) = Rows(col)
  BY SplitParts
<1> QED
  BY <1>1, <1>2 DEF Finish

\* Numbers are one buffer, 8 bytes each.
LEMMA NumberBuffers ==
    ASSUME NEW col, Splits(col), col.type # "utf8"
    PROVE  /\ col.parts \in Seq(Seq(Nat)) /\ Rows(col) \in Seq(Nat)
           /\ One(col) = Eights(Rows(col)) /\ Two(col) = <<>>
           /\ One(col) \in Seq(Bytes) /\ Len(One(col)) = Len(Rows(col)) * 8
PROOF
<1>1. col.type \in {"int", "float"}
  BY DEF Splits, Types
<1>2. Cells(col.type) = Nat
  BY <1>1 DEF Cells
<1>3. col.parts \in Seq(Seq(Nat)) /\ Rows(col) \in Seq(Nat)
  BY <1>2, SplitParts
<1>4. One(col) = Eights(Rows(col))
  <2>1. PICK f : f = Finish(col)
    OBVIOUS
  <2>2. f.type \in {"int", "float"} /\ f.slots = Rows(col)
    BY <1>1, <2>1, SplitFinish
  <2>3. Buf1(f) = FlattenSeq([i \in DOMAIN f.slots |-> Little(f.slots[i], 8)])
    BY <2>2 DEF Buf1
  <2> QED
    BY <2>1, <2>2, <2>3 DEF One, Eights
<1>5. Two(col) = <<>>
  BY SplitFinish DEF Two, Buf2
<1>6. Len(Eights(Rows(col))) = Len(Rows(col)) * 8 /\ Eights(Rows(col)) \in Seq(Bytes)
  <2>1. Len(Rows(col)) \in Nat
    BY <1>3
  <2> QED
    BY <1>3, <2>1, EightsLength
<1> QED
  BY <1>3, <1>4, <1>5, <1>6

\* Texts are two: a zero and the ends, and the characters.
LEMMA TextBuffers ==
    ASSUME NEW col, Splits(col), col.type = "utf8"
    PROVE  /\ col.parts \in Seq(Seq(Seq(Bytes))) /\ Rows(col) \in Seq(Seq(Bytes))
           /\ One(col) = Little(0, 4) \o Fours(Rows(col), 0) /\ Two(col) = FlattenSeq(Rows(col))
           /\ One(col) \in Seq(Bytes) /\ Len(One(col)) = (Len(Rows(col)) + 1) * 4
           /\ Two(col) \in Seq(Bytes)
PROOF
<1>1. Cells(col.type) = Seq(Bytes)
  BY DEF Cells
<1>2. col.parts \in Seq(Seq(Seq(Bytes))) /\ Rows(col) \in Seq(Seq(Bytes))
  BY <1>1, SplitParts
<1>3. PICK rows, n : rows = Rows(col) /\ n = Len(rows)
  OBVIOUS
<1>4. rows \in Seq(Seq(Bytes)) /\ n \in Nat
  BY <1>2, <1>3
<1>5. PICK f : f = Finish(col)
  OBVIOUS
<1>6. f.type = "utf8" /\ f.slots = rows
  BY <1>3, <1>5, SplitFinish
<1>7. Two(col) = FlattenSeq(rows) /\ Two(col) \in Seq(Bytes)
  <2>1. FlattenSeq(rows) \in Seq(Bytes)
    BY <1>4, FlattenType
  <2> QED
    BY <1>5, <1>6, <2>1 DEF Two, Buf2
<1>8. PICK all, head, tail : /\ all = [i \in DOMAIN Offsets(rows) |-> Little(Offsets(rows)[i], 4)]
                             /\ head = <<Little(0, 4)>> /\ tail = FourSeq(rows, 0)
  OBVIOUS
<1>9. One(col) = FlattenSeq(all)
  BY <1>5, <1>6, <1>8 DEF One, Buf1
<1>10. FourSeqIs(tail, rows, n, 0)
  BY <1>3, <1>4, <1>8, FourSeqMade
<1>11. head \in Seq(Seq(Bytes)) /\ Len(head) = 1 /\ head[1] = Little(0, 4) /\ FlattenSeq(head) = Little(0, 4)
       /\ Little(0, 4) \in Seq(Bytes) /\ Len(Little(0, 4)) = 4
  <2>1. Little(0, 4) \in Seq(Bytes) /\ Len(Little(0, 4)) = 4
    BY LittleWidths
  <2> QED
    BY <1>8, <2>1, FlattenOne
<1>12. tail \in Seq(Seq(Bytes)) /\ Len(tail) = n
  BY <1>10 DEF FourSeqIs
<1>13. PICK both : both = head \o tail
  OBVIOUS
<1>14. both \in Seq(Seq(Bytes)) /\ AndThen(both, head, 1, tail, n)
  BY ONLY <1>11, <1>12, <1>13, ConcatIs
<1>15. /\ DOMAIN Offsets(rows) = 1..(n + 1)
       /\ \A i \in 0..n : Offsets(rows)[i + 1] = Length(rows, i) /\ Length(rows, i) \in Nat
  BY <1>3, <1>4, OffsetsAre
<1>16. ASSUME NEW i \in 1..(n + 1) PROVE all[i] = both[i]
  <2>1. PICK j \in 0..n : i = j + 1
    <3>1. i - 1 \in 0..n /\ i = (i - 1) + 1
      BY <1>4
    <3> QED
      BY <3>1
  <2>2. all[i] = Little(Length(rows, j), 4)
    BY <1>8, <1>15, <2>1
  <2>3. CASE j = 0
    <3>1. Length(rows, 0) = 0
      <4>1. InPlace(rows, n, FlattenSeq(rows))
        BY <1>3, <1>4, FlattenPlaces
      <4> QED
        BY <4>1 DEF InPlace
    <3>2. both[1] = head[1]
      <4>1. 1 \in 1..1
        OBVIOUS
      <4> QED
        BY <1>14, <4>1 DEF AndThen
    <3> QED
      BY <1>11, <2>1, <2>2, <2>3, <3>1, <3>2
  <2>4. CASE j # 0
    <3>1. j \in 1..n /\ i = 1 + j
      BY <1>4, <2>1, <2>4
    <3>2. both[1 + j] = tail[j]
      BY <1>14, <3>1 DEF AndThen
    <3>3. tail[j] = Little(Length(rows, j) + 0, 4)
      BY <1>10, <3>1 DEF FourSeqIs
    <3>4. Length(rows, j) + 0 = Length(rows, j)
      BY <1>15
    <3> QED
      BY <2>2, <3>1, <3>2, <3>3, <3>4
  <2> QED
    BY <2>3, <2>4
<1>17. all = both
  <2>1. DOMAIN all = 1..(n + 1) /\ all = [i \in 1..(n + 1) |-> all[i]]
    BY <1>8, <1>15
  <2>2. DOMAIN both = 1..(n + 1)
    BY <1>4, <1>14 DEF AndThen
  <2>3. both = [i \in 1..(n + 1) |-> both[i]]
    BY <1>14, <2>2
  <2> QED
    BY <1>16, <2>1, <2>3
<1>18. FlattenSeq(head \o tail) = FlattenSeq(head) \o FlattenSeq(tail)
  BY ONLY <1>11, <1>12, FlattenConcat
<1>19. One(col) = Little(0, 4) \o Fours(rows, 0)
  BY <1>8, <1>9, <1>11, <1>13, <1>17, <1>18 DEF Fours
<1>20. Fours(rows, 0) \in Seq(Bytes) /\ Len(Fours(rows, 0)) = 4 * n
  <2>1. 0 \in Nat
    OBVIOUS
  <2> QED
    BY <1>3, <1>4, <2>1, FoursLength
<1>21. One(col) \in Seq(Bytes) /\ Len(One(col)) = (n + 1) * 4
  <2>1. One(col) \in Seq(Bytes) /\ Len(One(col)) = 4 + Len(Fours(rows, 0))
    <3>1. PICK u, v, w, l : u = Little(0, 4) /\ v = Fours(rows, 0) /\ w = u \o v /\ l = Len(v)
      OBVIOUS
    <3>2. u \in Seq(Bytes) /\ v \in Seq(Bytes) /\ 4 = Len(u) /\ w = u \o v /\ l = Len(v)
      BY <1>11, <1>20, <3>1
    <3>3. w \in Seq(Bytes) /\ AndThen(w, u, 4, v, l)
      BY ONLY <3>2, ConcatIs
    <3>4. Len(w) = 4 + l
      BY <3>3 DEF AndThen
    <3> QED
      BY <1>19, <3>1, <3>3, <3>4
  <2> QED
    BY <1>4, <1>20, <2>1
<1> QED
  BY <1>2, <1>3, <1>7, <1>19, <1>21

\* Where the buffers of a column go.
Region(e, col) ==
    (e.buf1_off + 1 .. e.buf1_off + Len(One(col))) \cup (e.buf2_off + 1 .. e.buf2_off + Len(Two(col)))
\* Where they end.
End(e, col) ==
    IF col.type = "utf8" THEN e.buf2_off + Len(Two(col)) ELSE e.buf1_off + Len(One(col))

\* What is to be at the places of a column.
Holds(to, e, col) ==
    /\ \A p \in 1..Len(One(col)) : to[e.buf1_off + p] = One(col)[p]
    /\ \A p \in 1..Len(Two(col)) : to[e.buf2_off + p] = Two(col)[p]

\* The task of a column of numbers writes that buffer.
LEMMA NumberWrites ==
    ASSUME NEW col, Splits(col), col.type # "utf8", NEW e, e.buf1_off \in Nat, e.buf2_off \in Nat,
           NEW to, Holds(to, e, col)
    PROVE  Writes(Copies(col, e), e.buf1_off, End(e, col), to, Region(e, col))
PROOF
<1>1. PICK parts, n, off : parts = col.parts /\ n = Len(parts) /\ off = e.buf1_off /\ off \in Nat
  OBVIOUS
<1>2. /\ parts \in Seq(Seq(Nat)) /\ Rows(col) = FlattenSeq(parts) /\ n \in Nat /\ DOMAIN parts = 1..n
      /\ One(col) = Eights(FlattenSeq(parts)) /\ Two(col) = <<>>
  BY <1>1, NumberBuffers DEF Rows
<1>3. PICK blocks : blocks = [k \in 1..n |-> Eights(parts[k])]
  OBVIOUS
<1>4. /\ blocks \in Seq(Seq(Bytes)) /\ Len(blocks) = n
      /\ FlattenSeq(blocks) = One(col)
      /\ \A k \in 0..n : Length(blocks, k) = 8 * Length(parts, k)
  <2>1. n = Len(parts) /\ parts \in Seq(Seq(Nat))
    BY <1>1, <1>2
  <2>2. NumberBlocks(blocks, parts, n)
    BY ONLY <1>3, <2>1, EightsOfParts
  <2> QED
    BY <1>2, <2>2 DEF NumberBlocks
<1>5. PICK copies : copies = [k \in 1..n |-> [at |-> off + Length(blocks, k - 1), bytes |-> blocks[k]]]
  OBVIOUS
<1>6. \A p \in 1..Len(One(col)) : to[off + p] = One(col)[p]
  BY <1>1 DEF Holds
<1>7. PICK whole : whole = One(col) /\ whole = FlattenSeq(blocks) /\ \A p \in 1..Len(whole) : to[off + p] = whole[p]
  BY <1>4, <1>6
<1>8. Writes(copies, off, off + Len(whole), to, (off + 1)..(off + Len(whole)))
  BY ONLY <1>1, <1>4, <1>5, <1>7, WritesBlocks
<1>9. Copies(col, e) = copies
  <2>1. \A k \in 1..n : /\ k - 1 \in 0..n
                        /\ FlattenSeq([i \in DOMAIN parts[k] |-> Little(parts[k][i], 8)]) = blocks[k]
                        /\ 8 * Len(FlattenSeq(SubSeq(parts, 1, k - 1))) = Length(blocks, k - 1)
    <3> TAKE k \in 1..n
    <3>1. k - 1 \in 0..n
      BY <1>2
    <3> QED
      BY <1>3, <1>4, <3>1 DEF Eights, Length, Upto
  <2>2. Copies(col, e) =
          [k \in 1..n |-> [at |-> off + 8 * Len(FlattenSeq(SubSeq(parts, 1, k - 1))),
                           bytes |-> FlattenSeq([i \in DOMAIN parts[k] |-> Little(parts[k][i], 8)])]]
    BY <1>1, <1>2 DEF Copies
  <2> QED
    BY <1>5, <2>1, <2>2
<1>10. End(e, col) = off + Len(whole)
  BY <1>1, <1>7 DEF End
<1>11. Region(e, col) = (off + 1)..(off + Len(whole))
  <2>1. PICK b \in Nat : b = e.buf2_off
    OBVIOUS
  <2>2. (b + 1)..(b + 0) = {} /\ Len(Two(col)) = 0
    BY <1>2
  <2> QED
    BY <1>1, <1>7, <2>1, <2>2 DEF Region
<1> QED
  BY <1>1, <1>8, <1>9, <1>10, <1>11

\* The task of a column of texts writes both.
LEMMA TextWrites ==
    ASSUME NEW col, Splits(col), col.type = "utf8", NEW e, e.buf1_off \in Nat, e.buf2_off \in Nat,
           e.buf1_off + Len(One(col)) <= e.buf2_off,
           NEW to, Holds(to, e, col)
    PROVE  Writes(Copies(col, e), e.buf1_off, End(e, col), to, Region(e, col))
PROOF
<1>1. PICK parts, n, rows, off, off2, zero, f, l, one, two, l2 :
        /\ parts = col.parts /\ n = Len(parts) /\ rows = Rows(col) /\ off = e.buf1_off /\ off2 = e.buf2_off
        /\ zero = Little(0, 4) /\ f = Fours(rows, 0) /\ l = Len(f)
        /\ one = One(col) /\ two = Two(col) /\ l2 = Len(two)
  OBVIOUS
<1>2. /\ parts \in Seq(Seq(Seq(Bytes))) /\ rows = FlattenSeq(parts) /\ rows \in Seq(Seq(Bytes))
      /\ n \in Nat /\ DOMAIN parts = 1..n
      /\ one = zero \o f /\ two = FlattenSeq(rows) /\ two \in Seq(Bytes)
  <2>1. /\ parts \in Seq(Seq(Seq(Bytes))) /\ rows \in Seq(Seq(Bytes))
        /\ one = zero \o f /\ two = FlattenSeq(rows) /\ two \in Seq(Bytes)
    BY <1>1, TextBuffers
  <2>2. rows = FlattenSeq(parts)
    BY <1>1 DEF Rows
  <2>3. n \in Nat /\ DOMAIN parts = 1..n
    BY <1>1, <2>1
  <2> QED
    BY <2>1, <2>2, <2>3
<1>3. zero \in Seq(Bytes) /\ 4 = Len(zero) /\ f \in Seq(Bytes)
  <2>1. 0 \in Nat
    OBVIOUS
  <2>2. zero \in Seq(Bytes) /\ Len(zero) = 4
    BY ONLY <1>1, <2>1, LittleWidths
  <2>3. f \in Seq(Bytes)
    BY <1>1, <1>2, <2>1, FoursLength
  <2> QED
    BY <2>2, <2>3
<1>4. AndThen(one, zero, 4, f, l)
  BY ONLY <1>1, <1>2, <1>3, ConcatIs
<1>5. l \in Nat /\ Len(one) = 4 + l /\ off \in Nat /\ off2 \in Nat /\ l2 \in Nat /\ off + (4 + l) <= off2
  <2>1. l \in Nat /\ Len(one) = 4 + l
    BY <1>4 DEF AndThen
  <2>2. l2 \in Nat
    BY <1>1, <1>2
  <2> QED
    BY <1>1, <2>1, <2>2
<1>6. /\ \A p \in 1..(4 + l) : to[off + p] = one[p]
      /\ \A p \in 1..l2 : to[off2 + p] = two[p]
  BY <1>1, <1>5 DEF Holds
\* The zero, the ends, the characters.
<1>7. PICK x : x = <<[at |-> off, bytes |-> zero]>>
  OBVIOUS
<1>8. Writes(x, off, off + 4, to, (off + 1)..(off + 4))
  <2>1. \A p \in 1..Len(zero) : to[off + p] = zero[p]
    <3> TAKE p \in 1..Len(zero)
    <3>1. p \in 1..4 /\ p \in 1..(4 + l)
      <4>1. p \in 1..4
        BY <1>3
      <4>2. l \in Nat
        BY <1>5
      <4> QED
        BY ONLY <4>1, <4>2
    <3>2. one[p] = zero[p]
      BY <1>4, <3>1 DEF AndThen
    <3> QED
      BY <1>6, <3>1, <3>2
  <2>2. Writes(x, off, off + Len(zero), to, (off + 1)..(off + Len(zero)))
    BY ONLY <1>3, <1>5, <1>7, <2>1, WritesOne
  <2> QED
    BY <1>3, <2>2
<1>9. PICK blocks : blocks = [k \in 1..n |-> Fours(parts[k], Len(FlattenSeq(Upto(parts, k - 1))))]
  OBVIOUS
<1>10. EndBlocks(blocks, parts, n)
  BY ONLY <1>1, <1>2, <1>9, FoursOfParts
<1>11a. PICK o : o = off + 4 /\ o \in Nat
  <2>1. off + 4 \in Nat
    BY <1>5
  <2> QED
    BY <2>1
<1>11. PICK y : y = [k \in 1..n |-> [at |-> o + Length(blocks, k - 1), bytes |-> blocks[k]]]
  OBVIOUS
<1>12. Writes(y, o, o + l, to, (o + 1)..(o + l))
  <2>1. blocks \in Seq(Seq(Bytes)) /\ n = Len(blocks) /\ f = FlattenSeq(blocks)
    BY <1>1, <1>2, <1>10 DEF EndBlocks
  <2>2. \A p \in 1..Len(f) : to[o + p] = f[p]
    <3> TAKE p \in 1..Len(f)
    <3>1. p \in 1..l /\ 4 + p \in 1..(4 + l) /\ o + p = off + (4 + p)
      <4>1. p \in 1..l
        BY <1>1
      <4>2. l \in Nat /\ off \in Nat /\ o = off + 4
        BY <1>5, <1>11a
      <4> QED
        BY ONLY <4>1, <4>2
    <3>2. one[4 + p] = f[p]
      BY <1>4, <3>1 DEF AndThen
    <3> QED
      BY <1>6, <3>1, <3>2
  <2>3. Writes(y, o, o + Len(f), to, (o + 1)..(o + Len(f)))
    <3>1. o \in Nat
      BY <1>11a
    <3> QED
      BY ONLY <1>11, <2>1, <2>2, <3>1, WritesBlocks
  <2> QED
    BY <1>1, <2>3
<1>13. Writes(x \o y, off, o + l, to, (off + 1)..(o + l))
  <2>1. (off + 1)..(o + l) = ((off + 1)..(off + 4)) \cup ((o + 1)..(o + l))
    BY <1>5, <1>11a
  <2>2. off + 4 <= o
    BY <1>5, <1>11a
  <2> QED
    BY ONLY <1>8, <1>12, <2>1, <2>2, WritesBoth
<1>14. PICK chars : chars = [k \in 1..n |-> FlattenSeq(parts[k])]
  OBVIOUS
<1>15. CharBlocks(chars, parts, n)
  BY ONLY <1>1, <1>2, <1>14, CharsOfParts
<1>16. PICK z : z = [k \in 1..n |-> [at |-> off2 + Length(chars, k - 1), bytes |-> chars[k]]]
  OBVIOUS
<1>17. Writes(z, off2, off2 + l2, to, (off2 + 1)..(off2 + l2))
  <2>1. chars \in Seq(Seq(Bytes)) /\ n = Len(chars) /\ two = FlattenSeq(chars)
    BY <1>2, <1>15 DEF CharBlocks
  <2>2. \A p \in 1..Len(two) : to[off2 + p] = two[p]
    BY <1>1, <1>6
  <2>3. off2 \in Nat
    BY <1>5
  <2>4. Writes(z, off2, off2 + Len(two), to, (off2 + 1)..(off2 + Len(two)))
    BY ONLY <1>16, <2>1, <2>2, <2>3, WritesBlocks
  <2> QED
    BY <1>1, <2>4
<1>18. PICK all : all = ((off + 1)..(o + l)) \cup ((off2 + 1)..(off2 + l2))
  OBVIOUS
<1>19. Writes((x \o y) \o z, off, off2 + l2, to, all)
  <2>1. o + l <= off2
    BY <1>5, <1>11a
  <2> QED
    BY ONLY <1>13, <1>17, <1>18, <2>1, WritesBoth
<1>20. \A k \in 1..n :
         /\ k - 1 \in 0..n
         /\ FlattenSeq([i \in 1..Len(parts[k]) |->
              Little(Offsets(parts[k])[i + 1] + Len(FlattenSeq(FlattenSeq(SubSeq(parts, 1, k - 1)))), 4)]) = blocks[k]
         /\ 4 * Len(FlattenSeq(SubSeq(parts, 1, k - 1))) = Length(blocks, k - 1)
         /\ Len(FlattenSeq(FlattenSeq(SubSeq(parts, 1, k - 1)))) = Length(chars, k - 1)
         /\ FlattenSeq(parts[k]) = chars[k]
  <2> TAKE k \in 1..n
  <2>1. k - 1 \in 0..n
    BY <1>2
  <2>2. FlattenSeq([i \in 1..Len(parts[k]) |->
              Little(Offsets(parts[k])[i + 1] + Len(FlattenSeq(FlattenSeq(SubSeq(parts, 1, k - 1)))), 4)]) = blocks[k]
    BY <1>9 DEF Fours, FourSeq, Upto
  <2>3. 4 * Len(FlattenSeq(SubSeq(parts, 1, k - 1))) = Length(blocks, k - 1)
    BY <1>10, <2>1 DEF EndBlocks, Length, Upto
  <2>4. Len(FlattenSeq(FlattenSeq(SubSeq(parts, 1, k - 1)))) = Length(chars, k - 1)
    BY <1>15, <2>1 DEF CharBlocks, Length, Upto
  <2> QED
    BY <1>14, <2>1, <2>2, <2>3, <2>4
<1>21. Copies(col, e) = (x \o y) \o z
  <2>1. PICK u : u = [k \in 1..n |->
                  [at |-> off + 4 + 4 * Len(FlattenSeq(SubSeq(parts, 1, k - 1))),
                   bytes |-> FlattenSeq([i \in 1..Len(parts[k]) |->
                      Little(Offsets(parts[k])[i + 1] + Len(FlattenSeq(FlattenSeq(SubSeq(parts, 1, k - 1)))), 4)])]]
    OBVIOUS
  <2>2. PICK v : v = [k \in 1..n |->
                  [at |-> off2 + Len(FlattenSeq(FlattenSeq(SubSeq(parts, 1, k - 1)))), bytes |-> FlattenSeq(parts[k])]]
    OBVIOUS
  <2>3. u = y
    <3>1. \A k \in 1..n : off + 4 + 4 * Len(FlattenSeq(SubSeq(parts, 1, k - 1))) = o + Length(blocks, k - 1)
      BY <1>11a, <1>20
    <3> QED
      BY <1>11, <1>20, <2>1, <3>1
  <2>4. v = z
    BY <1>16, <1>20, <2>2
  <2>5. Copies(col, e) = (x \o u) \o v
    BY <1>1, <1>2, <1>7, <2>1, <2>2 DEF Copies, Shift
  <2> QED
    BY <2>3, <2>4, <2>5
<1>22. off2 + l2 = End(e, col)
  BY <1>1 DEF End
<1>23. all = Region(e, col)
  <2>1. o + l = off + Len(One(col))
    <3>1. Len(One(col)) = 4 + l /\ l \in Nat /\ off \in Nat /\ o = off + 4
      BY <1>1, <1>5, <1>11a
    <3> QED
      BY ONLY <3>1
  <2> QED
    BY <1>1, <1>18, <2>1 DEF Region
<1> QED
  BY <1>1, <1>19, <1>21, <1>22, <1>23

\* The task of a column writes its buffers, each byte once, whatever its parts.
LEMMA ColumnWrites ==
    ASSUME NEW col, Splits(col), NEW e, e.buf1_off \in Nat, e.buf2_off \in Nat,
           col.type = "utf8" => e.buf1_off + Len(One(col)) <= e.buf2_off,
           NEW to, Holds(to, e, col)
    PROVE  Writes(Copies(col, e), e.buf1_off, End(e, col), to, Region(e, col))
PROOF
<1>1. CASE col.type = "utf8"
  BY <1>1, TextWrites
<1>2. CASE col.type # "utf8"
  BY <1>2, NumberWrites
<1> QED
  BY <1>1, <1>2

-----------------------------------------------------------------------------
(* Where the columns go, by either encoder. *)

\* Padding reaches the next multiple of 8.
LEMMA Alignment ==
    ASSUME NEW n \in Nat
    PROVE  /\ Padding(n) \in 0..7 /\ Aligned(n) \in Nat /\ Aligned(n) = n + Padding(n)
           /\ n <= Aligned(n) /\ Aligned(n) % 8 = 0
PROOF
<1>1. Padding(n) \in 0..7
  BY DEF Padding
<1>2. (n + Padding(n)) % 8 = 0
  BY DEF Padding
<1>3. PICK m : m = Padding(n)
  OBVIOUS
<1>4. m \in 0..7 /\ (n + m) % 8 = 0 /\ Aligned(n) = n + m
  BY <1>1, <1>2, <1>3 DEF Aligned
<1>5. n + m \in Nat /\ n <= n + m
  BY ONLY <1>4, n \in Nat
<1> QED
  BY <1>3, <1>4, <1>5

\* Alignment appends zeros.
LEMMA AlignBytes ==
    ASSUME NEW s, s \in Seq(Bytes), NEW n, n = Len(s)
    PROVE  /\ Align8(s) \in Seq(Bytes) /\ Len(Align8(s)) = Aligned(n) /\ n \in Nat /\ n <= Aligned(n)
           /\ \A p \in 1..n : Align8(s)[p] = s[p]
           /\ \A p \in (n + 1)..Aligned(n) : Align8(s)[p] = 0
PROOF
<1>1. PICK m, z : m = Padding(n) /\ z = Zeros(m)
  OBVIOUS
<1>2. n \in Nat /\ m \in Nat /\ Aligned(n) = n + m /\ n <= Aligned(n)
  <2>1. n \in Nat
    OBVIOUS
  <2>2. /\ Padding(n) \in 0..7 /\ Aligned(n) = n + Padding(n) /\ n <= Aligned(n)
    BY ONLY <2>1, Alignment
  <2>3. m \in 0..7
    BY <1>1, <2>2
  <2>4. m \in Nat
    BY ONLY <2>3
  <2> QED
    BY <1>1, <2>1, <2>2, <2>4
<1>3. z \in [1..m -> Bytes] /\ \A i \in 1..m : z[i] = 0
  BY <1>1 DEF Zeros, Bytes
<1>4. z \in Seq(Bytes) /\ Len(z) = m
  BY ONLY <1>2, <1>3, SeqMade
<1>5. PICK a : a = s \o z
  OBVIOUS
<1>6. a \in Seq(Bytes) /\ AndThen(a, s, n, z, m)
  BY ONLY <1>4, <1>5, s \in Seq(Bytes), n = Len(s), ConcatIs
<1>7. Align8(s) = a
  BY <1>1, <1>5 DEF Align8
<1>8. ASSUME NEW p \in (n + 1)..(n + m) PROVE a[p] = 0
  <2>1. p - n \in 1..m /\ p = n + (p - n)
    BY <1>2
  <2> QED
    BY <1>3, <1>6, <2>1 DEF AndThen
<1>9. Len(a) = n + m /\ \A p \in 1..n : a[p] = s[p]
  BY <1>6 DEF AndThen
<1> QED
  BY <1>2, <1>6, <1>7, <1>8, <1>9

\* The entry of a column when the buffer so far is n bytes long.
EntryAt(n, col) ==
    [validity_off |-> 0, validity_len |-> 0,
     buf1_off |-> Aligned(n), buf1_len |-> Len(One(col)),
     buf2_off |-> IF col.type = "utf8" THEN Aligned(Aligned(n) + Len(One(col))) ELSE 0,
     buf2_len |-> Len(Two(col)),
     flags |-> IF col.type = "utf8" /\ IsAscii(Two(col)) THEN FlagAscii ELSE 0]
EndAt(n, col) == End(EntryAt(n, col), col)

Offset == [validity_off : Nat, validity_len : Nat, buf1_off : Nat, buf1_len : Nat,
           buf2_off : Nat, buf2_len : Nat, flags : Bytes]

\* The buffers are bytes, and only texts have a second.
LEMMA Buffers ==
    ASSUME NEW col, Splits(col)
    PROVE  /\ One(col) \in Seq(Bytes) /\ Len(One(col)) \in Nat /\ Two(col) \in Seq(Bytes) /\ Len(Two(col)) \in Nat
           /\ col.type # "utf8" => Two(col) = <<>> /\ Len(Two(col)) = 0
PROOF
<1>1. CASE col.type = "utf8"
  BY <1>1, TextBuffers
<1>2. CASE col.type # "utf8"
  <2>1. One(col) \in Seq(Bytes) /\ Two(col) = <<>>
    BY <1>2, NumberBuffers
  <2>2. Two(col) \in Seq(Bytes) /\ Len(Two(col)) = 0
    BY <2>1
  <2>3. Len(One(col)) \in Nat
    BY <2>1
  <2> QED
    BY <1>2, <2>1, <2>2, <2>3
<1> QED
  BY <1>1, <1>2

\* A column's buffers come behind what is there, in order, on boundaries.
LEMMA EntryIs ==
    ASSUME NEW col, Splits(col), NEW n \in Nat
    PROVE  /\ EntryAt(n, col) \in Offset /\ EndAt(n, col) \in Nat
           /\ n <= EntryAt(n, col).buf1_off /\ EntryAt(n, col).buf1_off <= EndAt(n, col)
           /\ EntryAt(n, col).buf1_off + Len(One(col)) <= EndAt(n, col)
           /\ EntryAt(n, col).buf1_off % 8 = 0 /\ EntryAt(n, col).buf2_off % 8 = 0
           /\ col.type = "utf8" => /\ EntryAt(n, col).buf1_off + Len(One(col)) <= EntryAt(n, col).buf2_off
                                   /\ EndAt(n, col) = EntryAt(n, col).buf2_off + Len(Two(col))
           /\ col.type # "utf8" => EndAt(n, col) = EntryAt(n, col).buf1_off + Len(One(col))
PROOF
<1>1. PICK a, b, l, m : a = Aligned(n) /\ l = Len(One(col)) /\ b = Aligned(a + l) /\ m = Len(Two(col))
  OBVIOUS
<1>2. l \in Nat /\ m \in Nat
  BY <1>1, Buffers
<1>3. a \in Nat /\ n <= a /\ a % 8 = 0
  BY <1>1, Alignment
<1>4. b \in Nat /\ a + l <= b /\ b % 8 = 0
  <2>1. a + l \in Nat
    BY <1>2, <1>3
  <2> QED
    BY <1>1, <2>1, Alignment
<1>5. PICK e : e = EntryAt(n, col)
  OBVIOUS
<1>6. /\ e.buf1_off = a /\ e.buf1_len = l /\ e.buf2_len = m
      /\ e.buf2_off = IF col.type = "utf8" THEN b ELSE 0
  BY <1>1, <1>5 DEF EntryAt
<1>7. e \in Offset
  <2>1. FlagAscii \in Bytes /\ 0 \in Nat /\ 0 \in Bytes
    BY DEF FlagAscii, Bytes
  <2>2. /\ e = [validity_off |-> 0, validity_len |-> 0, buf1_off |-> a, buf1_len |-> l,
                buf2_off |-> e.buf2_off, buf2_len |-> m, flags |-> e.flags]
        /\ e.flags \in Bytes
    BY <1>1, <1>5, <2>1 DEF EntryAt
  <2> QED
    BY <1>2, <1>3, <1>4, <1>6, <2>1, <2>2 DEF Offset
<1>8. EndAt(n, col) = IF col.type = "utf8" THEN b + m ELSE a + l
  BY <1>1, <1>5, <1>6 DEF EndAt, End
<1>9. CASE col.type = "utf8"
  <2>1. e.buf2_off = b /\ EndAt(n, col) = b + m /\ e.buf1_off = a
    BY <1>6, <1>8, <1>9
  <2>2. b + m \in Nat /\ a <= b + m /\ a + l <= b + m
    BY <1>2, <1>3, <1>4
  <2> QED
    BY <1>1, <1>3, <1>4, <1>5, <1>7, <1>9, <2>1, <2>2
<1>10. CASE col.type # "utf8"
  <2>1. e.buf2_off = 0 /\ EndAt(n, col) = a + l /\ e.buf1_off = a
    BY <1>6, <1>8, <1>10
  <2>2. a + l \in Nat /\ a <= a + l /\ 0 % 8 = 0
    BY <1>2, <1>3
  <2> QED
    BY <1>1, <1>3, <1>5, <1>7, <1>10, <2>1, <2>2
<1> QED
  BY <1>9, <1>10

\* The parallel encoder's first pass makes that entry.
LEMMA PlacedIs ==
    ASSUME NEW col, Splits(col), NEW acc
    PROVE  Placed(acc, col) = [end |-> EndAt(acc.end, col),
                               entries |-> Append(acc.entries, EntryAt(acc.end, col))]
PROOF
<1>1. Slots(col) = Rows(col)
  BY SplitParts
<1>2. CASE col.type = "utf8"
  <2>1. FlattenSeq(Slots(col)) = Two(col) /\ (Len(Rows(col)) + 1) * 4 = Len(One(col))
    BY <1>1, <1>2, TextBuffers
  <2> QED
    BY <1>2, <2>1 DEF Placed, EndAt, End, EntryAt
<1>3. CASE col.type # "utf8"
  <2>1. Len(Rows(col)) * 8 = Len(One(col)) /\ Len(Two(col)) = 0
    BY <1>3, NumberBuffers, Buffers
  <2> QED
    BY <1>3, <2>1 DEF Placed, EndAt, End, EntryAt
<1> QED
  BY <1>2, <1>3

\* The bytes after a column was put.
PutBytes(s, col) ==
    IF col.type = "utf8" THEN Align8(Align8(s) \o One(col)) \o Two(col) ELSE Align8(s) \o One(col)

\* The serial encoder makes that entry, too.
LEMMA PutIs ==
    ASSUME NEW col, Splits(col), NEW acc, acc.bytes \in Seq(Bytes), NEW n, n = Len(acc.bytes)
    PROVE  PutColumn(acc, Finish(col)) = [bytes |-> PutBytes(acc.bytes, col),
                                          entries |-> Append(acc.entries, EntryAt(n, col))]
PROOF
<1>1. PICK f, s, a, b : /\ f = Finish(col) /\ s = Align8(acc.bytes)
                        /\ a = s \o One(col) /\ b = Align8(a)
  OBVIOUS
<1>2. /\ f.type = col.type /\ f.nullable = FALSE /\ f.validity = <<>>
      /\ Buf1(f) = One(col) /\ Buf2(f) = Two(col)
  BY <1>1, SplitFinish DEF One, Two
<1>3. s \in Seq(Bytes) /\ Len(s) = Aligned(n)
  BY <1>1, AlignBytes
<1>4. a \in Seq(Bytes) /\ Len(a) = Aligned(n) + Len(One(col))
  <2>1. One(col) \in Seq(Bytes)
    BY Buffers
  <2>2. a \in Seq(Bytes) /\ AndThen(a, s, Len(s), One(col), Len(One(col)))
    BY ONLY <1>1, <1>3, <2>1, ConcatIs
  <2> QED
    BY <1>3, <2>2 DEF AndThen
<1>5. Len(b) = Aligned(Aligned(n) + Len(One(col)))
  BY <1>1, <1>4, AlignBytes
<1>6. Len(<<>>) = 0
  OBVIOUS
<1>7. CASE col.type = "utf8"
  <2>1. PutColumn(acc, f) =
          [bytes |-> b \o Two(col),
           entries |-> Append(acc.entries,
             [validity_off |-> 0, validity_len |-> Len(<<>>), buf1_off |-> Len(s), buf1_len |-> Len(One(col)),
              buf2_off |-> Len(b), buf2_len |-> Len(Two(col)),
              flags |-> 0 + (IF IsAscii(Two(col)) THEN FlagAscii ELSE 0)])]
    BY <1>1, <1>2, <1>7 DEF PutColumn
  <2>2. 0 + (IF IsAscii(Two(col)) THEN FlagAscii ELSE 0) = IF IsAscii(Two(col)) THEN FlagAscii ELSE 0
    BY DEF FlagAscii
  <2>3. EntryAt(n, col) =
             [validity_off |-> 0, validity_len |-> 0, buf1_off |-> Len(s), buf1_len |-> Len(One(col)),
              buf2_off |-> Len(b), buf2_len |-> Len(Two(col)),
              flags |-> IF IsAscii(Two(col)) THEN FlagAscii ELSE 0]
    BY <1>3, <1>5, <1>7 DEF EntryAt
  <2>4. PutBytes(acc.bytes, col) = b \o Two(col)
    BY <1>1, <1>7 DEF PutBytes
  <2> QED
    BY <1>1, <1>6, <2>1, <2>2, <2>3, <2>4
<1>8. CASE col.type # "utf8"
  <2>1. PutColumn(acc, f) =
          [bytes |-> a,
           entries |-> Append(acc.entries,
             [validity_off |-> 0, validity_len |-> Len(<<>>), buf1_off |-> Len(s), buf1_len |-> Len(One(col)),
              buf2_off |-> 0, buf2_len |-> Len(Two(col)), flags |-> 0 + 0])]
    BY <1>1, <1>2, <1>8 DEF PutColumn
  <2>2. EntryAt(n, col) =
             [validity_off |-> 0, validity_len |-> 0, buf1_off |-> Len(s), buf1_len |-> Len(One(col)),
              buf2_off |-> 0, buf2_len |-> Len(Two(col)), flags |-> 0]
    BY <1>3, <1>8 DEF EntryAt
  <2>3. PutBytes(acc.bytes, col) = a /\ 0 + 0 = 0
    BY <1>1, <1>8 DEF PutBytes
  <2> QED
    BY <1>1, <1>6, <2>1, <2>2, <2>3
<1> QED
  BY <1>7, <1>8

-----------------------------------------------------------------------------
(* The columns one after the other, in either encoder. *)

AllSplit(cols, n) == n \in Nat /\ n = Len(cols) /\ \A i \in 1..n : Splits(cols[i])

Placing(L, cols, n, start) ==
    /\ L[0] = [end |-> start, entries |-> <<>>]
    /\ \A i \in 1..n : L[i] = Placed(L[i - 1], cols[i])
Putting(P, cols, n, start) ==
    /\ P[0] = [bytes |-> start, entries |-> <<>>]
    /\ \A i \in 1..n : P[i] = PutColumn(P[i - 1], Finish(cols[i]))

\* The first pass goes column by column.
LEMMA LaidOutRuns ==
    ASSUME NEW cols, NEW n, AllSplit(cols, n), NEW start \in Nat,
           start = Aligned(NamesOff(cols) + Len(NameBytes(cols)))
    PROVE  Placing(LaidOut(cols), cols, n, start)
PROOF
<1>0. n \in Nat /\ n = Len(cols) /\ \A i \in 1..n : Splits(cols[i])
  BY DEF AllSplit
<1>1. PICK A : A = [end : Nat, entries : Seq(Offset)]
  OBVIOUS
<1> DEFINE Body(f) == [i \in 0..n |-> IF i = 0 THEN [end |-> start, entries |-> <<>>]
                                      ELSE Placed(f[i - 1], cols[i])]
<1>2. [end |-> start, entries |-> <<>>] \in A
  BY <1>1
<1>3. ASSUME NEW i \in 1..n, NEW acc, acc \in A PROVE Placed(acc, cols[i]) \in A
  <2>1. acc.end \in Nat /\ acc.entries \in Seq(Offset) /\ Splits(cols[i])
    BY <1>0, <1>1, <1>3
  <2>2. EntryAt(acc.end, cols[i]) \in Offset /\ EndAt(acc.end, cols[i]) \in Nat
    BY <2>1, EntryIs
  <2>3. Placed(acc, cols[i]) = [end |-> EndAt(acc.end, cols[i]),
                                entries |-> Append(acc.entries, EntryAt(acc.end, cols[i]))]
    BY ONLY <2>1, PlacedIs
  <2>4. Append(acc.entries, EntryAt(acc.end, cols[i])) \in Seq(Offset)
    BY ONLY <2>1, <2>2
  <2> QED
    BY <1>1, <2>2, <2>3, <2>4
<1>4. PICK step : step = [i \in 1..n |-> [acc \in A |-> Placed(acc, cols[i])]]
  OBVIOUS
<1>5. step \in [1..n -> [A -> A]]
  BY <1>3, <1>4
<1>6. PICK base : base = [end |-> start, entries |-> <<>>] /\ base \in A
  BY <1>2
<1>7. PICK F \in [0..n -> A] : F[0] = base /\ \A i \in 1..n : F[i] = step[i][F[i - 1]]
  <2>1. n \in Nat /\ base \in A
    BY <1>0, <1>6
  <2> QED
    BY ONLY <1>5, <2>1, Recursion
<1>8. \A i \in 1..n : F[i] = Placed(F[i - 1], cols[i])
  <2> TAKE i \in 1..n
  <2>1. i - 1 \in 0..n
    BY <1>0
  <2>2. F[i - 1] \in A
    BY <1>7, <2>1
  <2>3. F[i] = step[i][F[i - 1]]
    BY <1>7
  <2> QED
    BY <1>4, <2>2, <2>3
<1>9. F = Body(F)
  <2>1. \A i \in 0..n : i # 0 => i \in 1..n
    BY <1>0
  <2>2. \A i \in 0..n : F[i] = IF i = 0 THEN [end |-> start, entries |-> <<>>] ELSE Placed(F[i - 1], cols[i])
    BY <1>6, <1>7, <1>8, <2>1
  <2>3. F = [i \in 0..n |-> F[i]]
    BY <1>7
  <2> QED
    BY <2>2, <2>3, Zenon
<1>10. PICK G : G = (CHOOSE f : f = Body(f))
  <2> HIDE DEF Body
  <2> QED
    BY Zenon
<1>11. G = Body(G)
  <2> HIDE DEF Body
  <2> QED
    BY <1>9, <1>10, Zenon
<1>12. LaidOut(cols) = G
  BY <1>0, <1>10, Zenon DEF LaidOut
<1>13. G[0] = [end |-> start, entries |-> <<>>]
  <2>1. 0 \in 0..n
    BY <1>0
  <2> QED
    BY <1>11, <2>1
<1>14. ASSUME NEW i \in 1..n PROVE G[i] = Placed(G[i - 1], cols[i])
  <2>1. i \in 0..n /\ i # 0
    BY <1>0
  <2> QED
    BY <1>11, <2>1
<1> QED
  BY <1>12, <1>13, <1>14 DEF Placing

\* After the first i columns: the end, the entries.
Laid(L, cols, n) ==
    /\ \A i \in 0..n : L[i].end \in Nat /\ L[i].entries \in Seq(Offset) /\ Len(L[i].entries) = i
    /\ \A i \in 1..n : L[i].end = EndAt(L[i - 1].end, cols[i])
    /\ \A i \in 1..n : L[i].entries = Append(L[i - 1].entries, EntryAt(L[i - 1].end, cols[i]))
    /\ \A i \in 0..n : \A k \in 1..i : L[i].entries[k] = EntryAt(L[k - 1].end, cols[k])
    /\ \A i \in 0..n : \A k \in 0..i : L[k].end <= L[i].end

\* What the first pass has placed after each column.
LEMMA LaidOutIs ==
    ASSUME NEW cols, NEW n, AllSplit(cols, n), NEW start \in Nat, NEW L, Placing(L, cols, n, start)
    PROVE  Laid(L, cols, n)
PROOF
<1>0. n \in Nat /\ \A i \in 1..n : Splits(cols[i])
  BY DEF AllSplit
<1>1. PICK P : P = {i \in 0..n : /\ L[i].end \in Nat /\ L[i].entries \in Seq(Offset) /\ Len(L[i].entries) = i
                                 /\ \A k \in 1..i : L[i].entries[k] = EntryAt(L[k - 1].end, cols[k])
                                 /\ \A k \in 0..i : L[k].end \in Nat /\ L[k].end <= L[i].end}
  OBVIOUS
<1>2. 0 \in P
  <2>1. L[0].end = start /\ L[0].entries = <<>>
    BY DEF Placing
  <2>2. <<>> \in Seq(Offset) /\ Len(<<>>) = 0 /\ 0 \in 0..n
    BY <1>0
  <2>3. \A k \in 1..0 : L[0].entries[k] = EntryAt(L[k - 1].end, cols[k])
    OBVIOUS
  <2>4. \A k \in 0..0 : L[k].end \in Nat /\ L[k].end <= L[0].end
    <3> TAKE k \in 0..0
    <3>1. k = 0
      OBVIOUS
    <3> QED
      BY <2>1, <3>1
  <2>5. /\ L[0].end \in Nat /\ L[0].entries \in Seq(Offset) /\ Len(L[0].entries) = 0
    BY <2>1, <2>2
  <2> QED
    BY ONLY <1>1, <2>2, <2>3, <2>4, <2>5
\* The step of column i.
<1>3. ASSUME NEW i \in 1..n, L[i - 1].end \in Nat, L[i - 1].entries \in Seq(Offset)
      PROVE  /\ L[i].end = EndAt(L[i - 1].end, cols[i]) /\ L[i].end \in Nat /\ L[i - 1].end <= L[i].end
             /\ L[i].entries = Append(L[i - 1].entries, EntryAt(L[i - 1].end, cols[i]))
             /\ EntryAt(L[i - 1].end, cols[i]) \in Offset
  <2>1. PICK acc, col, m : acc = L[i - 1] /\ col = cols[i] /\ m = acc.end /\ m \in Nat /\ Splits(col)
    BY <1>0, <1>3
  <2>2. L[i] = Placed(acc, col)
    BY <2>1 DEF Placing
  <2>3. Placed(acc, col) = [end |-> EndAt(acc.end, col), entries |-> Append(acc.entries, EntryAt(acc.end, col))]
    BY ONLY <2>1, PlacedIs
  <2>4. /\ EntryAt(m, col) \in Offset /\ EndAt(m, col) \in Nat
        /\ m <= EntryAt(m, col).buf1_off /\ EntryAt(m, col).buf1_off <= EndAt(m, col)
    BY <2>1, EntryIs
  <2>5. m <= EndAt(m, col)
    <3>1. PICK b : b = EntryAt(m, col).buf1_off
      OBVIOUS
    <3>2. b \in Nat
      BY <2>4, <3>1 DEF Offset
    <3> QED
      BY <2>1, <2>4, <3>1, <3>2
  <2> QED
    BY <2>1, <2>2, <2>3, <2>4, <2>5
<1>4. ASSUME NEW i \in 1..n, i - 1 \in P PROVE i \in P
  <2>1. /\ L[i - 1].end \in Nat /\ L[i - 1].entries \in Seq(Offset) /\ Len(L[i - 1].entries) = i - 1
        /\ \A k \in 1..(i - 1) : L[i - 1].entries[k] = EntryAt(L[k - 1].end, cols[k])
        /\ \A k \in 0..(i - 1) : L[k].end \in Nat /\ L[k].end <= L[i - 1].end
    BY <1>1, <1>4
  <2>2. /\ L[i].end \in Nat /\ L[i - 1].end <= L[i].end
        /\ L[i].entries = Append(L[i - 1].entries, EntryAt(L[i - 1].end, cols[i]))
        /\ EntryAt(L[i - 1].end, cols[i]) \in Offset
    BY <1>3, <2>1
  <2>3. PICK s, x : s = L[i - 1].entries /\ x = EntryAt(L[i - 1].end, cols[i])
    OBVIOUS
  <2>4. s \in Seq(Offset) /\ Len(s) = i - 1 /\ x \in Offset /\ L[i].entries = Append(s, x) /\ i \in 1..n
    BY <2>1, <2>2, <2>3
  <2>5. L[i].entries \in Seq(Offset) /\ Len(L[i].entries) = i
    <3>1. Append(s, x) \in Seq(Offset) /\ Len(Append(s, x)) = Len(s) + 1
      BY ONLY <2>4
    <3> QED
      BY <1>0, <2>4, <3>1
  <2>6. ASSUME NEW k \in 1..i PROVE L[i].entries[k] = EntryAt(L[k - 1].end, cols[k])
    <3>1. CASE k = i
      <4>1. Append(s, x)[Len(s) + 1] = x
        BY ONLY <2>4
      <4>2. Len(s) + 1 = i
        BY <1>0, <2>4
      <4> QED
        BY <2>3, <2>4, <3>1, <4>1, <4>2
    <3>2. CASE k # i
      <4>1. k \in 1..(i - 1) /\ k \in 1..Len(s)
        BY <1>0, <2>4, <3>2
      <4>2. Append(s, x)[k] = s[k]
        BY ONLY <2>4, <4>1
      <4> QED
        BY <2>1, <2>3, <2>4, <4>1, <4>2
    <3> QED
      BY <3>1, <3>2
  <2>7. ASSUME NEW k \in 0..i PROVE L[k].end \in Nat /\ L[k].end <= L[i].end
    <3>1. CASE k = i
      BY <2>2, <3>1
    <3>2. CASE k # i
      <4>1. k \in 0..(i - 1) /\ k \in 0..n
        BY <1>0, <3>2
      <4>2. L[k].end \in Nat /\ L[k].end <= L[i - 1].end
        BY <2>1, <4>1
      <4> QED
        BY <2>1, <2>2, <4>2
    <3> QED
      BY <3>1, <3>2
  <2>8. i \in 0..n
    BY <1>0
  <2> QED
    BY <1>1, <2>2, <2>5, <2>6, <2>7, <2>8
<1>5. 0..n \subseteq P
  BY ONLY <1>0, <1>2, <1>4, UpTo
<1>6. \A i \in 0..n : /\ L[i].end \in Nat /\ L[i].entries \in Seq(Offset) /\ Len(L[i].entries) = i
                      /\ \A k \in 1..i : L[i].entries[k] = EntryAt(L[k - 1].end, cols[k])
                      /\ \A k \in 0..i : L[k].end <= L[i].end
  BY <1>1, <1>5
<1>7. \A i \in 1..n : i - 1 \in 0..n
  BY <1>0
<1>8. \A i \in 1..n : /\ L[i].end = EndAt(L[i - 1].end, cols[i])
                      /\ L[i].entries = Append(L[i - 1].entries, EntryAt(L[i - 1].end, cols[i]))
  BY <1>3, <1>6, <1>7
<1> QED
  BY <1>6, <1>8 DEF Laid

\* c is s, zeros up to a, and x.
Behind8(c, s, n, a, x, m) ==
    /\ c \in Seq(Bytes) /\ Len(c) = a + m /\ n \in Nat /\ a \in Nat /\ m \in Nat /\ n <= a
    /\ \A p \in 1..n : c[p] = s[p]
    /\ \A p \in (n + 1)..a : c[p] = 0
    /\ \A p \in 1..m : c[a + p] = x[p]

\* What is appended on a boundary.
LEMMA AlignConcat ==
    ASSUME NEW s, s \in Seq(Bytes), NEW n, n = Len(s), NEW a, a = Aligned(n),
           NEW x, x \in Seq(Bytes), NEW m, m = Len(x), NEW c, c = Align8(s) \o x
    PROVE  Behind8(c, s, n, a, x, m)
PROOF
<1>1. PICK t : t = Align8(s)
  OBVIOUS
<1>2. /\ t \in Seq(Bytes) /\ Len(t) = a /\ n \in Nat /\ n <= a
      /\ \A p \in 1..n : t[p] = s[p]
      /\ \A p \in (n + 1)..a : t[p] = 0
  BY <1>1, AlignBytes
<1>3. c \in Seq(Bytes) /\ AndThen(c, t, a, x, m)
  <2>1. a = Len(t) /\ c = t \o x /\ t \in Seq(Bytes)
    BY <1>1, <1>2
  <2> QED
    BY ONLY <2>1, x \in Seq(Bytes), m = Len(x), ConcatIs
<1>4. /\ Len(c) = a + m /\ a \in Nat /\ m \in Nat
      /\ \A p \in 1..a : c[p] = t[p]
      /\ \A p \in 1..m : c[a + p] = x[p]
  BY <1>3 DEF AndThen
<1>5. \A p \in 1..n : p \in 1..a
  BY ONLY <1>2, <1>4
<1>6. \A p \in (n + 1)..a : p \in 1..a
  BY ONLY <1>2, <1>4
<1> QED
  BY <1>2, <1>3, <1>4, <1>5, <1>6 DEF Behind8

\* What putting a column adds to the n bytes before it.
Adds(b, s, n, col, e) ==
    /\ b \in Seq(Bytes) /\ Len(b) = End(e, col) /\ End(e, col) \in Nat /\ n <= End(e, col)
    /\ \A p \in 1..n : b[p] = s[p]
    /\ Holds(b, e, col)
    /\ Region(e, col) \subseteq (n + 1)..End(e, col)
    /\ \A p \in (n + 1)..End(e, col) : p \in Region(e, col) \/ b[p] = 0

\* A column of texts is appended as its entry says.
LEMMA PutAddsText ==
    ASSUME NEW col, Splits(col), col.type = "utf8", NEW s, s \in Seq(Bytes), NEW n, n = Len(s)
    PROVE  Adds(PutBytes(s, col), s, n, col, EntryAt(n, col))
PROOF
<1>1. PICK one, two, l, m, a, d, c, b, e :
        /\ one = One(col) /\ two = Two(col) /\ l = Len(one) /\ m = Len(two)
        /\ a = Aligned(n) /\ d = Aligned(a + l) /\ c = Align8(s) \o one /\ b = Align8(c) \o two
        /\ e = EntryAt(n, col)
  OBVIOUS
<1>2. one \in Seq(Bytes) /\ two \in Seq(Bytes)
  BY <1>1, Buffers
<1>3. Behind8(c, s, n, a, one, l)
  BY ONLY <1>1, <1>2, s \in Seq(Bytes), n = Len(s), AlignConcat
<1>4. c \in Seq(Bytes) /\ Len(c) = a + l /\ n \in Nat /\ a \in Nat /\ l \in Nat /\ n <= a
  BY <1>3 DEF Behind8
<1>5. Behind8(b, c, a + l, d, two, m)
  <2>1. a + l = Len(c)
    BY <1>4
  <2>2. c \in Seq(Bytes)
    BY <1>4
  <2> QED
    BY ONLY <1>1, <1>2, <2>1, <2>2, AlignConcat
<1>6. b \in Seq(Bytes) /\ Len(b) = d + m /\ d \in Nat /\ m \in Nat /\ a + l <= d
  BY <1>5 DEF Behind8
<1>7. e.buf1_off = a /\ e.buf2_off = d
  BY <1>1 DEF EntryAt
<1>8. End(e, col) = d + m /\ Region(e, col) = ((a + 1)..(a + l)) \cup ((d + 1)..(d + m))
  BY <1>1, <1>7 DEF End, Region
<1>9. PutBytes(s, col) = b
  BY <1>1 DEF PutBytes
<1>10. \A p \in 1..n : b[p] = s[p]
  <2> TAKE p \in 1..n
  <2>1. p \in 1..(a + l)
    BY ONLY <1>4, p \in 1..n
  <2> QED
    BY <1>3, <1>5, <2>1 DEF Behind8
<1>11. Holds(b, e, col)
  <2>1. \A p \in 1..l : b[a + p] = one[p]
    <3> TAKE p \in 1..l
    <3>1. a + p \in 1..(a + l)
      BY ONLY <1>4, p \in 1..l
    <3> QED
      BY <1>3, <1>5, <3>1 DEF Behind8
  <2>2. \A p \in 1..m : b[d + p] = two[p]
    BY <1>5 DEF Behind8
  <2> QED
    BY <1>1, <1>7, <2>1, <2>2 DEF Holds
<1>12. ((a + 1)..(a + l)) \cup ((d + 1)..(d + m)) \subseteq (n + 1)..(d + m)
  BY ONLY <1>4, <1>6
<1>13. ASSUME NEW p \in (n + 1)..(d + m)
       PROVE  p \in ((a + 1)..(a + l)) \cup ((d + 1)..(d + m)) \/ b[p] = 0
  <2>1. p \in (n + 1)..a \/ p \in (a + 1)..(a + l) \/ p \in (a + l + 1)..d \/ p \in (d + 1)..(d + m)
    BY ONLY <1>4, <1>6, p \in (n + 1)..(d + m)
  <2>2. CASE p \in (n + 1)..a
    <3>1. p \in 1..(a + l)
      BY ONLY <1>4, <2>2
    <3> QED
      BY <1>3, <1>5, <2>2, <3>1 DEF Behind8
  <2>3. CASE p \in (a + l + 1)..d
    BY <1>5, <2>3 DEF Behind8
  <2> QED
    BY <2>1, <2>2, <2>3
<1>14. d + m \in Nat /\ n <= d + m
  BY ONLY <1>4, <1>6
<1> QED
  BY <1>1, <1>6, <1>8, <1>9, <1>10, <1>11, <1>12, <1>13, <1>14 DEF Adds

\* So is a column of numbers.
LEMMA PutAddsNumbers ==
    ASSUME NEW col, Splits(col), col.type # "utf8", NEW s, s \in Seq(Bytes), NEW n, n = Len(s)
    PROVE  Adds(PutBytes(s, col), s, n, col, EntryAt(n, col))
PROOF
<1>1. PICK one, l, a, b, e :
        one = One(col) /\ l = Len(one) /\ a = Aligned(n) /\ b = Align8(s) \o one /\ e = EntryAt(n, col)
  OBVIOUS
<1>2. one \in Seq(Bytes) /\ Two(col) = <<>> /\ Len(Two(col)) = 0
  BY <1>1, Buffers
<1>3. Behind8(b, s, n, a, one, l)
  BY ONLY <1>1, <1>2, s \in Seq(Bytes), n = Len(s), AlignConcat
<1>4. b \in Seq(Bytes) /\ Len(b) = a + l /\ n \in Nat /\ a \in Nat /\ l \in Nat /\ n <= a
  BY <1>3 DEF Behind8
<1>5. e.buf1_off = a /\ e.buf2_off = 0
  BY <1>1 DEF EntryAt
<1>6. End(e, col) = a + l /\ Region(e, col) = (a + 1)..(a + l)
  <2>1. (0 + 1)..(0 + 0) = {}
    OBVIOUS
  <2> QED
    BY <1>1, <1>2, <1>5, <2>1 DEF End, Region
<1>7. PutBytes(s, col) = b
  BY <1>1 DEF PutBytes
<1>8. Holds(b, e, col)
  <2>1. \A p \in 1..l : b[a + p] = one[p]
    BY <1>3 DEF Behind8
  <2>2. 1..0 = {}
    OBVIOUS
  <2> QED
    BY <1>1, <1>2, <1>5, <2>1, <2>2 DEF Holds
<1>9. (a + 1)..(a + l) \subseteq (n + 1)..(a + l)
  BY ONLY <1>4
<1>10. ASSUME NEW p \in (n + 1)..(a + l) PROVE p \in (a + 1)..(a + l) \/ b[p] = 0
  <2>1. p \in (n + 1)..a \/ p \in (a + 1)..(a + l)
    BY ONLY <1>4, p \in (n + 1)..(a + l)
  <2> QED
    BY <1>3, <2>1 DEF Behind8
<1>11. a + l \in Nat /\ n <= a + l
  BY ONLY <1>4
<1>12. \A p \in 1..n : b[p] = s[p]
  BY <1>3 DEF Behind8
<1> QED
  BY <1>1, <1>4, <1>6, <1>7, <1>8, <1>9, <1>10, <1>11, <1>12 DEF Adds

\* So is every column that is split.
LEMMA PutAdds ==
    ASSUME NEW col, Splits(col), NEW s, s \in Seq(Bytes), NEW n, n = Len(s)
    PROVE  Adds(PutBytes(s, col), s, n, col, EntryAt(n, col))
PROOF
<1>1. CASE col.type = "utf8"
  BY ONLY <1>1, Splits(col), s \in Seq(Bytes), n = Len(s), PutAddsText
<1>2. CASE col.type # "utf8"
  BY ONLY <1>2, Splits(col), s \in Seq(Bytes), n = Len(s), PutAddsNumbers
<1> QED
  BY <1>1, <1>2

\* The serial encoder goes column by column.
LEMMA PutRuns ==
    ASSUME NEW cols, NEW n, AllSplit(cols, n), NEW start, start \in Seq(Bytes),
           start = Align8(Zeros(NamesOff(cols)) \o NameBytes(cols))
    PROVE  Putting(Put(cols), cols, n, start)
PROOF
<1>0. n \in Nat /\ n = Len(cols) /\ \A i \in 1..n : Splits(cols[i])
  BY DEF AllSplit
<1>1. PICK A : A = [bytes : Seq(Bytes), entries : Seq(Offset)]
  OBVIOUS
<1> DEFINE Body(f) == [i \in 0..n |-> IF i = 0 THEN [bytes |-> start, entries |-> <<>>]
                                      ELSE PutColumn(f[i - 1], Finish(cols[i]))]
<1>2. [bytes |-> start, entries |-> <<>>] \in A
  BY <1>1
<1>3. ASSUME NEW i \in 1..n, NEW acc, acc \in A PROVE PutColumn(acc, Finish(cols[i])) \in A
  <2>0. PICK col, s, l : col = cols[i] /\ s = acc.bytes /\ l = Len(s)
    OBVIOUS
  <2>1. s \in Seq(Bytes) /\ acc.entries \in Seq(Offset) /\ Splits(col) /\ l \in Nat
    BY <1>0, <1>1, <1>3, <2>0
  <2>2. EntryAt(l, col) \in Offset
    BY <2>1, EntryIs
  <2>3. PutColumn(acc, Finish(col)) = [bytes |-> PutBytes(acc.bytes, col),
                                       entries |-> Append(acc.entries, EntryAt(l, col))]
    BY <2>0, <2>1, PutIs
  <2>4. Append(acc.entries, EntryAt(l, col)) \in Seq(Offset)
    BY ONLY <2>1, <2>2
  <2>5. PutBytes(s, col) \in Seq(Bytes)
    BY <2>0, <2>1, PutAdds DEF Adds
  <2> QED
    BY <1>1, <2>0, <2>3, <2>4, <2>5
<1>4. PICK step : step = [i \in 1..n |-> [acc \in A |-> PutColumn(acc, Finish(cols[i]))]]
  OBVIOUS
<1>5. step \in [1..n -> [A -> A]]
  BY <1>3, <1>4
<1>6. PICK base : base = [bytes |-> start, entries |-> <<>>] /\ base \in A
  BY <1>2
<1>7. PICK F \in [0..n -> A] : F[0] = base /\ \A i \in 1..n : F[i] = step[i][F[i - 1]]
  <2>1. n \in Nat /\ base \in A
    BY <1>0, <1>6
  <2> QED
    BY ONLY <1>5, <2>1, Recursion
<1>8. \A i \in 1..n : F[i] = PutColumn(F[i - 1], Finish(cols[i]))
  <2> TAKE i \in 1..n
  <2>1. i - 1 \in 0..n
    BY <1>0
  <2>2. F[i - 1] \in A
    BY <1>7, <2>1
  <2>3. F[i] = step[i][F[i - 1]]
    BY <1>7
  <2> QED
    BY <1>4, <2>2, <2>3
<1>9. F = Body(F)
  <2>1. \A i \in 0..n : i # 0 => i \in 1..n
    BY <1>0
  <2>2. \A i \in 0..n : F[i] = IF i = 0 THEN [bytes |-> start, entries |-> <<>>]
                                        ELSE PutColumn(F[i - 1], Finish(cols[i]))
    BY <1>6, <1>7, <1>8, <2>1
  <2>3. F = [i \in 0..n |-> F[i]]
    BY <1>7
  <2> QED
    BY <2>2, <2>3, Zenon
<1>10. PICK G : G = (CHOOSE f : f = Body(f))
  <2> HIDE DEF Body
  <2> QED
    BY Zenon
<1>11. G = Body(G)
  <2> HIDE DEF Body
  <2> QED
    BY <1>9, <1>10, Zenon
<1>12. Put(cols) = G
  BY <1>0, <1>10, Zenon DEF Put
<1>13. G[0] = [bytes |-> start, entries |-> <<>>]
  <2>1. 0 \in 0..n
    BY <1>0
  <2> QED
    BY <1>11, <2>1
<1>14. ASSUME NEW i \in 1..n PROVE G[i] = PutColumn(G[i - 1], Finish(cols[i]))
  <2>1. i \in 0..n /\ i # 0
    BY <1>0
  <2> QED
    BY <1>11, <2>1
<1> QED
  BY <1>12, <1>13, <1>14 DEF Putting

\* The entry and the places of column k.
EntryOf(L, cols, k) == EntryAt(L[k - 1].end, cols[k])
RegionOf(L, cols, k) == Region(EntryOf(L, cols, k), cols[k])

\* The serial encoder puts each column where the first pass places it.
Lined(P, L, cols, n) ==
    /\ \A i \in 0..n : P[i].bytes \in Seq(Bytes) /\ Len(P[i].bytes) = L[i].end /\ P[i].entries = L[i].entries
    /\ \A i \in 1..n : Adds(P[i].bytes, P[i - 1].bytes, L[i - 1].end, cols[i], EntryOf(L, cols, i))

\* The serial encoder is, after each column, where the first pass is.
LEMMA PutLinesUp ==
    ASSUME NEW cols, NEW n, AllSplit(cols, n), NEW start, start \in Seq(Bytes), NEW P, Putting(P, cols, n, start),
           NEW L, Laid(L, cols, n), L[0].end = Len(start), L[0].entries = <<>>
    PROVE  Lined(P, L, cols, n)
PROOF
<1>0. n \in Nat /\ \A i \in 1..n : Splits(cols[i])
  BY DEF AllSplit
<1>1. PICK Q : Q = {i \in 0..n : /\ P[i].bytes \in Seq(Bytes) /\ Len(P[i].bytes) = L[i].end
                                 /\ P[i].entries = L[i].entries}
  OBVIOUS
<1>2. 0 \in Q
  <2>1. P[0].bytes = start /\ P[0].entries = <<>>
    BY DEF Putting
  <2>2. 0 \in 0..n
    BY <1>0
  <2> QED
    BY <1>1, <2>1, <2>2
<1>3. ASSUME NEW i \in 1..n, i - 1 \in Q
      PROVE  /\ i \in Q
             /\ Adds(P[i].bytes, P[i - 1].bytes, L[i - 1].end, cols[i], EntryOf(L, cols, i))
  <2>1. PICK acc, col, s, m : acc = P[i - 1] /\ col = cols[i] /\ s = acc.bytes /\ m = L[i - 1].end
    OBVIOUS
  <2>2. s \in Seq(Bytes) /\ m = Len(s) /\ acc.entries = L[i - 1].entries /\ Splits(col)
    BY <1>0, <1>1, <1>3, <2>1
  <2>3. P[i] = PutColumn(acc, Finish(col))
    BY <2>1 DEF Putting
  <2>4. PutColumn(acc, Finish(col)) = [bytes |-> PutBytes(acc.bytes, col),
                                       entries |-> Append(acc.entries, EntryAt(m, col))]
    BY <2>1, <2>2, PutIs
  <2>5. P[i].bytes = PutBytes(s, col) /\ P[i].entries = Append(acc.entries, EntryAt(m, col))
    BY <2>1, <2>3, <2>4
  <2>6. Adds(PutBytes(s, col), s, m, col, EntryAt(m, col))
    BY ONLY <2>2, PutAdds
  <2>7. L[i].end = EndAt(m, col) /\ L[i].entries = Append(acc.entries, EntryAt(m, col))
    BY <2>1, <2>2 DEF Laid
  <2>8. Len(P[i].bytes) = L[i].end /\ P[i].bytes \in Seq(Bytes)
    BY <2>5, <2>6, <2>7 DEF Adds, EndAt
  <2>9. i \in 0..n
    BY <1>0
  <2> QED
    BY <1>1, <2>1, <2>5, <2>6, <2>7, <2>8, <2>9 DEF EntryOf
<1>4. 0..n \subseteq Q
  BY ONLY <1>0, <1>2, <1>3, UpTo
<1>5. \A i \in 1..n : i - 1 \in 0..n
  BY <1>0
<1> QED
  BY <1>1, <1>3, <1>4, <1>5 DEF Lined

\* A buffer with the first i columns: what was first, the columns, zeros.
Whole(B, first, L, cols, i) ==
    /\ \A p \in 1..L[0].end : B[p] = first[p]
    /\ \A k \in 1..i : Holds(B, EntryOf(L, cols, k), cols[k])
    /\ \A p \in (L[0].end + 1)..L[i].end : B[p] = 0 \/ \E k \in 1..i : p \in RegionOf(L, cols, k)

\* Each column has its places to itself, between its ends.
Apart(L, cols, n) ==
    \A k \in 1..n : RegionOf(L, cols, k) \subseteq (L[k - 1].end + 1)..L[k].end

\* Its bytes are the columns, each at its places, and zeros.
LEMMA PutIsWhole ==
    ASSUME NEW cols, NEW n, AllSplit(cols, n), NEW L, Laid(L, cols, n), NEW P, Lined(P, L, cols, n)
    PROVE  Whole(P[n].bytes, P[0].bytes, L, cols, n) /\ Apart(L, cols, n)
PROOF
<1>0. n \in Nat /\ \A i \in 1..n : Splits(cols[i])
  BY DEF AllSplit
<1>1. \A i \in 0..n : L[i].end \in Nat /\ \A k \in 0..i : L[k].end <= L[i].end
  BY DEF Laid
<1>2. \A k \in 1..n : /\ k - 1 \in 0..n /\ k \in 0..n /\ L[k].end = End(EntryOf(L, cols, k), cols[k])
                      /\ Adds(P[k].bytes, P[k - 1].bytes, L[k - 1].end, cols[k], EntryOf(L, cols, k))
                      /\ L[k].end \in Nat /\ L[k - 1].end \in Nat /\ L[k - 1].end <= L[k].end
  <2> TAKE k \in 1..n
  <2>1. k - 1 \in 0..n /\ k \in 0..n /\ k - 1 \in 0..k
    BY <1>0
  <2>2. L[k].end = End(EntryOf(L, cols, k), cols[k])
    BY DEF Laid, EndAt, EntryOf
  <2>3. Adds(P[k].bytes, P[k - 1].bytes, L[k - 1].end, cols[k], EntryOf(L, cols, k))
    BY DEF Lined
  <2> QED
    BY <1>1, <2>1, <2>2, <2>3
<1>3. Apart(L, cols, n)
  <2>1. ASSUME NEW k \in 1..n PROVE RegionOf(L, cols, k) \subseteq (L[k - 1].end + 1)..L[k].end
    BY <1>2 DEF Adds, RegionOf
  <2> QED
    BY <2>1 DEF Apart
<1>4. PICK Q : Q = {i \in 0..n : Whole(P[i].bytes, P[0].bytes, L, cols, i)}
  OBVIOUS
<1>5. 0 \in Q
  <2>1. 0 \in 0..n /\ L[0].end \in Nat
    BY <1>0, <1>1
  <2>2. 1..0 = {} /\ (L[0].end + 1)..L[0].end = {}
    BY <2>1
  <2>3. Whole(P[0].bytes, P[0].bytes, L, cols, 0)
    BY <2>2 DEF Whole
  <2> QED
    BY <1>4, <2>1, <2>3
<1>6. ASSUME NEW i \in 1..n, i - 1 \in Q PROVE i \in Q
  <2>1. PICK b, s, m, h, z : b = P[i].bytes /\ s = P[i - 1].bytes /\ m = L[i - 1].end /\ h = L[i].end /\ z = L[0].end
    OBVIOUS
  <2>2. Whole(s, P[0].bytes, L, cols, i - 1)
    BY <1>4, <1>6, <2>1
  <2>3. /\ Adds(b, s, m, cols[i], EntryOf(L, cols, i))
        /\ h = End(EntryOf(L, cols, i), cols[i]) /\ m \in Nat /\ h \in Nat /\ m <= h
    BY <1>2, <2>1
  <2>4. /\ \A p \in 1..m : b[p] = s[p]
        /\ Holds(b, EntryOf(L, cols, i), cols[i])
        /\ \A p \in (m + 1)..h : p \in RegionOf(L, cols, i) \/ b[p] = 0
    BY <2>3 DEF Adds, RegionOf
  <2>5. z \in Nat /\ z <= m
    <3>1. 0 \in 0..(i - 1) /\ 0 \in 0..n /\ i - 1 \in 0..n
      BY <1>0
    <3> QED
      BY <1>1, <2>1, <3>1
  <2>6. \A p \in 1..z : b[p] = P[0].bytes[p]
    <3> TAKE p \in 1..z
    <3>1. p \in 1..m
      BY ONLY <2>3, <2>5, p \in 1..z
    <3> QED
      BY <2>1, <2>2, <2>4, <3>1 DEF Whole
  <2>7. ASSUME NEW k \in 1..i PROVE Holds(b, EntryOf(L, cols, k), cols[k])
    <3>1. CASE k = i
      BY <2>4, <3>1
    <3>2. CASE k # i
      <4>1. k \in 1..(i - 1) /\ k \in 1..n
        BY <1>0, <3>2
      <4>2. Holds(s, EntryOf(L, cols, k), cols[k])
        BY <2>2, <4>1 DEF Whole
      <4>3. PICK e, u, v, lu, lv :
               e = EntryOf(L, cols, k) /\ u = One(cols[k]) /\ v = Two(cols[k]) /\ lu = Len(u) /\ lv = Len(v)
        OBVIOUS
      <4>4. RegionOf(L, cols, k) \subseteq (L[k - 1].end + 1)..L[k].end /\ L[k].end \in Nat /\ L[k - 1].end \in Nat
        BY <1>2, <1>3, <4>1 DEF Apart
      <4>5. L[k].end <= m
        <5>1. k \in 0..(i - 1) /\ i - 1 \in 0..n
          BY <1>0, <4>1
        <5> QED
          BY <1>1, <2>1, <5>1
      <4>6. RegionOf(L, cols, k) \subseteq 1..m
        BY <2>3, <4>4, <4>5
      <4>7. RegionOf(L, cols, k) = (e.buf1_off + 1 .. e.buf1_off + lu) \cup (e.buf2_off + 1 .. e.buf2_off + lv)
        BY <4>3 DEF RegionOf, Region
      <4>8. e.buf1_off \in Nat /\ e.buf2_off \in Nat /\ lu \in Nat /\ lv \in Nat
        <5>1. Splits(cols[k]) /\ L[k - 1].end \in Nat
          BY <1>0, <4>1, <4>4
        <5>2. e \in Offset
          BY <4>3, <5>1, EntryIs DEF EntryOf
        <5>3. lu \in Nat /\ lv \in Nat
          BY <4>3, <5>1, Buffers
        <5> QED
          BY <5>2, <5>3 DEF Offset
      <4>9. \A p \in 1..lu : e.buf1_off + p \in 1..m
        <5> TAKE p \in 1..lu
        <5>1. e.buf1_off + p \in e.buf1_off + 1 .. e.buf1_off + lu
          BY <4>8
        <5> QED
          BY <4>6, <4>7, <5>1
      <4>10. \A p \in 1..lv : e.buf2_off + p \in 1..m
        <5> TAKE p \in 1..lv
        <5>1. e.buf2_off + p \in e.buf2_off + 1 .. e.buf2_off + lv
          BY <4>8
        <5> QED
          BY <4>6, <4>7, <5>1
      <4> QED
        BY <2>4, <4>2, <4>3, <4>9, <4>10 DEF Holds
    <3> QED
      BY <3>1, <3>2
  <2>8. ASSUME NEW p \in (z + 1)..h PROVE b[p] = 0 \/ \E k \in 1..i : p \in RegionOf(L, cols, k)
    <3>1. p \in (z + 1)..m \/ p \in (m + 1)..h
      BY <2>3, <2>5
    <3>2. CASE p \in (z + 1)..m
      <4>1. s[p] = 0 \/ \E k \in 1..(i - 1) : p \in RegionOf(L, cols, k)
        BY <2>1, <2>2, <3>2 DEF Whole
      <4>2. \A k \in 1..(i - 1) : k \in 1..i
        BY <1>0
      <4>3. p \in 1..m
        BY <2>3, <2>5, <3>2
      <4> QED
        BY <2>4, <4>1, <4>2, <4>3
    <3>3. CASE p \in (m + 1)..h
      <4>1. i \in 1..i
        BY <1>0
      <4> QED
        BY <2>4, <3>3, <4>1
    <3> QED
      BY <3>1, <3>2, <3>3
  <2>9. Whole(b, P[0].bytes, L, cols, i) /\ i \in 0..n
    BY <1>2, <2>1, <2>6, <2>7, <2>8 DEF Whole
  <2> QED
    BY <1>4, <2>1, <2>9
<1>7. 0..n \subseteq Q
  BY ONLY <1>0, <1>5, <1>6, UpTo
<1>8. n \in 0..n
  BY <1>0
<1> QED
  BY <1>3, <1>4, <1>7, <1>8

-----------------------------------------------------------------------------
(* The header and the directory. *)

Wide(s, m) == s \in Seq(Bytes) /\ Len(s) = m

\* Widths add up.
LEMMA Widened ==
    ASSUME NEW s, NEW m \in Nat, Wide(s, m), NEW t, NEW k \in Nat, Wide(t, k), NEW n, n = m + k
    PROVE  Wide(s \o t, n)
PROOF
<1>1. PICK c : c = s \o t
  OBVIOUS
<1>2. s \in Seq(Bytes) /\ t \in Seq(Bytes) /\ m = Len(s) /\ k = Len(t)
  BY DEF Wide
<1>3. c \in Seq(Bytes) /\ AndThen(c, s, m, t, k)
  BY ONLY <1>1, <1>2, ConcatIs
<1> QED
  BY <1>1, <1>3 DEF AndThen, Wide

\* The widths of the fields.
LEMMA Fields ==
    /\ \A n \in Nat : Wide(Little(n, 4), 4) /\ Wide(Little(n, 2), 2)
    /\ \A x, y \in Bytes : Wide(<<x, y>>, 2)
    /\ Wide(Magic, 4)
PROOF
<1>1. \A n \in Nat : Wide(Little(n, 4), 4)
  BY LittleWidths DEF Wide
<1>2. \A n \in Nat : Wide(Little(n, 2), 2)
  BY LittleBytes DEF Wide
<1>3. \A x, y \in Bytes : Wide(<<x, y>>, 2)
  BY DEF Wide
<1>4. Wide(Magic, 4)
  BY DEF Wide, Magic, Bytes
<1> QED
  BY <1>1, <1>2, <1>3, <1>4

\* A directory entry is as long as ColdirLen says.
LEMMA DirectoryEntryIs ==
    ASSUME NEW x, Len(x.name) \in Nat, x.type \in Types, NEW y \in Nat, NEW o \in Offset
    PROVE  Wide(DirectoryEntry(x, y, o), 40)
PROOF
<1>1. PICK a, b, c, d, f, g, h, i, j, k, z :
        /\ a = Little(y, 4) /\ b = Little(Len(x.name), 4) /\ c = <<Code(x.type), o.flags>> /\ d = Little(0, 2)
        /\ f = Little(o.validity_off, 4) /\ g = Little(o.validity_len, 4)
        /\ h = Little(o.buf1_off, 4) /\ i = Little(o.buf1_len, 4)
        /\ j = Little(o.buf2_off, 4) /\ k = Little(o.buf2_len, 4) /\ z = Little(0, 4)
  OBVIOUS
<1>2. /\ Wide(a, 4) /\ Wide(b, 4) /\ Wide(c, 2) /\ Wide(d, 2) /\ Wide(f, 4) /\ Wide(g, 4)
      /\ Wide(h, 4) /\ Wide(i, 4) /\ Wide(j, 4) /\ Wide(k, 4) /\ Wide(z, 4)
  <2>1. /\ o.validity_off \in Nat /\ o.validity_len \in Nat /\ o.buf1_off \in Nat /\ o.buf1_len \in Nat
        /\ o.buf2_off \in Nat /\ o.buf2_len \in Nat /\ o.flags \in Bytes
    BY DEF Offset
  <2>2. Code(x.type) \in Bytes
    <3>1. x.type = "int" \/ x.type = "float" \/ x.type = "bool" \/ x.type = "utf8"
      BY DEF Types
    <3>2. /\ x.type = "int" => Code(x.type) = 0
          /\ x.type = "float" => Code(x.type) = 1
          /\ x.type = "bool" => Code(x.type) = 2
          /\ x.type = "utf8" => Code(x.type) = 3
      BY DEF Code
    <3>3. 0 \in Bytes /\ 1 \in Bytes /\ 2 \in Bytes /\ 3 \in Bytes
      BY DEF Bytes
    <3> QED
      BY ONLY <3>1, <3>2, <3>3
  <2> QED
    BY <1>1, <2>1, <2>2, Fields
<1>3. PICK c1, c2, c3, c4, c5, c6, c7, c8, c9, c10 :
        /\ c1 = a \o b /\ c2 = c1 \o c /\ c3 = c2 \o d /\ c4 = c3 \o f /\ c5 = c4 \o g
        /\ c6 = c5 \o h /\ c7 = c6 \o i /\ c8 = c7 \o j /\ c9 = c8 \o k /\ c10 = c9 \o z
  OBVIOUS
<1>4. Wide(c1, 8)
  <2>1. Wide(a, 4) /\ Wide(b, 4) /\ 4 + 4 = 8
    BY <1>2
  <2>2. Wide(a \o b, 8)
    BY ONLY <2>1, Widened
  <2> QED
    BY <1>3, <2>2
<1>5. Wide(c2, 10)
  <2>1. Wide(c1, 8) /\ Wide(c, 2) /\ 8 + 2 = 10
    BY <1>2, <1>4
  <2>2. Wide(c1 \o c, 10)
    BY ONLY <2>1, Widened
  <2> QED
    BY <1>3, <2>2
<1>6. Wide(c3, 12)
  <2>1. Wide(c2, 10) /\ Wide(d, 2) /\ 10 + 2 = 12
    BY <1>2, <1>5
  <2>2. Wide(c2 \o d, 12)
    BY ONLY <2>1, Widened
  <2> QED
    BY <1>3, <2>2
<1>7. Wide(c4, 16)
  <2>1. Wide(c3, 12) /\ Wide(f, 4) /\ 12 + 4 = 16
    BY <1>2, <1>6
  <2>2. Wide(c3 \o f, 16)
    BY ONLY <2>1, Widened
  <2> QED
    BY <1>3, <2>2
<1>8. Wide(c5, 20)
  <2>1. Wide(c4, 16) /\ Wide(g, 4) /\ 16 + 4 = 20
    BY <1>2, <1>7
  <2>2. Wide(c4 \o g, 20)
    BY ONLY <2>1, Widened
  <2> QED
    BY <1>3, <2>2
<1>9. Wide(c6, 24)
  <2>1. Wide(c5, 20) /\ Wide(h, 4) /\ 20 + 4 = 24
    BY <1>2, <1>8
  <2>2. Wide(c5 \o h, 24)
    BY ONLY <2>1, Widened
  <2> QED
    BY <1>3, <2>2
<1>10. Wide(c7, 28)
  <2>1. Wide(c6, 24) /\ Wide(i, 4) /\ 24 + 4 = 28
    BY <1>2, <1>9
  <2>2. Wide(c6 \o i, 28)
    BY ONLY <2>1, Widened
  <2> QED
    BY <1>3, <2>2
<1>11. Wide(c8, 32)
  <2>1. Wide(c7, 28) /\ Wide(j, 4) /\ 28 + 4 = 32
    BY <1>2, <1>10
  <2>2. Wide(c7 \o j, 32)
    BY ONLY <2>1, Widened
  <2> QED
    BY <1>3, <2>2
<1>12. Wide(c9, 36)
  <2>1. Wide(c8, 32) /\ Wide(k, 4) /\ 32 + 4 = 36
    BY <1>2, <1>11
  <2>2. Wide(c8 \o k, 36)
    BY ONLY <2>1, Widened
  <2> QED
    BY <1>3, <2>2
<1>13. Wide(c10, 40)
  <2>1. Wide(c9, 36) /\ Wide(z, 4) /\ 36 + 4 = 40
    BY <1>2, <1>12
  <2>2. Wide(c9 \o z, 40)
    BY ONLY <2>1, Widened
  <2> QED
    BY <1>3, <2>2
<1>14. DirectoryEntry(x, y, o) = c10
  BY <1>1, <1>3 DEF DirectoryEntry
<1> QED
  BY <1>13, <1>14

\* The header is as long as HeaderLen says.
LEMMA HeaderIs ==
    ASSUME NEW c \in Nat, NEW r \in Nat
    PROVE  Wide(Header(c, r), 24)
PROOF
<1>1. PICK m, o, z, x, y, h, l :
        /\ m = Magic /\ o = Little(1, 2) /\ z = Little(0, 2) /\ x = Little(c, 4) /\ y = Little(r, 4)
        /\ h = Little(HeaderLen, 4) /\ l = Little(0, 4)
  OBVIOUS
<1>2. /\ Wide(m, 4) /\ Wide(o, 2) /\ Wide(z, 2) /\ Wide(x, 4) /\ Wide(y, 4) /\ Wide(h, 4) /\ Wide(l, 4)
  <2>1. HeaderLen \in Nat
    BY DEF HeaderLen
  <2> QED
    BY <1>1, <2>1, Fields
<1>3. PICK c1, c2, c3, c4, c5, c6 :
        c1 = m \o o /\ c2 = c1 \o z /\ c3 = c2 \o x /\ c4 = c3 \o y /\ c5 = c4 \o h /\ c6 = c5 \o l
  OBVIOUS
<1>4. Wide(c1, 6)
  <2>1. Wide(m, 4) /\ Wide(o, 2) /\ 4 + 2 = 6
    BY <1>2
  <2>2. Wide(m \o o, 6)
    BY ONLY <2>1, Widened
  <2> QED
    BY <1>3, <2>2
<1>5. Wide(c2, 8)
  <2>1. Wide(c1, 6) /\ Wide(z, 2) /\ 6 + 2 = 8
    BY <1>2, <1>4
  <2>2. Wide(c1 \o z, 8)
    BY ONLY <2>1, Widened
  <2> QED
    BY <1>3, <2>2
<1>6. Wide(c3, 12)
  <2>1. Wide(c2, 8) /\ Wide(x, 4) /\ 8 + 4 = 12
    BY <1>2, <1>5
  <2>2. Wide(c2 \o x, 12)
    BY ONLY <2>1, Widened
  <2> QED
    BY <1>3, <2>2
<1>7. Wide(c4, 16)
  <2>1. Wide(c3, 12) /\ Wide(y, 4) /\ 12 + 4 = 16
    BY <1>2, <1>6
  <2>2. Wide(c3 \o y, 16)
    BY ONLY <2>1, Widened
  <2> QED
    BY <1>3, <2>2
<1>8. Wide(c5, 20)
  <2>1. Wide(c4, 16) /\ Wide(h, 4) /\ 16 + 4 = 20
    BY <1>2, <1>7
  <2>2. Wide(c4 \o h, 20)
    BY ONLY <2>1, Widened
  <2> QED
    BY <1>3, <2>2
<1>9. Wide(c6, 24)
  <2>1. Wide(c5, 20) /\ Wide(l, 4) /\ 20 + 4 = 24
    BY <1>2, <1>8
  <2>2. Wide(c5 \o l, 24)
    BY ONLY <2>1, Widened
  <2> QED
    BY <1>3, <2>2
<1>10. Header(c, r) = c6
  BY <1>1, <1>3 DEF Header
<1> QED
  BY <1>9, <1>10

\* The names, as far as there are columns.
LEMMA NamesAre ==
    ASSUME NEW cols, NEW n \in Nat, DOMAIN cols = 1..n, \A j \in 1..n : cols[j].name \in Seq(Bytes)
    PROVE  NameBytes(cols) \in Seq(Bytes) /\ Len(NameBytes(cols)) \in Nat
PROOF
<1>1. PICK T, s : T = Seq(Bytes) /\ s = [j \in 1..n |-> cols[j].name]
  OBVIOUS
<1>2. s \in [1..n -> T]
  BY <1>1
<1>3. s \in Seq(T)
  BY ONLY <1>2, n \in Nat, SeqMade
<1>4. s \in Seq(Seq(Bytes))
  BY <1>1, <1>3
<1>5. FlattenSeq(s) \in Seq(Bytes)
  BY ONLY <1>4, FlattenType
<1>6. NameBytes(cols) = FlattenSeq(s)
  BY <1>1 DEF NameBytes
<1>7. Len(FlattenSeq(s)) \in Nat
  BY <1>5
<1> QED
  BY <1>5, <1>6, <1>7

\* Columns that are split, as a sequence.
Listed(cols, n) == AllSplit(cols, n) /\ cols = [i \in 1..n |-> cols[i]]

\* The names come behind the directory.
LEMMA NameOffIs ==
    ASSUME NEW cols, NEW n, Listed(cols, n), NEW i \in 1..n
    PROVE  NameOff(cols, i) \in Nat
PROOF
<1>1. n \in Nat /\ n = Len(cols) /\ cols = [j \in 1..n |-> cols[j]] /\ \A j \in 1..n : cols[j].name \in Seq(Bytes)
  BY DEF Listed, AllSplit, Splits, Pushed
<1>2. PICK k, c : k = i - 1 /\ c = SubSeq(cols, 1, k) /\ k \in Nat /\ k \in 0..n
  <2>1. i - 1 \in Nat /\ i - 1 \in 0..n
    BY ONLY <1>1, i \in 1..n
  <2> QED
    BY <2>1
<1>3. DOMAIN c = 1..k /\ \A j \in 1..k : c[j] = cols[j] /\ j \in 1..n
  <2>1. PICK C : C = {cols[j] : j \in 1..n}
    OBVIOUS
  <2>2. cols \in [1..n -> C]
    BY <1>1, <2>1
  <2>3. cols \in Seq(C)
    <3>1. n \in Nat
      BY <1>1
    <3> QED
      BY ONLY <2>2, <3>1, SeqMade
  <2>4. k <= n /\ n = Len(cols) /\ k \in Nat
    BY <1>1, <1>2
  <2>5. \A j \in 1..k : j \in 1..n
    BY <1>1, <2>4
  <2>6. SubSeq(cols, 1, k) \in Seq(C) /\ Len(SubSeq(cols, 1, k)) = k /\ \A j \in 1..k : SubSeq(cols, 1, k)[j] = cols[j]
    BY ONLY <2>3, <2>4, <2>5
  <2> QED
    BY <1>2, <2>5, <2>6
<1>4. Len(NameBytes(c)) \in Nat
  <2>1. \A j \in 1..k : c[j].name \in Seq(Bytes)
    BY <1>1, <1>3
  <2>2. k \in Nat /\ DOMAIN c = 1..k
    BY <1>2, <1>3
  <2> QED
    BY ONLY <2>1, <2>2, NamesAre
<1>5. NamesOff(cols) \in Nat
  BY <1>1 DEF NamesOff, HeaderLen, ColdirLen
<1>6. NameOff(cols, i) = NamesOff(cols) + Len(NameBytes(c))
  BY <1>2 DEF NameOff
<1> QED
  BY <1>4, <1>5, <1>6

\* The header and the directory.
Directory(cols, rows, entries) ==
    Header(Len(cols), rows)
      \o FlattenSeq([i \in DOMAIN cols |-> DirectoryEntry(cols[i], NameOff(cols, i), entries[i])])

\* The header and the directory fill the room before the names.
LEMMA FrontIs ==
    ASSUME NEW cols, NEW n, Listed(cols, n), NEW rows \in Nat,
           NEW entries, \A k \in 1..n : entries[k] \in Offset
    PROVE  NamesOff(cols) \in Nat /\ Wide(Directory(cols, rows, entries), NamesOff(cols))
PROOF
<1>1. /\ n \in Nat /\ n = Len(cols) /\ DOMAIN cols = 1..n
      /\ \A j \in 1..n : cols[j].name \in Seq(Bytes) /\ cols[j].type \in Types
  BY DEF Listed, AllSplit, Splits, Pushed
<1>2. PICK dir : dir = [i \in 1..n |-> DirectoryEntry(cols[i], NameOff(cols, i), entries[i])]
  OBVIOUS
<1>3. \A i \in 1..n : Wide(dir[i], 40)
  <2> TAKE i \in 1..n
  <2>1. PICK x, y, o : x = cols[i] /\ y = NameOff(cols, i) /\ o = entries[i]
    OBVIOUS
  <2>2. x.type \in Types /\ o \in Offset
    BY <1>1, <2>1
  <2>3. Len(x.name) \in Nat
    BY <1>1, <2>1
  <2>4. y \in Nat
    BY <2>1, NameOffIs
  <2>5. Wide(DirectoryEntry(x, y, o), 40)
    BY ONLY <2>2, <2>3, <2>4, DirectoryEntryIs
  <2> QED
    BY <1>2, <2>1, <2>5
<1>4. dir \in Seq(Seq(Bytes)) /\ n = Len(dir) /\ AllOf(dir, n, 40)
  <2>1. PICK T : T = Seq(Bytes)
    OBVIOUS
  <2>2. dir \in [1..n -> T]
    BY <1>2, <1>3, <2>1 DEF Wide
  <2>3. n \in Nat
    BY <1>1
  <2>4. dir \in Seq(T) /\ Len(dir) = n
    BY ONLY <2>2, <2>3, SeqMade
  <2>5. AllOf(dir, n, 40)
    BY <1>3 DEF Wide, AllOf
  <2> QED
    BY <2>1, <2>4, <2>5
<1>5. Len(FlattenSeq(dir)) = 40 * n
  <2>1. 40 \in Nat
    OBVIOUS
  <2> QED
    BY ONLY <1>4, <2>1, FlattenEven
<1>6. FlattenSeq(dir) \in Seq(Bytes)
  BY ONLY <1>4, FlattenType
<1>7. Wide(Header(Len(cols), rows), 24)
  BY <1>1, HeaderIs
<1>8. PICK h, d, m : h = Header(Len(cols), rows) /\ d = FlattenSeq(dir) /\ m = 40 * n
  OBVIOUS
<1>9. Wide(h, 24) /\ Wide(d, m) /\ m \in Nat /\ 24 \in Nat
  BY <1>1, <1>5, <1>6, <1>7, <1>8 DEF Wide
<1>10. Wide(h \o d, 24 + m)
  BY ONLY <1>9, Widened
<1>11. NamesOff(cols) = 24 + m /\ NamesOff(cols) \in Nat
  BY <1>1, <1>8 DEF NamesOff, HeaderLen, ColdirLen
<1>12. Directory(cols, rows, entries) = h \o d
  BY <1>1, <1>2, <1>8 DEF Directory
<1> QED
  BY <1>10, <1>11, <1>12

\* f in front of what is behind the first n bytes.
Fronted(c, f, n, body, m) ==
    /\ Wide(c, m) /\ n \in Nat /\ m \in Nat /\ n <= m
    /\ \A p \in 1..n : c[p] = f[p]
    /\ \A p \in (n + 1)..m : c[p] = body[p]

\* What is put in front takes the place of as many bytes.
LEMMA FrontedIs ==
    ASSUME NEW f, NEW n \in Nat, Wide(f, n), NEW body, NEW m \in Nat, Wide(body, m), n <= m,
           NEW c, c = f \o SubSeq(body, n + 1, m)
    PROVE  Fronted(c, f, n, body, m)
PROOF
<1>1. PICK t, k : t = SubSeq(body, n + 1, m) /\ k = m - n
  OBVIOUS
<1>2. f \in Seq(Bytes) /\ n = Len(f) /\ body \in Seq(Bytes) /\ m = Len(body) /\ k \in Nat
  BY <1>1 DEF Wide
<1>3. t \in Seq(Bytes) /\ Len(t) = k /\ \A i \in 1..k : t[i] = body[n + i]
  <2>1. \A i \in 1..k : n + i \in 1..m /\ (n + 1) + i - 1 = n + i
    BY <1>1
  <2>2. n + 1 \in 1..(m + 1) /\ m - (n + 1) + 1 = k
    BY <1>1
  <2> QED
    BY <1>1, <1>2, <2>1, <2>2
<1>4. Wide(c, m) /\ AndThen(c, f, n, t, k)
  <2>1. c = f \o t /\ k = Len(t)
    BY <1>1, <1>3
  <2>2. c \in Seq(Bytes) /\ AndThen(c, f, n, t, k)
    BY ONLY <1>2, <1>3, <2>1, ConcatIs
  <2>3. n + k = m
    BY <1>1
  <2> QED
    BY <2>2, <2>3 DEF AndThen, Wide
<1>5. ASSUME NEW p \in (n + 1)..m PROVE c[p] = body[p]
  <2>1. p - n \in 1..k /\ p = n + (p - n)
    BY <1>1
  <2> QED
    BY <1>3, <1>4, <2>1 DEF AndThen
<1> QED
  BY <1>4, <1>5 DEF Fronted, AndThen

-----------------------------------------------------------------------------
(* The two encoders, byte by byte. *)

\* The payload is the places of the columns.
LEMMA PayloadIs ==
    ASSUME NEW cols, NEW n, AllSplit(cols, n), NEW L, Laid(L, cols, n), NEW j \in Nat
    PROVE  (j - 1 \in Payload(L[n].entries)) <=> (\E k \in 1..n : j \in RegionOf(L, cols, k))
PROOF
<1>0. n \in Nat /\ \A k \in 1..n : Splits(cols[k])
  BY DEF AllSplit
<1>1. PICK es : es = L[n].entries
  OBVIOUS
<1>2. es \in Seq(Offset) /\ DOMAIN es = 1..n /\ \A k \in 1..n : es[k] = EntryOf(L, cols, k) /\ es[k] \in Offset
  <2>1. n \in 0..n
    BY <1>0
  <2>2. es \in Seq(Offset) /\ Len(es) = n /\ \A k \in 1..n : es[k] = EntryOf(L, cols, k)
    BY <1>1, <2>1 DEF Laid, EntryOf
  <2> QED
    BY <2>2
<1>3. ASSUME NEW k \in 1..n
      PROVE  (j \in RegionOf(L, cols, k)) <=>
             (j - 1 \in (es[k].buf1_off .. es[k].buf1_off + es[k].buf1_len - 1)
                        \cup (es[k].buf2_off .. es[k].buf2_off + es[k].buf2_len - 1))
  <2>1. PICK a, b, l, m : a = es[k].buf1_off /\ b = es[k].buf2_off /\ l = es[k].buf1_len /\ m = es[k].buf2_len
    OBVIOUS
  <2>2. a \in Nat /\ b \in Nat /\ l \in Nat /\ m \in Nat
    BY <1>2, <2>1 DEF Offset
  <2>3. l = Len(One(cols[k])) /\ m = Len(Two(cols[k]))
    BY <1>2, <2>1 DEF EntryOf, EntryAt
  <2>4. RegionOf(L, cols, k) = ((a + 1)..(a + l)) \cup ((b + 1)..(b + m))
    BY <1>2, <2>1, <2>3 DEF RegionOf, Region
  <2>5. /\ j \in (a + 1)..(a + l) <=> j - 1 \in a..(a + l - 1)
        /\ j \in (b + 1)..(b + m) <=> j - 1 \in b..(b + m - 1)
    BY ONLY <2>2, j \in Nat
  <2> QED
    BY <2>1, <2>4, <2>5
<1>4. j - 1 \in Payload(es) <=> \E k \in 1..n :
        j - 1 \in (es[k].buf1_off .. es[k].buf1_off + es[k].buf1_len - 1)
                  \cup (es[k].buf2_off .. es[k].buf2_off + es[k].buf2_len - 1)
  BY <1>2 DEF Payload, ToSet
<1> QED
  BY <1>1, <1>3, <1>4

\* The buffer the parallel encoder fills in and the one the serial encoder
\* makes: the same, but for the places of the columns.
Prepared(F, E, L, cols, n) ==
    /\ E \in Seq(Bytes) /\ F = [j \in DOMAIN E |-> F[j]] /\ Len(F) = Len(E)
    /\ \A j \in DOMAIN E : F[j] = IF \E k \in 1..n : j \in RegionOf(L, cols, k) THEN Unset ELSE E[j]
    /\ \A k \in 1..n : RegionOf(L, cols, k) \subseteq DOMAIN E /\ Holds(E, EntryOf(L, cols, k), cols[k])
    /\ Laid(L, cols, n) /\ Apart(L, cols, n)

\* The names in the buffer, behind room for the header and the directory.
Started(z, first, cols, n, m) ==
    /\ z \in Seq(Bytes) /\ first \in Seq(Bytes) /\ n \in Nat /\ m \in Nat
    /\ Len(z) = n + m /\ Len(first) = Aligned(n + m) /\ Aligned(n + m) \in Nat /\ n + m <= Aligned(n + m)
    /\ \A p \in 1..(n + m) : first[p] = z[p]
    /\ \A p \in (n + m + 1)..Aligned(n + m) : first[p] = 0

\* What both encoders start from.
LEMMA StartedIs ==
    ASSUME NEW cols, NEW n, Listed(cols, n),
           NEW z, z = Zeros(NamesOff(cols)) \o NameBytes(cols), NEW first, first = Align8(z)
    PROVE  Started(z, first, cols, NamesOff(cols), Len(NameBytes(cols)))
PROOF
<1>1. PICK s, t, d, m : s = Zeros(d) /\ t = NameBytes(cols) /\ d = NamesOff(cols) /\ m = Len(t)
  OBVIOUS
<1>2. n \in Nat /\ n = Len(cols) /\ DOMAIN cols = 1..n /\ \A j \in 1..n : cols[j].name \in Seq(Bytes)
  BY DEF Listed, AllSplit, Splits, Pushed
<1>3. t \in Seq(Bytes) /\ m \in Nat
  BY <1>1, <1>2, NamesAre
<1>4. d \in Nat
  BY <1>1, <1>2 DEF NamesOff, HeaderLen, ColdirLen
<1>5. s \in Seq(Bytes) /\ d = Len(s)
  <2>1. s \in [1..d -> Bytes]
    BY <1>1 DEF Zeros, Bytes
  <2> QED
    BY ONLY <1>4, <2>1, SeqMade
<1>6. z \in Seq(Bytes) /\ AndThen(z, s, d, t, m)
  <2>1. z = s \o t /\ m = Len(t)
    BY <1>1
  <2> QED
    BY ONLY <1>3, <1>5, <2>1, ConcatIs
<1>7. Len(z) = d + m
  BY <1>6 DEF AndThen
<1>8. PICK l : l = d + m
  OBVIOUS
<1>9. /\ first \in Seq(Bytes) /\ Len(first) = Aligned(l) /\ l <= Aligned(l)
      /\ \A p \in 1..l : first[p] = z[p]
      /\ \A p \in (l + 1)..Aligned(l) : first[p] = 0
  <2>1. z \in Seq(Bytes) /\ l = Len(z)
    BY <1>6, <1>7, <1>8
  <2> QED
    BY ONLY <2>1, first = Align8(z), AlignBytes
<1>10. Aligned(l) \in Nat
  BY <1>9
<1> QED
  BY <1>1, <1>3, <1>4, <1>6, <1>7, <1>8, <1>9, <1>10 DEF Started

\* The number of rows, which every column has.
RowsOf(cols) == IF cols = <<>> THEN 0 ELSE Len(Rows(cols[1]))

\* The serial encoder takes that number from a finished column.
LEMMA RowsOfIs ==
    ASSUME NEW cols, NEW n, Listed(cols, n)
    PROVE  /\ RowsOf(cols) \in Nat
           /\ RowsOf(cols) = IF cols = <<>> THEN 0 ELSE Finish(cols[1]).len
PROOF
<1>1. n \in Nat /\ n = Len(cols) /\ cols = [j \in 1..n |-> cols[j]] /\ \A j \in 1..n : Splits(cols[j])
  BY DEF Listed, AllSplit
<1>2. CASE cols = <<>>
  BY <1>2 DEF RowsOf
<1>3. CASE cols # <<>>
  <2>1. n # 0
    BY <1>1, <1>3
  <2>2. 1 \in 1..n
    BY <1>1, <2>1
  <2>3. PICK col : col = cols[1] /\ Splits(col)
    BY <1>1, <2>2
  <2>4. Finish(col).len = Len(Rows(col))
    BY <2>3, SplitFinish
  <2>5. Len(Rows(col)) \in Nat
    BY <2>3, SplitParts
  <2> QED
    BY <1>3, <2>3, <2>4, <2>5 DEF RowsOf
<1> QED
  BY <1>2, <1>3

\* The serial encoder's buffer: the directory d, the bytes b, and a padding.
Encoded(E, d, b, first, L, cols, n, at) ==
    /\ Laid(L, cols, n) /\ Wide(d, at) /\ d = Directory(cols, RowsOf(cols), L[n].entries)
    /\ Wide(b, L[n].end) /\ Whole(b, first, L, cols, n) /\ Apart(L, cols, n)
    /\ L[0].end = Len(first) /\ L[n].end \in Nat /\ L[0].end \in Nat /\ L[0].end <= L[n].end
    /\ Fronted(E, d, at, Align8(b), Aligned(L[n].end))

\* What both encoders have in common, column by column.
LinedUp(P, L, first, cols, n) ==
    /\ Laid(L, cols, n) /\ Lined(P, L, cols, n)
    /\ first \in Seq(Bytes) /\ P[0].bytes = first /\ L[0].end = Len(first)

\* They have.
LEMMA EncodersLineUp ==
    ASSUME NEW cols, NEW n, Listed(cols, n), NEW L, L = LaidOut(cols), NEW P, P = Put(cols),
           NEW first, first = Align8(Zeros(NamesOff(cols)) \o NameBytes(cols))
    PROVE  LinedUp(P, L, first, cols, n)
PROOF
<1>0. AllSplit(cols, n)
  BY DEF Listed
<1>1. PICK z, at, m : z = Zeros(NamesOff(cols)) \o NameBytes(cols) /\ at = NamesOff(cols) /\ m = Len(NameBytes(cols))
  OBVIOUS
<1>2. Started(z, first, cols, at, m)
  BY <1>1, StartedIs
<1>3. PICK start \in Nat : start = Aligned(at + m) /\ start = Len(first) /\ first \in Seq(Bytes)
  BY <1>2 DEF Started
<1>4. Placing(L, cols, n, start)
  BY <1>0, <1>1, <1>3, LaidOutRuns
<1>5. Laid(L, cols, n)
  BY <1>0, <1>3, <1>4, LaidOutIs
<1>6. L[0].end = Len(first) /\ L[0].entries = <<>>
  BY <1>3, <1>4 DEF Placing
<1>7. Putting(P, cols, n, first)
  BY <1>0, <1>3, PutRuns
<1>8. Lined(P, L, cols, n)
  BY ONLY <1>0, <1>3, <1>5, <1>6, <1>7, PutLinesUp
<1>9. P[0].bytes = first
  BY <1>7 DEF Putting
<1> QED
  BY <1>3, <1>5, <1>6, <1>8, <1>9 DEF LinedUp

\* The serial encoder's buffer is that.
LEMMA EncodedIs ==
    ASSUME NEW cols, NEW n, Listed(cols, n), NEW L, L = LaidOut(cols),
           NEW first, first = Align8(Zeros(NamesOff(cols)) \o NameBytes(cols))
    PROVE  \E d, b : Encoded(Encode(cols), d, b, first, L, cols, n, NamesOff(cols))
PROOF
<1>0. AllSplit(cols, n) /\ n \in Nat /\ n = Len(cols) /\ \A k \in 1..n : Splits(cols[k])
  BY DEF Listed, AllSplit
<1>1. PICK z, at, m : z = Zeros(NamesOff(cols)) \o NameBytes(cols) /\ at = NamesOff(cols) /\ m = Len(NameBytes(cols))
  OBVIOUS
<1>2. Started(z, first, cols, at, m)
  BY <1>1, StartedIs
<1>3. PICK start \in Nat : start = Len(first) /\ at \in Nat /\ m \in Nat /\ at + m <= start
  BY <1>2 DEF Started
<1>4. PICK P : P = Put(cols)
  OBVIOUS
<1>5. LinedUp(P, L, first, cols, n)
  BY <1>4, EncodersLineUp
<1>6. Laid(L, cols, n) /\ Lined(P, L, cols, n) /\ P[0].bytes = first /\ L[0].end = Len(first)
  BY <1>5 DEF LinedUp
<1>10. PICK b : b = P[n].bytes
  OBVIOUS
<1>12. Whole(b, first, L, cols, n) /\ Apart(L, cols, n)
  BY <1>0, <1>6, <1>10, PutIsWhole
<1>13. PICK e : e = L[n].end
  OBVIOUS
<1>14. /\ e \in Nat /\ L[0].end \in Nat /\ L[0].end <= e
       /\ b \in Seq(Bytes) /\ e = Len(b) /\ P[n].entries = L[n].entries
  <2>1. n \in 0..n /\ 0 \in 0..n
    BY <1>0
  <2> QED
    BY <1>6, <1>10, <1>13, <2>1 DEF Laid, Lined
<1>15. PICK body, t : body = Align8(b) /\ t = Aligned(e)
  OBVIOUS
<1>16. Wide(body, t) /\ t \in Nat /\ e <= t
  <2>1. body \in Seq(Bytes) /\ Len(body) = t /\ e <= t
    BY <1>14, <1>15, AlignBytes
  <2> QED
    BY <2>1 DEF Wide
<1>17. PICK d : d = Directory(cols, RowsOf(cols), L[n].entries)
  OBVIOUS
<1>18. Wide(d, at)
  <2>1. \A k \in 1..n : L[n].entries[k] \in Offset
    <3>1. n \in 0..n
      BY <1>0
    <3>2. L[n].entries \in Seq(Offset) /\ Len(L[n].entries) = n
      BY <1>6, <3>1 DEF Laid
    <3> QED
      BY <3>2
  <2>2. RowsOf(cols) \in Nat
    BY RowsOfIs
  <2> QED
    BY <1>1, <1>17, <2>1, <2>2, FrontIs
<1>19. Encode(cols) = d \o SubSeq(body, at + 1, t)
  <2>1. PICK r : r = RowsOf(cols) /\ r = IF cols = <<>> THEN 0 ELSE Finish(cols[1]).len
    BY RowsOfIs
  <2>2. Encode(cols) = Patched(cols, r, P[n].entries, Align8(P[n].bytes))
    BY <1>0, <1>4, <2>1 DEF Encode
  <2>3. Len(body) = t
    BY <1>16 DEF Wide
  <2>4. Patched(cols, r, L[n].entries, body) = Directory(cols, r, L[n].entries) \o SubSeq(body, NamesOff(cols) + 1, Len(body))
    BY DEF Patched, Directory
  <2> QED
    BY <1>1, <1>10, <1>14, <1>15, <1>17, <2>1, <2>2, <2>3, <2>4
<1>20. at <= t
  <2>1. at <= start
    BY ONLY <1>3
  <2>2. start <= e
    BY <1>3, <1>6, <1>14
  <2> QED
    BY ONLY <1>3, <1>14, <1>16, <2>1, <2>2
<1>21. Fronted(Encode(cols), d, at, body, t)
  <2>1. at \in Nat
    BY <1>3
  <2> QED
    BY ONLY <1>16, <1>18, <1>19, <1>20, <2>1, FrontedIs
<1>22. Wide(b, e)
  BY <1>14 DEF Wide
<1>23. Encoded(Encode(cols), d, b, first, L, cols, n, at)
  BY <1>6, <1>12, <1>13, <1>14, <1>15, <1>17, <1>18, <1>21, <1>22 DEF Encoded
<1> QED
  BY <1>1, <1>23

\* The first pass fills in all but the columns, and fills it in right.
LEMMA Prepares ==
    ASSUME NEW cols, NEW n, Listed(cols, n)
    PROVE  Prepared(Filled(cols), Encode(cols), LaidOut(cols), cols, n)
PROOF
<1>0. AllSplit(cols, n) /\ n \in Nat /\ n = Len(cols) /\ \A k \in 1..n : Splits(cols[k])
  BY DEF Listed, AllSplit
<1>1. PICK L, E, F, z, first, at, m :
        /\ L = LaidOut(cols) /\ E = Encode(cols) /\ F = Filled(cols)
        /\ z = Zeros(NamesOff(cols)) \o NameBytes(cols) /\ first = Align8(z)
        /\ at = NamesOff(cols) /\ m = Len(NameBytes(cols))
  OBVIOUS
<1>2. PICK d, b : Encoded(E, d, b, first, L, cols, n, at)
  <2>1. \E d, b : Encoded(Encode(cols), d, b, first, L, cols, n, NamesOff(cols))
    BY <1>1, EncodedIs
  <2> QED
    BY <1>1, <2>1
<1>3. PICK e, t, s, h : e = L[n].end /\ t = Aligned(e) /\ s = L[0].end /\ h = at + m
  OBVIOUS
<1>4. Started(z, first, cols, at, m)
  BY <1>1, StartedIs
<1>5. /\ z \in Seq(Bytes) /\ at \in Nat /\ m \in Nat /\ h \in Nat /\ Len(z) = h /\ at <= h
      /\ s = Aligned(h) /\ h <= s
      /\ \A p \in 1..h : first[p] = z[p]
      /\ \A p \in (h + 1)..s : first[p] = 0
  <2>1. Len(first) = s
    BY <1>2, <1>3 DEF Encoded
  <2>2. at \in Nat /\ m \in Nat
    BY <1>4 DEF Started
  <2>3. h \in Nat /\ at <= h
    BY ONLY <1>3, <2>2
  <2> QED
    BY <1>3, <1>4, <2>1, <2>2, <2>3 DEF Started
<1>6. /\ Wide(d, at) /\ d = Directory(cols, RowsOf(cols), L[n].entries) /\ Wide(b, e)
      /\ Laid(L, cols, n) /\ Whole(b, first, L, cols, n) /\ Apart(L, cols, n)
      /\ e \in Nat /\ s \in Nat /\ s <= e
      /\ Fronted(E, d, at, Align8(b), t)
  BY <1>2, <1>3 DEF Encoded
<1>7. /\ t \in Nat /\ e <= t
      /\ \A p \in 1..e : Align8(b)[p] = b[p]
      /\ \A p \in (e + 1)..t : Align8(b)[p] = 0
  BY <1>3, <1>6, AlignBytes DEF Wide
<1>8. /\ E \in Seq(Bytes) /\ Len(E) = t /\ DOMAIN E = 1..t
      /\ \A p \in 1..at : E[p] = d[p]
      /\ \A p \in (at + 1)..t : E[p] = Align8(b)[p]
  BY <1>6, <1>7 DEF Fronted, Wide
\* What the first pass fills in.
<1>9. PICK front : front = d \o SubSeq(z, at + 1, h)
  OBVIOUS
<1>10. Fronted(front, d, at, z, h)
  <2>1. Wide(z, h)
    BY <1>5 DEF Wide
  <2> QED
    BY ONLY <1>5, <1>6, <1>9, <2>1, FrontedIs
<1>11. F = [i \in 1..t |-> IF i <= h THEN front[i] ELSE IF i - 1 \in Payload(L[n].entries) THEN Unset ELSE 0]
  <2>1. Layout(cols) = L[n]
    BY <1>0, <1>1 DEF Layout
  <2>2. Patched(cols, RowsOf(cols), L[n].entries, z) = front
    <3>1. Len(z) = h
      BY <1>5
    <3> QED
      BY <1>1, <1>6, <1>9, <3>1 DEF Patched, Directory
  <2>3. Len(front) = h
    BY <1>10 DEF Fronted, Wide
  <2>4. PICK r : r = RowsOf(cols) /\ r = IF cols = <<>> THEN 0 ELSE Len(Rows(cols[1]))
    BY DEF RowsOf
  <2> QED
    BY <1>1, <1>3, <2>1, <2>2, <2>3, <2>4 DEF Filled
<1>12. ASSUME NEW k \in 1..n PROVE RegionOf(L, cols, k) \subseteq (s + 1)..e
  <2>1. RegionOf(L, cols, k) \subseteq (L[k - 1].end + 1)..L[k].end
    BY <1>6 DEF Apart
  <2>2. L[k].end \in Nat /\ L[k - 1].end \in Nat /\ L[k].end <= e /\ s <= L[k - 1].end
    <3>1. k \in 0..n /\ k - 1 \in 0..n /\ 0 \in 0..(k - 1) /\ n \in 0..n
      BY <1>0
    <3> QED
      BY <1>3, <1>6, <3>1 DEF Laid
  <2> QED
    BY <1>6, <2>1, <2>2
<1>13. ASSUME NEW j \in 1..t
       PROVE  F[j] = IF \E k \in 1..n : j \in RegionOf(L, cols, k) THEN Unset ELSE E[j]
  <2>0. j \in Nat /\ (j - 1 \in Payload(L[n].entries) <=> \E k \in 1..n : j \in RegionOf(L, cols, k))
    <3>1. j \in Nat
      BY <1>7
    <3> QED
      BY <1>0, <1>6, <3>1, PayloadIs
  <2>1. j \in 1..h \/ j \in (h + 1)..s \/ j \in (s + 1)..e \/ j \in (e + 1)..t
    BY ONLY <1>5, <1>6, <1>7, j \in 1..t
  <2>2. ASSUME j \notin (s + 1)..e PROVE ~ \E k \in 1..n : j \in RegionOf(L, cols, k)
    BY <1>12, <2>2
  <2>3. CASE j \in 1..h
    <3>1. j \notin (s + 1)..e /\ j <= h
      BY ONLY <1>5, <1>6, <2>3
    <3>2. F[j] = front[j]
      BY <1>11, <3>1
    <3>3. CASE j \in 1..at
      BY <1>8, <1>10, <2>2, <3>1, <3>2, <3>3 DEF Fronted
    <3>4. CASE j \in (at + 1)..h
      <4>1. j \in (at + 1)..t /\ j \in 1..e /\ j \in 1..s
        BY ONLY <1>5, <1>6, <1>7, <3>4
      <4>2. E[j] = b[j]
        BY <1>7, <1>8, <4>1
      <4>3. b[j] = first[j]
        BY <1>3, <1>6, <4>1 DEF Whole
      <4>4. first[j] = z[j]
        BY <1>5, <2>3
      <4>5. front[j] = z[j]
        BY <1>10, <3>4 DEF Fronted
      <4> QED
        BY <2>2, <3>1, <3>2, <4>2, <4>3, <4>4, <4>5
    <3>5. j \in 1..at \/ j \in (at + 1)..h
      BY ONLY <1>5, <2>3
    <3> QED
      BY <3>3, <3>4, <3>5
  <2>4. CASE j \in (h + 1)..s
    <3>1. j \notin (s + 1)..e /\ ~(j <= h) /\ j \in (at + 1)..t /\ j \in 1..e /\ j \in 1..s
      BY ONLY <1>5, <1>6, <1>7, <2>4
    <3>2. F[j] = 0
      BY <1>11, <2>0, <2>2, <3>1
    <3>3. E[j] = b[j]
      BY <1>7, <1>8, <3>1
    <3>4. b[j] = first[j]
      BY <1>3, <1>6, <3>1 DEF Whole
    <3>5. first[j] = 0
      BY <1>5, <2>4
    <3> QED
      BY <2>2, <3>1, <3>2, <3>3, <3>4, <3>5
  <2>5. CASE j \in (s + 1)..e
    <3>1. ~(j <= h) /\ j \in (at + 1)..t /\ j \in 1..e
      BY ONLY <1>5, <1>6, <1>7, <2>5
    <3>2. F[j] = IF \E k \in 1..n : j \in RegionOf(L, cols, k) THEN Unset ELSE 0
      BY <1>11, <2>0, <3>1
    <3>3. E[j] = b[j]
      BY <1>7, <1>8, <3>1
    <3>4. b[j] = 0 \/ \E k \in 1..n : j \in RegionOf(L, cols, k)
      BY <1>3, <1>6, <2>5 DEF Whole
    <3> QED
      BY <3>2, <3>3, <3>4
  <2>6. CASE j \in (e + 1)..t
    <3>1. j \notin (s + 1)..e /\ ~(j <= h) /\ j \in (at + 1)..t
      BY ONLY <1>5, <1>6, <1>7, <2>6
    <3>2. F[j] = 0
      BY <1>11, <2>0, <2>2, <3>1
    <3>3. E[j] = 0
      <4>1. E[j] = Align8(b)[j]
        BY <1>8, <3>1
      <4>2. Align8(b)[j] = 0
        BY <1>7, <2>6
      <4> QED
        BY <4>1, <4>2
    <3> QED
      BY <2>2, <3>1, <3>2, <3>3
  <2> QED
    BY <2>1, <2>3, <2>4, <2>5, <2>6
<1>14. ASSUME NEW k \in 1..n
       PROVE  RegionOf(L, cols, k) \subseteq 1..t /\ Holds(E, EntryOf(L, cols, k), cols[k])
  <2>1. \A p \in (s + 1)..e : p \in (at + 1)..t /\ p \in 1..e /\ p \in 1..t
    BY ONLY <1>5, <1>6, <1>7
  <2>2. \A p \in (s + 1)..e : E[p] = b[p]
    BY <1>7, <1>8, <2>1
  <2>3. Holds(b, EntryOf(L, cols, k), cols[k])
    BY <1>6 DEF Whole
  <2>4. PICK o, u, v, lu, lv :
           o = EntryOf(L, cols, k) /\ u = One(cols[k]) /\ v = Two(cols[k]) /\ lu = Len(u) /\ lv = Len(v)
    OBVIOUS
  <2>5. o.buf1_off \in Nat /\ o.buf2_off \in Nat /\ lu \in Nat /\ lv \in Nat
    <3>1. Splits(cols[k])
      BY <1>0
    <3>2. L[k - 1].end \in Nat
      <4>1. k - 1 \in 0..n
        BY <1>0
      <4> QED
        BY <1>6, <4>1 DEF Laid
    <3>3. o \in Offset
      BY <2>4, <3>1, <3>2, EntryIs DEF EntryOf
    <3>4. lu \in Nat /\ lv \in Nat
      BY <2>4, <3>1, Buffers
    <3> QED
      BY <3>3, <3>4 DEF Offset
  <2>6. RegionOf(L, cols, k) = (o.buf1_off + 1 .. o.buf1_off + lu) \cup (o.buf2_off + 1 .. o.buf2_off + lv)
    BY <2>4 DEF RegionOf, Region
  <2>7. \A p \in 1..lu : E[o.buf1_off + p] = b[o.buf1_off + p]
    <3> TAKE p \in 1..lu
    <3>1. o.buf1_off + p \in o.buf1_off + 1 .. o.buf1_off + lu
      BY <2>5
    <3> QED
      BY <1>12, <2>2, <2>6, <3>1
  <2>8. \A p \in 1..lv : E[o.buf2_off + p] = b[o.buf2_off + p]
    <3> TAKE p \in 1..lv
    <3>1. o.buf2_off + p \in o.buf2_off + 1 .. o.buf2_off + lv
      BY <2>5
    <3> QED
      BY <1>12, <2>2, <2>6, <3>1
  <2>9. Holds(E, o, cols[k])
    BY <2>3, <2>4, <2>7, <2>8 DEF Holds
  <2>10. RegionOf(L, cols, k) \subseteq 1..t
    BY <1>12, <2>1
  <2> QED
    BY <2>4, <2>9, <2>10
<1>15. F = [j \in DOMAIN E |-> F[j]] /\ Len(F) = Len(E)
  <2>1. F = [j \in 1..t |-> F[j]]
    BY <1>11
  <2>2. Len(F) = t
    BY <1>7, <2>1
  <2> QED
    BY <1>8, <2>1, <2>2
<1>16. Prepared(F, E, L, cols, n)
  BY <1>6, <1>8, <1>13, <1>14, <1>15 DEF Prepared
<1> QED
  BY <1>1, <1>16

-----------------------------------------------------------------------------
(* The states of the parallel encoder. *)

Copy == [at : Nat, bytes : Seq(Bytes)]

\* While the tasks write, a byte is what the serial encoder would put there,
\* or a copy of it is pending; and a pending copy is of those bytes.
FillingOf(o, p, E, D) ==
    /\ E \in Seq(Bytes) /\ o = [j \in DOMAIN E |-> o[j]]
    /\ \A j \in DOMAIN E : o[j] = E[j] \/ \E i \in D : \E a \in DOMAIN p[i] : j \in Covers(p[i][a])
    /\ \A i \in D : \A a \in DOMAIN p[i] : \A j \in Covers(p[i][a]) :
         j \in DOMAIN E /\ p[i][a].bytes[j - p[i][a].at] = E[j]
Filling == FillingOf(out, pending, Encode(batch), DOMAIN batch)

\* WritesAreDisjoint, of a buffer and its pending copies.
Disjoint(o, p, D) ==
    \A i, k \in D : \A a \in DOMAIN p[i], b \in DOMAIN p[k] :
        /\ \A j \in Covers(p[i][a]) : j \in DOMAIN o /\ o[j] = Unset
        /\ <<i, a>> # <<k, b>> => Covers(p[i][a]) \cap Covers(p[k][b]) = {}

CodecInv ==
    /\ batch \in Batches /\ pc \in {"layout", "write", "done"}
    /\ pending \in [DOMAIN batch -> Seq(Copy)]
    /\ pc # "done" => Splittable(batch)
    /\ pc # "write" => \A i \in DOMAIN batch : pending[i] = <<>>
    /\ pc = "write" => Filling
    /\ pc = "done" => out = Encode(batch)
    /\ WritesAreDisjoint

\* A batch the parallel encoder takes has none but columns that are split.
LEMMA BatchIsListed ==
    ASSUME NEW b \in Batches, Splittable(b)
    PROVE  Len(b) \in Nat /\ DOMAIN b = 1..Len(b) /\ Listed(b, Len(b))
PROOF
<1>1. Len(b) \in Nat /\ b = [i \in 1..Len(b) |-> b[i]]
  BY CodecAssumption
<1>2. DOMAIN b = 1..Len(b)
  BY <1>1
<1>3. ASSUME NEW i \in 1..Len(b) PROVE Splits(b[i])
  <2>1. b[i].type \in Types /\ b[i] \in Pushed(b[i].type)
    BY <1>2, CodecAssumption
  <2>2. b[i].type # "bool" /\ Null \notin ToSet(Rows(b[i]))
    BY <1>2 DEF Splittable
  <2> QED
    BY <2>1, <2>2 DEF Splits
<1> QED
  BY <1>1, <1>2, <1>3 DEF Listed, AllSplit

\* The copies of the columns, once they are laid out.
Tasks(copies, L, cols, n, E) ==
    \A k \in 1..n : \E lo, hi : Writes(copies[k], lo, hi, E, RegionOf(L, cols, k))

\* Each task writes the places of its column, each once, and the right bytes.
LEMMA TasksWrite ==
    ASSUME NEW cols, NEW n, Listed(cols, n), NEW L, L = LaidOut(cols), NEW E, NEW F, Prepared(F, E, L, cols, n),
           NEW copies, copies = [k \in 1..n |-> Copies(cols[k], Layout(cols).entries[k])]
    PROVE  Tasks(copies, L, cols, n, E)
PROOF
<1>0. n \in Nat /\ n = Len(cols) /\ \A k \in 1..n : Splits(cols[k])
  BY DEF Listed, AllSplit
<1>1. Laid(L, cols, n) /\ Layout(cols) = L[n]
  BY <1>0 DEF Prepared, Layout
<1>2. ASSUME NEW k \in 1..n
      PROVE  \E lo, hi : Writes(copies[k], lo, hi, E, RegionOf(L, cols, k))
  <2>1. PICK col, o, m : col = cols[k] /\ o = EntryOf(L, cols, k) /\ m = L[k - 1].end
    OBVIOUS
  <2>2. m \in Nat /\ Splits(col) /\ o = EntryAt(m, col)
    <3>1. k - 1 \in 0..n
      BY <1>0
    <3> QED
      BY <1>0, <1>1, <2>1, <3>1 DEF Laid, EntryOf
  <2>3. Layout(cols).entries[k] = o
    <3>1. n \in 0..n
      BY <1>0
    <3> QED
      BY <1>1, <2>1, <3>1 DEF Laid, EntryOf
  <2>4. /\ o \in Offset
        /\ col.type = "utf8" => o.buf1_off + Len(One(col)) <= o.buf2_off
    BY <2>2, EntryIs
  <2>5. o.buf1_off \in Nat /\ o.buf2_off \in Nat
    BY <2>4 DEF Offset
  <2>6. Holds(E, o, col)
    BY <2>1 DEF Prepared
  <2>7. Writes(Copies(col, o), o.buf1_off, End(o, col), E, Region(o, col))
    BY ONLY <2>2, <2>4, <2>5, <2>6, ColumnWrites
  <2>8. copies[k] = Copies(col, o) /\ RegionOf(L, cols, k) = Region(o, col)
    BY <2>1, <2>3 DEF RegionOf
  <2> QED
    BY <2>7, <2>8
<1> QED
  BY <1>2 DEF Tasks

\* The places of two columns are apart.
LEMMA RegionsApart ==
    ASSUME NEW cols, NEW n \in Nat, NEW L, Laid(L, cols, n), Apart(L, cols, n),
           NEW i \in 1..n, NEW k \in 1..n, i < k
    PROVE  RegionOf(L, cols, i) \cap RegionOf(L, cols, k) = {}
PROOF
<1>1. i - 1 \in 0..n /\ i \in 0..n /\ k - 1 \in 0..n /\ k \in 0..n /\ i \in 0..(k - 1)
  OBVIOUS
<1>2. PICK a, b, c, d : a = L[i - 1].end /\ b = L[i].end /\ c = L[k - 1].end /\ d = L[k].end
  OBVIOUS
<1>3. a \in Nat /\ b \in Nat /\ c \in Nat /\ d \in Nat /\ b <= c
  BY <1>1, <1>2 DEF Laid
<1>4. RegionOf(L, cols, i) \subseteq (a + 1)..b /\ RegionOf(L, cols, k) \subseteq (c + 1)..d
  BY <1>2 DEF Apart
<1>5. ((a + 1)..b) \cap ((c + 1)..d) = {}
  BY ONLY <1>3
<1> QED
  BY <1>4, <1>5

\* Two copies of one task are apart.
LEMMA CopiesApart ==
    ASSUME NEW copies, NEW lo, NEW hi, NEW to, NEW ps, Writes(copies, lo, hi, to, ps),
           NEW a \in DOMAIN copies, NEW b \in DOMAIN copies, a < b
    PROVE  Covers(copies[a]) \cap Covers(copies[b]) = {}
PROOF
<1>1. copies[a].at + Len(copies[a].bytes) <= copies[b].at
  BY DEF Writes
<1>2. PICK x, y, z, w : x = copies[a].at /\ y = Len(copies[a].bytes) /\ z = copies[b].at /\ w = Len(copies[b].bytes)
  OBVIOUS
<1>3. x \in Nat /\ y \in Nat /\ z \in Nat /\ w \in Nat
  <2>1. PICK C : C = [at : Nat, bytes : Seq(Bytes)]
    OBVIOUS
  <2>2. copies \in Seq(C)
    BY <2>1 DEF Writes
  <2>3. copies[a] \in C /\ copies[b] \in C
    BY ONLY <2>2, a \in DOMAIN copies, b \in DOMAIN copies
  <2> QED
    BY <1>2, <2>1, <2>3
<1>4. Covers(copies[a]) = (x + 1)..(x + y) /\ Covers(copies[b]) = (z + 1)..(z + w)
  BY <1>2 DEF Covers
<1>5. ((x + 1)..(x + y)) \cap ((z + 1)..(z + w)) = {}
  <2>1. x + y <= z
    BY <1>1, <1>2
  <2> QED
    BY ONLY <1>3, <2>1
<1> QED
  BY <1>4, <1>5

-----------------------------------------------------------------------------
(* The invariant. *)

\* The invariant holds at first.
LEMMA CodecInit == Init => CodecInv
PROOF
<1> SUFFICES ASSUME Init PROVE CodecInv
  OBVIOUS
<1> USE DEF Init
<1>1. \A i \in DOMAIN batch : pending[i] = <<>>
  OBVIOUS
<1>2. pending \in [DOMAIN batch -> Seq(Copy)]
  <2>1. <<>> \in Seq(Copy)
    OBVIOUS
  <2> QED
    BY <2>1
<1>3. WritesAreDisjoint
  <2>1. DOMAIN <<>> = {}
    OBVIOUS
  <2> QED
    BY <1>1, <2>1 DEF WritesAreDisjoint
<1>4. CASE Splittable(batch)
  BY <1>1, <1>2, <1>3, <1>4 DEF CodecInv
<1>5. CASE ~Splittable(batch)
  BY <1>1, <1>2, <1>3, <1>5 DEF CodecInv
<1> QED
  BY <1>4, <1>5

\* The copies of one task: of its places, each once, and of what is to be there.
OneTask(task, ps, E) ==
    /\ task \in Seq(Copy)
    /\ \A a \in DOMAIN task : /\ Covers(task[a]) \subseteq ps
                             /\ \A j \in Covers(task[a]) : task[a].bytes[j - task[a].at] = E[j]
    /\ \A p \in ps : \E a \in DOMAIN task : p \in Covers(task[a])
    /\ \A a, b \in DOMAIN task : a # b => Covers(task[a]) \cap Covers(task[b]) = {}

\* Laying out leaves a copy pending for every byte of the columns.
LEMMA LayOutKeeps == CodecInv /\ LayOut => CodecInv'
PROOF
<1> SUFFICES ASSUME CodecInv, LayOut PROVE CodecInv'
  OBVIOUS
<1>1. batch \in Batches /\ Splittable(batch) /\ batch' = batch /\ pc' = "write"
  BY DEF CodecInv, LayOut
<1>2. PICK cols, n, L, E, F : cols = batch /\ n = Len(cols) /\ L = LaidOut(cols) /\ E = Encode(cols) /\ F = Filled(cols)
  OBVIOUS
<1>3. n \in Nat /\ DOMAIN cols = 1..n /\ Listed(cols, n)
  BY <1>1, <1>2, BatchIsListed
<1>4. Prepared(F, E, L, cols, n)
  BY <1>2, <1>3, Prepares
<1>5. /\ E \in Seq(Bytes) /\ F = [j \in DOMAIN E |-> F[j]]
      /\ \A j \in DOMAIN E : F[j] = IF \E k \in 1..n : j \in RegionOf(L, cols, k) THEN Unset ELSE E[j]
      /\ \A k \in 1..n : RegionOf(L, cols, k) \subseteq DOMAIN E
      /\ Laid(L, cols, n) /\ Apart(L, cols, n)
  BY <1>4 DEF Prepared
<1>6. PICK copies : copies = pending'
  OBVIOUS
<1>7. copies = [k \in 1..n |-> Copies(cols[k], Layout(cols).entries[k])] /\ out' = F
  BY <1>2, <1>3, <1>6 DEF LayOut
<1>8. Tasks(copies, L, cols, n, E)
  BY <1>2, <1>3, <1>4, <1>7, TasksWrite
<1>9. ASSUME NEW k \in 1..n
      PROVE  OneTask(copies[k], RegionOf(L, cols, k), E)
  <2>1. PICK task, lo, hi, ps : task = copies[k] /\ ps = RegionOf(L, cols, k) /\ Writes(task, lo, hi, E, ps)
    BY <1>8 DEF Tasks
  <2>2. task \in Seq(Copy)
    BY <2>1 DEF Writes, Copy
  <2>3. /\ \A a \in DOMAIN task : /\ Covers(task[a]) \subseteq ps
                                  /\ \A j \in Covers(task[a]) : task[a].bytes[j - task[a].at] = E[j]
        /\ \A p \in ps : \E a \in DOMAIN task : p \in Covers(task[a])
    BY <2>1 DEF Writes
  <2>4. ASSUME NEW a \in DOMAIN task, NEW b \in DOMAIN task, a # b
        PROVE  Covers(task[a]) \cap Covers(task[b]) = {}
    <3>1. a < b \/ b < a
      <4>1. a \in Nat /\ b \in Nat
        BY <2>2
      <4> QED
        BY ONLY <2>4, <4>1
    <3>2. CASE a < b
      BY <2>1, <3>2, CopiesApart
    <3>3. CASE b < a
      <4>1. Covers(task[b]) \cap Covers(task[a]) = {}
        BY <2>1, <3>3, CopiesApart
      <4> QED
        BY <4>1
    <3> QED
      BY <3>1, <3>2, <3>3
  <2>5. OneTask(task, ps, E)
    BY <2>2, <2>3, <2>4 DEF OneTask
  <2> QED
    BY <2>1, <2>5
<1>10. ASSUME NEW i \in 1..n, NEW k \in 1..n, i # k
       PROVE  RegionOf(L, cols, i) \cap RegionOf(L, cols, k) = {}
  <2>1. CASE i < k
    BY <1>3, <1>5, <2>1, RegionsApart
  <2>2. CASE k < i
    <3>1. RegionOf(L, cols, k) \cap RegionOf(L, cols, i) = {}
      BY <1>3, <1>5, <2>2, RegionsApart
    <3> QED
      BY <3>1
  <2>3. i < k \/ k < i
    BY ONLY <1>3, <1>10, i \in 1..n, k \in 1..n
  <2> QED
    BY <2>1, <2>2, <2>3
<1>11. copies \in [1..n -> Seq(Copy)]
  BY <1>7, <1>9 DEF OneTask
<1>12. ASSUME NEW i \in 1..n, NEW a \in DOMAIN copies[i], NEW j \in Covers(copies[i][a])
       PROVE  j \in DOMAIN E /\ F[j] = Unset /\ copies[i][a].bytes[j - copies[i][a].at] = E[j]
  <2>1. j \in RegionOf(L, cols, i)
    BY <1>9 DEF OneTask
  <2>2. j \in DOMAIN E
    BY <1>5, <2>1
  <2>3. F[j] = Unset
    BY <1>5, <2>1, <2>2
  <2> QED
    BY <1>9, <2>2, <2>3 DEF OneTask
<1>13. Filling'
  <2>1. \A j \in DOMAIN E : F[j] = E[j] \/ \E i \in 1..n : \E a \in DOMAIN copies[i] : j \in Covers(copies[i][a])
    <3> TAKE j \in DOMAIN E
    <3>1. CASE \E k \in 1..n : j \in RegionOf(L, cols, k)
      BY <1>9, <3>1 DEF OneTask
    <3>2. CASE ~ \E k \in 1..n : j \in RegionOf(L, cols, k)
      BY <1>5, <3>2
    <3> QED
      BY <3>1, <3>2
  <2>2. Encode(batch') = E /\ DOMAIN batch' = 1..n /\ out' = F /\ pending' = copies
    BY <1>1, <1>2, <1>3, <1>6, <1>7
  <2>3. FillingOf(F, copies, E, 1..n)
    <3>1. \A i \in 1..n : \A a \in DOMAIN copies[i] : \A j \in Covers(copies[i][a]) :
            j \in DOMAIN E /\ copies[i][a].bytes[j - copies[i][a].at] = E[j]
      BY <1>12
    <3>2. E \in Seq(Bytes) /\ F = [j \in DOMAIN E |-> F[j]]
      BY <1>5
    <3> QED
      BY ONLY <2>1, <3>1, <3>2, Zenon DEF FillingOf
  <2> QED
    BY <2>2, <2>3 DEF Filling
<1>14. WritesAreDisjoint'
  <2>1. \A i \in 1..n : \A a \in DOMAIN copies[i] : \A j \in Covers(copies[i][a]) : j \in DOMAIN F /\ F[j] = Unset
    <3>1. DOMAIN F = DOMAIN E
      BY <1>5
    <3> QED
      BY <1>12, <3>1
  <2>2. \A i, k \in 1..n : \A a \in DOMAIN copies[i], b \in DOMAIN copies[k] :
          <<i, a>> # <<k, b>> => Covers(copies[i][a]) \cap Covers(copies[k][b]) = {}
    <3> TAKE i, k \in 1..n
    <3> TAKE a \in DOMAIN copies[i], b \in DOMAIN copies[k]
    <3>1. CASE i = k
      <4>1. <<i, a>> # <<k, b>> => a # b
        BY <3>1
      <4> QED
        BY <1>9, <3>1, <4>1 DEF OneTask
    <3>2. CASE i # k
      BY <1>9, <1>10, <3>2 DEF OneTask
    <3> QED
      BY <3>1, <3>2
  <2>3. DOMAIN batch' = 1..n /\ out' = F /\ pending' = copies
    BY <1>1, <1>2, <1>3, <1>6, <1>7
  <2>4. Disjoint(F, copies, 1..n)
    BY <2>1, <2>2 DEF Disjoint
  <2> QED
    BY <2>3, <2>4 DEF WritesAreDisjoint, Disjoint
<1> QED
  BY <1>1, <1>2, <1>3, <1>6, <1>11, <1>13, <1>14 DEF CodecInv

\* A copy is made: its bytes are there, and the other copies are as they were.
LEMMA WriteKeeps ==
    ASSUME NEW i \in DOMAIN batch
    PROVE  CodecInv /\ Write(i) => CodecInv'
PROOF
<1> SUFFICES ASSUME CodecInv, Write(i) PROVE CodecInv'
  OBVIOUS
<1>1. /\ batch' = batch /\ pc' = "write" /\ pc = "write" /\ pending[i] # <<>>
      /\ batch \in Batches /\ Splittable(batch) /\ pending \in [DOMAIN batch -> Seq(Copy)]
  BY DEF CodecInv, Write
<1>2. PICK D, E, task, copy : D = DOMAIN batch /\ E = Encode(batch) /\ task = pending[i] /\ copy = Head(task)
  OBVIOUS
<1>3. task \in Seq(Copy) /\ task # <<>> /\ 1 \in DOMAIN task /\ copy = task[1]
  BY <1>1, <1>2
<1>4. FillingOf(out, pending, E, D) /\ Disjoint(out, pending, D)
  BY <1>1, <1>2 DEF CodecInv, Filling, WritesAreDisjoint, Disjoint
<1>5. PICK o, p : o = out' /\ p = pending'
  OBVIOUS
<1>6. o = [j \in DOMAIN out |-> IF j \in Covers(copy) THEN copy.bytes[j - copy.at] ELSE out[j]]
  BY <1>2, <1>5 DEF Write
<1>7. p = [pending EXCEPT ![i] = Tail(task)]
  BY <1>2, <1>5 DEF Write
<1>8. Tail(task) \in Seq(Copy) /\ \A a \in DOMAIN Tail(task) : a + 1 \in DOMAIN task /\ Tail(task)[a] = task[a + 1] /\ a + 1 # 1
  BY <1>3
<1>9. \A a \in DOMAIN task : a # 1 => a - 1 \in DOMAIN Tail(task) /\ Tail(task)[a - 1] = task[a]
  <2>1. PICK m \in Nat : m = Len(task) /\ DOMAIN task = 1..m /\ m # 0
    BY <1>3
  <2>2. DOMAIN Tail(task) = 1..(m - 1) /\ \A k \in 1..(m - 1) : Tail(task)[k] = task[k + 1]
    BY <1>3, <2>1
  <2> TAKE a \in DOMAIN task
  <2>3. a # 1 => a - 1 \in 1..(m - 1) /\ (a - 1) + 1 = a
    BY <2>1
  <2> QED
    BY <2>2, <2>3
<1>10. p \in [D -> Seq(Copy)]
  BY <1>1, <1>2, <1>7, <1>8
<1>11. p[i] = Tail(task) /\ \A k \in D : k # i => p[k] = pending[k]
  BY <1>1, <1>2, <1>7
\* Each copy now pending was pending, and is not the one made.
<1>12. ASSUME NEW k \in D, NEW a \in DOMAIN p[k]
       PROVE  \E c \in DOMAIN pending[k] :
                /\ p[k][a] = pending[k][c] /\ <<k, c>> # <<i, 1>> /\ c = IF k = i THEN a + 1 ELSE a
  <2>1. CASE k = i
    <3>1. a + 1 \in DOMAIN task /\ Tail(task)[a] = task[a + 1] /\ a + 1 # 1
      BY <1>8, <1>11, <2>1
    <3> QED
      BY <1>2, <1>11, <2>1, <3>1
  <2>2. CASE k # i
    <3>1. p[k] = pending[k]
      BY <1>11, <2>2
    <3> QED
      BY <2>2, <3>1
  <2> QED
    BY <2>1, <2>2
<1>13. ASSUME NEW k \in D, NEW c \in DOMAIN pending[k], <<k, c>> # <<i, 1>>
       PROVE  \E a \in DOMAIN p[k] : p[k][a] = pending[k][c]
  <2>1. CASE k = i
    <3>1. c # 1 /\ c \in DOMAIN task
      BY <1>2, <1>13, <2>1
    <3> QED
      BY <1>2, <1>9, <1>11, <2>1, <3>1
  <2>2. CASE k # i
    BY <1>11, <2>2
  <2> QED
    BY <2>1, <2>2
<1>14. /\ E \in Seq(Bytes) /\ out = [j \in DOMAIN E |-> out[j]] /\ DOMAIN out = DOMAIN E
       /\ \A j \in DOMAIN E : out[j] = E[j] \/ \E k \in D : \E c \in DOMAIN pending[k] : j \in Covers(pending[k][c])
       /\ \A k \in D : \A c \in DOMAIN pending[k] : \A j \in Covers(pending[k][c]) :
            j \in DOMAIN E /\ pending[k][c].bytes[j - pending[k][c].at] = E[j]
  BY <1>4 DEF FillingOf
<1>15. o = [j \in DOMAIN E |-> o[j]] /\ DOMAIN o = DOMAIN E
  BY <1>6, <1>14
<1>16. ASSUME NEW j \in DOMAIN E
       PROVE  o[j] = E[j] \/ \E k \in D : \E a \in DOMAIN p[k] : j \in Covers(p[k][a])
  <2>1. CASE j \in Covers(copy)
    <3>1. copy.bytes[j - copy.at] = E[j]
      BY <1>2, <1>3, <1>14, <2>1
    <3> QED
      BY <1>6, <1>14, <2>1, <3>1
  <2>2. CASE j \notin Covers(copy)
    <3>1. o[j] = out[j]
      BY <1>6, <1>14, <2>2
    <3>2. CASE out[j] = E[j]
      BY <3>1, <3>2
    <3>3. ASSUME NEW k \in D, NEW c \in DOMAIN pending[k], j \in Covers(pending[k][c])
          PROVE  \E a \in DOMAIN p[k] : j \in Covers(p[k][a])
      <4>1. <<k, c>> # <<i, 1>>
        BY <1>2, <1>3, <2>2, <3>3
      <4> QED
        BY <1>13, <3>3, <4>1
    <3> QED
      BY <1>14, <3>2, <3>3
  <2> QED
    BY <2>1, <2>2
<1>17. ASSUME NEW k \in D, NEW a \in DOMAIN p[k], NEW j \in Covers(p[k][a])
       PROVE  j \in DOMAIN E /\ p[k][a].bytes[j - p[k][a].at] = E[j]
  BY <1>12, <1>14
<1>18. FillingOf(o, p, E, D)
  <2>1. \A k \in D : \A a \in DOMAIN p[k] : \A j \in Covers(p[k][a]) :
          j \in DOMAIN E /\ p[k][a].bytes[j - p[k][a].at] = E[j]
    BY <1>17
  <2>2. E \in Seq(Bytes)
    BY <1>14
  <2> QED
    BY ONLY <1>15, <1>16, <2>1, <2>2, Zenon DEF FillingOf
<1>19. ASSUME NEW k \in D, NEW a \in DOMAIN p[k], NEW j \in Covers(p[k][a])
       PROVE  j \in DOMAIN o /\ o[j] = Unset
  <2>1. PICK c \in DOMAIN pending[k] : p[k][a] = pending[k][c] /\ <<k, c>> # <<i, 1>>
    BY <1>12
  <2>2. i \in D /\ Covers(pending[k][c]) \cap Covers(pending[i][1]) = {}
    BY <1>2, <1>3, <1>4, <2>1 DEF Disjoint
  <2>3. j \in DOMAIN out /\ out[j] = Unset
    BY <1>4, <2>1 DEF Disjoint
  <2>4. j \notin Covers(copy)
    BY <1>2, <1>3, <2>1, <2>2
  <2> QED
    BY <1>6, <2>3, <2>4
<1>20. ASSUME NEW k \in D, NEW l \in D, NEW a \in DOMAIN p[k], NEW b \in DOMAIN p[l], <<k, a>> # <<l, b>>
       PROVE  Covers(p[k][a]) \cap Covers(p[l][b]) = {}
  <2>1. PICK c \in DOMAIN pending[k] : p[k][a] = pending[k][c] /\ c = IF k = i THEN a + 1 ELSE a
    BY <1>12
  <2>2. PICK d \in DOMAIN pending[l] : p[l][b] = pending[l][d] /\ d = IF l = i THEN b + 1 ELSE b
    BY <1>12
  <2>3. <<k, c>> # <<l, d>>
    <3>1. a \in Nat /\ b \in Nat
      <4>1. p[k] \in Seq(Copy) /\ p[l] \in Seq(Copy)
        BY <1>10
      <4> QED
        BY <4>1
    <3>2. k = l => a # b
      BY <1>20
    <3>3. k = l => c # d
      BY <2>1, <2>2, <3>1, <3>2
    <3> QED
      BY <3>3
  <2> QED
    BY <1>4, <2>1, <2>2, <2>3 DEF Disjoint
<1>21. Disjoint(o, p, D)
  BY <1>19, <1>20 DEF Disjoint
<1>22. Filling' /\ WritesAreDisjoint'
  <2>1. Encode(batch') = E /\ DOMAIN batch' = D /\ out' = o /\ pending' = p
    BY <1>1, <1>2, <1>5
  <2> QED
    BY <1>18, <1>21, <2>1 DEF Filling, WritesAreDisjoint, Disjoint
<1>23. pending' \in [DOMAIN batch' -> Seq(Copy)]
  BY <1>1, <1>2, <1>5, <1>10
<1> QED
  BY <1>1, <1>22, <1>23 DEF CodecInv

\* All copies are made: every byte is the serial encoder's.
LEMMA JoinKeeps == CodecInv /\ Join => CodecInv'
PROOF
<1> SUFFICES ASSUME CodecInv, Join PROVE CodecInv'
  OBVIOUS
<1>1. /\ batch' = batch /\ pc' = "done" /\ pc = "write" /\ out' = out /\ pending' = pending
      /\ \A i \in DOMAIN batch : pending[i] = <<>>
  BY DEF Join
<1>2. PICK E : E = Encode(batch)
  OBVIOUS
<1>3. FillingOf(out, pending, E, DOMAIN batch)
  BY <1>1, <1>2 DEF CodecInv, Filling
<1>4. \A j \in DOMAIN E : out[j] = E[j]
  <2>1. DOMAIN <<>> = {}
    OBVIOUS
  <2> QED
    BY <1>1, <1>3, <2>1 DEF FillingOf
<1>5. out = E
  <2>1. E \in Seq(Bytes) /\ out = [j \in DOMAIN E |-> out[j]]
    BY <1>3 DEF FillingOf
  <2>2. E = [j \in DOMAIN E |-> E[j]]
    BY <2>1
  <2> QED
    BY <1>4, <2>1, <2>2
<1>6. WritesAreDisjoint'
  BY <1>1 DEF CodecInv, WritesAreDisjoint
<1>7. batch \in Batches /\ pending \in [DOMAIN batch -> Seq(Copy)]
  BY DEF CodecInv
<1> QED
  BY <1>1, <1>2, <1>5, <1>6, <1>7 DEF CodecInv

\* Every step keeps it.
LEMMA CodecStep == CodecInv /\ [Next]_vars => CodecInv'
PROOF
<1> SUFFICES ASSUME CodecInv, [Next]_vars PROVE CodecInv'
  OBVIOUS
<1>1. CASE LayOut
  BY <1>1, LayOutKeeps
<1>2. CASE Join
  BY <1>2, JoinKeeps
<1>3. ASSUME UNCHANGED vars PROVE CodecInv'
  BY <1>3 DEF CodecInv, Filling, WritesAreDisjoint, vars
<1>4. CASE Done
  BY <1>3, <1>4 DEF Done
<1>5. ASSUME NEW i \in DOMAIN batch, Write(i) PROVE CodecInv'
  BY <1>5, WriteKeeps
<1> QED
  BY <1>1, <1>2, <1>3, <1>4, <1>5 DEF Next

\* It is an invariant.
LEMMA CodecInvHolds == Spec => []CodecInv
PROOF
<1>1. Init => CodecInv
  BY CodecInit
<1>2. CodecInv /\ [Next]_vars => CodecInv'
  BY CodecStep
<1> QED
  BY <1>1, <1>2, PTL DEF Spec

\* Whatever the columns, the way they are cut into parts, and the order the
\* tasks run in, no copy writes where another does, did, or something was
\* filled in ("which pass 1 made disjoint", codec.rs encode_parts).
THEOREM WritesAreDisjointHolds == Spec => []WritesAreDisjoint
PROOF
<1>1. CodecInv => WritesAreDisjoint
  BY DEF CodecInv
<1> QED
  BY <1>1, CodecInvHolds, PTL

\* And once the tasks are joined, every byte was written, and the buffer is the
\* one the serial encoder makes of the same rows (codec.rs encode_parts, encode).
THEOREM PartsMatchSerialHolds == Spec => []PartsMatchSerial
PROOF
<1>1. CodecInv => PartsMatchSerial
  BY DEF CodecInv, PartsMatchSerial
<1> QED
  BY <1>1, CodecInvHolds, PTL

\* The pass that lays out (codec.rs encode_parts) and the encoder that appends
\* (codec.rs encode) put every buffer at the same place, and that on a boundary.
THEOREM LayoutsAgree ==
    ASSUME NEW b \in Batches, Splittable(b)
    PROVE  /\ Put(b)[Len(b)].entries = Layout(b).entries
           /\ Len(Put(b)[Len(b)].bytes) = Layout(b).end
           /\ \A k \in DOMAIN b : /\ Layout(b).entries[k].buf1_off % 8 = 0
                                  /\ Layout(b).entries[k].buf2_off % 8 = 0
PROOF
<1>1. PICK n, L, P, first :
        /\ n = Len(b) /\ L = LaidOut(b) /\ P = Put(b)
        /\ first = Align8(Zeros(NamesOff(b)) \o NameBytes(b))
  OBVIOUS
<1>2. n \in Nat /\ DOMAIN b = 1..n /\ Listed(b, n) /\ \A k \in 1..n : Splits(b[k])
  BY <1>1, BatchIsListed DEF Listed, AllSplit
<1>3. Laid(L, b, n) /\ Lined(P, L, b, n)
  BY <1>1, <1>2, EncodersLineUp DEF LinedUp
<1>4. n \in 0..n
  BY <1>2
<1>5. Layout(b) = L[n]
  BY <1>1 DEF Layout
<1>6. P[n].entries = L[n].entries /\ Len(P[n].bytes) = L[n].end
  BY <1>3, <1>4 DEF Lined
<1>7. ASSUME NEW k \in 1..n
      PROVE  L[n].entries[k].buf1_off % 8 = 0 /\ L[n].entries[k].buf2_off % 8 = 0
  <2>1. PICK m, col : m = L[k - 1].end /\ col = b[k]
    OBVIOUS
  <2>2. L[n].entries[k] = EntryAt(m, col)
    BY <1>3, <1>4, <2>1 DEF Laid
  <2>3. m \in Nat /\ Splits(col)
    <3>1. k - 1 \in 0..n
      BY <1>2
    <3> QED
      BY <1>2, <1>3, <2>1, <3>1 DEF Laid
  <2> QED
    BY <2>2, <2>3, EntryIs
<1> QED
  BY <1>1, <1>2, <1>5, <1>6, <1>7

=============================================================================
