-------------------------- MODULE RecursionProofs --------------------------
(***************************************************************************)
(* Induction up to a bound and the functions defined by recursion up to    *)
(* it.  Both take sets and functions where the library's theorems take     *)
(* operators, so that a proof can cite them.  Then what FlattenSeq of the  *)
(* community modules is, element by element.                               *)
(***************************************************************************)
EXTENDS Integers, Sequences, SequencesExt, SequenceTheorems, NaturalsInduction,
         WellFoundedInduction, TLAPS

\* Induction up to n, for a property that is given as the set it holds on.
LEMMA UpTo ==
    ASSUME NEW n \in Nat, NEW P, 0 \in P, \A i \in 1..n : i - 1 \in P => i \in P
    PROVE  0..n \subseteq P
PROOF
<1> DEFINE Bad == (0..n) \ P
<1>1. SUFFICES ASSUME Bad # {} PROVE FALSE
  OBVIOUS
<1>2. PICK m \in Bad : \A k \in Bad : ~(k < m)
  <2>1. Bad \subseteq Nat
    OBVIOUS
  <2>2. PICK m \in Bad : \A k \in Bad : <<k, m>> \notin OpToRel(<, Nat)
    BY <1>1, <2>1, NatLessThanWellFounded, WFMin
  <2> QED
    BY <2>1, <2>2 DEF OpToRel
<1>3. m \in 1..n
  <2>1. m \in 0..n /\ m # 0
    BY <1>2
  <2> QED
    BY <2>1
<1>4. m - 1 \in 0..n /\ m - 1 < m
  BY <1>3
<1> QED
  BY <1>2, <1>3, <1>4

\* A step for each number up to n makes a function of all of them.
LEMMA Recursion ==
    ASSUME NEW A, NEW base \in A, NEW n \in Nat, NEW step \in [1..n -> [A -> A]]
    PROVE  \E F \in [0..n -> A] : F[0] = base /\ \A i \in 1..n : F[i] = step[i][F[i - 1]]
PROOF
<1> DEFINE Runs(m, F) == F[0] = base /\ \A i \in 1..m : F[i] = step[i][F[i - 1]]
           Good == {m \in 0..n : \E F \in [0..m -> A] : Runs(m, F)}
<1>1. 0 \in Good
  <2>1. PICK F : F = [i \in 0..0 |-> base]
    OBVIOUS
  <2>2. F \in [0..0 -> A] /\ Runs(0, F)
    BY <2>1
  <2> QED
    BY <2>2
<1>2. ASSUME NEW m \in 1..n, m - 1 \in Good PROVE m \in Good
  <2>1. PICK k \in 0..n : k = m - 1 /\ k + 1 = m
    <3>1. m - 1 \in 0..n /\ (m - 1) + 1 = m
      OBVIOUS
    <3> QED
      BY <3>1
  <2>2. PICK F \in [0..k -> A] : Runs(k, F)
    BY <1>2, <2>1
  <2>3. PICK v \in A : v = step[m][F[k]]
    <3>1. F[k] \in A
      BY <2>1, <2>2
    <3> QED
      BY <3>1
  <2>4. PICK G : G = [i \in 0..m |-> IF i = m THEN v ELSE F[i]]
    OBVIOUS
  <2>5. G \in [0..m -> A]
    <3>1. \A i \in 0..m : i # m => i \in 0..k
      BY <2>1
    <3> QED
      BY <2>2, <2>3, <2>4, <3>1
  <2>6. G[0] = base
    <3>1. 0 \in 0..m /\ 0 # m
      OBVIOUS
    <3> QED
      BY <2>2, <2>4, <3>1
  <2>7. ASSUME NEW i \in 1..m PROVE G[i] = step[i][G[i - 1]]
    <3>1. i - 1 \in 0..m /\ i - 1 # m /\ i \in 0..m
      BY <2>7
    <3>2. G[i - 1] = F[i - 1]
      BY <2>4, <3>1
    <3>3. CASE i = m
      BY <2>1, <2>3, <2>4, <3>1, <3>2, <3>3
    <3>4. CASE i # m
      <4>1. i \in 1..k
        BY <2>1, <3>4
      <4> QED
        BY <2>2, <2>4, <3>1, <3>2, <3>4, <4>1
    <3> QED
      BY <3>3, <3>4
  <2> QED
    BY <2>5, <2>6, <2>7
<1>3. n \in Good
  <2> HIDE DEF Good
  <2>1. 0..n \subseteq Good
    BY <1>1, <1>2, UpTo
  <2> QED
    BY <2>1
<1> QED
  BY <1>3

-----------------------------------------------------------------------------
\* The first k sequences one after the other.
Upto(seqs, k) == FlattenSeq(SubSeq(seqs, 1, k))

-----------------------------------------------------------------------------
(* Sequences one after the other. *)

\* c is a and then b.
AndThen(c, a, n, b, m) ==
    /\ Len(c) = n + m /\ n \in Nat /\ m \in Nat
    /\ \A i \in 1..n : c[i] = a[i]
    /\ \A i \in 1..m : c[n + i] = b[i]

\* What a concatenation of two is.
LEMMA ConcatIs ==
    ASSUME NEW S, NEW a, a \in Seq(S), NEW b, b \in Seq(S), NEW n, n = Len(a), NEW m, m = Len(b),
           NEW c, c = a \o b
    PROVE  c \in Seq(S) /\ AndThen(c, a, n, b, m)
PROOF
  BY DEF AndThen

\* G has what the first sequences make, one more at a time.
Joins(S, seqs, n, G) ==
    /\ G[0] = <<>>
    /\ \A i \in 0..n : G[i] \in Seq(S)
    /\ \A i \in 1..n : G[i] = G[i - 1] \o seqs[i]

\* Flattening goes through the sequences from the first to the last.
LEMMA FlattenRuns ==
    ASSUME NEW S, NEW seqs, seqs \in Seq(Seq(S))
    PROVE  \E G : Joins(S, seqs, Len(seqs), G) /\ FlattenSeq(seqs) = G[Len(seqs)]
PROOF
<1>0. PICK n \in Nat : n = Len(seqs) /\ \A i \in 1..n : seqs[i] \in Seq(S)
  OBVIOUS
<1>1. PICK A : A = Seq(S)
  OBVIOUS
<1> DEFINE Body(f) == [i \in 1..n |-> IF i = 1 THEN seqs[i] ELSE f[i - 1] \o seqs[i]]
<1>2. PICK none \in A : none = <<>>
  <2>1. <<>> \in A
    BY <1>1
  <2> QED
    BY <2>1
<1>3. PICK step : step = [i \in 1..n |-> [acc \in A |-> acc \o seqs[i]]]
  OBVIOUS
<1>4. step \in [1..n -> [A -> A]]
  <2>1. \A i \in 1..n, acc \in A : acc \o seqs[i] \in A
    BY <1>0, <1>1
  <2> QED
    BY <1>3, <2>1
<1>5. PICK F \in [0..n -> A] : F[0] = none /\ \A i \in 1..n : F[i] = step[i][F[i - 1]]
  <2>1. n \in Nat /\ none \in A
    BY <1>0, <1>2
  <2>2. \E F \in [0..n -> A] : F[0] = none /\ \A i \in 1..n : F[i] = step[i][F[i - 1]]
    BY ONLY <1>4, <2>1, Recursion
  <2> QED
    BY <1>2, <2>2
<1>6. \A i \in 1..n : F[i - 1] \in A /\ F[i] = F[i - 1] \o seqs[i]
  <2> TAKE i \in 1..n
  <2>1. F[i - 1] \in A
    BY <1>5
  <2> QED
    BY <2>1, <1>3, <1>5
<1>7. Joins(S, seqs, n, F)
  BY <1>1, <1>2, <1>5, <1>6 DEF Joins
<1>8. CASE n = 0
  <2>1. seqs = <<>> /\ Len(seqs) = 0
    BY <1>0, <1>8, EmptySeq
  <2>2. FlattenSeq(seqs) = seqs
    BY <2>1 DEF FlattenSeq
  <2> QED
    BY <1>0, <1>2, <1>5, <1>7, <1>8, <2>1, <2>2
<1>9. CASE n # 0
  <2>1. PICK H : H = [i \in 1..n |-> F[i]]
    OBVIOUS
  <2>2. H = Body(H)
    <3>1. ASSUME NEW i \in 1..n PROVE H[i] = IF i = 1 THEN seqs[i] ELSE H[i - 1] \o seqs[i]
      <4>1. CASE i = 1
        <5>1. F[1] = F[0] \o seqs[1] /\ F[0] = <<>> /\ seqs[1] \in Seq(S)
          <6>1. 1 \in 1..n /\ 1 - 1 = 0
            BY <4>1
          <6> QED
            BY <1>0, <1>2, <1>5, <1>6, <6>1
        <5> QED
          BY <2>1, <4>1, <5>1
      <4>2. CASE i # 1
        <5>1. i - 1 \in 1..n
          BY <4>2
        <5> QED
          BY <1>6, <2>1, <4>2, <5>1
      <4> QED
        BY <4>1, <4>2
    <3>2. H = [i \in 1..n |-> H[i]]
      BY <2>1
    <3> QED
      BY <3>1, <3>2, Zenon
  <2>3. PICK G : G = (CHOOSE f : f = Body(f))
    <3> HIDE DEF Body
    <3> QED
      BY Zenon
  <2>4. G = Body(G)
    <3> HIDE DEF Body
    <3> QED
      BY <2>2, <2>3, Zenon
  <2>5. FlattenSeq(seqs) = G[n]
    BY <1>0, <1>9, <2>3 DEF FlattenSeq
  <2>6. 0..n \subseteq {i \in Nat : i = 0 \/ G[i] = F[i]}
    <3>1. PICK P : P = {i \in Nat : i = 0 \/ G[i] = F[i]}
      OBVIOUS
    <3>2. 0 \in P
      BY <3>1
    <3>3. ASSUME NEW i \in 1..n, i - 1 \in P PROVE i \in P
      <4>1. G[i] = IF i = 1 THEN seqs[i] ELSE G[i - 1] \o seqs[i]
        BY <2>4
      <4>2. F[i] = H[i] /\ H[i] = IF i = 1 THEN seqs[i] ELSE H[i - 1] \o seqs[i]
        BY <2>1, <2>2
      <4>3. i # 1 => i - 1 \in 1..n /\ H[i - 1] = F[i - 1]
        BY <2>1
      <4> QED
        BY <3>1, <3>3, <4>1, <4>2, <4>3
    <3> QED
      BY <3>1, <3>2, <3>3, UpTo
  <2>7. G[n] = F[n]
    BY <1>9, <2>6
  <2> QED
    BY <1>0, <1>7, <2>5, <2>7
<1> QED
  BY <1>8, <1>9

\* What is made is made only in one way.
LEMMA JoinsOnce ==
    ASSUME NEW S, NEW seqs, NEW other, NEW n \in Nat, NEW F, NEW G,
           Joins(S, seqs, n, F), Joins(S, other, n, G), \A i \in 1..n : seqs[i] = other[i]
    PROVE  F[n] = G[n]
PROOF
<1>1. PICK P : P = {i \in 0..n : F[i] = G[i]}
  OBVIOUS
<1>2. 0 \in P
  BY <1>1 DEF Joins
<1>3. ASSUME NEW i \in 1..n, i - 1 \in P PROVE i \in P
  <2>1. i \in 0..n /\ F[i - 1] = G[i - 1]
    BY <1>1, <1>3
  <2> QED
    BY <1>1, <2>1 DEF Joins
<1>4. 0..n \subseteq P
  BY <1>2, <1>3, UpTo
<1> QED
  BY <1>1, <1>4

\* One sequence more is one sequence behind what there is.
InTurn(S, seqs, n) ==
    /\ Upto(seqs, 0) = <<>> /\ Upto(seqs, n) = FlattenSeq(seqs)
    /\ \A k \in 0..n : Upto(seqs, k) \in Seq(S)
    /\ \A k \in 1..n : Upto(seqs, k) = Upto(seqs, k - 1) \o seqs[k] /\ seqs[k] \in Seq(S)

\* The concatenation, sequence by sequence.
LEMMA FlattenUpto ==
    ASSUME NEW S, NEW seqs, seqs \in Seq(Seq(S)), NEW n, n = Len(seqs)
    PROVE  n \in Nat /\ InTurn(S, seqs, n)
PROOF
<1>0. n \in Nat
  OBVIOUS
<1>1. PICK G : Joins(S, seqs, n, G) /\ FlattenSeq(seqs) = G[n]
  BY FlattenRuns
<1>2. ASSUME NEW k \in 0..n PROVE Upto(seqs, k) = G[k]
  <2>1. PICK part : part = SubSeq(seqs, 1, k)
    OBVIOUS
  <2>2. part \in Seq(Seq(S)) /\ Len(part) = k /\ \A i \in 1..k : part[i] = seqs[i]
    BY <1>0, <2>1
  <2>3. PICK F : Joins(S, part, k, F) /\ FlattenSeq(part) = F[k]
    BY <2>2, FlattenRuns
  <2>4. Joins(S, seqs, k, G)
    <3>1. 0..k \subseteq 0..n /\ 1..k \subseteq 1..n
      BY <1>0
    <3> QED
      BY <1>1, <3>1 DEF Joins
  <2>5. F[k] = G[k]
    BY <1>0, <2>2, <2>3, <2>4, JoinsOnce
  <2> QED
    BY <2>1, <2>3, <2>5 DEF Upto
<1>3. ASSUME NEW k \in 1..n PROVE Upto(seqs, k) = Upto(seqs, k - 1) \o seqs[k] /\ seqs[k] \in Seq(S)
  <2>1. k \in 0..n /\ k - 1 \in 0..n
    BY <1>0
  <2>2. Upto(seqs, k) = G[k] /\ Upto(seqs, k - 1) = G[k - 1]
    BY <1>2, <2>1
  <2> QED
    <3>1. seqs[k] \in Seq(S)
      BY <1>0
    <3> QED
      BY <1>1, <2>2, <3>1 DEF Joins
<1>4. Upto(seqs, 0) = G[0] /\ Upto(seqs, n) = G[n]
  <2>1. 0 \in 0..n /\ n \in 0..n
    BY <1>0
  <2> QED
    BY <1>2, <2>1
<1> QED
  BY <1>0, <1>1, <1>2, <1>3, <1>4 DEF Joins, InTurn

\* How long the first k sequences are.
Length(seqs, k) == Len(Upto(seqs, k))

\* No sequences make none.
LEMMA FlattenNothing == FlattenSeq(<<>>) = <<>>
PROOF
<1>1. Len(<<>>) = 0
  OBVIOUS
<1> QED
  BY <1>1 DEF FlattenSeq

\* The concatenation has none but the elements of the sequences.
LEMMA FlattenType ==
    ASSUME NEW S, NEW seqs, seqs \in Seq(Seq(S))
    PROVE  FlattenSeq(seqs) \in Seq(S)
PROOF
<1>1. PICK n : n = Len(seqs)
  OBVIOUS
<1>2. n \in Nat /\ InTurn(S, seqs, n)
  BY <1>1, FlattenUpto
<1>3. n \in 0..n
  BY <1>2
<1> QED
  BY <1>2, <1>3 DEF InTurn

\* What is behind is flattened behind.
LEMMA FlattenConcat ==
    ASSUME NEW S, NEW a, a \in Seq(Seq(S)), NEW b, b \in Seq(Seq(S))
    PROVE  FlattenSeq(a \o b) = FlattenSeq(a) \o FlattenSeq(b)
PROOF
<1>1. PICK n \in Nat, m \in Nat : n = Len(a) /\ m = Len(b)
  OBVIOUS
<1>2. PICK c : c = a \o b
  OBVIOUS
<1>3. /\ c \in Seq(Seq(S)) /\ Len(c) = n + m
      /\ \A i \in 1..n : c[i] = a[i]
      /\ \A i \in 1..m : c[n + i] = b[i]
  BY <1>1, <1>2
<1>4. PICK A : A = FlattenSeq(a) /\ A \in Seq(S)
  BY FlattenType
<1>0. InTurn(S, a, n) /\ InTurn(S, b, m) /\ InTurn(S, c, n + m)
  BY <1>1, <1>3, FlattenUpto
<1>5. PICK P : P = {k \in 0..m : Upto(c, n + k) = A \o Upto(b, k)}
  OBVIOUS
<1>6. 0 \in P
  <2>1. SubSeq(c, 1, n) = SubSeq(a, 1, n)
    <3>1. /\ SubSeq(c, 1, n) \in Seq(Seq(S)) /\ Len(SubSeq(c, 1, n)) = n
          /\ SubSeq(a, 1, n) \in Seq(Seq(S)) /\ Len(SubSeq(a, 1, n)) = n
          /\ \A i \in 1..n : SubSeq(c, 1, n)[i] = a[i] /\ SubSeq(a, 1, n)[i] = a[i]
      BY <1>1, <1>3
    <3> QED
      BY <1>1, <3>1, SeqEqual
  <2>2. Upto(c, n) = Upto(a, n) /\ Upto(a, n) = A
    BY <1>0, <1>1, <1>4, <2>1 DEF Upto, InTurn
  <2>3. Upto(b, 0) = <<>> /\ A \o <<>> = A
    BY <1>0, <1>1, <1>4 DEF InTurn
  <2>4. n + 0 = n /\ 0 \in 0..m
    BY <1>1
  <2> QED
    BY <1>5, <2>2, <2>3, <2>4
<1>7. ASSUME NEW k \in 1..m, k - 1 \in P PROVE k \in P
  <2>1. PICK j \in 0..m, l \in 1..(n + m) : j = k - 1 /\ l = n + k /\ l - 1 = n + j
    <3>1. k - 1 \in 0..m /\ n + k \in 1..(n + m) /\ (n + k) - 1 = n + (k - 1)
      BY <1>1
    <3> QED
      BY <3>1
  <2>2. Upto(c, l) = Upto(c, n + j) \o b[k]
    <3>1. Upto(c, l) = Upto(c, l - 1) \o c[l]
      BY <1>0, <2>1 DEF InTurn
    <3>2. c[l] = b[k] /\ l - 1 = n + j
      BY <1>3, <2>1
    <3> QED
      BY <3>1, <3>2
  <2>3. Upto(c, n + j) = A \o Upto(b, j)
    BY <1>5, <1>7, <2>1
  <2>4. Upto(b, k) = Upto(b, j) \o b[k] /\ Upto(b, j) \in Seq(S) /\ b[k] \in Seq(S)
    <3>1. j = k - 1 /\ j \in 0..m
      BY <2>1
    <3> QED
      BY <1>0, <3>1 DEF InTurn
  <2>5. (A \o Upto(b, j)) \o b[k] = A \o (Upto(b, j) \o b[k])
    <3>1. PICK u, v : u = Upto(b, j) /\ v = b[k]
      OBVIOUS
    <3>2. A \in Seq(S) /\ u \in Seq(S) /\ v \in Seq(S)
      BY <1>4, <2>4, <3>1
    <3>3. (A \o u) \o v = A \o (u \o v)
      BY ONLY <3>2, ConcatAssociative
    <3> QED
      BY <3>1, <3>3
  <2>6. k \in 0..m
    BY <1>1
  <2> QED
    BY <1>5, <2>1, <2>2, <2>3, <2>4, <2>5, <2>6
<1>8. m \in P
  <2>1. 0..m \subseteq P
    BY <1>1, <1>6, <1>7, UpTo
  <2> QED
    BY <1>1, <2>1
<1>9. Upto(c, n + m) = FlattenSeq(c) /\ Upto(b, m) = FlattenSeq(b)
  BY <1>0 DEF InTurn
<1> QED
  BY <1>2, <1>4, <1>5, <1>8, <1>9

\* Where the elements of the sequences come to be.
InPlace(seqs, n, whole) ==
    /\ Length(seqs, 0) = 0 /\ Length(seqs, n) = Len(whole)
    /\ \A k \in 0..n : Length(seqs, k) \in Nat
    /\ \A k \in 1..n : Length(seqs, k) = Length(seqs, k - 1) + Len(seqs[k])
    /\ \A k \in 1..n : \A j \in 1..Len(seqs[k]) :
         /\ Length(seqs, k - 1) + j \in 1..Len(whole)
         /\ whole[Length(seqs, k - 1) + j] = seqs[k][j]
    /\ \A p \in 1..Len(whole) : \E k \in 1..n : \E j \in 1..Len(seqs[k]) :
         p = Length(seqs, k - 1) + j

\* Where each sequence is in the concatenation.
LEMMA FlattenPlaces ==
    ASSUME NEW S, NEW seqs, seqs \in Seq(Seq(S)), NEW n, n = Len(seqs)
    PROVE  InPlace(seqs, n, FlattenSeq(seqs))
PROOF
<1>0. n \in Nat /\ InTurn(S, seqs, n)
  BY FlattenUpto
<1> DEFINE L(k) == Length(seqs, k)
           U(k) == Upto(seqs, k)
           At(m, k, j) == L(k - 1) + j \in 1..L(m) /\ U(m)[L(k - 1) + j] = seqs[k][j]
           Found(m, p) == \E k \in 1..m : \E j \in 1..Len(seqs[k]) : p = L(k - 1) + j
<1>1. \A k \in 0..n : U(k) \in Seq(S) /\ L(k) \in Nat /\ L(k) = Len(U(k))
  BY <1>0 DEF InTurn, Length
<1>2. U(0) = <<>> /\ L(0) = 0
  BY <1>0 DEF InTurn, Length
<1>3. ASSUME NEW i \in 1..n, NEW h, h = i - 1
      PROVE  /\ h \in 0..n /\ i \in 0..n
             /\ U(h) \in Seq(S) /\ seqs[i] \in Seq(S) /\ U(i) = U(h) \o seqs[i]
  <2>1. h \in 0..n /\ i \in 0..n
    BY <1>0, <1>3
  <2> QED
    BY <1>0, <1>3, <2>1 DEF InTurn
<1>4. ASSUME NEW i \in 1..n, NEW h, h = i - 1
      PROVE  /\ L(i) = L(h) + Len(seqs[i]) /\ L(h) \in Nat /\ L(i) \in Nat /\ Len(seqs[i]) \in Nat
             /\ \A p \in 1..L(h) : U(i)[p] = U(h)[p]
             /\ \A j \in 1..Len(seqs[i]) : U(i)[L(h) + j] = seqs[i][j]
  <2>1. PICK u, v, w : u = U(h) /\ v = seqs[i] /\ w = U(i)
    OBVIOUS
  <2>2. u \in Seq(S) /\ v \in Seq(S) /\ w = u \o v /\ L(h) = Len(u) /\ L(i) = Len(w)
    <3>1. h \in 0..n /\ i \in 0..n /\ u \in Seq(S) /\ v \in Seq(S) /\ w = u \o v
      BY <1>3, <1>4, <2>1
    <3> QED
      BY <1>1, <2>1, <3>1
  <2>3. /\ Len(w) = Len(u) + Len(v) /\ Len(u) \in Nat /\ Len(v) \in Nat /\ Len(w) \in Nat
        /\ \A p \in 1..Len(u) : w[p] = u[p]
        /\ \A j \in 1..Len(v) : w[Len(u) + j] = v[j]
    BY ONLY <2>2
  <2> HIDE DEF L, U
  <2> QED
    BY <2>1, <2>2, <2>3
<1>5. PICK P : P = {m \in 0..n : /\ \A k \in 1..m : \A j \in 1..Len(seqs[k]) : At(m, k, j)
                                 /\ \A p \in 1..L(m) : Found(m, p)}
  OBVIOUS
<1> HIDE DEF L, U
<1>6. 0 \in P
  <2>1. L(0) = 0 /\ 0 \in 0..n
    BY <1>0, <1>2
  <2>2. 1..0 = {}
    OBVIOUS
  <2> HIDE DEF At, Found
  <2> QED
    BY <1>5, <2>1, <2>2
<1>7. ASSUME NEW i \in 1..n, i - 1 \in P PROVE i \in P
  <2>1. PICK h : h = i - 1
    OBVIOUS
  <2>2. /\ h \in 0..n /\ h \in P /\ i \in 0..n /\ h \in Nat /\ i = h + 1
    BY <1>0, <1>3, <1>7, <2>1
  <2>3. /\ L(i) = L(h) + Len(seqs[i]) /\ L(h) \in Nat /\ L(i) \in Nat /\ Len(seqs[i]) \in Nat
        /\ \A p \in 1..L(h) : U(i)[p] = U(h)[p]
        /\ \A j \in 1..Len(seqs[i]) : U(i)[L(h) + j] = seqs[i][j]
    BY <1>4, <2>1
  <2>4. ASSUME NEW k \in 1..i, NEW j \in 1..Len(seqs[k]) PROVE At(i, k, j)
    <3>1. CASE k = i
      BY <2>1, <2>3, <3>1
    <3>2. CASE k # i
      <4>1. k \in 1..h
        BY <2>2, <3>2
      <4>2. At(h, k, j)
        <5> HIDE DEF At
        <5> QED
          BY <1>5, <2>2, <4>1
      <4> QED
        BY <2>3, <4>2
    <3> QED
      BY <3>1, <3>2
  <2>5. ASSUME NEW p \in 1..L(i) PROVE Found(i, p)
    <3>1. CASE p \in 1..L(h)
      <4>1. Found(h, p)
        <5> HIDE DEF At, Found
        <5> QED
          BY <1>5, <2>2, <3>1
      <4>2. 1..h \subseteq 1..i
        BY <2>2
      <4> QED
        BY <4>1, <4>2
    <3>2. CASE p \notin 1..L(h)
      <4>1. PICK j \in 1..Len(seqs[i]) : p = L(h) + j
        <5>1. p - L(h) \in 1..Len(seqs[i]) /\ p = L(h) + (p - L(h))
          BY <2>3, <3>2
        <5> QED
          BY <5>1
      <4>2. i \in 1..i
        BY <2>2
      <4> QED
        BY <2>1, <4>1, <4>2
    <3> QED
      BY <3>1, <3>2
  <2> HIDE DEF At, Found
  <2> QED
    BY <1>5, <2>2, <2>4, <2>5
<1>8. n \in P
  <2>1. 0..n \subseteq P
    BY ONLY <1>0, <1>6, <1>7, UpTo
  <2> QED
    BY <1>0, <2>1
<1>9. U(n) = FlattenSeq(seqs) /\ L(n) = Len(FlattenSeq(seqs))
  BY <1>0 DEF InTurn, Length, L, U
<1>10. \A k \in 1..n : L(k) = L(k - 1) + Len(seqs[k])
  BY <1>4
<1>11. /\ \A k \in 1..n : \A j \in 1..Len(seqs[k]) : At(n, k, j)
       /\ \A p \in 1..L(n) : Found(n, p)
  <2> HIDE DEF At, Found
  <2> QED
    BY <1>5, <1>8
<1> QED
  BY <1>1, <1>2, <1>9, <1>10, <1>11 DEF InPlace, L, U

\* Whatever is made one sequence more at a time is what the first make.
LEMMA UptoIs ==
    ASSUME NEW S, NEW seqs, seqs \in Seq(Seq(S)), NEW n, n = Len(seqs), NEW G, Joins(S, seqs, n, G)
    PROVE  (\A k \in 0..n : Upto(seqs, k) = G[k]) /\ FlattenSeq(seqs) = G[n]
PROOF
<1>1. n \in Nat /\ InTurn(S, seqs, n)
  BY FlattenUpto
<1>2. PICK P : P = {k \in 0..n : Upto(seqs, k) = G[k]}
  OBVIOUS
<1>3. 0 \in P
  BY <1>1, <1>2 DEF InTurn, Joins
<1>4. ASSUME NEW i \in 1..n, i - 1 \in P PROVE i \in P
  <2>1. i \in 0..n
    BY <1>1
  <2> QED
    BY <1>1, <1>2, <1>4, <2>1 DEF InTurn, Joins
<1>5. 0..n \subseteq P
  BY ONLY <1>1, <1>3, <1>4, UpTo
<1>6. Upto(seqs, n) = FlattenSeq(seqs) /\ n \in 0..n
  BY <1>1 DEF InTurn
<1> QED
  BY <1>2, <1>5, <1>6

\* What is behind ends behind.
LEMMA EndsGrow ==
    ASSUME NEW seqs, NEW n \in Nat, NEW whole, InPlace(seqs, n, whole), NEW a \in 0..n, NEW b \in 0..n, a <= b,
           \A k \in 1..n : Len(seqs[k]) \in Nat
    PROVE  Length(seqs, a) <= Length(seqs, b)
PROOF
<1>1. PICK E : E = [k \in 0..n |-> Length(seqs, k)]
  OBVIOUS
<1>2. \A k \in 0..n : E[k] \in Nat
  BY ONLY <1>1, InPlace(seqs, n, whole) DEF InPlace
<1>3. \A k \in 1..n : k - 1 \in 0..n /\ k \in 0..n /\ E[k - 1] <= E[k]
  <2> TAKE k \in 1..n
  <2>1. k - 1 \in 0..n /\ k \in 0..n
    OBVIOUS
  <2>2. Length(seqs, k) = Length(seqs, k - 1) + Len(seqs[k]) /\ Len(seqs[k]) \in Nat
    BY ONLY InPlace(seqs, n, whole), k \in 1..n, \A i \in 1..n : Len(seqs[i]) \in Nat DEF InPlace
  <2> QED
    BY ONLY <1>1, <1>2, <2>1, <2>2
<1>4. PICK P : P = {c \in 0..n : c >= a => E[a] <= E[c]}
  OBVIOUS
<1>5. 0 \in P
  <2>1. 0 >= a => a = 0
    OBVIOUS
  <2>2. 0 \in 0..n /\ E[0] \in Nat
    BY ONLY <1>2, n \in Nat
  <2> QED
    BY ONLY <1>4, <2>1, <2>2
<1>6. ASSUME NEW c \in 1..n, c - 1 \in P PROVE c \in P
  <2>1. c \in 0..n /\ (c >= a => c = a \/ c - 1 >= a)
    OBVIOUS
  <2>2. E[c - 1] <= E[c] /\ E[c - 1] \in Nat /\ E[c] \in Nat /\ E[a] \in Nat
    BY ONLY <1>2, <1>3, <1>6, a \in 0..n
  <2>3. c - 1 >= a => E[a] <= E[c - 1]
    BY ONLY <1>4, <1>6
  <2> QED
    BY ONLY <1>4, <2>1, <2>2, <2>3
<1>7. 0..n \subseteq P
  BY ONLY <1>5, <1>6, UpTo, n \in Nat
<1>8. b \in P
  BY <1>7
<1> QED
  BY ONLY <1>1, <1>4, <1>8, a \in 0..n, a <= b, b \in 0..n
=============================================================================
