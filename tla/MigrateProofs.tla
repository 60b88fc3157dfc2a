--------------------------- MODULE MigrateProofs ---------------------------
(***************************************************************************)
(* What powder migrate and migrate --rebuild keep true, for every parsed   *)
(* schema, every database, every dialect, any number of runs, and whatever *)
(* fails or dies.                                                          *)
(*                                                                         *)
(* First what the operators of Schema compute: the order of the tables has *)
(* each table of the schema, after its parents unless they wait for one    *)
(* another; CREATE TABLE makes what validate accepts; ADD COLUMN makes     *)
(* nothing that validate refuses and did not refuse before.  Then the      *)
(* inductive invariant, Sound: the database the others see is whole, and   *)
(* the one inside the rebuild's transaction is what its statements so far  *)
(* have made of it, with one lemma for each step, which the others do not  *)
(* see or see as a step of SafeMigration.  On top of Sound, what a run     *)
(* reports: Progress says what the tables a pass has behind it have.       *)
(* Then what a run does of what --dry-run said: Announced says how far the *)
(* pass is in what was said of the tables as they were at its start.       *)
(* Last, the relations that the generator and the engine derive.           *)
(***************************************************************************)
EXTENDS Migrate, RecursionProofs, FiniteSetTheorems, SequenceTheorems

\* What a schema that has been parsed has (Schema::parse, schema.rs:225-362).
Declared(t) ==
    /\ t.columns \in Seq(ToSet(t.columns)) /\ IsInjective(Names(t.columns))
    /\ t.keys \in Seq(ToSet(t.keys))
    /\ \A c \in ToSet(t.columns) :
         c.type \in {"int", "float", "text", "bool"} /\ c.nullable \in BOOLEAN /\ c.pk \in BOOLEAN

-----------------------------------------------------------------------------
(* Sequences. *)

\* The places kept are gone through one after the other.
LEMMA FilteredRuns ==
    ASSUME NEW S, NEW seq \in Seq(S), NEW keep
    PROVE  \E G : /\ G[0] = <<>> /\ Filtered(seq, keep) = G[Len(seq)]
                  /\ \A i \in 0..Len(seq) : G[i] \in Seq(S)
                  /\ \A i \in 1..Len(seq) :
                       G[i] = IF i \in keep THEN Append(G[i - 1], seq[i]) ELSE G[i - 1]
PROOF
<1>0. PICK n \in Nat : n = Len(seq) /\ DOMAIN seq = 1..n
  OBVIOUS
<1>1. PICK A : A = Seq(S)
  OBVIOUS
<1> DEFINE Advance(i, acc) == IF i \in keep THEN Append(acc, seq[i]) ELSE acc
           Body(f) == [i \in 0..n |-> IF i = 0 THEN <<>> ELSE Advance(i, f[i - 1])]
<1>1a. <<>> \in A
  BY <1>1
<1>2. \A i \in 1..n, acc \in A : Advance(i, acc) \in A
  BY <1>0, <1>1
<1>3. PICK step : step = [i \in 1..n |-> [acc \in A |-> Advance(i, acc)]]
  OBVIOUS
<1>4. step \in [1..n -> [A -> A]]
  <2> HIDE DEF Advance
  <2> QED
    BY <1>2, <1>3
<1>5. PICK F \in [0..n -> A] : F[0] = <<>> /\ \A i \in 1..n : F[i] = step[i][F[i - 1]]
  BY <1>1a, <1>4, Recursion
<1>6. \A i \in 1..n : F[i - 1] \in A /\ F[i] = Advance(i, F[i - 1])
  <2> TAKE i \in 1..n
  <2>1. F[i - 1] \in A
    BY <1>5
  <2> HIDE DEF Advance
  <2> QED
    BY <2>1, <1>3, <1>5
<1>7. F = Body(F)
  <2>1. \A i \in 0..n : i # 0 => i \in 1..n
    OBVIOUS
  <2> HIDE DEF Advance
  <2>2. ASSUME NEW i \in 0..n PROVE F[i] = IF i = 0 THEN <<>> ELSE Advance(i, F[i - 1])
    BY <1>5, <1>6, <2>1
  <2>3. F = [i \in 0..n |-> F[i]]
    BY <1>5
  <2> QED
    BY <2>2, <2>3, Zenon
<1>8. PICK G : G = (CHOOSE f : f = Body(f))
  <2> HIDE DEF Body
  <2> QED
    BY Zenon
<1>9. G = Body(G)
  <2> HIDE DEF Body
  <2> QED
    BY <1>7, <1>8, Zenon
<1>10. Filtered(seq, keep) = G[n]
  BY <1>0, <1>8 DEF Filtered
<1>11. 0..n \subseteq {i \in Nat : G[i] \in A}
  <2>1. PICK P : P = {i \in Nat : G[i] \in A}
    OBVIOUS
  <2>2. 0 \in P
    BY <2>1, <1>1a, <1>9
  <2>3. ASSUME NEW i \in 1..n, i - 1 \in P PROVE i \in P
    <3>1. G[i] = Advance(i, G[i - 1])
      <4>1. i \in 0..n /\ i # 0
        OBVIOUS
      <4> HIDE DEF Advance
      <4> QED
        BY <4>1, <1>9
    <3> HIDE DEF Advance
    <3> QED
      BY <2>1, <2>3, <3>1, <1>2
  <2> QED
    BY <2>1, <2>2, <2>3, UpTo
<1>12. \A i \in 1..n : G[i] = Advance(i, G[i - 1])
  <2> TAKE i \in 1..n
  <2>1. i \in 0..n /\ i # 0
    OBVIOUS
  <2> HIDE DEF Advance
  <2> QED
    BY <2>1, <1>9
<1>13. G[0] = <<>>
  BY <1>9
<1> HIDE DEF Body
<1> QED
  BY <1>0, <1>1, <1>10, <1>11, <1>12, <1>13

\* A sequence stays one when elements are left out, and what is left are the
\* elements at the places kept.
LEMMA FilteredElements ==
    ASSUME NEW S, NEW seq \in Seq(S), NEW keep
    PROVE  /\ Filtered(seq, keep) \in Seq(S)
           /\ ToSet(Filtered(seq, keep)) = {seq[i] : i \in keep \cap DOMAIN seq}
PROOF
<1>0. PICK n \in Nat : n = Len(seq) /\ DOMAIN seq = 1..n
  OBVIOUS
<1>1. PICK G : /\ G[0] = <<>> /\ Filtered(seq, keep) = G[n]
               /\ \A i \in 0..n : G[i] \in Seq(S)
               /\ \A i \in 1..n : G[i] = IF i \in keep THEN Append(G[i - 1], seq[i]) ELSE G[i - 1]
  <2>1. PICK G : /\ G[0] = <<>> /\ Filtered(seq, keep) = G[Len(seq)]
                 /\ \A i \in 0..Len(seq) : G[i] \in Seq(S)
                 /\ \A i \in 1..Len(seq) :
                      G[i] = IF i \in keep THEN Append(G[i - 1], seq[i]) ELSE G[i - 1]
    BY FilteredRuns
  <2> QED
    BY <1>0, <2>1
<1>2. \A i \in 1..n : ToSet(G[i]) = IF i \in keep THEN ToSet(G[i - 1]) \cup {seq[i]} ELSE ToSet(G[i - 1])
  <2> TAKE i \in 1..n
  <2>1. PICK s \in Seq(S) : s = G[i - 1]
    BY <1>1
  <2>2. ToSet(Append(s, seq[i])) = ToSet(s) \cup {seq[i]}
    <3>1. DOMAIN Append(s, seq[i]) = DOMAIN s \cup {Len(s) + 1}
      OBVIOUS
    <3>2. \A j \in DOMAIN s : Append(s, seq[i])[j] = s[j]
      OBVIOUS
    <3>3. Append(s, seq[i])[Len(s) + 1] = seq[i]
      OBVIOUS
    <3> QED
      BY <3>1, <3>2, <3>3 DEF ToSet
  <2> QED
    BY <2>1, <2>2, <1>1
<1>3. 0..n \subseteq {i \in Nat : \A x : x \in ToSet(G[i]) <=> \E j \in keep \cap (1..i) : x = seq[j]}
  <2>1. PICK P : P = {i \in Nat : \A x : x \in ToSet(G[i]) <=> \E j \in keep \cap (1..i) : x = seq[j]}
    OBVIOUS
  <2>2. 0 \in P
    <3>1. ToSet(G[0]) = {}
      BY <1>1 DEF ToSet
    <3>2. 1..0 = {}
      OBVIOUS
    <3> QED
      BY <2>1, <3>1, <3>2
  <2>3. ASSUME NEW i \in 1..n, i - 1 \in P PROVE i \in P
    <3>1. 1..i = (1..(i - 1)) \cup {i}
      OBVIOUS
    <3>2. \A x : x \in ToSet(G[i - 1]) <=> \E j \in keep \cap (1..(i - 1)) : x = seq[j]
      BY <2>1, <2>3
    <3>3. \A x : x \in ToSet(G[i]) <=> x \in ToSet(G[i - 1]) \/ (i \in keep /\ x = seq[i])
      BY <1>2
    <3>4. \A x : x \in ToSet(G[i]) <=> \E j \in keep \cap (1..i) : x = seq[j]
      BY <3>1, <3>2, <3>3
    <3> QED
      BY <2>1, <3>4
  <2> QED
    BY <2>1, <2>2, <2>3, UpTo
<1>4. ToSet(G[n]) = {seq[j] : j \in keep \cap (1..n)}
  <2>1. \A x : x \in ToSet(G[n]) <=> \E j \in keep \cap (1..n) : x = seq[j]
    <3>1. n \in 0..n
      OBVIOUS
    <3> QED
      BY <3>1, <1>3
  <2> QED
    BY <2>1
<1>5. n \in 0..n
  OBVIOUS
<1> QED
  BY <1>0, <1>1, <1>4, <1>5

\* What is left begins with the first of the places kept.
LEMMA FilteredFirst ==
    ASSUME NEW S, NEW seq \in Seq(S), NEW keep, Filtered(seq, keep) # <<>>
    PROVE  \E q \in keep \cap (1..Len(seq)) :
             /\ Filtered(seq, keep)[1] = seq[q]
             /\ \A i \in keep \cap (1..Len(seq)) : q <= i
PROOF
<1>0. PICK n \in Nat : n = Len(seq)
  OBVIOUS
<1>1. PICK G : /\ G[0] = <<>> /\ Filtered(seq, keep) = G[n]
               /\ \A i \in 0..n : G[i] \in Seq(S)
               /\ \A i \in 1..n : G[i] = IF i \in keep THEN Append(G[i - 1], seq[i]) ELSE G[i - 1]
  <2>1. PICK G : /\ G[0] = <<>> /\ Filtered(seq, keep) = G[Len(seq)]
                 /\ \A i \in 0..Len(seq) : G[i] \in Seq(S)
                 /\ \A i \in 1..Len(seq) :
                      G[i] = IF i \in keep THEN Append(G[i - 1], seq[i]) ELSE G[i - 1]
    BY FilteredRuns
  <2> QED
    BY <1>0, <2>1
<1> DEFINE First(i, q) == G[i][1] = seq[q] /\ \A j \in keep \cap (1..i) : q <= j
           Good(i) == IF G[i] = <<>> THEN keep \cap (1..i) = {}
                      ELSE \E q \in keep \cap (1..i) : First(i, q)
<1>2. PICK P : P = {i \in 0..n : Good(i)}
  OBVIOUS
<1>3. 0 \in P
  BY <1>1, <1>2
<1>4. ASSUME NEW i \in 1..n, i - 1 \in P PROVE i \in P
  <2>1. PICK s \in Seq(S) : s = G[i - 1]
    BY <1>1
  <2>2. 1..i = (1..(i - 1)) \cup {i}
    OBVIOUS
  <2>3. CASE i \notin keep
    <3>1. G[i] = G[i - 1] /\ keep \cap (1..i) = keep \cap (1..(i - 1))
      BY <1>1, <2>2, <2>3
    <3> QED
      BY <1>2, <1>4, <3>1
  <2>4. CASE i \in keep
    <3>1. G[i] = Append(s, seq[i])
      BY <1>1, <2>1, <2>4
    <3>2. seq[i] \in S
      BY <1>0
    <3>3. CASE s = <<>>
      <4>1. G[i] # <<>> /\ G[i][1] = seq[i]
        BY <3>1, <3>3
      <4>2. keep \cap (1..i) = {i}
        BY <1>2, <1>4, <2>1, <2>2, <2>4, <3>3
      <4> QED
        BY <1>2, <4>1, <4>2
    <3>4. CASE s # <<>>
      <4>1. G[i] # <<>> /\ G[i][1] = s[1]
        BY <2>1, <3>1, <3>2, <3>4
      <4>2. PICK q \in keep \cap (1..(i - 1)) : First(i - 1, q)
        BY <1>2, <1>4, <2>1, <3>4
      <4>3. q \in keep \cap (1..i) /\ First(i, q)
        BY <2>1, <2>2, <4>1, <4>2
      <4> QED
        BY <1>2, <4>1, <4>3
    <3> QED
      BY <3>3, <3>4
  <2> QED
    BY <2>3, <2>4
<1>5. n \in P
  <2>1. 0..n \subseteq P
    <3> HIDE DEF Good
    <3> QED
      BY <1>3, <1>4, UpTo
  <2> QED
    BY <2>1
<1> QED
  BY <1>0, <1>1, <1>2, <1>5

\* A sequence is one of its elements.
LEMMA OfItsElements ==
    ASSUME NEW S, NEW a, a \in Seq(S)
    PROVE  a \in Seq(ToSet(a))
PROOF
<1>1. PICK n \in Nat : DOMAIN a = 1..n /\ a = [i \in 1..n |-> a[i]]
  OBVIOUS
<1>2. PICK K : K = ToSet(a)
  OBVIOUS
<1>3. \A i \in 1..n : a[i] \in K
  BY <1>1, <1>2 DEF ToSet
<1>4. a \in [1..n -> K]
  BY <1>1, <1>3
<1> QED
  BY <1>2, <1>4

\* Two sequences, one after the other.
LEMMA ConcatElements ==
    ASSUME NEW S, NEW a, a \in Seq(S), NEW T, NEW b, b \in Seq(T)
    PROVE  ToSet(a \o b) = ToSet(a) \cup ToSet(b)
PROOF
<1>1. PICK m \in Nat, n \in Nat : m = Len(a) /\ n = Len(b) /\ DOMAIN a = 1..m /\ DOMAIN b = 1..n
  OBVIOUS
<1>2. PICK c : c = a \o b
  OBVIOUS
<1>3. /\ DOMAIN c = 1..(m + n)
      /\ \A i \in 1..m : c[i] = a[i]
      /\ \A i \in 1..n : c[i + m] = b[i]
  <2>1. a \in Seq(S \cup T) /\ b \in Seq(S \cup T)
    OBVIOUS
  <2> QED
    BY <1>1, <1>2, <2>1
<1>4. \A i \in 1..(m + n) : i \in 1..m \/ \E j \in 1..n : i = j + m
  <2> TAKE i \in 1..(m + n)
  <2>1. i \notin 1..m => i - m \in 1..n /\ i = (i - m) + m
    OBVIOUS
  <2> QED
    BY <2>1
<1>5. \A j \in 1..n : j + m \in 1..(m + n)
  OBVIOUS
<1>6. \A i \in 1..m : i \in 1..(m + n)
  OBVIOUS
<1>7. ASSUME NEW x \in ToSet(c) PROVE x \in ToSet(a) \cup ToSet(b)
  <2>1. PICK i \in 1..(m + n) : x = c[i]
    BY <1>3 DEF ToSet
  <2>2. CASE i \in 1..m
    BY <1>1, <1>3, <2>1, <2>2 DEF ToSet
  <2>3. CASE \E j \in 1..n : i = j + m
    BY <1>1, <1>3, <2>1, <2>3 DEF ToSet
  <2> QED
    BY <1>4, <2>2, <2>3
<1>8. ToSet(a) \subseteq ToSet(c)
  BY <1>1, <1>3, <1>6 DEF ToSet
<1>9. ToSet(b) \subseteq ToSet(c)
  BY <1>1, <1>3, <1>5 DEF ToSet
<1> QED
  BY <1>2, <1>7, <1>8, <1>9

\* A sequence with one more element.
LEMMA AppendElements ==
    ASSUME NEW s, s \in Seq(ToSet(s)), NEW e
    PROVE  /\ ToSet(Append(s, e)) = ToSet(s) \cup {e}
           /\ Append(s, e) \in Seq(ToSet(Append(s, e)))
PROOF
<1>1. PICK S : S = ToSet(s) \cup {e}
  OBVIOUS
<1>2. s \in Seq(S) /\ e \in S
  <2>1. PICK T : T = ToSet(s)
    OBVIOUS
  <2>2. s \in Seq(T) /\ T \subseteq S
    BY <1>1, <2>1
  <2> QED
    BY <1>1, <2>2
<1>3. Append(s, e) \in Seq(S)
  BY <1>2
<1>4. ToSet(Append(s, e)) = S
  <2>1. DOMAIN Append(s, e) = DOMAIN s \cup {Len(s) + 1}
    BY <1>2
  <2>2. \A j \in DOMAIN s : Append(s, e)[j] = s[j]
    BY <1>2
  <2>3. Append(s, e)[Len(s) + 1] = e
    BY <1>2
  <2> QED
    BY <1>1, <2>1, <2>2, <2>3 DEF ToSet
<1> QED
  BY <1>1, <1>3, <1>4

\* A sequence that has each element once, and one more.
LEMMA AppendOnce ==
    ASSUME NEW S, NEW s, s \in Seq(S), NEW e \in S, e \notin ToSet(s),
           \A i, j \in DOMAIN s : s[i] = s[j] => i = j
    PROVE  \A i, j \in DOMAIN Append(s, e) : Append(s, e)[i] = Append(s, e)[j] => i = j
PROOF
<1>1. PICK m \in Nat : m = Len(s) /\ DOMAIN s = 1..m
  OBVIOUS
<1>2. PICK a : a = Append(s, e)
  OBVIOUS
<1>3. DOMAIN a = 1..(m + 1) /\ a[m + 1] = e /\ \A i \in 1..m : a[i] = s[i]
  BY <1>1, <1>2
<1>4. \A i \in 1..m : s[i] # e
  BY <1>1 DEF ToSet
<1>5. ASSUME NEW i \in 1..(m + 1), NEW j \in 1..(m + 1), a[i] = a[j] PROVE i = j
  <2>1. (i \in 1..m \/ i = m + 1) /\ (j \in 1..m \/ j = m + 1)
    OBVIOUS
  <2> QED
    BY <1>1, <1>3, <1>4, <1>5, <2>1
<1> QED
  BY <1>2, <1>3, <1>5

\* If each element occurs once, so it does in what is left.
LEMMA FilteredOnce ==
    ASSUME NEW S, NEW seq \in Seq(S), NEW keep,
           \A i, j \in 1..Len(seq) : seq[i] = seq[j] => i = j
    PROVE  \A i, j \in DOMAIN Filtered(seq, keep) :
             Filtered(seq, keep)[i] = Filtered(seq, keep)[j] => i = j
PROOF
<1>0. PICK n \in Nat : n = Len(seq)
  OBVIOUS
<1>1. PICK G : /\ G[0] = <<>> /\ Filtered(seq, keep) = G[n]
               /\ \A i \in 0..n : G[i] \in Seq(S)
               /\ \A i \in 1..n : G[i] = IF i \in keep THEN Append(G[i - 1], seq[i]) ELSE G[i - 1]
  <2>1. PICK G : /\ G[0] = <<>> /\ Filtered(seq, keep) = G[Len(seq)]
                 /\ \A i \in 0..Len(seq) : G[i] \in Seq(S)
                 /\ \A i \in 1..Len(seq) :
                      G[i] = IF i \in keep THEN Append(G[i - 1], seq[i]) ELSE G[i - 1]
    BY FilteredRuns
  <2> QED
    BY <1>0, <2>1
<1> DEFINE Once(s) == \A a, b \in DOMAIN s : s[a] = s[b] => a = b
           Good(i) == Once(G[i]) /\ \A x \in ToSet(G[i]) : \E j \in 1..i : x = seq[j]
<1>2. PICK P : P = {i \in 0..n : Good(i)}
  OBVIOUS
<1>3. 0 \in P
  <2>1. ToSet(<<>>) = {}
    BY DEF ToSet
  <2> QED
    BY <1>1, <1>2, <2>1
<1>4. ASSUME NEW i \in 1..n, i - 1 \in P PROVE i \in P
  <2>1. PICK s : s = G[i - 1] /\ s \in Seq(S) /\ Once(s)
                 /\ \A x \in ToSet(s) : \E j \in 1..(i - 1) : x = seq[j]
    BY <1>1, <1>2, <1>4
  <2>2. \A j \in 1..(i - 1) : j \in 1..i /\ j # i
    OBVIOUS
  <2>3. CASE i \notin keep
    <3>1. G[i] = s
      BY <1>1, <2>1, <2>3
    <3>2. \A x \in ToSet(G[i]) : \E j \in 1..i : x = seq[j]
      BY <2>1, <2>2, <3>1
    <3>3. Good(i)
      <4>1. Once(G[i])
        BY <2>1, <3>1
      <4> HIDE DEF Once
      <4> QED
        BY <3>2, <4>1
    <3> HIDE DEF Good
    <3> QED
      BY <1>2, <3>3
  <2>4. CASE i \in keep
    <3>1. G[i] = Append(s, seq[i])
      BY <1>1, <2>1, <2>4
    <3>2. seq[i] \in S /\ seq[i] \notin ToSet(s)
      BY <1>0, <2>1, <2>2
    <3>3. Once(Append(s, seq[i]))
      BY <2>1, <3>2, AppendOnce
    <3>4. ToSet(Append(s, seq[i])) = ToSet(s) \cup {seq[i]}
      <4>1. s \in Seq(ToSet(s))
        BY <2>1, OfItsElements
      <4> QED
        BY <4>1, AppendElements
    <3>5. \A x \in ToSet(G[i]) : \E j \in 1..i : x = seq[j]
      BY <2>1, <2>2, <3>1, <3>4
    <3>6. Good(i)
      <4>1. Once(G[i])
        <5> HIDE DEF Once
        <5> QED
          BY <3>1, <3>3
      <4> HIDE DEF Once
      <4> QED
        BY <3>5, <4>1
    <3>7. i \in 0..n
      OBVIOUS
    <3> HIDE DEF Good
    <3> QED
      BY <1>2, <3>6, <3>7
  <2> QED
    BY <2>3, <2>4
<1>5. n \in P
  <2>1. 0..n \subseteq P
    <3> HIDE DEF Good
    <3> QED
      BY <1>3, <1>4, UpTo
  <2> QED
    BY <2>1
<1> QED
  BY <1>1, <1>2, <1>5

\* The names are those of the elements.
LEMMA NamesOfColumns ==
    ASSUME NEW cols
    PROVE  ToSet(Names(cols)) = {c.name : c \in ToSet(cols)}
PROOF
<1> QED
  BY DEF ToSet, Names

\* A sequence without repetition that is as long as another one has all of
\* its elements, if it has no other.
LEMMA AllOfThem ==
    ASSUME NEW S, NEW a \in Seq(S), S = ToSet(a), NEW b, b \in Seq(S), Len(b) >= Len(a),
           \A i, j \in DOMAIN b : b[i] = b[j] => i = j
    PROVE  ToSet(b) = S
PROOF
<1>1. PICK m \in Nat, n \in Nat : /\ m = Len(a) /\ DOMAIN a = 1..m /\ n = Len(b) /\ DOMAIN b = 1..n
                                  /\ n >= m
  OBVIOUS
<1>2. IsFiniteSet(1..m) /\ Cardinality(1..m) = m /\ IsFiniteSet(1..n) /\ Cardinality(1..n) = n
  BY FS_Interval
<1>3. IsFiniteSet(S) /\ Cardinality(S) <= m
  <2>1. a \in Surjection(1..m, S)
    <3>1. a \in [1..m -> S]
      BY <1>1
    <3> QED
      BY <3>1, <1>1 DEF Surjection, ToSet
  <2> QED
    BY <1>2, <2>1, FS_Surjection
<1>4. SUFFICES ASSUME NEW t \in S, t \notin ToSet(b) PROVE FALSE
  <2>1. ToSet(b) \subseteq S
    BY <1>1 DEF ToSet
  <2> QED
    BY <2>1
<1>5. PICK T : T = S \ {t}
  OBVIOUS
<1>6. IsFiniteSet(T) /\ Cardinality(T) < n
  <2>1. IsFiniteSet(T) /\ Cardinality(T) = Cardinality(S) - 1 /\ Cardinality(S) \in Nat
    BY <1>3, <1>5, FS_RemoveElement, FS_CardinalityType
  <2> QED
    BY <1>1, <1>3, <2>1
<1>7. b \in [1..n -> T]
  <2>1. \A i \in 1..n : b[i] \in T
    BY <1>1, <1>4, <1>5 DEF ToSet
  <2>2. b \in [1..n -> S]
    BY <1>1
  <2> QED
    BY <2>1, <2>2
<1>8. \E i, j \in 1..n : i # j /\ b[i] = b[j]
  BY <1>2, <1>6, <1>7, FS_PigeonHole
<1> QED
  BY <1>1, <1>8

-----------------------------------------------------------------------------
(* The order of the tables. *)

\* A table is placed if it is not yet and its parents are.
Advanced(t, acc) ==
    IF t \notin ToSet(acc) /\ Parents(t) \subseteq ToSet(Names(acc)) THEN Append(acc, t) ELSE acc

\* Pass is the end of a run through the schema, table by table, within A.
IsPass(A, sch, placed) ==
    \E G : /\ G[0] = placed /\ Pass(sch, placed) = G[Len(sch)]
           /\ \A i \in 0..Len(sch) : G[i] \in A
           /\ \A i \in 1..Len(sch) : G[i] = Advanced(sch[i], G[i - 1])

\* A pass is a run over the schema.
LEMMA PassRuns ==
    ASSUME NEW A, NEW sch, Len(sch) \in Nat, NEW placed, placed \in A,
           \A i \in 1..Len(sch), acc \in A : Append(acc, sch[i]) \in A
    PROVE  IsPass(A, sch, placed)
PROOF
<1>0. PICK n \in Nat : n = Len(sch)
  OBVIOUS
<1> DEFINE Body(f) == [i \in 0..n |-> IF i = 0 THEN placed ELSE Advanced(sch[i], f[i - 1])]
<1>3. \A i \in 1..n, acc \in A : Advanced(sch[i], acc) \in A
  BY <1>0 DEF Advanced
<1>4. PICK step : step = [i \in 1..n |-> [acc \in A |-> Advanced(sch[i], acc)]]
  OBVIOUS
<1>5. step \in [1..n -> [A -> A]]
  BY <1>3, <1>4
<1>6. PICK F \in [0..n -> A] : F[0] = placed /\ \A i \in 1..n : F[i] = step[i][F[i - 1]]
  BY <1>5, Recursion
<1>7. \A i \in 1..n : F[i] = Advanced(sch[i], F[i - 1])
  <2> TAKE i \in 1..n
  <2>1. F[i - 1] \in A
    BY <1>6
  <2> QED
    BY <2>1, <1>4, <1>6
<1>8. F = Body(F)
  <2>1. \A i \in 0..n : i # 0 => i \in 1..n
    OBVIOUS
  <2> QED
    BY <1>6, <1>7, <2>1
<1>9. PICK G : G = (CHOOSE f : f = Body(f))
  BY Zenon
<1>10. G = Body(G)
  BY <1>8, <1>9
<1>11. Pass(sch, placed) = G[n]
  BY <1>0, <1>9 DEF Pass, Advanced
<1>12. \A i \in 1..n : G[i] = Advanced(sch[i], G[i - 1])
  <2> TAKE i \in 1..n
  <2>1. i \in 0..n /\ i # 0
    OBVIOUS
  <2> QED
    BY <2>1, <1>10
<1>13. G[0] = placed
  BY <1>10
<1>14. 0..n \subseteq {i \in Nat : G[i] \in A}
  <2>1. PICK P : P = {i \in Nat : G[i] \in A}
    OBVIOUS
  <2>2. 0 \in P
    BY <2>1, <1>13
  <2>3. \A i \in 1..n : i - 1 \in P => i \in P
    BY <2>1, <1>3, <1>12
  <2> QED
    BY <2>1, <2>2, <2>3, UpTo
<1> QED
  BY <1>0, <1>11, <1>12, <1>13, <1>14 DEF IsPass

\* The order is a run of passes, and then the tables these leave.
LEMMA OrderRuns ==
    ASSUME NEW S, NEW sch \in Seq(S)
    PROVE  \E G : /\ G[0] = <<>>
                  /\ \A i \in 0..Len(sch) : G[i] \in Seq(S)
                  /\ \A i \in 1..Len(sch) : G[i] = Pass(sch, G[i - 1])
                  /\ DependencyOrder(sch) = G[Len(sch)] \o
                       Filtered(sch, {i \in DOMAIN sch : sch[i] \notin ToSet(G[Len(sch)])})
PROOF
<1>0. PICK n \in Nat : n = Len(sch) /\ DOMAIN sch = 1..n
  OBVIOUS
<1>1. PICK A : A = Seq(S)
  OBVIOUS
<1> DEFINE Body(f) == [i \in 0..n |-> IF i = 0 THEN <<>> ELSE Pass(sch, f[i - 1])]
<1>2. <<>> \in A
  BY <1>1
<1>3. \A acc \in A : Pass(sch, acc) \in A
  <2>1. \A i \in 1..n, acc \in A : Append(acc, sch[i]) \in A
    BY <1>0, <1>1
  <2>2. ASSUME NEW acc, acc \in A PROVE Pass(sch, acc) \in A
    <3>1. PICK G : Pass(sch, acc) = G[n] /\ \A i \in 0..n : G[i] \in A
      <4>1. Len(sch) \in Nat /\ \A i \in 1..Len(sch), y \in A : Append(y, sch[i]) \in A
        BY <1>0, <2>1
      <4>2. IsPass(A, sch, acc)
        BY ONLY <2>2, <4>1, PassRuns
      <4> QED
        BY <1>0, <4>2 DEF IsPass
    <3>2. n \in 0..n
      OBVIOUS
    <3> QED
      BY <3>1, <3>2
  <2> QED
    BY <2>2
<1>4. PICK step : step = [i \in 1..n |-> [acc \in A |-> Pass(sch, acc)]]
  OBVIOUS
<1>5. step \in [1..n -> [A -> A]]
  BY <1>3, <1>4
<1>6. PICK F \in [0..n -> A] : F[0] = <<>> /\ \A i \in 1..n : F[i] = step[i][F[i - 1]]
  <2>1. PICK none \in A : none = <<>>
    BY <1>2
  <2>2. \E F \in [0..n -> A] : F[0] = none /\ \A i \in 1..n : F[i] = step[i][F[i - 1]]
    BY <1>5, Recursion
  <2> QED
    BY <2>1, <2>2
<1>7. \A i \in 1..n : F[i] = Pass(sch, F[i - 1])
  <2> TAKE i \in 1..n
  <2>1. F[i - 1] \in A
    BY <1>6
  <2> QED
    BY <2>1, <1>4, <1>6
<1>8. F = Body(F)
  <2>1. \A i \in 0..n : i # 0 => i \in 1..n
    OBVIOUS
  <2> QED
    BY <1>6, <1>7, <2>1
<1>9. PICK G : G = (CHOOSE f : f = Body(f))
  BY Zenon
<1>10. G = Body(G)
  BY <1>8, <1>9
<1>11. \A i \in 1..n : G[i] = Pass(sch, G[i - 1])
  <2> TAKE i \in 1..n
  <2>1. i \in 0..n /\ i # 0
    OBVIOUS
  <2> QED
    BY <2>1, <1>10
<1>12. G[0] = <<>>
  BY <1>10
<1>13. 0..n \subseteq {i \in Nat : G[i] \in A}
  <2>1. PICK P : P = {i \in Nat : G[i] \in A}
    OBVIOUS
  <2>2. 0 \in P
    BY <2>1, <1>2, <1>12
  <2>3. \A i \in 1..n : i - 1 \in P => i \in P
    BY <2>1, <1>3, <1>11
  <2> QED
    BY <2>1, <2>2, <2>3, UpTo
<1>14. DependencyOrder(sch) = G[n] \o Filtered(sch, {i \in DOMAIN sch : sch[i] \notin ToSet(G[n])})
  BY <1>0, <1>9 DEF DependencyOrder
<1> QED
  BY <1>0, <1>1, <1>11, <1>12, <1>13, <1>14

\* The order of the tables is of tables of the schema
\* (tables_in_dependency_order, schema.rs:406-428).
LEMMA OrderIsOfTheSchema ==
    ASSUME NEW S, NEW sch \in Seq(S)
    PROVE  DependencyOrder(sch) \in Seq(S)
PROOF
<1>1. PICK n \in Nat : n = Len(sch)
  OBVIOUS
<1>2. PICK G : /\ \A i \in 0..n : G[i] \in Seq(S)
               /\ DependencyOrder(sch) = G[n] \o Filtered(sch, {i \in DOMAIN sch : sch[i] \notin ToSet(G[n])})
  <2>1. \E G : /\ G[0] = <<>>
               /\ \A i \in 0..Len(sch) : G[i] \in Seq(S)
               /\ \A i \in 1..Len(sch) : G[i] = Pass(sch, G[i - 1])
               /\ DependencyOrder(sch) = G[Len(sch)] \o
                    Filtered(sch, {i \in DOMAIN sch : sch[i] \notin ToSet(G[Len(sch)])})
    BY OrderRuns
  <2> QED
    BY <1>1, <2>1, Zenon
<1>3. PICK placed \in Seq(S) : placed = G[n]
  BY <1>2
<1>4. PICK rest \in Seq(S) : rest = Filtered(sch, {i \in DOMAIN sch : sch[i] \notin ToSet(placed)})
  BY FilteredElements
<1> QED
  BY <1>2, <1>3, <1>4

\* No table is placed twice, and none before its parents.
Follows(o) ==
    /\ \A i \in DOMAIN o : Parents(o[i]) \subseteq {o[j].name : j \in 1..(i - 1)}
    /\ \A i, j \in DOMAIN o : o[i] = o[j] => i = j

\* A table that is not placed and has its parents placed may be placed.
LEMMA FollowsAppend ==
    ASSUME NEW S, NEW acc, acc \in Seq(S), NEW t \in S, Follows(acc),
           t \notin ToSet(acc), Parents(t) \subseteq ToSet(Names(acc))
    PROVE  Follows(Append(acc, t))
PROOF
<1>1. PICK n \in Nat : n = Len(acc) /\ DOMAIN acc = 1..n
  OBVIOUS
<1>2. PICK o : o = Append(acc, t)
  OBVIOUS
<1>3. DOMAIN o = 1..(n + 1) /\ o[n + 1] = t /\ \A i \in 1..n : o[i] = acc[i]
  BY <1>1, <1>2
<1>4. ToSet(Names(acc)) = {acc[j].name : j \in 1..n}
  BY <1>1 DEF ToSet, Names
<1>5. \A i \in 1..(n + 1) : i \in 1..n \/ i = n + 1
  OBVIOUS
<1>6. \A i \in 1..n : acc[i] # t
  BY <1>1 DEF ToSet
<1>7. ASSUME NEW i \in DOMAIN o PROVE Parents(o[i]) \subseteq {o[j].name : j \in 1..(i - 1)}
  <2>1. CASE i \in 1..n
    <3>1. \A j \in 1..(i - 1) : o[j] = acc[j]
      BY <1>3, <2>1
    <3>2. Parents(acc[i]) \subseteq {acc[j].name : j \in 1..(i - 1)}
      BY <1>1, <2>1 DEF Follows
    <3> QED
      BY <1>3, <2>1, <3>1, <3>2
  <2>2. CASE i = n + 1
    <3>1. {o[j].name : j \in 1..n} = {acc[j].name : j \in 1..n}
      BY <1>3
    <3>2. i - 1 = n
      BY <2>2
    <3> QED
      BY <1>3, <1>4, <2>2, <3>1, <3>2
  <2> QED
    BY <1>3, <1>5, <2>1, <2>2
<1>8. \A i, j \in DOMAIN o : o[i] = o[j] => i = j
  BY <1>1, <1>3, <1>5, <1>6 DEF Follows
<1>9. Follows(o)
  BY <1>7, <1>8 DEF Follows
<1> QED
  BY <1>2, <1>9

\* No table is left that could be placed.
Stuck(sch, p) ==
    \A k \in 1..Len(sch) : sch[k] \in ToSet(p) \/ ~(Parents(sch[k]) \subseteq ToSet(Names(p)))

\* A pass places a table, or there is none to be placed.
LEMMA PassFollows ==
    ASSUME NEW S, NEW sch, sch \in Seq(S), NEW placed, placed \in Seq(S), Follows(placed)
    PROVE  /\ Pass(sch, placed) \in Seq(S) /\ Follows(Pass(sch, placed))
           /\ Len(Pass(sch, placed)) > Len(placed) \/ Stuck(sch, placed)
           /\ Stuck(sch, placed) => Pass(sch, placed) = placed
PROOF
<1>1. PICK A : A = Seq(S)
  OBVIOUS
<1>2. PICK n \in Nat : n = Len(sch) /\ \A i \in 1..n : sch[i] \in S
  OBVIOUS
<1>3. PICK G : /\ G[0] = placed /\ Pass(sch, placed) = G[n]
               /\ \A i \in 0..n : G[i] \in A
               /\ \A i \in 1..n : G[i] = Advanced(sch[i], G[i - 1])
  <2>1. \A i \in 1..n, acc \in A : Append(acc, sch[i]) \in A
    BY <1>1, <1>2
  <2>2. placed \in A /\ Len(sch) \in Nat /\ \A i \in 1..Len(sch), acc \in A : Append(acc, sch[i]) \in A
    BY <1>1, <1>2, <2>1
  <2>3. IsPass(A, sch, placed)
    <3>1. placed \in A
      BY <2>2
    <3>2. Len(sch) \in Nat
      BY <2>2
    <3>3. \A i \in 1..Len(sch), acc \in A : Append(acc, sch[i]) \in A
      BY <2>2
    <3> QED
      BY ONLY <3>1, <3>2, <3>3, PassRuns
  <2> QED
    BY <1>2, <2>3, Zenon DEF IsPass
<1> DEFINE Held(k) == sch[k] \in ToSet(placed) \/ ~(Parents(sch[k]) \subseteq ToSet(Names(placed)))
           Come(i) == /\ Follows(G[i])
                      /\ Len(G[i]) > Len(placed) \/ (G[i] = placed /\ \A k \in 1..i : Held(k))
                      /\ (\A k \in 1..n : Held(k)) => G[i] = placed
<1>4. PICK P : P = {i \in 0..n : Come(i)}
  OBVIOUS
<1>5. 0 \in P
  BY <1>3, <1>4
<1>6. ASSUME NEW i \in 1..n, i - 1 \in P PROVE i \in P
  <2>1. PICK acc \in Seq(S) : acc = G[i - 1] /\ Follows(acc)
    <3>1. i - 1 \in 0..n
      OBVIOUS
    <3> QED
      BY <1>1, <1>3, <1>4, <1>6, <3>1
  <2>2. G[i] = Advanced(sch[i], acc)
    BY <1>3, <2>1
  <2>3. Len(acc) > Len(placed) \/ (acc = placed /\ \A k \in 1..(i - 1) : Held(k))
    BY <1>4, <1>6, <2>1
  <2>4. CASE sch[i] \notin ToSet(acc) /\ Parents(sch[i]) \subseteq ToSet(Names(acc))
    <3>1. G[i] = Append(acc, sch[i])
      BY <2>2, <2>4 DEF Advanced
    <3>2. Follows(G[i])
      BY <1>2, <2>1, <2>4, <3>1, FollowsAppend
    <3>3. Len(G[i]) = Len(acc) + 1 /\ Len(acc) \in Nat /\ Len(placed) \in Nat
      BY <1>2, <3>1
    <3>4. Len(G[i]) > Len(placed)
      BY <2>3, <3>3
    <3>5. ~\A k \in 1..n : Held(k)
      <4>1. (\A k \in 1..n : Held(k)) => acc = placed
        BY <1>4, <1>6, <2>1
      <4> QED
        BY <2>4, <4>1
    <3> HIDE DEF Held
    <3> QED
      BY <1>4, <3>2, <3>4, <3>5
  <2>5. CASE ~(sch[i] \notin ToSet(acc) /\ Parents(sch[i]) \subseteq ToSet(Names(acc)))
    <3>1. G[i] = acc
      BY <2>2, <2>5 DEF Advanced
    <3>1a. (\A k \in 1..n : Held(k)) => acc = placed
      BY <1>4, <1>6, <2>1
    <3>2. CASE Len(acc) > Len(placed)
      <4> HIDE DEF Held
      <4> QED
        BY <1>4, <2>1, <3>1, <3>1a, <3>2
    <3>3. CASE acc = placed /\ \A k \in 1..(i - 1) : Held(k)
      <4>1. Held(i)
        BY <2>5, <3>3
      <4>2. \A k \in 1..i : k \in 1..(i - 1) \/ k = i
        OBVIOUS
      <4>3. \A k \in 1..i : Held(k)
        BY <3>3, <4>1, <4>2
      <4> HIDE DEF Held
      <4> QED
        BY <1>4, <2>1, <3>1, <3>1a, <3>3, <4>3
    <3> QED
      BY <2>3, <3>2, <3>3
  <2> QED
    BY <2>4, <2>5
<1>7. n \in P
  <2>1. 0..n \subseteq P
    <3> HIDE DEF Come
    <3> QED
      BY <1>5, <1>6, UpTo
  <2> QED
    BY <2>1
<1>8. Come(n) /\ Stuck(sch, placed) = \A k \in 1..n : Held(k)
  <2>1. Come(n)
    <3> HIDE DEF Come
    <3> QED
      BY <1>4, <1>7
  <2> QED
    BY <1>2, <2>1 DEF Stuck
<1>9. n \in 0..n
  OBVIOUS
<1> HIDE DEF Held
<1> QED
  BY <1>1, <1>3, <1>8, <1>9

\* Each pass places a table, until none is left to be placed.
LEMMA PassComes ==
    ASSUME NEW S, NEW sch, sch \in Seq(S), NEW p, p \in Seq(S), Follows(p), NEW i \in Nat,
           Len(p) >= i - 1 \/ Stuck(sch, p)
    PROVE  Follows(Pass(sch, p)) /\ (Len(Pass(sch, p)) >= i \/ Stuck(sch, Pass(sch, p)))
PROOF
<1>1. PICK o : o = Pass(sch, p)
  OBVIOUS
<1>2. /\ o \in Seq(S) /\ Follows(o)
      /\ Len(o) > Len(p) \/ Stuck(sch, p)
      /\ Stuck(sch, p) => o = p
  BY <1>1, PassFollows
<1>3. Len(o) \in Nat /\ Len(p) \in Nat
  BY <1>2
<1>4. Len(o) >= i \/ Stuck(sch, o)
  BY <1>2, <1>3
<1> QED
  BY <1>1, <1>2, <1>4

\* The tables W wait for one another, or for one that is not there.
Waiting(sch, W) == \A t \in W : ~(Parents(t) \subseteq {u.name : u \in ToSet(sch) \ W})

\* The other tables come after their parents.
InOrder(o, W) ==
    \A i \in 1..Len(o) : o[i] \in W \/ Parents(o[i]) \subseteq {o[j].name : j \in 1..(i - 1)}

\* The order has every table, and each after its parents, but for tables that
\* wait for one another (tables_in_dependency_order, schema.rs:406-428).
LEMMA OrderFollows ==
    ASSUME NEW sch, sch \in Seq(ToSet(sch)), NEW o, o = DependencyOrder(sch)
    PROVE  /\ ToSet(o) = ToSet(sch)
           /\ \E W \in SUBSET ToSet(sch) : Waiting(sch, W) /\ InOrder(o, W)
PROOF
<1>1. PICK S : S = ToSet(sch)
  OBVIOUS
<1>2. sch \in Seq(S)
  BY <1>1
<1>3. PICK n \in Nat : n = Len(sch) /\ DOMAIN sch = 1..n
  BY <1>2
<1>4. PICK G : /\ G[0] = <<>>
               /\ \A i \in 0..n : G[i] \in Seq(S)
               /\ \A i \in 1..n : G[i] = Pass(sch, G[i - 1])
               /\ DependencyOrder(sch) = G[n] \o Filtered(sch, {i \in DOMAIN sch : sch[i] \notin ToSet(G[n])})
  <2>1. \E G : /\ G[0] = <<>>
               /\ \A i \in 0..Len(sch) : G[i] \in Seq(S)
               /\ \A i \in 1..Len(sch) : G[i] = Pass(sch, G[i - 1])
               /\ DependencyOrder(sch) = G[Len(sch)] \o
                    Filtered(sch, {i \in DOMAIN sch : sch[i] \notin ToSet(G[Len(sch)])})
    BY <1>2, OrderRuns
  <2> QED
    BY <1>3, <2>1, Zenon
<1> DEFINE Come(i) == Follows(G[i]) /\ (Len(G[i]) >= i \/ Stuck(sch, G[i]))
<1>5. n \in {i \in 0..n : Come(i)}
  <2>1. PICK P : P = {i \in 0..n : Come(i)}
    OBVIOUS
  <2>2. 0 \in P
    <3>1. Follows(G[0]) /\ Len(G[0]) >= 0
      BY <1>4 DEF Follows
    <3> QED
      BY <2>1, <3>1
  <2>3. ASSUME NEW i \in 1..n, i - 1 \in P PROVE i \in P
    <3>1. i - 1 \in 0..n
      OBVIOUS
    <3>2. PICK p : p = G[i - 1] /\ p \in Seq(S) /\ Follows(p) /\ (Len(p) >= i - 1 \/ Stuck(sch, p))
      BY <1>4, <2>1, <2>3, <3>1
    <3>3. G[i] = Pass(sch, p)
      BY <1>4, <3>2
    <3>4. Follows(Pass(sch, p)) /\ (Len(Pass(sch, p)) >= i \/ Stuck(sch, Pass(sch, p)))
      BY <1>2, <3>2, PassComes
    <3> QED
      BY <2>1, <3>3, <3>4
  <2>4. 0..n \subseteq P
    <3> HIDE DEF Come
    <3> QED
      BY <2>2, <2>3, UpTo
  <2> HIDE DEF Come
  <2> QED
    BY <2>1, <2>4
<1>6. PICK placed : placed = G[n] /\ placed \in Seq(S) /\ Follows(placed) /\ (Len(placed) >= n \/ Stuck(sch, placed))
  BY <1>4, <1>5
<1>7. PICK W : W = S \ ToSet(placed)
  OBVIOUS
<1>8. PICK rest : /\ rest = Filtered(sch, {i \in DOMAIN sch : sch[i] \notin ToSet(placed)})
                  /\ rest \in Seq(S) /\ ToSet(rest) = W
  <2>1. PICK keep : keep = {i \in DOMAIN sch : sch[i] \notin ToSet(placed)}
    OBVIOUS
  <2>2. Filtered(sch, keep) \in Seq(S) /\ ToSet(Filtered(sch, keep)) = {sch[i] : i \in keep \cap DOMAIN sch}
    BY <1>2, FilteredElements
  <2>3. {sch[i] : i \in keep \cap DOMAIN sch} = W
    BY <1>1, <1>7, <2>1 DEF ToSet
  <2> QED
    BY <2>1, <2>2, <2>3
<1>9. o = placed \o rest
  BY <1>4, <1>6, <1>8
<1>10. ToSet(placed) \subseteq S
  BY <1>6 DEF ToSet
<1>11. ToSet(o) = S
  <2>1. ToSet(o) = ToSet(placed) \cup ToSet(rest)
    BY <1>6, <1>8, <1>9, ConcatElements
  <2> QED
    BY <1>7, <1>8, <1>10, <2>1
<1>12. \A t \in W : ~(Parents(t) \subseteq {u.name : u \in S \ W})
  <2>1. CASE Len(placed) >= n
    <3>1. ToSet(placed) = S
      BY <1>1, <1>2, <1>3, <1>6, <2>1, AllOfThem DEF Follows
    <3> QED
      BY <1>7, <3>1
  <2>2. CASE Stuck(sch, placed)
    <3>1. ToSet(Names(placed)) = {u.name : u \in S \ W}
      BY <1>7, <1>10, NamesOfColumns
    <3>2. ASSUME NEW t \in W PROVE ~(Parents(t) \subseteq ToSet(Names(placed)))
      <4>1. PICK k \in 1..n : t = sch[k]
        BY <1>1, <1>3, <1>7 DEF ToSet
      <4> QED
        BY <1>3, <1>7, <2>2, <4>1 DEF Stuck
    <3> QED
      BY <3>1, <3>2
  <2> QED
    BY <1>6, <2>1, <2>2
<1>13. ASSUME NEW i \in 1..Len(o)
       PROVE  o[i] \in W \/ Parents(o[i]) \subseteq {o[j].name : j \in 1..(i - 1)}
  <2>0. Len(placed) \in Nat /\ Len(rest) \in Nat /\ DOMAIN placed = 1..Len(placed) /\ DOMAIN rest = 1..Len(rest)
    BY <1>6, <1>8
  <2>1. PICK p \in Nat, q \in Nat : /\ p = Len(placed) /\ DOMAIN placed = 1..p
                                    /\ q = Len(rest) /\ DOMAIN rest = 1..q
    BY <2>0, Zenon
  <2>2. /\ Len(o) = p + q /\ \A k \in 1..p : o[k] = placed[k]
        /\ \A k \in (p + 1)..(p + q) : o[k] = rest[k - p]
    BY <1>6, <1>8, <1>9, <2>1
  <2>3. CASE i \in 1..p
    <3>1. Parents(placed[i]) \subseteq {placed[j].name : j \in 1..(i - 1)}
      BY <1>6, <2>1, <2>3 DEF Follows
    <3>2. \A j \in 1..(i - 1) : o[j] = placed[j]
      BY <2>2, <2>3
    <3> QED
      BY <2>2, <2>3, <3>1, <3>2
  <2>4. CASE i \in (p + 1)..(p + q)
    <3>1. i - p \in 1..q
      BY <2>4
    <3>2. o[i] \in ToSet(rest)
      BY <2>1, <2>2, <2>4, <3>1 DEF ToSet
    <3> QED
      BY <1>8, <3>2
  <2>5. i \in 1..p \/ i \in (p + 1)..(p + q)
    BY <2>2
  <2> QED
    BY <2>3, <2>4, <2>5
<1>14. W \in SUBSET S
  BY <1>7
<1> QED
  <2>1. Waiting(sch, W) /\ InOrder(o, W)
    BY <1>1, <1>12, <1>13 DEF Waiting, InOrder
  <2>2. W \in SUBSET ToSet(sch) /\ ToSet(o) = ToSet(sch)
    BY <1>1, <1>11, <1>14
  <2> QED
    BY <2>1, <2>2

\* The order of the tables has each of them once.
LEMMA OrderOnce ==
    ASSUME NEW S, NEW sch, sch \in Seq(S), \A i, j \in 1..Len(sch) : sch[i] = sch[j] => i = j
    PROVE  \A i, j \in 1..Len(DependencyOrder(sch)) :
             DependencyOrder(sch)[i] = DependencyOrder(sch)[j] => i = j
PROOF
<1>0. PICK o : o = DependencyOrder(sch)
  OBVIOUS
<1>1. PICK n \in Nat : n = Len(sch) /\ DOMAIN sch = 1..n
  OBVIOUS
<1>2. PICK G : /\ G[0] = <<>>
               /\ \A i \in 0..n : G[i] \in Seq(S)
               /\ \A i \in 1..n : G[i] = Pass(sch, G[i - 1])
               /\ o = G[n] \o Filtered(sch, {i \in DOMAIN sch : sch[i] \notin ToSet(G[n])})
  <2>1. \E G : /\ G[0] = <<>>
               /\ \A i \in 0..Len(sch) : G[i] \in Seq(S)
               /\ \A i \in 1..Len(sch) : G[i] = Pass(sch, G[i - 1])
               /\ DependencyOrder(sch) = G[Len(sch)] \o
                    Filtered(sch, {i \in DOMAIN sch : sch[i] \notin ToSet(G[Len(sch)])})
    <3>1. sch \in Seq(S)
      OBVIOUS
    <3> QED
      BY ONLY <3>1, OrderRuns
  <2> QED
    BY <1>0, <1>1, <2>1, Zenon
<1>3. 0..n \subseteq {i \in Nat : Follows(G[i])}
  <2>1. PICK P : P = {i \in Nat : Follows(G[i])}
    OBVIOUS
  <2>2. 0 \in P
    BY <1>2, <2>1 DEF Follows
  <2>3. ASSUME NEW i \in 1..n, i - 1 \in P PROVE i \in P
    <3>1. PICK p \in Seq(S) : p = G[i - 1] /\ Follows(p)
      BY <1>2, <2>1, <2>3
    <3>2. Follows(Pass(sch, p))
      BY <3>1, PassFollows
    <3> QED
      BY <1>2, <2>1, <2>3, <3>1, <3>2
  <2> QED
    BY <2>1, <2>2, <2>3, UpTo
<1>4. PICK placed : placed = G[n] /\ placed \in Seq(S) /\ Follows(placed)
  <2>1. n \in 0..n
    OBVIOUS
  <2> QED
    BY <1>2, <1>3, <2>1
<1>5. PICK keep : keep = {i \in DOMAIN sch : sch[i] \notin ToSet(placed)}
  OBVIOUS
<1>6. PICK rest : /\ rest = Filtered(sch, keep) /\ rest \in Seq(S)
                  /\ ToSet(rest) = {sch[i] : i \in keep \cap DOMAIN sch}
  BY FilteredElements
<1>7. \A i, j \in DOMAIN rest : rest[i] = rest[j] => i = j
  BY <1>6, FilteredOnce
<1>8. o = placed \o rest
  BY <1>2, <1>4, <1>5, <1>6
<1>9. \A x \in ToSet(rest) : x \notin ToSet(placed)
  BY <1>5, <1>6
<1>10. PICK p \in Nat, q \in Nat : /\ p = Len(placed) /\ DOMAIN placed = 1..p
                                   /\ q = Len(rest) /\ DOMAIN rest = 1..q
  <2>1. Len(placed) \in Nat /\ Len(rest) \in Nat /\ DOMAIN placed = 1..Len(placed) /\ DOMAIN rest = 1..Len(rest)
    BY <1>4, <1>6
  <2> QED
    BY <2>1, Zenon
<1>11. /\ Len(o) = p + q /\ \A k \in 1..p : o[k] = placed[k]
       /\ \A k \in (p + 1)..(p + q) : o[k] = rest[k - p]
  BY <1>4, <1>6, <1>8, <1>10
<1>12. \A i \in 1..p, j \in (p + 1)..(p + q) : o[i] # o[j]
  <2> TAKE i \in 1..p, j \in (p + 1)..(p + q)
  <2>1. j - p \in 1..q
    OBVIOUS
  <2>2. placed[i] \in ToSet(placed) /\ rest[j - p] \in ToSet(rest)
    BY <1>10, <2>1 DEF ToSet
  <2> QED
    BY <1>9, <1>11, <2>2
<1>13. \A i, j \in (p + 1)..(p + q) : o[i] = o[j] => i = j
  <2> TAKE i \in (p + 1)..(p + q), j \in (p + 1)..(p + q)
  <2>1. i - p \in 1..q /\ j - p \in 1..q
    OBVIOUS
  <2>2. o[i] = rest[i - p] /\ o[j] = rest[j - p]
    BY <1>11
  <2>3. o[i] = o[j] => i - p = j - p
    BY <1>7, <1>10, <2>1, <2>2
  <2> QED
    BY <2>3
<1>14. \A i, j \in 1..p : o[i] = o[j] => i = j
  <2>1. \A i, j \in 1..p : placed[i] = placed[j] => i = j
    BY <1>4, <1>10 DEF Follows
  <2> QED
    BY <1>11, <2>1
<1>15. \A i \in 1..Len(o) : i \in 1..p \/ i \in (p + 1)..(p + q)
  BY <1>11
<1>16. \A i, j \in 1..Len(o) : o[i] = o[j] => i = j
  BY <1>12, <1>13, <1>14, <1>15
<1> QED
  BY <1>0, <1>16

-----------------------------------------------------------------------------
(* The dialects' DDL and validate. *)

\* What the catalogue reports of a column's type is not changed by the
\* comparison, and MySQL's key members are reported as the text they are
\* (my_normalize_type, db.rs:316-322).
LEMMA TypesCompare ==
    ASSUME NEW d \in Dialects, NEW ty \in {"int", "float", "text", "bool"}
    PROVE  /\ Normalized(d, TypeSql(d, ty)) = TypeSql(d, ty)
           /\ TypeSql("mysql", "text") = "TEXT"
PROOF
<1>1. TypeSql("mysql", ty) =
        [int |-> "BIGINT", float |-> "DOUBLE", text |-> "TEXT", bool |-> "TINYINT(1)"][ty]
  BY Zenon DEF TypeSql
<1>2. TypeSql("mysql", "text") =
        [int |-> "BIGINT", float |-> "DOUBLE", text |-> "TEXT", bool |-> "TINYINT(1)"]["text"]
  BY Zenon DEF TypeSql
<1>3. TypeSql("mysql", "text") = "TEXT"
  BY <1>2
<1>4. TypeSql("mysql", ty) # "VARCHAR(255)"
  BY <1>1
<1>5. Normalized(d, TypeSql(d, ty)) = TypeSql(d, ty)
  BY <1>4 DEF Normalized
<1> QED
  BY <1>3, <1>5

\* A column of a created table has the type the schema says it has.
LEMMA ColumnsCompare ==
    ASSUME NEW d \in Dialects, NEW t, NEW c, c.type \in {"int", "float", "text", "bool"}
    PROVE  Normalized(d, ColumnSql(d, t, c)) = TypeSql(d, c.type)
PROOF
<1>1. CASE ColumnSql(d, t, c) = TypeSql(d, c.type)
  BY <1>1, TypesCompare
<1>2. CASE ColumnSql(d, t, c) # TypeSql(d, c.type)
  <2>1. d = "mysql" /\ c.type = "text" /\ ColumnSql(d, t, c) = "VARCHAR(255)"
    BY <1>2 DEF ColumnSql
  <2>2. Normalized(d, ColumnSql(d, t, c)) = "TEXT"
    BY <2>1 DEF Normalized
  <2> QED
    BY <2>1, <2>2, TypesCompare
<1> QED
  BY <1>1, <1>2

\* What validate finds wrong with a table, kind by kind.
Problem(d, t, s, p) ==
    \/ \E c \in ToSet(t.columns) : p = <<"missing", c.name>> /\ Named(s.cols, c.name) = {}
    \/ \E n \in Columns(s) \ ToSet(Names(t.columns)) : p = <<"extra", n>>
    \/ \E c \in ToSet(t.columns) : p = <<"type", c.name>> /\
         \E e \in Named(s.cols, c.name) : Normalized(d, e.type) # TypeSql(d, c.type)
    \/ \E c \in ToSet(t.columns) : p = <<"key", c.name>> /\
         \E e \in Named(s.cols, c.name) : e.pk # KeyPosition(t, c)
    \/ \E c \in ToSet(t.columns) : p = <<"null", c.name>> /\
         \E e \in Named(s.cols, c.name) : ~c.pk /\ e.notnull = c.nullable
    \/ \E fk \in ToSet(ForeignKeys(t)) : p = <<"fk", fk.from>> /\
         ~\E o \in ToSet(s.fks) : KeyMatches(fk, o)
    \/ \E fk \in ToSet(s.fks) : p = <<"extra fk", fk.from>> /\
         ~\E o \in ToSet(ForeignKeys(t)) : KeyMatches(o, fk)

\* Problem says what ProblemsOf collects.
LEMMA ProblemsAre ==
    ASSUME NEW d, NEW t, NEW s, NEW p
    PROVE  p \in ProblemsOf(d, t, s) <=> Problem(d, t, s, p)
PROOF
<1> QED
  BY Zenon DEF ProblemsOf, Problem

\* A column is known by its name.
LEMMA OneColumnOfAName ==
    ASSUME NEW cols, IsInjective(Names(cols)), NEW c \in ToSet(cols), NEW e \in ToSet(cols),
           c.name = e.name
    PROVE  c = e
PROOF
<1>1. PICK i \in DOMAIN cols : c = cols[i]
  BY DEF ToSet
<1>2. PICK j \in DOMAIN cols : e = cols[j]
  BY DEF ToSet
<1>3. i = j
  BY <1>1, <1>2 DEF IsInjective, Names
<1> QED
  BY <1>1, <1>2, <1>3

\* The columns a table is created with are its columns, each as the
\* catalogue will report it.
LEMMA CreatedColumns ==
    ASSUME NEW d, NEW t, t.columns \in Seq(ToSet(t.columns))
    PROVE  /\ CreateTable(d, t).cols \in Seq(ToSet(CreateTable(d, t).cols))
           /\ CreateTable(d, t).fks = ForeignKeys(t)
           /\ ToSet(CreateTable(d, t).cols) =
                {[name |-> c.name, type |-> ColumnSql(d, t, c),
                  notnull |-> NotNullSql(t, c), pk |-> KeyPosition(t, c)] : c \in ToSet(t.columns)}
           /\ Columns(CreateTable(d, t)) = ToSet(Names(t.columns))
PROOF
<1> DEFINE Reported(c) == [name |-> c.name, type |-> ColumnSql(d, t, c),
                           notnull |-> NotNullSql(t, c), pk |-> KeyPosition(t, c)]
<1>1. PICK cols : cols = CreateTable(d, t).cols
  OBVIOUS
<1>2. cols = [i \in DOMAIN t.columns |-> Reported(t.columns[i])]
  BY <1>1 DEF CreateTable
<1>3. \A c : Reported(c).name = c.name
  OBVIOUS
<1>4. CreateTable(d, t).fks = ForeignKeys(t)
  BY DEF CreateTable
<1> HIDE DEF Reported
<1>5. ToSet(cols) = {Reported(c) : c \in ToSet(t.columns)}
  BY <1>2 DEF ToSet
<1>6. cols \in Seq(ToSet(cols))
  <2>1. PICK n \in Nat : DOMAIN t.columns = 1..n
    OBVIOUS
  <2>2. DOMAIN cols = 1..n /\ cols = [i \in 1..n |-> Reported(t.columns[i])]
    BY <1>2, <2>1
  <2>3. \A i \in 1..n : cols[i] \in ToSet(cols)
    BY <2>2 DEF ToSet
  <2>4. PICK S : S = ToSet(cols)
    OBVIOUS
  <2>5. cols \in [1..n -> S]
    BY <2>2, <2>3, <2>4
  <2> QED
    BY <2>4, <2>5
<1>7. Columns(CreateTable(d, t)) = ToSet(Names(t.columns))
  <2>1. {c.name : c \in ToSet(cols)} = {c.name : c \in ToSet(t.columns)}
    BY <1>3, <1>5
  <2> QED
    BY <1>1, <2>1, NamesOfColumns DEF Columns
<1> QED
  BY <1>1, <1>4, <1>5, <1>6, <1>7 DEF Reported

\* A table that has just been created is in sync: validate and create_table
\* agree on every dialect (check_table, check_fk_lists, db.rs:920-1007).
LEMMA CreatedInSync ==
    ASSUME NEW d \in Dialects, NEW t, Declared(t)
    PROVE  ProblemsOf(d, t, CreateTable(d, t)) = {}
PROOF
<1>1. PICK s : s = CreateTable(d, t)
  OBVIOUS
<1>2. ToSet(s.cols) = {[name |-> c.name, type |-> ColumnSql(d, t, c),
                        notnull |-> NotNullSql(t, c), pk |-> KeyPosition(t, c)] : c \in ToSet(t.columns)}
  BY <1>1, CreatedColumns DEF Declared
<1>3. s.fks = ForeignKeys(t) /\ Columns(s) = ToSet(Names(t.columns))
  BY <1>1, CreatedColumns DEF Declared
<1>4. \A c \in ToSet(t.columns) : Named(s.cols, c.name) # {}
  <2> TAKE c \in ToSet(t.columns)
  <2>1. PICK e : e = [name |-> c.name, type |-> ColumnSql(d, t, c),
                      notnull |-> NotNullSql(t, c), pk |-> KeyPosition(t, c)]
    OBVIOUS
  <2>2. e \in ToSet(s.cols) /\ e.name = c.name
    BY <1>2, <2>1
  <2> QED
    BY <2>2 DEF Named
<1>5. ASSUME NEW c \in ToSet(t.columns), NEW e \in Named(s.cols, c.name)
      PROVE  /\ e.type = ColumnSql(d, t, c)
             /\ e.notnull = NotNullSql(t, c)
             /\ e.pk = KeyPosition(t, c)
  <2>1. e \in ToSet(s.cols) /\ e.name = c.name
    BY DEF Named
  <2>2. PICK f \in ToSet(t.columns) :
          e = [name |-> f.name, type |-> ColumnSql(d, t, f),
               notnull |-> NotNullSql(t, f), pk |-> KeyPosition(t, f)]
    BY <1>2, <2>1
  <2>3. f = c
    BY <2>1, <2>2, OneColumnOfAName DEF Declared
  <2> QED
    BY <2>2, <2>3
<1>6. ASSUME NEW c \in ToSet(t.columns), NEW e \in Named(s.cols, c.name)
      PROVE  /\ Normalized(d, e.type) = TypeSql(d, c.type)
             /\ ~(~c.pk /\ e.notnull = c.nullable)
  <2>1. c.type \in {"int", "float", "text", "bool"} /\ c.nullable \in BOOLEAN /\ c.pk \in BOOLEAN
    BY DEF Declared
  <2>2. Normalized(d, e.type) = TypeSql(d, c.type)
    BY <1>5, <2>1, ColumnsCompare
  <2>3. ~c.pk => e.notnull = ~c.nullable
    BY <1>5 DEF NotNullSql
  <2> QED
    BY <2>1, <2>2, <2>3
<1>7. \A fk \in ToSet(ForeignKeys(t)) : KeyMatches(fk, fk)
  BY DEF KeyMatches
<1>8. ASSUME NEW p \in ProblemsOf(d, t, s) PROVE FALSE
  <2>1. CASE \E c \in ToSet(t.columns) : p = <<"missing", c.name>> /\ Named(s.cols, c.name) = {}
    BY <2>1, <1>4
  <2>2. CASE \E n \in Columns(s) \ ToSet(Names(t.columns)) : p = <<"extra", n>>
    BY <2>2, <1>3
  <2>3. CASE \E c \in ToSet(t.columns) : p = <<"type", c.name>> /\
               \E e \in Named(s.cols, c.name) : Normalized(d, e.type) # TypeSql(d, c.type)
    BY <2>3, <1>6
  <2>4. CASE \E c \in ToSet(t.columns) : p = <<"key", c.name>> /\
               \E e \in Named(s.cols, c.name) : e.pk # KeyPosition(t, c)
    BY <2>4, <1>5
  <2>5. CASE \E c \in ToSet(t.columns) : p = <<"null", c.name>> /\
               \E e \in Named(s.cols, c.name) : ~c.pk /\ e.notnull = c.nullable
    BY <2>5, <1>6
  <2>6. CASE \E fk \in ToSet(ForeignKeys(t)) : p = <<"fk", fk.from>> /\
               ~\E o \in ToSet(s.fks) : KeyMatches(fk, o)
    BY <2>6, <1>3, <1>7
  <2>7. CASE \E fk \in ToSet(s.fks) : p = <<"extra fk", fk.from>> /\
               ~\E o \in ToSet(ForeignKeys(t)) : KeyMatches(o, fk)
    BY <2>7, <1>3, <1>7
  <2>8. Problem(d, t, s, p)
    BY ProblemsAre
  <2> QED
    BY <2>1, <2>2, <2>3, <2>4, <2>5, <2>6, <2>7, <2>8, Zenon DEF Problem
<1> QED
  BY <1>1, <1>8

\* Who is not in the primary key has no position in it.
LEMMA NoKeyPosition ==
    ASSUME NEW t, Declared(t), NEW c \in ToSet(t.columns), ~c.pk
    PROVE  KeyPosition(t, c) = 0
PROOF
<1>1. PICK keep : keep = {i \in DOMAIN t.columns : t.columns[i].pk}
  OBVIOUS
<1>2. ToSet(PrimaryKey(t)) = {t.columns[i] : i \in keep \cap DOMAIN t.columns}
  BY <1>1, FilteredElements DEF Declared, PrimaryKey
<1>3. \A e \in ToSet(PrimaryKey(t)) : e \in ToSet(t.columns) /\ e.pk
  BY <1>1, <1>2 DEF ToSet
<1>4. c.name \notin ToSet(Names(PrimaryKey(t)))
  <2>1. SUFFICES ASSUME c.name \in ToSet(Names(PrimaryKey(t))) PROVE FALSE
    OBVIOUS
  <2>2. PICK e \in ToSet(PrimaryKey(t)) : e.name = c.name
    BY <2>1, NamesOfColumns
  <2>3. e = c
    BY <1>3, <2>2, OneColumnOfAName DEF Declared
  <2> QED
    BY <1>3, <2>2, <2>3
<1> QED
  BY <1>4 DEF KeyPosition

\* A column's own reference is one of the foreign keys of its table.
LEMMA OwnReference ==
    ASSUME NEW t, Declared(t), NEW c \in ToSet(t.columns), c.ref # <<>>
    PROVE  [from |-> <<c.name>>, table |-> c.ref[1], to |-> <<c.ref[2]>>] \in ToSet(ForeignKeys(t))
PROOF
<1> DEFINE Key(e) == [from |-> <<e.name>>, table |-> e.ref[1], to |-> <<e.ref[2]>>]
<1>1. PICK keep : keep = {i \in DOMAIN t.columns : t.columns[i].ref # <<>>}
  OBVIOUS
<1>2. PICK S : S = ToSet(t.columns)
  OBVIOUS
<1>3. PICK refs \in Seq(S) : refs = Filtered(t.columns, keep)
  BY <1>2, FilteredElements DEF Declared
<1>4. c \in ToSet(refs)
  <2>1. ToSet(refs) = {t.columns[i] : i \in keep \cap DOMAIN t.columns}
    BY <1>3, FilteredElements DEF Declared
  <2>2. PICK i \in DOMAIN t.columns : c = t.columns[i]
    BY DEF ToSet
  <2> QED
    BY <1>1, <2>1, <2>2
<1>5. PICK own : own = [i \in DOMAIN refs |-> Key(refs[i])]
  OBVIOUS
<1>6. ForeignKeys(t) = own \o t.keys
  BY <1>1, <1>3, <1>5 DEF ForeignKeys
<1> HIDE DEF Key
<1>7. ToSet(own) = {Key(e) : e \in ToSet(refs)}
  BY <1>5 DEF ToSet
<1>8. own \in Seq(ToSet(own))
  <2>1. PICK n \in Nat : DOMAIN refs = 1..n
    BY <1>3
  <2>2. PICK K : K = ToSet(own)
    OBVIOUS
  <2>3. DOMAIN own = 1..n /\ own = [i \in 1..n |-> Key(refs[i])]
    BY <1>5, <2>1
  <2>4. \A i \in 1..n : own[i] \in K
    BY <2>2, <2>3 DEF ToSet
  <2>5. own \in [1..n -> K]
    BY <2>3, <2>4
  <2> QED
    BY <2>2, <2>5
<1>9. ToSet(ForeignKeys(t)) = ToSet(own) \cup ToSet(t.keys)
  BY <1>6, <1>8, ConcatElements DEF Declared
<1>10. Key(c) \in ToSet(ForeignKeys(t))
  BY <1>4, <1>7, <1>9
<1> QED
  BY <1>10 DEF Key

\* The shape of a table as the catalogue has it.
Shaped(shape) ==
    shape.cols \in Seq(ToSet(shape.cols)) /\ shape.fks \in Seq(ToSet(shape.fks))

\* What CREATE TABLE makes is a shape.
LEMMA CreatedShaped ==
    ASSUME NEW d, NEW t, Declared(t)
    PROVE  Shaped(CreateTable(d, t))
PROOF
<1>1. CreateTable(d, t).cols \in Seq(ToSet(CreateTable(d, t).cols)) /\ CreateTable(d, t).fks = ForeignKeys(t)
  BY CreatedColumns DEF Declared
<1>2. PICK keep : keep = {i \in DOMAIN t.columns : t.columns[i].ref # <<>>}
  OBVIOUS
<1>3. PICK S : S = ToSet(t.columns)
  OBVIOUS
<1>4. PICK refs \in Seq(S) : refs = Filtered(t.columns, keep)
  BY <1>3, FilteredElements DEF Declared
<1>5. PICK own : own = [i \in DOMAIN refs |-> [from |-> <<refs[i].name>>, table |-> refs[i].ref[1],
                                              to |-> <<refs[i].ref[2]>>]]
  OBVIOUS
<1>6. ForeignKeys(t) = own \o t.keys
  BY <1>2, <1>4, <1>5 DEF ForeignKeys
<1>7. PICK n \in Nat : DOMAIN own = 1..n
  BY <1>4, <1>5
<1>8. PICK K : K = ToSet(own) \cup ToSet(t.keys)
  OBVIOUS
<1>9. own \in Seq(K)
  <2>1. own \in [1..n -> K]
    BY <1>5, <1>7, <1>8 DEF ToSet
  <2> QED
    BY <2>1
<1>10. t.keys \in Seq(K)
  BY <1>8 DEF Declared
<1>11. ForeignKeys(t) \in Seq(K)
  BY <1>6, <1>9, <1>10
<1>12. ForeignKeys(t) \in Seq(ToSet(ForeignKeys(t)))
  BY <1>11, OfItsElements
<1> QED
  BY <1>1, <1>12 DEF Shaped

\* A column that is added is one more column, and its reference one more key.
LEMMA AddedColumn ==
    ASSUME NEW d, NEW s, Shaped(s), NEW c
    PROVE  LET new == [name |-> c.name, type |-> TypeSql(d, c.type), notnull |-> ~c.nullable, pk |-> 0]
               key == [from |-> <<c.name>>, table |-> c.ref[1], to |-> <<c.ref[2]>>]
           IN /\ Shaped(AddColumn(d, s, c))
              /\ ToSet(AddColumn(d, s, c).cols) = ToSet(s.cols) \cup {new}
              /\ ToSet(AddColumn(d, s, c).fks) = ToSet(s.fks) \cup (IF c.ref = <<>> THEN {} ELSE {key})
              /\ Columns(AddColumn(d, s, c)) = Columns(s) \cup {c.name}
PROOF
<1>1. PICK new : new = [name |-> c.name, type |-> TypeSql(d, c.type), notnull |-> ~c.nullable, pk |-> 0]
  OBVIOUS
<1>2. PICK key : key = [from |-> <<c.name>>, table |-> c.ref[1], to |-> <<c.ref[2]>>]
  OBVIOUS
<1>3. PICK a : a = AddColumn(d, s, c)
  OBVIOUS
<1>4. PICK cols, fks : cols = s.cols /\ fks = s.fks
  OBVIOUS
<1>5. PICK more : more = IF c.ref = <<>> THEN <<>> ELSE <<key>>
  OBVIOUS
<1>6. a.cols = Append(cols, new) /\ a.fks = fks \o more
  BY <1>1, <1>2, <1>3, <1>4, <1>5 DEF AddColumn
<1>7. PICK S, T : S = ToSet(cols) \cup {new} /\ T = ToSet(fks) \cup {key}
  OBVIOUS
<1>8. cols \in Seq(S) /\ fks \in Seq(T)
  BY <1>4, <1>7 DEF Shaped
<1>9. more \in Seq(T) /\ ToSet(more) = IF c.ref = <<>> THEN {} ELSE {key}
  <2>1. CASE c.ref = <<>>
    BY <1>5, <2>1 DEF ToSet
  <2>2. CASE c.ref # <<>>
    BY <1>5, <1>7, <2>2 DEF ToSet
  <2> QED
    BY <2>1, <2>2
<1>10. a.cols \in Seq(S) /\ ToSet(a.cols) = ToSet(cols) \cup {new}
  <2>1. <<new>> \in Seq(S) /\ ToSet(<<new>>) = {new}
    BY <1>7 DEF ToSet
  <2>2. Append(cols, new) = cols \o <<new>>
    BY <1>8
  <2>3. ToSet(cols \o <<new>>) = ToSet(cols) \cup {new}
    BY <1>8, <2>1, ConcatElements
  <2>4. cols \o <<new>> \in Seq(S)
    BY <1>8, <2>1
  <2> QED
    BY <1>6, <2>2, <2>3, <2>4
<1>11. a.fks \in Seq(T) /\ ToSet(a.fks) = ToSet(fks) \cup ToSet(more)
  BY <1>6, <1>8, <1>9, ConcatElements
<1>12. Shaped(a)
  BY <1>10, <1>11, OfItsElements DEF Shaped
<1>13. Columns(a) = Columns(s) \cup {c.name}
  <2>1. new.name = c.name
    BY <1>1
  <2> QED
    BY <1>4, <1>10, <2>1, NamesOfColumns DEF Columns
<1> QED
  BY <1>1, <1>2, <1>3, <1>4, <1>9, <1>10, <1>11, <1>12, <1>13

\* Adding a column the schema has and the table lacks makes nothing worse
\* (migrate_inner, db.rs:783-792; check_table, db.rs:920-974).
LEMMA AddedImproves ==
    ASSUME NEW d \in Dialects, NEW t, Declared(t), NEW s, Shaped(s),
           NEW c \in ToSet(t.columns), ~c.pk, c.name \notin Columns(s)
    PROVE  ProblemsOf(d, t, AddColumn(d, s, c)) \subseteq ProblemsOf(d, t, s)
PROOF
<1>1. PICK a : a = AddColumn(d, s, c)
  OBVIOUS
<1>2. PICK new : new = [name |-> c.name, type |-> TypeSql(d, c.type), notnull |-> ~c.nullable, pk |-> 0]
  OBVIOUS
<1>3. PICK key : key = [from |-> <<c.name>>, table |-> c.ref[1], to |-> <<c.ref[2]>>]
  OBVIOUS
<1>4. /\ ToSet(a.cols) = ToSet(s.cols) \cup {new}
      /\ ToSet(a.fks) = ToSet(s.fks) \cup (IF c.ref = <<>> THEN {} ELSE {key})
      /\ Columns(a) = Columns(s) \cup {c.name}
  BY <1>1, <1>2, <1>3, AddedColumn
<1>5. c.name \in ToSet(Names(t.columns))
  BY NamesOfColumns
<1>6. ASSUME NEW e \in ToSet(t.columns), e # c
      PROVE  Named(a.cols, e.name) = Named(s.cols, e.name)
  <2>1. e.name # c.name
    BY <1>6, OneColumnOfAName DEF Declared
  <2>2. new.name = c.name
    BY <1>2
  <2> QED
    BY <1>4, <2>1, <2>2 DEF Named
<1>7. \A e \in Named(a.cols, c.name) : e = new
  <2> TAKE e \in Named(a.cols, c.name)
  <2>1. e \in ToSet(a.cols) /\ e.name = c.name
    BY DEF Named
  <2>2. e \notin ToSet(s.cols)
    BY <2>1, NamesOfColumns DEF Columns
  <2> QED
    BY <1>4, <2>1, <2>2
<1>8. Named(a.cols, c.name) # {}
  <2>1. new \in ToSet(a.cols) /\ new.name = c.name
    BY <1>2, <1>4
  <2> QED
    BY <2>1 DEF Named
<1>9. /\ Normalized(d, new.type) = TypeSql(d, c.type)
      /\ new.pk = KeyPosition(t, c)
      /\ new.notnull # c.nullable
  <2>1. c.type \in {"int", "float", "text", "bool"} /\ c.nullable \in BOOLEAN
    BY DEF Declared
  <2>2. Normalized(d, TypeSql(d, c.type)) = TypeSql(d, c.type)
    BY <2>1, TypesCompare
  <2>3. KeyPosition(t, c) = 0
    BY NoKeyPosition
  <2>4. new.notnull = ~c.nullable /\ new.pk = 0 /\ new.type = TypeSql(d, c.type)
    BY <1>2
  <2> QED
    BY <2>1, <2>2, <2>3, <2>4
<1>10. c.ref # <<>> => key \in ToSet(ForeignKeys(t)) /\ KeyMatches(key, key)
  BY <1>3, OwnReference DEF KeyMatches
<1>11. ASSUME NEW p \in ProblemsOf(d, t, a) PROVE Problem(d, t, s, p)
  <2>1. CASE \E e \in ToSet(t.columns) : p = <<"missing", e.name>> /\ Named(a.cols, e.name) = {}
    <3>1. \E e \in ToSet(t.columns) : p = <<"missing", e.name>> /\ Named(s.cols, e.name) = {}
      BY <2>1, <1>6, <1>8
    <3> QED
      BY <3>1 DEF Problem
  <2>2. CASE \E n \in Columns(a) \ ToSet(Names(t.columns)) : p = <<"extra", n>>
    <3>1. \E n \in Columns(s) \ ToSet(Names(t.columns)) : p = <<"extra", n>>
      BY <2>2, <1>4, <1>5
    <3> QED
      BY <3>1 DEF Problem
  <2>3. CASE \E e \in ToSet(t.columns) : p = <<"type", e.name>> /\
               \E f \in Named(a.cols, e.name) : Normalized(d, f.type) # TypeSql(d, e.type)
    <3>1. \E e \in ToSet(t.columns) : p = <<"type", e.name>> /\
            \E f \in Named(s.cols, e.name) : Normalized(d, f.type) # TypeSql(d, e.type)
      BY <2>3, <1>6, <1>7, <1>9
    <3> QED
      BY <3>1 DEF Problem
  <2>4. CASE \E e \in ToSet(t.columns) : p = <<"key", e.name>> /\
               \E f \in Named(a.cols, e.name) : f.pk # KeyPosition(t, e)
    <3>1. \E e \in ToSet(t.columns) : p = <<"key", e.name>> /\
            \E f \in Named(s.cols, e.name) : f.pk # KeyPosition(t, e)
      BY <2>4, <1>6, <1>7, <1>9
    <3> QED
      BY <3>1 DEF Problem
  <2>5. CASE \E e \in ToSet(t.columns) : p = <<"null", e.name>> /\
               \E f \in Named(a.cols, e.name) : ~e.pk /\ f.notnull = e.nullable
    <3>1. \E e \in ToSet(t.columns) : p = <<"null", e.name>> /\
            \E f \in Named(s.cols, e.name) : ~e.pk /\ f.notnull = e.nullable
      BY <2>5, <1>6, <1>7, <1>9
    <3> QED
      BY <3>1 DEF Problem
  <2>6. CASE \E fk \in ToSet(ForeignKeys(t)) : p = <<"fk", fk.from>> /\
               ~\E o \in ToSet(a.fks) : KeyMatches(fk, o)
    <3>1. \E fk \in ToSet(ForeignKeys(t)) : p = <<"fk", fk.from>> /\
            ~\E o \in ToSet(s.fks) : KeyMatches(fk, o)
      BY <2>6, <1>4
    <3> QED
      BY <3>1 DEF Problem
  <2>7. CASE \E fk \in ToSet(a.fks) : p = <<"extra fk", fk.from>> /\
               ~\E o \in ToSet(ForeignKeys(t)) : KeyMatches(o, fk)
    <3>1. \E fk \in ToSet(s.fks) : p = <<"extra fk", fk.from>> /\
            ~\E o \in ToSet(ForeignKeys(t)) : KeyMatches(o, fk)
      BY <2>7, <1>4, <1>10
    <3> QED
      BY <3>1 DEF Problem
  <2>8. Problem(d, t, a, p)
    BY ProblemsAre
  <2> QED
    BY <2>1, <2>2, <2>3, <2>4, <2>5, <2>6, <2>7, <2>8, Zenon DEF Problem
<1> QED
  BY <1>1, <1>11, ProblemsAre

\* SafeMigration's problems are the ones of the schema.
LEMMA PublicProblems ==
    ASSUME NEW d, NEW t, NEW s
    PROVE  Public!ProblemsOf(d, t, s) = ProblemsOf(d, t, s)
PROOF
<1> QED
  BY DEF Public!ProblemsOf, ProblemsOf, Public!ForeignKeys, ForeignKeys, Public!Filtered, Filtered,
     Public!ToSet, ToSet, Public!Named, Named, Public!Columns, Columns, Public!Names, Names,
     Public!Normalized, Normalized, Public!TypeSql, TypeSql, Public!KeyPosition, KeyPosition,
     Public!PrimaryKey, PrimaryKey, Public!KeyMatches, KeyMatches

-----------------------------------------------------------------------------
(* Finite maps. *)

\* DROP of the old table and RENAME of the new one leave the new one in the
\* place of the old.
LEMMA Renamed ==
    ASSUME NEW f, NEW x, NEW y, NEW v, x \notin DOMAIN f, x # y
    PROVE  LET g == Without(With(f, x, v), y)
           IN g[x] = v /\ With(Without(g, x), y, v) = With(f, y, v)
PROOF
<1>1. PICK g : g = Without(With(f, x, v), y)
  OBVIOUS
<1>2. DOMAIN g = (DOMAIN f \cup {x}) \ {y} /\ g[x] = v /\ \A z \in DOMAIN f \ {y} : g[z] = f[z]
  BY <1>1 DEF Without, With
<1>3. PICK h : h = With(Without(g, x), y, v)
  OBVIOUS
<1>4. h = [z \in (DOMAIN g \ {x}) \cup {y} |-> IF z = y THEN v ELSE Without(g, x)[z]]
  BY <1>3 DEF With, Without
<1>5. (DOMAIN g \ {x}) \cup {y} = DOMAIN f \cup {y}
  BY <1>2
<1>6. \A z \in DOMAIN f \cup {y} : z # y => Without(g, x)[z] = f[z]
  BY <1>2 DEF Without
<1>7. h = [z \in DOMAIN f \cup {y} |-> IF z = y THEN v ELSE f[z]]
  BY <1>4, <1>5, <1>6
<1> QED
  BY <1>1, <1>2, <1>3, <1>7 DEF With

-----------------------------------------------------------------------------
(* The inductive invariant. *)

\* A transaction's database is not the mark of there being none.
NoneIsNoDatabase == \A c, r : None # [catalog |-> c, rows |-> r]

\* The schema has been parsed, and no table of it has the name of a rebuild's.
Parsed ==
    /\ dialect \in Dialects
    /\ schema \in Seq(ToSet(schema)) /\ IsInjective(Names(schema))
    /\ \A t \in ToSet(schema) : Declared(t) /\ Tmp(t.name) \notin ToSet(Names(schema))

\* Every table has rows, and these its columns; no rebuild is left over.
Whole(c, r) ==
    /\ DOMAIN r = DOMAIN c
    /\ \A n \in DOMAIN c : Shaped(c[n]) /\ \A x \in DOMAIN r[n] : DOMAIN r[n][x] = Columns(c[n])
    /\ \A t \in ToSet(schema) : Tmp(t.name) \notin DOMAIN c

InTransaction == {"copy", "drop", "rename", "commit", "rollback"}

\* A transaction is open inside the rebuild of a table, and after a COMMIT
\* that failed; foreign keys are off inside the rebuild, and after a COMMIT
\* that failed.
Open ==
    /\ pc \in {"done", "additive", "rebuild", "begin", "restore"} \cup InTransaction
    /\ pc \in InTransaction => saved # None
    /\ saved # None => pc \in InTransaction \/ (pc \in {"restore", "done"} /\ result = "busy")
    /\ foreignKeys \in BOOLEAN
    /\ ~foreignKeys => pc # "additive" /\ (pc = "done" => result = "busy")

\* The tables left are tables of the schema; those the additive pass has left
\* behind are there, and in a rebuild all are.
Listed ==
    LET order == ToSet(DependencyOrder(schema))
    IN /\ todo \in Seq(order)
       /\ pc = "additive" => \A t \in order : t \in ToSet(todo) \/ t.name \in DOMAIN catalog
       /\ pc = "additive" /\ existing # None => todo # <<>> /\ todo[1].name \in DOMAIN catalog
       /\ pc \in {"rebuild", "begin"} \cup InTransaction =>
            \A t \in order : t.name \in DOMAIN Committed.catalog
       /\ pc \in {"begin", "copy", "drop", "rename", "commit"} => todo # <<>>

\* How far the rebuild of a table has come: the database inside the
\* transaction, by the one outside.
Halfway ==
    LET name == Table.name
        tmp == Tmp(name)
        shape == CreateTable(dialect, Table)
        copy == CopyOf(saved.rows[name])
    IN /\ pc = "begin" => existing = catalog[name]
       /\ pc \in {"copy", "drop", "rename", "commit"} => existing = saved.catalog[name]
       /\ pc \in {"copy", "drop"} => catalog = With(saved.catalog, tmp, shape)
       /\ pc = "copy" => rows = With(saved.rows, tmp, <<>>)
       /\ pc = "drop" => rows = With(saved.rows, tmp, copy)
       /\ pc = "rename" => /\ catalog = Without(With(saved.catalog, tmp, shape), name)
                           /\ rows = Without(With(saved.rows, tmp, copy), name)
       /\ pc = "commit" => /\ catalog = With(saved.catalog, name, shape)
                           /\ rows = With(saved.rows, name, copy)

Sound ==
    /\ Parsed
    /\ Whole(Committed.catalog, Committed.rows)
    /\ Open
    /\ Listed
    /\ Halfway

-----------------------------------------------------------------------------
(* What the others see. *)

Seen == <<dialect, schema, Committed.catalog, Committed.rows>>

\* One table of the schema is created.
LEMMA SeesCreate ==
    ASSUME NEW t \in ToSet(schema), UNCHANGED <<dialect, schema>>,
           NEW c, NEW r, NEW c2, NEW r2,
           c = Committed.catalog, r = Committed.rows, c2 = Committed.catalog', r2 = Committed.rows',
           t.name \notin DOMAIN c, t.name \notin DOMAIN r,
           c2 = With(c, t.name, CreateTable(dialect, t)), r2 = With(r, t.name, <<>>),
           dialect \in Dialects, Declared(t)
    PROVE  Public!Next
PROOF
<1>1. ProblemsOf(dialect, t, c2[t.name]) = {}
  BY CreatedInSync DEF With
<1>2. t.name \in DOMAIN c2 /\ r2[t.name] = <<>>
  BY DEF With
<1>3. [x \in DOMAIN c2 \ {t.name} |-> c2[x]] = [x \in DOMAIN c \ {t.name} |-> c[x]]
  BY DEF With
<1>4. [x \in DOMAIN r2 \ {t.name} |-> r2[x]] = [x \in DOMAIN r \ {t.name} |-> r[x]]
  BY DEF With
<1>5. Public!Create(t)
  BY <1>1, <1>2, PublicProblems DEF Public!Create
<1>6. Public!Migrate
  BY <1>3, <1>4, <1>5 DEF Public!Migrate, Public!Others, Public!ToSet, ToSet
<1> QED
  BY <1>6 DEF Public!Next

\* One table of the schema comes closer to it and keeps its rows.
LEMMA SeesImprove ==
    ASSUME NEW t \in ToSet(schema), UNCHANGED <<dialect, schema>>,
           NEW c, NEW r, NEW c2, NEW r2, NEW shape, NEW new,
           c = Committed.catalog, r = Committed.rows, c2 = Committed.catalog', r2 = Committed.rows',
           t.name \in DOMAIN c, t.name \in DOMAIN r,
           c2 = With(c, t.name, shape), r2 = With(r, t.name, new),
           ProblemsOf(dialect, t, shape) \subseteq ProblemsOf(dialect, t, c[t.name]),
           DOMAIN new = DOMAIN r[t.name],
           \A x \in DOMAIN new, col \in ToSet(t.columns) :
             col.name \in DOMAIN r[t.name][x] =>
               \/ new[x][col.name] = r[t.name][x][col.name]
               \/ ~col.nullable /\ r[t.name][x][col.name] = Null /\ new[x][col.name] # Null
    PROVE  Public!Next
PROOF
<1>1. c2[t.name] = shape /\ r2[t.name] = new /\ t.name \in DOMAIN c2
  BY DEF With
<1>2. [x \in DOMAIN c2 \ {t.name} |-> c2[x]] = [x \in DOMAIN c \ {t.name} |-> c[x]]
  BY DEF With
<1>3. [x \in DOMAIN r2 \ {t.name} |-> r2[x]] = [x \in DOMAIN r \ {t.name} |-> r[x]]
  BY DEF With
<1>4. Public!RowsKept(t, r[t.name], new)
  BY DEF Public!RowsKept, Public!ToSet, ToSet
<1>5. Public!Improve(t)
  BY <1>1, <1>4, PublicProblems DEF Public!Improve
<1>6. Public!Migrate
  BY <1>2, <1>3, <1>5 DEF Public!Migrate, Public!Others, Public!ToSet, ToSet
<1> QED
  BY <1>6 DEF Public!Next

\* The committed database is the one there is, or the one a transaction saved.
LEMMA CommittedIs ==
    /\ saved = None => Committed.catalog = catalog /\ Committed.rows = rows
    /\ saved # None => Committed.catalog = saved.catalog /\ Committed.rows = saved.rows
PROOF
<1> QED
  BY DEF Committed

\* The same after a step.
LEMMA CommittedIsNext ==
    /\ saved' = None => Committed.catalog' = catalog' /\ Committed.rows' = rows'
    /\ saved' # None => Committed.catalog' = saved.catalog' /\ Committed.rows' = saved.rows'
PROOF
<1> QED
  BY DEF Committed

\* A step nobody sees.
LEMMA Unseen ==
    ASSUME Sound, UNCHANGED <<dialect, schema>>,
           Committed.catalog' = Committed.catalog, Committed.rows' = Committed.rows,
           Open', Listed', Halfway'
    PROVE  Sound' /\ UNCHANGED Seen
PROOF
<1>1. Parsed'
  BY DEF Sound, Parsed, Declared
<1>2. Whole(Committed.catalog, Committed.rows)'
  BY DEF Sound, Whole, Shaped
<1> QED
  BY <1>1, <1>2 DEF Sound, Seen

\* The next table is one of the schema.
LEMMA TheNextTable ==
    ASSUME Parsed, Listed, todo # <<>>
    PROVE  /\ todo[1] \in ToSet(DependencyOrder(schema)) /\ todo[1] \in ToSet(schema)
           /\ Tail(todo) \in Seq(ToSet(DependencyOrder(schema)))
           /\ ToSet(todo) = {todo[1]} \cup ToSet(Tail(todo))
PROOF
<1>1. PICK order : order = ToSet(DependencyOrder(schema))
  OBVIOUS
<1>2. todo \in Seq(order)
  BY <1>1 DEF Listed
<1>3. todo[1] \in order /\ Tail(todo) \in Seq(order)
  BY <1>2
<1>4. ToSet(todo) = {todo[1]} \cup ToSet(Tail(todo))
  <2>1. PICK x, rest : x = todo[1] /\ rest = Tail(todo)
    OBVIOUS
  <2>2. todo = <<x>> \o rest /\ <<x>> \in Seq(order) /\ rest \in Seq(order)
    BY <1>2, <1>3, <2>1
  <2>3. ToSet(<<x>>) = {x}
    BY DEF ToSet
  <2>4. ToSet(<<x>> \o rest) = ToSet(<<x>>) \cup ToSet(rest)
    BY ONLY <2>2, ConcatElements
  <2> QED
    BY <2>1, <2>2, <2>3, <2>4, Zenon
<1>5. order \subseteq ToSet(schema)
  <2>1. PICK S, o : S = ToSet(schema) /\ o = DependencyOrder(schema)
    OBVIOUS
  <2>2. o \in Seq(S)
    BY <2>1, OrderIsOfTheSchema DEF Parsed
  <2>3. ToSet(o) \subseteq S
    BY <2>2 DEF ToSet
  <2> QED
    BY <1>1, <2>1, <2>3
<1> QED
  BY <1>1, <1>3, <1>4, <1>5

\* The order is a sequence.
LEMMA OrderOfItself ==
    ASSUME Parsed
    PROVE  DependencyOrder(schema) \in Seq(ToSet(DependencyOrder(schema)))
PROOF
<1>1. DependencyOrder(schema) \in Seq(ToSet(schema))
  BY OrderIsOfTheSchema DEF Parsed
<1> QED
  BY <1>1, OfItsElements

-----------------------------------------------------------------------------
(* The steps of the additive pass. *)

\* Start keeps Sound.
LEMMA StartStep ==
    ASSUME Sound, NEW r \in BOOLEAN, Start(r)
    PROVE  Sound' /\ UNCHANGED Seen
PROOF
<1>1. Committed.catalog' = Committed.catalog /\ Committed.rows' = Committed.rows
  <2>1. CASE saved = None
    BY <2>1, CommittedIs, CommittedIsNext DEF Start, database
  <2>2. CASE saved # None
    BY <2>2, CommittedIs, CommittedIsNext DEF Start
  <2> QED
    BY <2>1, <2>2
<1>2. /\ pc' = "additive" /\ saved' = None /\ foreignKeys' = TRUE /\ existing' = None
      /\ todo' = DependencyOrder(schema) /\ schema' = schema /\ dialect' = dialect
  BY DEF Start, database
<1>3. Open'
  BY <1>2 DEF Open, InTransaction
<1>4. Listed'
  BY <1>2, OrderOfItself DEF Listed, Sound, InTransaction
<1>5. Halfway'
  BY <1>2 DEF Halfway
<1> QED
  BY <1>1, <1>2, <1>3, <1>4, <1>5, Unseen

\* ReadTable keeps Sound.
LEMMA ReadTableStep ==
    ASSUME Sound, ReadTable
    PROVE  Sound' /\ (Public!Next \/ UNCHANGED Seen)
PROOF
<1>1. /\ pc = "additive" /\ existing = None /\ todo # <<>> /\ saved = None /\ saved' = None
      /\ UNCHANGED <<dialect, schema, foreignKeys>>
  BY DEF ReadTable, Sound, Open, InTransaction
<1>2. PICK t \in ToSet(schema) : t = todo[1] /\ t \in ToSet(DependencyOrder(schema))
  BY <1>1, TheNextTable DEF Sound
<1>3. CASE t.name \in DOMAIN catalog
  <2>1. UNCHANGED <<catalog, rows, pc, todo, result>>
    BY <1>2, <1>3 DEF ReadTable, database
  <2>2. Open'
    BY <1>1, <2>1 DEF Sound, Open, InTransaction
  <2>3. Listed'
    BY <1>1, <1>2, <1>3, <2>1 DEF Sound, Listed, InTransaction
  <2>4. Halfway'
    BY <1>1, <2>1 DEF Halfway
  <2> QED
    BY <1>1, <2>1, <2>2, <2>3, <2>4, CommittedIs, CommittedIsNext, Unseen
<1>4. CASE t.name \notin DOMAIN catalog
  <2>1. PICK shape : shape = CreateTable(dialect, t)
    OBVIOUS
  <2>2. CASE ParentsThere(shape.fks, t.name)
    <3>1. /\ catalog' = With(catalog, t.name, shape) /\ rows' = With(rows, t.name, <<>>)
          /\ todo' = Tail(todo) /\ UNCHANGED <<existing, pc, result>>
      BY <1>2, <1>4, <2>1, <2>2 DEF ReadTable
    <3>2. Declared(t) /\ dialect \in Dialects
      BY DEF Sound, Parsed
    <3>3. /\ Committed.catalog = catalog /\ Committed.rows = rows
          /\ Committed.catalog' = catalog' /\ Committed.rows' = rows'
      BY <1>1, CommittedIs, CommittedIsNext
    <3>4. DOMAIN rows = DOMAIN catalog
      BY <3>3 DEF Sound, Whole
    <3>5. Public!Next
      BY <1>1, <1>4, <2>1, <3>1, <3>2, <3>3, <3>4, SeesCreate
    <3>6. Parsed'
      BY <1>1 DEF Sound, Parsed, Declared
    <3>7. Whole(Committed.catalog, Committed.rows)'
      <4>1. Whole(catalog, rows)
        BY <3>3 DEF Sound
      <4>2. Shaped(shape)
        BY <2>1, <3>2, CreatedShaped
      <4>3. \A u \in ToSet(schema) : Tmp(u.name) # t.name
        BY NamesOfColumns DEF Sound, Parsed
      <4>4. DOMAIN rows' = DOMAIN catalog' /\ DOMAIN catalog' = DOMAIN catalog \cup {t.name}
        BY <3>1, <3>4 DEF With
      <4>5. \A n \in DOMAIN catalog : n # t.name => catalog'[n] = catalog[n] /\ rows'[n] = rows[n]
        BY <3>1, <3>4 DEF With
      <4>6. catalog'[t.name] = shape /\ DOMAIN rows'[t.name] = {}
        BY <3>1 DEF With
      <4>7. ASSUME NEW n \in DOMAIN catalog'
            PROVE  Shaped(catalog'[n]) /\ \A x \in DOMAIN rows'[n] : DOMAIN rows'[n][x] = Columns(catalog'[n])
        <5>1. CASE n = t.name
          BY <4>2, <4>6, <5>1
        <5>2. CASE n # t.name
          BY <4>1, <4>4, <4>5, <5>2 DEF Whole
        <5> QED
          BY <5>1, <5>2
      <4>8. \A u \in ToSet(schema) : Tmp(u.name) \notin DOMAIN catalog'
        BY <4>1, <4>3, <4>4 DEF Whole
      <4> QED
        BY <1>1, <3>3, <4>4, <4>7, <4>8 DEF Whole, Shaped
    <3>8. Open'
      BY <1>1, <3>1 DEF Sound, Open, InTransaction
    <3>9. Listed'
      <4>1. \A n : n \in DOMAIN catalog' <=> n \in DOMAIN catalog \/ n = t.name
        BY <3>1 DEF With
      <4>2. Tail(todo) \in Seq(ToSet(DependencyOrder(schema))) /\ ToSet(todo) = {t} \cup ToSet(Tail(todo))
        BY <1>1, <1>2, TheNextTable DEF Sound
      <4>3. \A u \in ToSet(DependencyOrder(schema)) : u \in ToSet(todo) \/ u.name \in DOMAIN catalog
        BY <1>1 DEF Sound, Listed
      <4> QED
        BY <1>1, <3>1, <4>1, <4>2, <4>3 DEF Listed, InTransaction
    <3>10. Halfway'
      BY <1>1, <3>1 DEF Halfway
    <3> QED
      BY <3>5, <3>6, <3>7, <3>8, <3>9, <3>10 DEF Sound
  <2>3. CASE ~ParentsThere(shape.fks, t.name)
    <3>1. pc' = "done" /\ UNCHANGED <<catalog, rows, existing, todo>>
      BY <1>2, <1>4, <2>1, <2>3 DEF ReadTable, Finish, database
    <3>2. Open'
      BY <1>1, <3>1 DEF Sound, Open, InTransaction
    <3>3. Listed'
      BY <1>1, <3>1 DEF Sound, Listed, InTransaction
    <3>4. Halfway'
      BY <3>1 DEF Halfway
    <3> QED
      BY <1>1, <3>1, <3>2, <3>3, <3>4, CommittedIs, CommittedIsNext, Unseen
  <2> QED
    BY <2>2, <2>3
<1> QED
  BY <1>3, <1>4

\* AddMissing keeps Sound.
LEMMA AddMissingStep ==
    ASSUME Sound, AddMissing
    PROVE  Sound' /\ (Public!Next \/ UNCHANGED Seen)
PROOF
<1>1. /\ pc = "additive" /\ existing # None /\ Lacking # <<>> /\ saved = None /\ saved' = None
      /\ UNCHANGED <<dialect, schema, foreignKeys, todo, existing>>
  BY DEF AddMissing, Sound, Open, InTransaction
<1>2. todo # <<>> /\ todo[1].name \in DOMAIN catalog
  BY <1>1 DEF Sound, Listed
<1>3. PICK t \in ToSet(schema) : t = todo[1]
  BY <1>2, TheNextTable DEF Sound
<1>4. Declared(t) /\ dialect \in Dialects
  BY DEF Sound, Parsed
<1>5. PICK col : col = Lacking[1]
  OBVIOUS
<1>6. col \in ToSet(t.columns)
  <2>1. PICK keep : Lacking = Filtered(t.columns, keep)
    BY <1>3 DEF Lacking
  <2>2. Lacking \in Seq(ToSet(t.columns))
    BY <1>4, <2>1, FilteredElements DEF Declared
  <2> QED
    BY <1>1, <1>5, <2>2
<1>7. PICK failed : failed = IF col.pk THEN "primary key" ELSE AddFails(t.name, col)
  OBVIOUS
<1>8. /\ Committed.catalog = catalog /\ Committed.rows = rows
      /\ Committed.catalog' = catalog' /\ Committed.rows' = rows'
  BY <1>1, CommittedIs, CommittedIsNext
<1>9. CASE failed # None
  <2>1. pc' = "done" /\ UNCHANGED <<catalog, rows>>
    BY <1>3, <1>5, <1>7, <1>9 DEF AddMissing, Finish, database
  <2>2. Open'
    BY <1>1, <2>1 DEF Sound, Open, InTransaction
  <2>3. Listed'
    BY <1>1, <2>1 DEF Sound, Listed, InTransaction
  <2>4. Halfway'
    BY <2>1 DEF Halfway
  <2> QED
    BY <1>1, <1>8, <2>1, <2>2, <2>3, <2>4, Unseen
<1>10. CASE failed = None
  <2>1. PICK shape : shape = AddColumn(dialect, catalog[t.name], col)
    OBVIOUS
  <2>2. PICK filler : filler = IF col.nullable THEN Null ELSE Default
    OBVIOUS
  <2>3. PICK new : new = [r \in DOMAIN rows[t.name] |-> With(rows[t.name][r], col.name, filler)]
    OBVIOUS
  <2>4. /\ catalog' = [catalog EXCEPT ![t.name] = shape] /\ rows' = [rows EXCEPT ![t.name] = new]
        /\ UNCHANGED <<pc, result>>
    BY <1>3, <1>5, <1>7, <1>10, <2>1, <2>2, <2>3 DEF AddMissing
  <2>5. ~col.pk /\ col.name \notin Columns(catalog[t.name])
    <3>2. None # "primary key" /\ None # "duplicate column"
      BY MigrateAssumption DEF Results
    <3>3. ~col.pk /\ AddFails(t.name, col) = None
      BY <1>7, <1>10, <3>2
    <3> QED
      BY <3>2, <3>3 DEF AddFails
  <2>6. Whole(catalog, rows)
    BY <1>8 DEF Sound
  <2>7. catalog' = With(catalog, t.name, shape) /\ rows' = With(rows, t.name, new)
    BY <1>2, <1>3, <2>4, <2>6 DEF Whole, With
  <2>8. Shaped(shape) /\ Columns(shape) = Columns(catalog[t.name]) \cup {col.name}
    BY <1>2, <1>3, <2>1, <2>6, AddedColumn DEF Whole
  <2>9. ProblemsOf(dialect, t, shape) \subseteq ProblemsOf(dialect, t, catalog[t.name])
    BY <1>2, <1>3, <1>4, <1>6, <2>1, <2>5, <2>6, AddedImproves DEF Whole
  <2>10. DOMAIN new = DOMAIN rows[t.name] /\ \A x \in DOMAIN new : DOMAIN new[x] = Columns(shape)
    BY <1>2, <1>3, <2>3, <2>6, <2>8 DEF Whole, With
  <2>11. \A x \in DOMAIN new : \A n \in DOMAIN rows[t.name][x] : new[x][n] = rows[t.name][x][n]
    BY <1>2, <1>3, <2>3, <2>5, <2>6 DEF Whole, With
  <2>12. Public!Next
    <3>1. t.name \in DOMAIN catalog /\ t.name \in DOMAIN rows
      BY <1>2, <1>3, <2>6 DEF Whole
    <3>2. \A x \in DOMAIN new, c \in ToSet(t.columns) :
            c.name \in DOMAIN rows[t.name][x] =>
              \/ new[x][c.name] = rows[t.name][x][c.name]
              \/ ~c.nullable /\ rows[t.name][x][c.name] = Null /\ new[x][c.name] # Null
      BY <2>11
    <3> QED
      BY <1>1, <1>8, <2>7, <2>9, <2>10, <3>1, <3>2, SeesImprove
  <2>13. Parsed'
    BY <1>1 DEF Sound, Parsed, Declared
  <2>14. Whole(Committed.catalog, Committed.rows)'
    <3>1. DOMAIN rows' = DOMAIN catalog' /\ DOMAIN catalog' = DOMAIN catalog
      BY <2>4, <2>6 DEF Whole
    <3>2. \A n \in DOMAIN catalog : n # t.name => catalog'[n] = catalog[n] /\ rows'[n] = rows[n]
      BY <2>4, <2>6 DEF Whole
    <3>3. catalog'[t.name] = shape /\ rows'[t.name] = new
      BY <2>7 DEF With
    <3>4. ASSUME NEW n \in DOMAIN catalog'
          PROVE  Shaped(catalog'[n]) /\ \A x \in DOMAIN rows'[n] : DOMAIN rows'[n][x] = Columns(catalog'[n])
      <4>1. CASE n = t.name
        BY <2>8, <2>10, <3>3, <4>1
      <4>2. CASE n # t.name
        BY <2>6, <3>1, <3>2, <4>2 DEF Whole
      <4> QED
        BY <4>1, <4>2
    <3> QED
      BY <1>1, <1>8, <2>6, <3>1, <3>4 DEF Whole, Shaped
  <2>15. Open'
    BY <1>1, <2>4 DEF Sound, Open, InTransaction
  <2>16. Listed'
    <3>1. DOMAIN catalog' = DOMAIN catalog
      BY <2>4
    <3> QED
      BY <1>1, <1>2, <2>4, <3>1 DEF Sound, Listed, InTransaction
  <2>17. Halfway'
    BY <1>1, <2>4 DEF Halfway
  <2> QED
    BY <2>12, <2>13, <2>14, <2>15, <2>16, <2>17 DEF Sound
<1> QED
  BY <1>9, <1>10

\* NextTable keeps Sound.
LEMMA NextTableStep ==
    ASSUME Sound, NextTable
    PROVE  Sound' /\ UNCHANGED Seen
PROOF
<1>1. /\ pc = "additive" /\ existing # None /\ pc' = pc /\ existing' = None /\ todo' = Tail(todo)
      /\ UNCHANGED <<dialect, schema, catalog, rows, saved, foreignKeys, result>>
  BY DEF NextTable, database
<1>2. todo # <<>> /\ todo[1].name \in DOMAIN catalog
  BY <1>1 DEF Sound, Listed
<1>3. Tail(todo) \in Seq(ToSet(DependencyOrder(schema))) /\ ToSet(todo) = {todo[1]} \cup ToSet(Tail(todo))
  BY <1>2, TheNextTable DEF Sound
<1>4. Open'
  BY <1>1 DEF Sound, Open, InTransaction
<1>5. Listed'
  BY <1>1, <1>2, <1>3 DEF Sound, Listed, InTransaction
<1>6. Halfway'
  BY <1>1 DEF Halfway
<1> QED
  BY <1>1, <1>4, <1>5, <1>6, CommittedIs, CommittedIsNext, Unseen

\* AdditiveDone keeps Sound.
LEMMA AdditiveDoneStep ==
    ASSUME Sound, AdditiveDone
    PROVE  Sound' /\ UNCHANGED Seen
PROOF
<1>1. /\ pc = "additive" /\ todo = <<>> /\ saved = None
      /\ UNCHANGED <<dialect, schema, catalog, rows, saved, existing>>
  BY DEF AdditiveDone, database, Sound, Open, InTransaction
<1>2. CASE rebuild /\ dialect = "sqlite"
  <2>1. pc' = "rebuild" /\ todo' = DependencyOrder(schema) /\ foreignKeys' = FALSE
    BY <1>2 DEF AdditiveDone
  <2>2. Open'
    BY <1>1, <2>1 DEF Open, InTransaction
  <2>3. \A t \in ToSet(DependencyOrder(schema)) : t.name \in DOMAIN Committed.catalog
    <3>1. ToSet(todo) = {}
      BY <1>1 DEF ToSet
    <3> QED
      BY <1>1, <3>1, CommittedIs DEF Sound, Listed
  <2>4. Listed'
    <3>1. Committed.catalog' = Committed.catalog
      BY <1>1, CommittedIs, CommittedIsNext
    <3> QED
      BY <1>1, <2>1, <2>3, <3>1, OrderOfItself DEF Sound, Listed
  <2>5. Halfway'
    BY <2>1 DEF Halfway
  <2> QED
    BY <1>1, <2>2, <2>4, <2>5, CommittedIs, CommittedIsNext, Unseen
<1>3. CASE ~(rebuild /\ dialect = "sqlite")
  <2>1. pc' = "done" /\ UNCHANGED <<todo, foreignKeys>>
    BY <1>3 DEF AdditiveDone, Finish
  <2>2. Open'
    BY <1>1, <2>1 DEF Sound, Open, InTransaction
  <2>3. Listed'
    BY <1>1, <2>1 DEF Sound, Listed, InTransaction
  <2>4. Halfway'
    BY <2>1 DEF Halfway
  <2> QED
    BY <1>1, <2>2, <2>3, <2>4, CommittedIs, CommittedIsNext, Unseen
<1> QED
  BY <1>2, <1>3

-----------------------------------------------------------------------------
(* The steps of a rebuild. *)

\* The table that is rebuilt is there, and the name of its copy is free.
LEMMA TheTable ==
    ASSUME Sound, pc \in {"rebuild", "begin"} \cup InTransaction, todo # <<>>
    PROVE  /\ Table \in ToSet(schema) /\ Declared(Table) /\ dialect \in Dialects
           /\ Table.name \in DOMAIN Committed.catalog
           /\ Tmp(Table.name) \notin DOMAIN Committed.catalog /\ Tmp(Table.name) # Table.name
PROOF
<1>1. PICK t \in ToSet(schema) : t = Table /\ t \in ToSet(DependencyOrder(schema))
  BY TheNextTable DEF Sound, Table
<1>2. Declared(t) /\ dialect \in Dialects /\ Tmp(t.name) \notin ToSet(Names(schema))
  BY DEF Sound, Parsed
<1>3. t.name \in ToSet(Names(schema))
  BY NamesOfColumns
<1>4. Tmp(t.name) \notin DOMAIN Committed.catalog
  BY DEF Sound, Whole
<1>5. t.name \in DOMAIN Committed.catalog
  BY <1>1 DEF Sound, Listed
<1> QED
  BY <1>1, <1>2, <1>3, <1>4, <1>5

\* CheckTable keeps Sound.
LEMMA CheckTableStep ==
    ASSUME Sound, CheckTable
    PROVE  Sound' /\ UNCHANGED Seen
PROOF
<1>1. /\ pc = "rebuild" /\ todo # <<>> /\ saved = None
      /\ UNCHANGED <<dialect, schema, catalog, rows, saved, foreignKeys, result>>
  BY DEF CheckTable, Rebuilding, database, Sound, Open, InTransaction
<1>2. \/ pc' = "rebuild" /\ todo' = Tail(todo) /\ existing' = existing
      \/ pc' = "begin" /\ todo' = todo /\ existing' = Shape(Table.name)
  BY <1>1 DEF CheckTable
<1>3. Table.name \in DOMAIN catalog
  BY <1>1, TheTable, CommittedIs
<1>4. Open'
  BY <1>1, <1>2 DEF Sound, Open, InTransaction
<1>5. Committed.catalog' = Committed.catalog /\ Committed.rows' = Committed.rows
  BY <1>1, CommittedIs, CommittedIsNext
<1>6. Listed'
  <2>1. Tail(todo) \in Seq(ToSet(DependencyOrder(schema)))
    BY <1>1, TheNextTable DEF Sound
  <2> QED
    BY <1>1, <1>2, <1>5, <2>1 DEF Sound, Listed, InTransaction
<1>7. Halfway'
  <2>1. CASE pc' = "begin" /\ todo' = todo /\ existing' = Shape(Table.name)
    BY <1>1, <1>3, <2>1 DEF Halfway, Table, Shape
  <2>2. CASE pc' = "rebuild"
    BY <2>2 DEF Halfway
  <2> QED
    BY <1>2, <2>1, <2>2
<1> QED
  BY <1>1, <1>4, <1>5, <1>6, <1>7, Unseen

\* CreateTmp keeps Sound.
LEMMA CreateTmpStep ==
    ASSUME NoneIsNoDatabase, Sound, CreateTmp
    PROVE  Sound' /\ UNCHANGED Seen
PROOF
<1>1. /\ pc = "begin" /\ pc' = "copy" /\ saved = None /\ todo # <<>>
      /\ saved' = [catalog |-> catalog, rows |-> rows]
      /\ UNCHANGED <<dialect, schema, foreignKeys, todo, existing, result>>
  BY DEF CreateTmp, Rebuilding, Sound, Open, Listed, InTransaction
<1>2. saved' # None
  BY <1>1 DEF NoneIsNoDatabase
<1>3. saved'.catalog = catalog /\ saved'.rows = rows
  BY <1>1
<1>4. Committed.catalog' = Committed.catalog /\ Committed.rows' = Committed.rows
  BY <1>1, <1>2, <1>3, CommittedIs, CommittedIsNext
<1>5. PICK tmp : tmp = Tmp(Table.name) /\ tmp \notin DOMAIN catalog
  BY <1>1, TheTable, CommittedIs
<1>6. catalog' = With(catalog, tmp, CreateTable(dialect, Table)) /\ rows' = With(rows, tmp, <<>>)
  BY <1>5 DEF CreateTmp
<1>7. Open'
  BY <1>1, <1>2 DEF Sound, Open, InTransaction
<1>8. Listed'
  BY <1>1, <1>4 DEF Sound, Listed, InTransaction
<1>9. Halfway'
  <2>1. existing = catalog[Table.name]
    BY <1>1 DEF Sound, Halfway
  <2>2. Table' = Table
    BY <1>1 DEF Table
  <2> QED
    BY <1>1, <1>3, <1>5, <1>6, <2>1, <2>2 DEF Halfway
<1> QED
  BY <1>1, <1>4, <1>7, <1>8, <1>9, Unseen

\* CopyRows keeps Sound.
LEMMA CopyRowsStep ==
    ASSUME Sound, CopyRows
    PROVE  Sound' /\ UNCHANGED Seen
PROOF
<1>1. /\ pc = "copy" /\ saved # None /\ todo # <<>>
      /\ UNCHANGED <<dialect, schema, catalog, saved, foreignKeys, todo, existing>>
  BY DEF CopyRows, Rebuilding, Sound, Open, Listed, InTransaction
<1>2. Committed.catalog' = Committed.catalog /\ Committed.rows' = Committed.rows
  BY <1>1, CommittedIs, CommittedIsNext
<1>3. PICK name, tmp : /\ name = Table.name /\ tmp = Tmp(name) /\ tmp # name
                       /\ name \in DOMAIN saved.catalog /\ tmp \notin DOMAIN saved.catalog
  BY <1>1, TheTable, CommittedIs DEF InTransaction
<1>4. PICK new : new = CopyOf(rows[name])
  OBVIOUS
<1>5. /\ existing = saved.catalog[name]
      /\ catalog = With(saved.catalog, tmp, CreateTable(dialect, Table))
      /\ rows = With(saved.rows, tmp, <<>>)
  BY <1>1, <1>3 DEF Sound, Halfway
<1>6. Table' = Table
  BY <1>1 DEF Table
<1>7. Listed' /\ Open'
  <2>1. pc' \in {"rollback", "drop"}
    BY DEF CopyRows
  <2>2. Open'
    BY <1>1, <2>1 DEF Sound, Open, InTransaction
  <2>3. Listed'
    BY <1>1, <1>2, <2>1 DEF Sound, Listed, InTransaction
  <2> QED
    BY <2>2, <2>3
<1>8. CASE pc' = "rollback"
  <2>1. Halfway'
    BY <1>8 DEF Halfway
  <2> QED
    BY <1>1, <1>2, <1>7, <2>1, Unseen
<1>9. CASE pc' = "drop"
  <2>1. rows' = [rows EXCEPT ![tmp] = Merged(new, @)]
    BY <1>3, <1>4, <1>9 DEF CopyRows
  <2>2. rows[name] = saved.rows[name]
    <3>1. DOMAIN saved.rows = DOMAIN saved.catalog
      BY <1>1, CommittedIs DEF Sound, Whole
    <3> QED
      BY <1>3, <1>5, <3>1 DEF With
  <2>3. rows[tmp] = <<>> /\ tmp \in DOMAIN rows
    BY <1>5 DEF With
  <2>4. Merged(new, <<>>) = new
    BY <1>4 DEF Merged, CopyOf
  <2>5. rows' = With(saved.rows, tmp, new)
    BY <1>5, <2>1, <2>3, <2>4 DEF With
  <2>6. CopyOf(saved.rows[name])' = new
    BY <1>1, <1>4, <1>6, <2>2 DEF CopyOf, Copied, Table
  <2>7. Halfway'
    BY <1>1, <1>3, <1>5, <1>6, <1>9, <2>5, <2>6 DEF Halfway
  <2> QED
    BY <1>1, <1>2, <1>7, <2>7, Unseen
<1> QED
  BY <1>8, <1>9 DEF CopyRows

\* DropOld keeps Sound.
LEMMA DropOldStep ==
    ASSUME Sound, DropOld
    PROVE  Sound' /\ UNCHANGED Seen
PROOF
<1>1. /\ pc = "drop" /\ pc' = "rename" /\ saved # None /\ todo # <<>>
      /\ UNCHANGED <<dialect, schema, saved, foreignKeys, todo, existing, result>>
  BY DEF DropOld, Rebuilding, Sound, Open, Listed, InTransaction
<1>2. Committed.catalog' = Committed.catalog /\ Committed.rows' = Committed.rows
  BY <1>1, CommittedIs, CommittedIsNext
<1>3. PICK name, tmp, copy : name = Table.name /\ tmp = Tmp(name) /\ copy = CopyOf(saved.rows[name])
  OBVIOUS
<1>4. /\ existing = saved.catalog[name]
      /\ catalog = With(saved.catalog, tmp, CreateTable(dialect, Table))
      /\ rows = With(saved.rows, tmp, copy)
  BY <1>1, <1>3 DEF Sound, Halfway
<1>5. catalog' = Without(catalog, name) /\ rows' = Without(rows, name)
  BY <1>3 DEF DropOld
<1>6. Table' = Table
  BY <1>1 DEF Table
<1>7. CopyOf(saved.rows[name])' = copy
  BY <1>1, <1>3, <1>6 DEF CopyOf, Copied
<1>8. Open'
  BY <1>1 DEF Sound, Open, InTransaction
<1>9. Listed'
  BY <1>1, <1>2 DEF Sound, Listed, InTransaction
<1>10. Halfway'
  BY <1>1, <1>3, <1>4, <1>5, <1>6, <1>7 DEF Halfway
<1> QED
  BY <1>1, <1>2, <1>8, <1>9, <1>10, Unseen

\* RenameTmp keeps Sound.
LEMMA RenameTmpStep ==
    ASSUME Sound, RenameTmp
    PROVE  Sound' /\ UNCHANGED Seen
PROOF
<1>1. /\ pc = "rename" /\ pc' = "commit" /\ saved # None /\ todo # <<>>
      /\ UNCHANGED <<dialect, schema, saved, foreignKeys, todo, existing, result>>
  BY DEF RenameTmp, Rebuilding, Sound, Open, Listed, InTransaction
<1>2. Committed.catalog' = Committed.catalog /\ Committed.rows' = Committed.rows
  BY <1>1, CommittedIs, CommittedIsNext
<1>3. PICK name, tmp : /\ name = Table.name /\ tmp = Tmp(name) /\ tmp # name
                       /\ name \in DOMAIN saved.catalog /\ tmp \notin DOMAIN saved.catalog
  BY <1>1, TheTable, CommittedIs DEF InTransaction
<1>4. PICK shape, copy : shape = CreateTable(dialect, Table) /\ copy = CopyOf(saved.rows[name])
  OBVIOUS
<1>5. /\ existing = saved.catalog[name]
      /\ catalog = Without(With(saved.catalog, tmp, shape), name)
      /\ rows = Without(With(saved.rows, tmp, copy), name)
  BY <1>1, <1>3, <1>4 DEF Sound, Halfway
<1>6. catalog' = With(Without(catalog, tmp), name, catalog[tmp]) /\ rows' = With(Without(rows, tmp), name, rows[tmp])
  BY <1>3 DEF RenameTmp
<1>7. tmp \notin DOMAIN saved.rows
  BY <1>1, <1>3, CommittedIs DEF Sound, Whole
<1>8. PICK c, r : c = saved.catalog /\ r = saved.rows
  OBVIOUS
<1>9. catalog' = With(c, name, shape)
  BY <1>3, <1>5, <1>6, <1>8, Renamed
<1>10. rows' = With(r, name, copy)
  BY <1>3, <1>5, <1>6, <1>7, <1>8, Renamed
<1>11. Table' = Table
  BY <1>1 DEF Table
<1>12. CopyOf(saved.rows[name])' = copy
  BY <1>1, <1>4, <1>11 DEF CopyOf, Copied
<1>13. Open'
  BY <1>1 DEF Sound, Open, InTransaction
<1>14. Listed'
  BY <1>1, <1>2 DEF Sound, Listed, InTransaction
<1>15. Halfway'
  BY <1>1, <1>3, <1>4, <1>5, <1>8, <1>9, <1>10, <1>11, <1>12 DEF Halfway
<1> QED
  BY <1>1, <1>2, <1>13, <1>14, <1>15, Unseen

\* The copy has a row for each row, with the columns of the schema; a value
\* the table had is kept, but for a NULL where none may be.
LEMMA CopyKeeps ==
    ASSUME Declared(Table), NEW old, NEW x \in DOMAIN old
    PROVE  /\ DOMAIN CopyOf(old) = DOMAIN old
           /\ DOMAIN CopyOf(old)[x] = ToSet(Names(Table.columns))
           /\ \A c \in ToSet(Table.columns) :
                c.name \in Columns(existing) =>
                  \/ CopyOf(old)[x][c.name] = old[x][c.name]
                  \/ ~c.nullable /\ old[x][c.name] = Null /\ CopyOf(old)[x][c.name] # Null
PROOF
<1>1. CopyOf(old)[x] = [n \in ToSet(Names(Table.columns)) |->
                          Copied(CHOOSE c \in Named(Table.columns, n) : TRUE, old[x])]
  BY DEF CopyOf
<1>2. ASSUME NEW c \in ToSet(Table.columns), c.name \in Columns(existing)
      PROVE  \/ CopyOf(old)[x][c.name] = old[x][c.name]
             \/ ~c.nullable /\ old[x][c.name] = Null /\ CopyOf(old)[x][c.name] # Null
  <2>1. c.name \in ToSet(Names(Table.columns))
    BY NamesOfColumns
  <2>2. PICK e : e = CHOOSE d \in Named(Table.columns, c.name) : TRUE
    OBVIOUS
  <2>3. e \in Named(Table.columns, c.name)
    <3>1. c \in Named(Table.columns, c.name)
      BY DEF Named
    <3> QED
      BY <2>2, <3>1
  <2>4. e = c
    BY <2>3, OneColumnOfAName DEF Named, Declared
  <2>5. CopyOf(old)[x][c.name] = Copied(c, old[x])
    BY <1>1, <2>1, <2>2, <2>4
  <2>6. Default # Null
    BY MigrateAssumption DEF Default
  <2> QED
    BY <1>2, <2>5, <2>6 DEF Copied
<1>3. DOMAIN CopyOf(old) = DOMAIN old
  BY DEF CopyOf
<1> QED
  BY <1>1, <1>2, <1>3

\* Commit keeps Sound.
LEMMA CommitStep ==
    ASSUME Sound, Commit
    PROVE  Sound' /\ Public!Next
PROOF
<1>1. /\ pc = "commit" /\ pc' = "rebuild" /\ saved # None /\ saved' = None /\ todo # <<>>
      /\ todo' = Tail(todo)
      /\ UNCHANGED <<dialect, schema, catalog, rows, foreignKeys, result>>
  BY DEF Commit, Rebuilding, database, Sound, Open, Listed, InTransaction
<1>2. PICK t \in ToSet(schema) : t = Table /\ Declared(t)
  BY <1>1, TheTable DEF InTransaction
<1>3. PICK c, r : c = saved.catalog /\ r = saved.rows
  OBVIOUS
<1>4. /\ Committed.catalog = c /\ Committed.rows = r
      /\ Committed.catalog' = catalog /\ Committed.rows' = rows
  BY <1>1, <1>3, CommittedIs, CommittedIsNext
<1>5. t.name \in DOMAIN c /\ dialect \in Dialects
  BY <1>1, <1>2, <1>4, TheTable DEF InTransaction
<1>6. PICK shape, new : shape = CreateTable(dialect, t) /\ new = CopyOf(r[t.name])
  OBVIOUS
<1>7. existing = c[t.name] /\ catalog = With(c, t.name, shape) /\ rows = With(r, t.name, new)
  BY <1>1, <1>2, <1>3, <1>6 DEF Sound, Halfway
<1>8. Whole(c, r)
  BY <1>4 DEF Sound
<1>9. DOMAIN new = DOMAIN r[t.name] /\ \A x \in DOMAIN new : DOMAIN new[x] = ToSet(Names(t.columns))
  <2>1. DOMAIN new = DOMAIN r[t.name]
    BY <1>6 DEF CopyOf
  <2> QED
    BY <1>2, <1>6, <2>1, CopyKeeps
<1>10. \A x \in DOMAIN new, col \in ToSet(t.columns) :
         col.name \in DOMAIN r[t.name][x] =>
           \/ new[x][col.name] = r[t.name][x][col.name]
           \/ ~col.nullable /\ r[t.name][x][col.name] = Null /\ new[x][col.name] # Null
  <2> TAKE x \in DOMAIN new, col \in ToSet(t.columns)
  <2>1. DOMAIN r[t.name][x] = Columns(existing)
    BY <1>5, <1>7, <1>8, <1>9 DEF Whole
  <2> QED
    BY <1>2, <1>6, <1>9, <2>1, CopyKeeps
<1>11. Public!Next
  <2>1. ProblemsOf(dialect, t, shape) \subseteq ProblemsOf(dialect, t, c[t.name])
    BY <1>2, <1>5, <1>6, CreatedInSync
  <2>2. t.name \in DOMAIN r
    BY <1>5, <1>8 DEF Whole
  <2>3. UNCHANGED <<dialect, schema>>
    BY <1>1
  <2>4. PICK c2, r2 : c2 = Committed.catalog' /\ r2 = Committed.rows' /\ c2 = With(c, t.name, shape)
                      /\ r2 = With(r, t.name, new)
    BY <1>4, <1>7
  <2> QED
    BY <1>4, <1>5, <1>9, <1>10, <2>1, <2>2, <2>3, <2>4, SeesImprove
<1>12. Parsed'
  BY <1>1 DEF Sound, Parsed, Declared
<1>13. Whole(Committed.catalog, Committed.rows)'
  <2>1. DOMAIN catalog = DOMAIN c /\ DOMAIN rows = DOMAIN c
    BY <1>5, <1>7, <1>8 DEF Whole, With
  <2>2. \A n \in DOMAIN c : n # t.name => catalog[n] = c[n] /\ rows[n] = r[n]
    BY <1>7, <1>8 DEF Whole, With
  <2>3. catalog[t.name] = shape /\ rows[t.name] = new
    BY <1>7 DEF With
  <2>4. Shaped(shape) /\ Columns(shape) = ToSet(Names(t.columns))
    BY <1>2, <1>6, CreatedShaped, CreatedColumns DEF Declared
  <2>5. ASSUME NEW n \in DOMAIN catalog
        PROVE  Shaped(catalog[n]) /\ \A x \in DOMAIN rows[n] : DOMAIN rows[n][x] = Columns(catalog[n])
    <3>1. CASE n = t.name
      BY <1>9, <2>3, <2>4, <3>1
    <3>2. CASE n # t.name
      BY <1>8, <2>1, <2>2, <3>2 DEF Whole
    <3> QED
      BY <3>1, <3>2
  <2>6. Whole(catalog, rows)
    BY <1>8, <2>1, <2>5 DEF Whole
  <2> QED
    BY <1>1, <1>4, <2>6 DEF Whole, Shaped
<1>14. Open'
  BY <1>1 DEF Sound, Open, InTransaction
<1>15. Listed'
  <2>1. Tail(todo) \in Seq(ToSet(DependencyOrder(schema)))
    BY <1>1, TheNextTable DEF Sound
  <2>2. DOMAIN catalog = DOMAIN c
    BY <1>5, <1>7 DEF With
  <2> QED
    BY <1>1, <1>4, <2>1, <2>2 DEF Sound, Listed, InTransaction
<1>16. Halfway'
  BY <1>1 DEF Halfway
<1> QED
  BY <1>11, <1>12, <1>13, <1>14, <1>15, <1>16 DEF Sound

\* A step after which no table is being rebuilt: the same tables are left.
LEMMA LeavesRebuild ==
    ASSUME Sound, UNCHANGED <<dialect, schema, todo>>,
           pc' \in {"rollback", "restore", "done"},
           pc' = "rollback" => pc \in {"begin"} \cup InTransaction,
           Committed.catalog' = Committed.catalog, Committed.rows' = Committed.rows,
           Open'
    PROVE  Sound' /\ UNCHANGED Seen
PROOF
<1>1. Listed'
  BY DEF Sound, Listed, InTransaction
<1>2. Halfway'
  BY DEF Halfway
<1> QED
  BY <1>1, <1>2, Unseen

\* CommitFails keeps Sound.
LEMMA CommitFailsStep ==
    ASSUME Sound, CommitFails
    PROVE  Sound' /\ UNCHANGED Seen
PROOF
<1>1. /\ pc = "commit" /\ pc' = "restore" /\ result' = "busy"
      /\ UNCHANGED <<dialect, schema, catalog, rows, saved, foreignKeys, todo>>
  BY DEF CommitFails, Rebuilding, database
<1>2. Committed.catalog' = Committed.catalog /\ Committed.rows' = Committed.rows
  BY <1>1, CommittedIs, CommittedIsNext
<1>3. Open'
  BY <1>1 DEF Sound, Open, InTransaction
<1> QED
  BY <1>1, <1>2, <1>3, LeavesRebuild

\* StepFails keeps Sound.
LEMMA StepFailsStep ==
    ASSUME NoneIsNoDatabase, Sound, StepFails
    PROVE  Sound' /\ UNCHANGED Seen
PROOF
<1>1. /\ pc \in {"begin", "copy", "drop", "rename"} /\ pc' = "rollback"
      /\ saved' = [catalog |-> Committed.catalog, rows |-> Committed.rows]
      /\ UNCHANGED <<dialect, schema, foreignKeys, todo>>
  BY DEF StepFails, Rebuilding
<1>2. saved' # None /\ saved'.catalog = Committed.catalog /\ saved'.rows = Committed.rows
  BY <1>1 DEF NoneIsNoDatabase
<1>3. Committed.catalog' = Committed.catalog /\ Committed.rows' = Committed.rows
  BY <1>2, CommittedIsNext
<1>4. Open'
  BY <1>1, <1>2 DEF Sound, Open, InTransaction
<1> QED
  BY <1>1, <1>3, <1>4, LeavesRebuild DEF InTransaction

\* Rollback keeps Sound.
LEMMA RollbackStep ==
    ASSUME Sound, Rollback
    PROVE  Sound' /\ UNCHANGED Seen
PROOF
<1>1. /\ pc = "rollback" /\ pc' = "restore" /\ saved # None /\ saved' = None
      /\ catalog' = saved.catalog /\ rows' = saved.rows
      /\ UNCHANGED <<dialect, schema, foreignKeys, todo, result>>
  BY DEF Rollback, Rebuilding, Sound, Open, InTransaction
<1>2. Committed.catalog' = Committed.catalog /\ Committed.rows' = Committed.rows
  BY <1>1, CommittedIs, CommittedIsNext
<1>3. Open'
  BY <1>1 DEF Sound, Open, InTransaction
<1> QED
  BY <1>1, <1>2, <1>3, LeavesRebuild

\* RebuildDone keeps Sound.
LEMMA RebuildDoneStep ==
    ASSUME Sound, RebuildDone
    PROVE  Sound' /\ UNCHANGED Seen
PROOF
<1>1. /\ pc = "rebuild" /\ pc' = "restore" /\ saved = None /\ saved' = None
      /\ UNCHANGED <<dialect, schema, catalog, rows, foreignKeys, todo>>
  BY DEF RebuildDone, Rebuilding, database, Sound, Open, InTransaction
<1>2. Committed.catalog' = Committed.catalog /\ Committed.rows' = Committed.rows
  BY <1>1, CommittedIs, CommittedIsNext
<1>3. Open'
  BY <1>1 DEF Sound, Open, InTransaction
<1> QED
  BY <1>1, <1>2, <1>3, LeavesRebuild

\* What COMMIT left open stays open, and foreign keys off with it.
LEMMA RestoreStep ==
    ASSUME Sound, Restore
    PROVE  Sound' /\ UNCHANGED Seen
PROOF
<1>1. /\ pc = "restore" /\ pc' = "done" /\ foreignKeys' = (saved = None)
      /\ UNCHANGED <<dialect, schema, catalog, rows, saved, todo, result>>
  BY DEF Restore, Rebuilding, database
<1>2. Committed.catalog' = Committed.catalog /\ Committed.rows' = Committed.rows
  BY <1>1, CommittedIs, CommittedIsNext
<1>3. Open'
  <2>1. CASE saved = None
    BY <1>1, <2>1 DEF Sound, Open, InTransaction
  <2>2. CASE saved # None
    BY <1>1, <2>2 DEF Sound, Open, InTransaction
  <2> QED
    BY <2>1, <2>2
<1> QED
  BY <1>1, <1>2, <1>3, LeavesRebuild

-----------------------------------------------------------------------------
(* The process dies, the application works, nothing happens. *)

\* Crash keeps Sound.
LEMMA CrashStep ==
    ASSUME Sound, Crash
    PROVE  Sound' /\ UNCHANGED Seen
PROOF
<1>1. /\ pc' = "done" /\ saved' = None /\ foreignKeys' = TRUE
      /\ UNCHANGED <<dialect, schema, todo>>
  BY DEF Crash
<1>2. Committed.catalog' = Committed.catalog /\ Committed.rows' = Committed.rows
  <2>1. CASE saved = None
    BY <1>1, <2>1, CommittedIs, CommittedIsNext DEF Crash, database
  <2>2. CASE saved # None
    BY <1>1, <2>2, CommittedIs, CommittedIsNext DEF Crash
  <2> QED
    BY <2>1, <2>2
<1>3. Open'
  BY <1>1 DEF Open, InTransaction
<1> QED
  BY <1>1, <1>2, <1>3, LeavesRebuild

\* The row is new, and has the columns of its table.
LEMMA AppInsertsStep ==
    ASSUME Sound, AppInserts
    PROVE  Sound' /\ Public!Next
PROOF
<1>1. /\ saved = None /\ saved' = None
      /\ UNCHANGED <<dialect, schema, catalog, foreignKeys, pc, todo, existing, result>>
  BY DEF AppInserts, run
<1>2. /\ Committed.catalog = catalog /\ Committed.rows = rows
      /\ Committed.catalog' = catalog /\ Committed.rows' = rows'
  BY <1>1, CommittedIs, CommittedIsNext
<1>3. Whole(catalog, rows)
  BY <1>2 DEF Sound
<1>4. PICK t, x, row : /\ t \in DOMAIN catalog /\ \A n \in DOMAIN rows : x \notin DOMAIN rows[n]
                       /\ DOMAIN row = Columns(catalog[t])
                       /\ rows' = [rows EXCEPT ![t] = With(@, x, row)]
  BY DEF AppInserts
<1>5. /\ DOMAIN rows' = DOMAIN rows
      /\ \A n \in DOMAIN rows : n # t => rows'[n] = rows[n]
      /\ rows'[t] = With(rows[t], x, row)
  BY <1>3, <1>4 DEF Whole
<1>6. \A n \in DOMAIN rows : \A y \in DOMAIN rows[n] : y \in DOMAIN rows'[n] /\ rows'[n][y] = rows[n][y]
  BY <1>4, <1>5 DEF With
<1>7. Public!Insert
  <2>1. PICK r, r2 : r = Committed.rows /\ r2 = Committed.rows' /\ r = rows /\ r2 = rows'
    BY <1>2
  <2> QED
    BY <1>1, <1>2, <1>5, <1>6, <2>1 DEF Public!Insert
<1>8. ASSUME NEW n \in DOMAIN catalog, NEW y \in DOMAIN rows'[n]
      PROVE  DOMAIN rows'[n][y] = Columns(catalog[n])
  <2>1. CASE n = t
    BY <1>3, <1>4, <1>5, <2>1 DEF With, Whole
  <2>2. CASE n # t
    BY <1>3, <1>5, <2>2 DEF Whole
  <2> QED
    BY <2>1, <2>2
<1>9. Whole(Committed.catalog, Committed.rows)'
  BY <1>1, <1>2, <1>3, <1>5, <1>8 DEF Whole, Shaped
<1>10. Parsed'
  BY <1>1 DEF Sound, Parsed, Declared
<1>11. Open'
  BY <1>1 DEF Sound, Open, InTransaction
<1>12. Listed'
  BY <1>1, <1>2 DEF Sound, Listed, InTransaction
<1>13. Halfway'
  <2>1. pc \notin InTransaction
    BY <1>1 DEF Sound, Open
  <2>2. Table' = Table
    BY <1>1 DEF Table
  <2>3. pc = "begin" => existing = catalog[Table.name]
    BY DEF Sound, Halfway
  <2> QED
    BY <1>1, <2>1, <2>2, <2>3 DEF Halfway, InTransaction
<1> QED
  BY <1>7, <1>9, <1>10, <1>11, <1>12, <1>13 DEF Sound, Public!Next

\* Quiet keeps Sound.
LEMMA QuietStep ==
    ASSUME Sound, UNCHANGED vars
    PROVE  Sound' /\ UNCHANGED Seen
PROOF
<1>1. UNCHANGED <<dialect, schema, catalog, rows, saved, foreignKeys, pc, todo, existing, result>>
  BY DEF vars
<1>2. Committed.catalog' = Committed.catalog /\ Committed.rows' = Committed.rows
  BY <1>1, CommittedIs, CommittedIsNext
<1>3. Open'
  BY <1>1 DEF Sound, Open, InTransaction
<1>4. Listed'
  BY <1>1, <1>2 DEF Sound, Listed, InTransaction
<1>5. Halfway'
  <2>1. Table' = Table
    BY <1>1 DEF Table
  <2>2. CopyOf(saved.rows[Table.name])' = CopyOf(saved.rows[Table.name])
    BY <1>1, <2>1 DEF CopyOf, Copied
  <2> QED
    BY <1>1, <2>1, <2>2 DEF Sound, Halfway
<1> QED
  BY <1>1, <1>2, <1>3, <1>4, <1>5, Unseen

-----------------------------------------------------------------------------
(* The theorems. *)

\* The first state is sound, and as SafeMigration has it.
LEMMA SoundAtFirst ==
    ASSUME Init
    PROVE  Sound /\ Public!Init
PROOF
<1>1. PICK i \in Instances : /\ dialect = i.dialect /\ schema = i.schema
                             /\ catalog = i.catalog /\ rows = i.rows
                             /\ saved = None /\ foreignKeys = TRUE /\ pc = "done" /\ todo = <<>>
  BY DEF Init
<1>2. Committed.catalog = catalog /\ Committed.rows = rows
  BY <1>1, CommittedIs
<1>3. Parsed
  BY <1>1, InstancesAssumption DEF Parsed, Declared
<1>4. Whole(catalog, rows)
  BY <1>1, InstancesAssumption DEF Whole, Shaped
<1>5. Open
  BY <1>1 DEF Open, InTransaction
<1>6. Listed
  BY <1>1 DEF Listed, InTransaction
<1>7. Halfway
  BY <1>1 DEF Halfway
<1>8. Public!Init
  BY <1>2, <1>4 DEF Public!Init, Whole
<1> QED
  BY <1>2, <1>3, <1>4, <1>5, <1>6, <1>7, <1>8 DEF Sound

\* Every step keeps the database sound, and is for the others a step of
\* SafeMigration or none.
LEMMA SoundNext ==
    ASSUME NoneIsNoDatabase, Sound, [Next]_vars
    PROVE  Sound' /\ (Public!Next \/ UNCHANGED Seen)
PROOF
<1>1. ASSUME NEW r \in BOOLEAN, Start(r) PROVE Sound' /\ UNCHANGED Seen
  BY <1>1, StartStep
<1>2. CASE ReadTable BY <1>2, ReadTableStep
<1>3. CASE AddMissing BY <1>3, AddMissingStep
<1>4. CASE NextTable BY <1>4, NextTableStep
<1>5. CASE AdditiveDone BY <1>5, AdditiveDoneStep
<1>6. CASE CheckTable BY <1>6, CheckTableStep
<1>7. CASE CreateTmp BY <1>7, CreateTmpStep
<1>8. CASE CopyRows BY <1>8, CopyRowsStep
<1>9. CASE DropOld BY <1>9, DropOldStep
<1>10. CASE RenameTmp BY <1>10, RenameTmpStep
<1>11. CASE Commit BY <1>11, CommitStep
<1>12. CASE CommitFails BY <1>12, CommitFailsStep
<1>13. CASE StepFails BY <1>13, StepFailsStep
<1>14. CASE Rollback BY <1>14, RollbackStep
<1>15. CASE RebuildDone BY <1>15, RebuildDoneStep
<1>16. CASE Restore BY <1>16, RestoreStep
<1>17. CASE Crash BY <1>17, CrashStep
<1>18. CASE AppInserts BY <1>18, AppInsertsStep
<1>19. CASE UNCHANGED vars BY <1>19, QuietStep
<1> QED
  BY <1>1, <1>2, <1>3, <1>4, <1>5, <1>6, <1>7, <1>8, <1>9, <1>10, <1>11, <1>12, <1>13,
     <1>14, <1>15, <1>16, <1>17, <1>18, <1>19
     DEF Next, Migrating, Quiet

\* Whatever the schemas, the databases and the faults: wherever a run is, the
\* committed database is whole, and the rebuild of a table has come exactly as
\* far as it says (migrate_inner and migrate_rebuild, db.rs:648-889).
THEOREM SoundHolds ==
    ASSUME NoneIsNoDatabase
    PROVE  Spec => []Sound
PROOF
<1>1. Init => Sound
  BY SoundAtFirst
<1>2. Sound /\ [Next]_vars => Sound'
  BY SoundNext
<1> QED
  BY <1>1, <1>2, PTL DEF Spec

\* However a run ends, by success, by any error, by a statement that failed or
\* by the end of the process, foreign keys are checked again and no
\* transaction is open, but for a COMMIT that failed (migrate_rebuild,
\* db.rs:815-889).
THEOREM ConnectionRestoredHolds ==
    ASSUME NoneIsNoDatabase
    PROVE  Spec => []ConnectionRestored
PROOF
<1>1. Sound => ConnectionRestored
  BY DEF Sound, Open, ConnectionRestored, InTransaction
<1> QED
  BY <1>1, SoundHolds, PTL

\* For every parsed schema, every database and every point at which a run
\* fails or dies: what the other connections see goes from shape to shape one
\* whole table at a time, never away from the schema, and no row and no value
\* the schema keeps is lost (db.rs:797-800).
THEOREM ImplementsSafeMigrationHolds ==
    ASSUME NoneIsNoDatabase
    PROVE  Spec => ImplementsSafeMigration
PROOF
<1>1. Init => Public!Init
  BY SoundAtFirst
<1>2. Sound /\ [Next]_vars => Public!Next \/ UNCHANGED Seen
  BY SoundNext
<1>3. Spec => []Sound
  BY SoundHolds
<1>4. UNCHANGED Seen <=> UNCHANGED <<dialect, schema, Committed.catalog, Committed.rows>>
  BY DEF Seen
<1> QED
  BY <1>1, <1>2, <1>3, <1>4, PTL DEF Spec, ImplementsSafeMigration, Public!Spec

-----------------------------------------------------------------------------
(* What a run reports. *)

\* The pass is at the k-th table of the order: those from it on are left.
Reached(k) ==
    LET order == DependencyOrder(schema)
    IN /\ k \in 1..(Len(order) + 1) /\ Len(todo) = Len(order) + 1 - k
       /\ \A i \in 1..Len(todo) : todo[i] = order[k - 1 + i]

\* What the additive pass gives a table, and what a rebuild does.
Filled(t) == t.name \in DOMAIN catalog /\ ToSet(Names(t.columns)) \subseteq Columns(catalog[t.name])
Agrees(t) == ProblemsOf(dialect, t, Committed.catalog[t.name]) = {}

\* The tables that a pass has behind it have got it.
Behind ==
    LET order == DependencyOrder(schema)
    IN /\ pc = "additive" =>
            \E k \in 1..(Len(order) + 1) : Reached(k) /\ \A j \in 1..(k - 1) : Filled(order[j])
       /\ pc \in {"rebuild", "begin", "copy", "drop", "rename", "commit"} =>
            \E k \in 1..(Len(order) + 1) : Reached(k) /\ \A j \in 1..(k - 1) : Agrees(order[j])

\* A run has a result only when it is over, or on its way out.
Reported ==
    /\ pc \in {"rebuild", "begin"} \cup InTransaction => rebuild
    /\ pc \notin {"done", "restore", "rollback"} => result = None
    /\ pc = "rollback" => result # "ok"
    /\ result = "ok" => IF rebuild THEN \A t \in ToSet(schema) : t.name \in DOMAIN catalog /\ Agrees(t)
                                   ELSE \A t \in ToSet(schema) : Filled(t)
    /\ result = "no parent" => Cyclic

\* The columns added in this run are there, and so are those that were read of
\* the table at hand.
Added ==
    /\ applied \in Seq(ToSet(applied))
    /\ pc = "additive" =>
         \A s \in ToSet(applied) : s[1] = "add" => s[2] \in DOMAIN catalog /\ s[3] \in Columns(catalog[s[2]])
    /\ pc = "additive" /\ existing # None => Columns(existing) \subseteq Columns(catalog[todo[1].name])

Progress == Behind /\ Reported /\ Added

\* The next of the tables left is the k-th, and it is the next to be behind.
LEMMA ReachedTable ==
    ASSUME Parsed, Listed, NEW k, Reached(k), todo # <<>>
    PROVE  /\ k \in 1..Len(DependencyOrder(schema)) /\ todo[1] = DependencyOrder(schema)[k]
           /\ (todo' = Tail(todo) /\ schema' = schema) => Reached(k + 1)'
PROOF
<1>1. PICK o : o = DependencyOrder(schema)
  OBVIOUS
<1>2. PICK n \in Nat : n = Len(o) /\ DOMAIN o = 1..n
  <2>1. o \in Seq(ToSet(o))
    BY <1>1, OrderOfItself
  <2> QED
    BY <2>1
<1>3. PICK td : td = todo /\ td \in Seq(ToSet(o))
  BY <1>1 DEF Listed
<1>4. PICK m \in Nat : m = Len(td) /\ m > 0
  BY <1>3
<1>5. k \in 1..(n + 1) /\ m = n + 1 - k /\ \A i \in 1..m : td[i] = o[k - 1 + i]
  BY <1>1, <1>2, <1>3, <1>4 DEF Reached
<1>6. k \in 1..n /\ td[1] = o[k]
  <2>1. 1 \in 1..m /\ k - 1 + 1 = k
    BY <1>4, <1>5
  <2> QED
    BY <1>4, <1>5, <2>1
<1>7. Len(Tail(td)) = m - 1 /\ \A i \in 1..(m - 1) : Tail(td)[i] = td[i + 1]
  BY <1>3, <1>4
<1>8. ASSUME todo' = Tail(todo), schema' = schema PROVE Reached(k + 1)'
  <2>1. Len(Tail(td)) = n + 1 - (k + 1)
    <3>1. k \in Int /\ m = n + 1 - k
      BY <1>5
    <3>2. m - 1 = n + 1 - (k + 1)
      BY <3>1
    <3> QED
      BY <1>7, <3>2
  <2>2. \A i \in 1..(m - 1) : Tail(td)[i] = o[k + 1 - 1 + i]
    <3> TAKE i \in 1..(m - 1)
    <3>1. i + 1 \in 1..m
      OBVIOUS
    <3>2. td[i + 1] = o[k - 1 + (i + 1)]
      BY <1>5, <3>1
    <3>3. k - 1 + (i + 1) = k + 1 - 1 + i
      BY <1>5
    <3> QED
      BY <1>7, <3>2, <3>3
  <2>3. k + 1 \in 1..(n + 1)
    BY <1>6
  <2>4. todo' = Tail(td) /\ DependencyOrder(schema)' = o
    BY <1>1, <1>3, <1>8
  <2> QED
    BY <1>2, <1>7, <2>1, <2>2, <2>3, <2>4 DEF Reached
<1> QED
  BY <1>1, <1>2, <1>3, <1>6, <1>8

\* Who reaches the end of the order has all tables of the schema behind.
LEMMA ReachedEnd ==
    ASSUME Parsed, NEW k, Reached(k), todo = <<>>
    PROVE  \A t \in ToSet(schema) : \E j \in 1..(k - 1) : t = DependencyOrder(schema)[j]
PROOF
<1>1. PICK o : o = DependencyOrder(schema)
  OBVIOUS
<1>2. PICK n \in Nat : n = Len(o) /\ DOMAIN o = 1..n
  <2>1. o \in Seq(ToSet(o))
    BY <1>1, OrderOfItself
  <2> QED
    BY <2>1
<1>3. k = n + 1
  <2>1. k \in 1..(n + 1) /\ Len(todo) = n + 1 - k /\ Len(todo) = 0
    BY <1>1, <1>2 DEF Reached
  <2> QED
    BY <2>1
<1>4. ToSet(o) = ToSet(schema)
  <2>1. schema \in Seq(ToSet(schema))
    BY DEF Parsed
  <2> QED
    BY ONLY <2>1, <1>1, OrderFollows
<1>5. \A t \in ToSet(o) : \E j \in 1..n : t = o[j]
  BY <1>2 DEF ToSet
<1>6. k - 1 = n
  BY <1>2, <1>3
<1> QED
  BY <1>1, <1>4, <1>5, <1>6, Zenon

\* A new order, of a pass that starts.
LEMMA ReachedFirst ==
    ASSUME Parsed, schema' = schema, todo' = DependencyOrder(schema)
    PROVE  1 \in 1..(Len(DependencyOrder(schema)) + 1) /\ Reached(1)'
PROOF
<1>1. PICK o : o = DependencyOrder(schema)
  OBVIOUS
<1>2. Len(o) \in Nat
  <2>1. o \in Seq(ToSet(o))
    BY <1>1, OrderOfItself
  <2> QED
    BY <2>1
<1>3. todo' = o /\ DependencyOrder(schema)' = o
  BY <1>1
<1> QED
  BY <1>1, <1>2, <1>3 DEF Reached

\* The next table lacks a parent only if no order of the tables would do.
LEMMA NoParentIsCyclic ==
    ASSUME Parsed, Listed, todo # <<>>, NEW k, Reached(k),
           \A j \in 1..(k - 1) : DependencyOrder(schema)[j].name \in DOMAIN catalog,
           NEW p \in Parents(todo[1]), p \notin DOMAIN catalog
    PROVE  Cyclic
PROOF
<1>1. PICK o : o = DependencyOrder(schema)
  OBVIOUS
<1>2. k \in 1..Len(o) /\ todo[1] = o[k]
  BY <1>1, ReachedTable
<1>3. PICK W \in SUBSET ToSet(schema) : Waiting(schema, W) /\ InOrder(o, W)
  BY <1>1, OrderFollows DEF Parsed
<1>4. o[k] \in W
  <2>1. ~(Parents(o[k]) \subseteq {o[j].name : j \in 1..(k - 1)})
    BY <1>1, <1>2
  <2> QED
    BY <1>2, <1>3, <2>1 DEF InOrder
<1> QED
  BY <1>3, <1>4 DEF Cyclic, Waiting

-----------------------------------------------------------------------------
(* The steps, once more. *)

\* A run that ends otherwise than by success, or that goes on to its end.
LEMMA Ends ==
    ASSUME Progress, UNCHANGED <<schema, rebuild, applied>>,
           pc' \in {"rollback", "restore", "done"},
           pc' = "rollback" => pc \in {"begin"} \cup InTransaction,
           result' # "ok", result' = "no parent" => Cyclic
    PROVE  Progress'
PROOF
<1>1. Behind'
  BY DEF Behind
<1>2. Cyclic' = Cyclic
  BY DEF Cyclic
<1>3. Reported'
  BY <1>2 DEF Progress, Reported, InTransaction
<1>4. Added'
  BY DEF Progress, Added
<1> QED
  BY <1>1, <1>3, <1>4 DEF Progress

\* A step inside the rebuild of a table that the others do not see.
LEMMA Within ==
    ASSUME Progress, UNCHANGED <<dialect, schema, todo, rebuild, applied, result>>,
           Committed.catalog' = Committed.catalog,
           pc \in {"rebuild", "begin", "copy", "drop", "rename"},
           pc' \in {"begin", "copy", "drop", "rename", "commit"}
    PROVE  Progress'
PROOF
<1>1. PICK o : o = DependencyOrder(schema) /\ o = DependencyOrder(schema)'
  OBVIOUS
<1>2. PICK k \in 1..(Len(o) + 1) : Reached(k) /\ \A j \in 1..(k - 1) : Agrees(o[j])
  BY <1>1 DEF Progress, Behind
<1>3. Reached(k)' /\ \A j \in 1..(k - 1) : Agrees(o[j])'
  BY <1>2 DEF Reached, Agrees
<1>4. Behind'
  BY <1>1, <1>2, <1>3 DEF Behind
<1>5. Reported'
  <2>1. None # "ok" /\ None # "no parent"
    BY MigrateAssumption DEF Results
  <2> QED
    BY <2>1 DEF Progress, Reported, InTransaction
<1>6. Added'
  BY DEF Progress, Added
<1> QED
  BY <1>4, <1>5, <1>6 DEF Progress

\* A step that changes nothing the invariant is about but where the run is.
LEMMA Elsewhere ==
    ASSUME Progress, UNCHANGED <<dialect, schema, todo, existing, rebuild, applied, result, catalog>>,
           Committed.catalog' = Committed.catalog,
           pc' = pc \/ (pc = "restore" /\ pc' = "done")
    PROVE  Progress'
PROOF
<1>1. PICK o : o = DependencyOrder(schema) /\ o = DependencyOrder(schema)'
  OBVIOUS
<1>2. \A k : Reached(k)' = Reached(k)
  BY DEF Reached
<1>3. \A t : Agrees(t)' = Agrees(t) /\ Filled(t)' = Filled(t)
  BY DEF Agrees, Filled
<1>4. Behind'
  BY <1>1, <1>2, <1>3 DEF Progress, Behind
<1>5. Cyclic' = Cyclic
  BY DEF Cyclic
<1>6. Reported'
  BY <1>3, <1>5 DEF Progress, Reported, InTransaction
<1>7. Added'
  BY DEF Progress, Added
<1> QED
  BY <1>4, <1>6, <1>7 DEF Progress

\* A run starts with no table behind it.
LEMMA StartProgress ==
    ASSUME Sound, Progress, NEW r \in BOOLEAN, Start(r)
    PROVE  Progress'
PROOF
<1>1. /\ pc' = "additive" /\ result' = None /\ applied' = <<>> /\ existing' = None
      /\ todo' = DependencyOrder(schema) /\ schema' = schema
  BY DEF Start
<1>2. Reached(1)' /\ 1 \in 1..(Len(DependencyOrder(schema)) + 1)
  BY <1>1, ReachedFirst DEF Sound
<1>3. Behind'
  <2>1. 1..(1 - 1) = {}
    OBVIOUS
  <2>2. DependencyOrder(schema)' = DependencyOrder(schema)
    BY <1>1
  <2> QED
    BY <1>1, <1>2, <2>1, <2>2 DEF Behind
<1>4. None # "ok" /\ None # "no parent"
  BY MigrateAssumption DEF Results
<1>5. Reported'
  BY <1>1, <1>4 DEF Reported, InTransaction
<1>6. Added'
  <2>1. ToSet(<<>>) = {} /\ <<>> \in Seq({})
    BY DEF ToSet
  <2> QED
    BY <1>1, <2>1 DEF Added
<1> QED
  BY <1>3, <1>5, <1>6 DEF Progress

\* The tables behind stay filled when columns are only added.
LEMMA StayFilled ==
    ASSUME \A n \in DOMAIN catalog : n \in DOMAIN catalog' /\ Columns(catalog[n]) \subseteq Columns(catalog'[n]),
           NEW t, Filled(t)
    PROVE  Filled(t)'
PROOF
<1>1. t.name \in DOMAIN catalog /\ ToSet(Names(t.columns)) \subseteq Columns(catalog[t.name])
  BY DEF Filled
<1>2. t.name \in DOMAIN catalog' /\ ToSet(Names(t.columns)) \subseteq Columns(catalog'[t.name])
  BY <1>1
<1>3. Columns(catalog[t.name])' = Columns(catalog'[t.name])
  BY DEF Columns
<1> QED
  BY <1>2, <1>3 DEF Filled

\* A table that is created is filled; one that cannot be waits for its parent.
LEMMA ReadTableProgress ==
    ASSUME Sound, Progress, ReadTable
    PROVE  Progress'
PROOF
<1>1. /\ pc = "additive" /\ existing = None /\ todo # <<>>
      /\ UNCHANGED <<dialect, schema, saved, rebuild>>
  BY DEF ReadTable
<1>2. PICK t \in ToSet(schema) : t = todo[1] /\ Declared(t)
  BY <1>1, TheNextTable DEF Sound, Parsed
<1>3. PICK o : o = DependencyOrder(schema) /\ o = DependencyOrder(schema)'
  BY <1>1
<1>4. PICK k \in 1..(Len(o) + 1) : Reached(k) /\ \A j \in 1..(k - 1) : Filled(o[j])
  BY <1>1, <1>3 DEF Progress, Behind
<1>5. result = None /\ applied \in Seq(ToSet(applied))
  BY <1>1 DEF Progress, Reported, Added
<1>6. None # "ok" /\ None # "no parent"
  BY MigrateAssumption DEF Results
<1>7. CASE t.name \in DOMAIN catalog
  <2>1. existing' = catalog[t.name] /\ UNCHANGED <<catalog, rows, pc, todo, applied, result>>
    BY <1>2, <1>7 DEF ReadTable, database
  <2>2. Reached(k)' /\ \A j \in 1..(k - 1) : Filled(o[j])'
    BY <1>1, <1>4, <2>1 DEF Reached, Filled
  <2>3. Behind'
    BY <1>1, <1>3, <1>4, <2>1, <2>2 DEF Behind
  <2>4. Reported'
    BY <1>1, <1>5, <1>6, <2>1 DEF Reported, InTransaction
  <2>5. Added'
    BY <1>1, <1>2, <2>1 DEF Progress, Added
  <2> QED
    BY <2>3, <2>4, <2>5 DEF Progress
<1>8. CASE t.name \notin DOMAIN catalog
  <2>1. PICK shape : shape = CreateTable(dialect, t) /\ shape.fks = ForeignKeys(t)
                     /\ Columns(shape) = ToSet(Names(t.columns))
    BY <1>2, CreatedColumns DEF Declared
  <2>2. CASE ParentsThere(shape.fks, t.name)
    <3>1. /\ catalog' = With(catalog, t.name, shape) /\ todo' = Tail(todo)
          /\ applied' = Append(applied, <<"create", t.name>>) /\ UNCHANGED <<existing, pc, result>>
      BY <1>2, <1>8, <2>1, <2>2 DEF ReadTable
    <3>2. DOMAIN catalog' = DOMAIN catalog \cup {t.name} /\ catalog'[t.name] = shape
          /\ \A n \in DOMAIN catalog : catalog'[n] = catalog[n]
      BY <1>8, <3>1 DEF With
    <3>3. \A j \in 1..(k - 1) : Filled(o[j])'
      BY <1>4, <3>2, StayFilled
    <3>4. Filled(t)'
      BY <2>1, <3>2 DEF Filled, Columns
    <3>5. k \in 1..Len(o) /\ t = o[k] /\ Reached(k + 1)'
      BY <1>1, <1>2, <1>3, <1>4, <3>1, ReachedTable DEF Sound
    <3>6. \A j \in 1..(k + 1 - 1) : j \in 1..(k - 1) \/ j = k
      BY <1>4
    <3>7. Behind'
      <4>1. k + 1 \in 1..(Len(o) + 1)
        BY <3>5
      <4>2. \A j \in 1..(k + 1 - 1) : Filled(o[j])'
        BY <3>3, <3>4, <3>5, <3>6
      <4> QED
        BY <1>1, <1>3, <3>1, <3>5, <4>1, <4>2 DEF Behind
    <3>8. Reported'
      BY <1>1, <1>5, <1>6, <3>1 DEF Reported, InTransaction
    <3>9. Added'
      <4>1. /\ ToSet(applied') = ToSet(applied) \cup {<<"create", t.name>>}
            /\ applied' \in Seq(ToSet(applied'))
        BY <1>5, <3>1, AppendElements
      <4>2. \A s \in ToSet(applied) : s[1] = "add" => s[2] \in DOMAIN catalog /\ s[3] \in Columns(catalog[s[2]])
        BY <1>1 DEF Progress, Added
      <4>3. \A s \in ToSet(applied') : s[1] = "add" => s[2] \in DOMAIN catalog' /\ s[3] \in Columns(catalog'[s[2]])
        BY <3>2, <4>1, <4>2
      <4> QED
        BY <1>1, <3>1, <4>1, <4>3 DEF Added, Columns, ToSet
    <3> QED
      BY <3>7, <3>8, <3>9 DEF Progress
  <2>3. CASE ~ParentsThere(shape.fks, t.name)
    <3>1. pc' = "done" /\ result' = "no parent" /\ UNCHANGED <<applied, todo>>
      BY <1>2, <1>8, <2>1, <2>3 DEF ReadTable, Finish
    <3>2. PICK fk \in ToSet(ForeignKeys(t)) : fk.table \notin DOMAIN catalog \cup {t.name}
      BY <2>1, <2>3 DEF ParentsThere
    <3>3. fk.table \in Parents(t)
      BY <3>2 DEF Parents
    <3>4. \A j \in 1..(k - 1) : o[j].name \in DOMAIN catalog
      BY <1>4 DEF Filled
    <3>5. Cyclic
      BY <1>1, <1>2, <1>3, <1>4, <3>2, <3>3, <3>4, NoParentIsCyclic DEF Sound
    <3> QED
      BY <1>1, <3>1, <3>5, Ends
  <2> QED
    BY <2>2, <2>3
<1> QED
  BY <1>7, <1>8

\* A column that is added is one less to be missing; no table behind loses any.
LEMMA AddMissingProgress ==
    ASSUME Sound, Progress, AddMissing
    PROVE  Progress'
PROOF
<1>1. /\ pc = "additive" /\ existing # None /\ Lacking # <<>>
      /\ UNCHANGED <<dialect, schema, rebuild, todo, existing>>
  BY DEF AddMissing
<1>2. todo # <<>> /\ todo[1].name \in DOMAIN catalog
  BY <1>1 DEF Sound, Listed
<1>3. PICK t \in ToSet(schema) : t = todo[1] /\ Declared(t)
  BY <1>2, TheNextTable DEF Sound, Parsed
<1>4. PICK col : col = Lacking[1]
  OBVIOUS
<1>5. col \in ToSet(t.columns)
  <2>1. PICK keep : Lacking = Filtered(t.columns, keep)
    BY <1>3 DEF Lacking
  <2>2. Lacking \in Seq(ToSet(t.columns))
    BY <1>3, <2>1, FilteredElements DEF Declared
  <2> QED
    BY <1>1, <1>4, <2>2
<1>6. PICK failed : failed = IF col.pk THEN "primary key" ELSE AddFails(t.name, col)
  OBVIOUS
<1>7. PICK o : o = DependencyOrder(schema) /\ o = DependencyOrder(schema)'
  BY <1>1
<1>8. PICK k \in 1..(Len(o) + 1) : Reached(k) /\ \A j \in 1..(k - 1) : Filled(o[j])
  BY <1>1, <1>7 DEF Progress, Behind
<1>9. result = None /\ applied \in Seq(ToSet(applied))
  BY <1>1 DEF Progress, Reported, Added
<1>10. None # "ok" /\ None # "no parent" /\ None # "primary key" /\ None # "duplicate column"
  BY MigrateAssumption DEF Results
<1>11. CASE failed # None
  <2>1. pc' = "done" /\ result' = failed /\ catalog' = catalog
    BY <1>3, <1>4, <1>6, <1>11 DEF AddMissing, Finish, database
  <2>2. failed # "ok"
    BY <1>6, <1>10 DEF AddFails
  <2>3. ASSUME failed = "no parent" PROVE Cyclic
    <3>1. col.ref # <<>> /\ ~ParentsThere(<<[table |-> col.ref[1]]>>, t.name)
      BY <1>6, <1>10, <2>3 DEF AddFails
    <3>2. col.ref[1] \notin DOMAIN catalog \cup {t.name}
      BY <3>1 DEF ParentsThere, ToSet
    <3>3. PICK fk \in ToSet(ForeignKeys(t)) : fk.table = col.ref[1]
      <4>1. PICK key : key = [from |-> <<col.name>>, table |-> col.ref[1], to |-> <<col.ref[2]>>]
        OBVIOUS
      <4>2. key \in ToSet(ForeignKeys(t))
        BY <1>3, <1>5, <3>1, <4>1, OwnReference
      <4>3. key.table = col.ref[1]
        BY <4>1
      <4> QED
        BY <4>2, <4>3
    <3>4. fk.table \in Parents(t)
      BY <3>2, <3>3 DEF Parents
    <3>5. \A j \in 1..(k - 1) : o[j].name \in DOMAIN catalog
      BY <1>8 DEF Filled
    <3> QED
      BY <1>2, <1>3, <1>7, <1>8, <3>2, <3>3, <3>4, <3>5, NoParentIsCyclic DEF Sound
  <2>4. Behind'
    BY <2>1 DEF Behind
  <2>5. Cyclic' = Cyclic
    BY <1>1 DEF Cyclic
  <2>6. Reported'
    BY <2>1, <2>2, <2>3, <2>5 DEF Reported, InTransaction
  <2>7. Added'
    <3>1. applied' = applied \/ applied' = Append(applied, <<"give up", t.name, col.name>>)
      BY <1>3, <1>4, <1>6, <1>11 DEF AddMissing
    <3>2. applied' \in Seq(ToSet(applied'))
      BY <1>9, <3>1, AppendElements
    <3> QED
      BY <2>1, <3>2 DEF Added, ToSet
  <2> QED
    BY <2>4, <2>6, <2>7 DEF Progress
<1>12. CASE failed = None
  <2>1. PICK shape : shape = AddColumn(dialect, catalog[t.name], col)
    OBVIOUS
  <2>2. /\ catalog' = [catalog EXCEPT ![t.name] = shape]
        /\ applied' = Append(applied, <<"add", t.name, col.name>>)
        /\ UNCHANGED <<pc, result>>
    BY <1>3, <1>4, <1>6, <1>12, <2>1 DEF AddMissing
  <2>3. Columns(shape) = Columns(catalog[t.name]) \cup {col.name}
    <3>1. Shaped(catalog[t.name])
      <4>1. saved = None
        BY <1>1 DEF Sound, Open, InTransaction
      <4> QED
        BY <1>2, <1>3, <4>1, CommittedIs DEF Sound, Whole
    <3> QED
      BY <2>1, <3>1, AddedColumn
  <2>4. DOMAIN catalog' = DOMAIN catalog /\ catalog'[t.name] = shape
        /\ \A n \in DOMAIN catalog : n # t.name => catalog'[n] = catalog[n]
    BY <1>2, <1>3, <2>2
  <2>5. \A n \in DOMAIN catalog : n \in DOMAIN catalog' /\ Columns(catalog[n]) \subseteq Columns(catalog'[n])
    BY <2>3, <2>4
  <2>6. \A j \in 1..(k - 1) : Filled(o[j])'
    BY <1>8, <2>5, StayFilled
  <2>7. Reached(k)'
    BY <1>1, <1>8 DEF Reached
  <2>8. Behind'
    BY <1>1, <1>7, <1>8, <2>2, <2>6, <2>7 DEF Behind
  <2>9. Reported'
    BY <1>1, <1>9, <1>10, <2>2 DEF Reported, InTransaction
  <2>10. Added'
    <3>1. /\ ToSet(applied') = ToSet(applied) \cup {<<"add", t.name, col.name>>}
          /\ applied' \in Seq(ToSet(applied'))
      BY <1>9, <2>2, AppendElements
    <3>2. \A s \in ToSet(applied) : s[1] = "add" => s[2] \in DOMAIN catalog /\ s[3] \in Columns(catalog[s[2]])
      BY <1>1 DEF Progress, Added
    <3>3. t.name \in DOMAIN catalog' /\ col.name \in Columns(catalog'[t.name])
      BY <1>2, <1>3, <2>3, <2>4
    <3>4. \A s \in ToSet(applied') : s[1] = "add" => s[2] \in DOMAIN catalog' /\ s[3] \in Columns(catalog'[s[2]])
      <4> TAKE s \in ToSet(applied')
      <4>1. CASE s \in ToSet(applied)
        BY <2>5, <3>2, <4>1
      <4>2. CASE s = <<"add", t.name, col.name>>
        BY <3>3, <4>2
      <4> QED
        BY <3>1, <4>1, <4>2
    <3>5. Columns(existing) \subseteq Columns(catalog'[todo[1].name])
      BY <1>1, <1>2, <2>5 DEF Progress, Added
    <3>6. /\ \A n : Columns(catalog[n])' = Columns(catalog'[n])
          /\ Columns(existing)' = Columns(existing) /\ ToSet(applied)' = ToSet(applied')
      BY <1>1 DEF Columns, ToSet, Names
    <3>7. \A s \in ToSet(applied)' : s[1] = "add" => s[2] \in DOMAIN catalog' /\ s[3] \in Columns(catalog[s[2]])'
      BY <3>4, <3>6
    <3>8. Columns(existing)' \subseteq Columns(catalog[todo[1].name])'
      <4>1. todo'[1].name = todo[1].name /\ Columns(catalog[todo[1].name])' = Columns(catalog'[todo[1].name])
        BY <1>1 DEF Columns
      <4> QED
        BY <3>5, <3>6, <4>1
    <3>9. applied' \in Seq(ToSet(applied)')
      BY <3>1, <3>6
    <3> QED
      BY <3>7, <3>8, <3>9 DEF Added
  <2> QED
    BY <2>8, <2>9, <2>10 DEF Progress
<1> QED
  BY <1>11, <1>12

\* Nothing that the table lacks is left: it is filled.
LEMMA NextTableProgress ==
    ASSUME Sound, Progress, NextTable
    PROVE  Progress'
PROOF
<1>1. /\ pc = "additive" /\ existing # None /\ Lacking = <<>> /\ todo' = Tail(todo) /\ existing' = None
      /\ UNCHANGED <<dialect, schema, catalog, rebuild, pc, applied, result>>
  BY DEF NextTable, database
<1>2. todo # <<>> /\ todo[1].name \in DOMAIN catalog
  BY <1>1 DEF Sound, Listed
<1>3. PICK t \in ToSet(schema) : t = todo[1] /\ Declared(t)
  BY <1>2, TheNextTable DEF Sound, Parsed
<1>4. PICK o : o = DependencyOrder(schema) /\ o = DependencyOrder(schema)'
  BY <1>1
<1>5. PICK k \in 1..(Len(o) + 1) : Reached(k) /\ \A j \in 1..(k - 1) : Filled(o[j])
  BY <1>1, <1>4 DEF Progress, Behind
<1>6. k \in 1..Len(o) /\ t = o[k] /\ Reached(k + 1)'
  BY <1>1, <1>2, <1>3, <1>4, <1>5, ReachedTable DEF Sound
<1>7. Filled(t)
  <2>1. PICK keep : keep = {i \in DOMAIN t.columns :
                              /\ t.columns[i].name \notin Columns(existing)
                              /\ <<"add", t.name, t.columns[i].name>> \notin ToSet(applied)}
    OBVIOUS
  <2>2. Filtered(t.columns, keep) = <<>>
    BY <1>1, <1>3, <2>1 DEF Lacking
  <2>3. {t.columns[i] : i \in keep \cap DOMAIN t.columns} = {}
    <3>1. ToSet(<<>>) = {}
      BY DEF ToSet
    <3>2. t.columns \in Seq(ToSet(t.columns))
      BY <1>3 DEF Declared
    <3>3. ToSet(Filtered(t.columns, keep)) = {t.columns[i] : i \in keep \cap DOMAIN t.columns}
      BY <3>2, FilteredElements, Zenon
    <3> QED
      BY <2>2, <3>1, <3>3, Zenon
  <2>4. ASSUME NEW i \in DOMAIN t.columns PROVE t.columns[i].name \in Columns(catalog[t.name])
    <3>1. i \notin keep
      BY <2>3
    <3>2. CASE t.columns[i].name \in Columns(existing)
      BY <1>1, <1>3, <3>2 DEF Progress, Added
    <3>3. CASE <<"add", t.name, t.columns[i].name>> \in ToSet(applied)
      <4>1. PICK s \in ToSet(applied) : s[1] = "add" /\ s[2] = t.name /\ s[3] = t.columns[i].name
        BY <3>3
      <4> QED
        BY <1>1, <4>1 DEF Progress, Added
    <3> QED
      BY <2>1, <3>1, <3>2, <3>3
  <2>5. \A n \in ToSet(Names(t.columns)) : n \in Columns(catalog[t.name])
    BY <2>4 DEF ToSet, Names
  <2> QED
    BY <1>2, <1>3, <2>5 DEF Filled
<1>8. \A j \in 1..(k + 1 - 1) : Filled(o[j])'
  <2>1. \A j \in 1..(k + 1 - 1) : j \in 1..(k - 1) \/ j = k
    BY <1>5
  <2>2. \A j \in 1..(k + 1 - 1) : Filled(o[j])
    BY <1>5, <1>6, <1>7, <2>1
  <2> QED
    BY <1>1, <2>2 DEF Filled
<1>9. Behind'
  <2>1. k + 1 \in 1..(Len(o) + 1)
    BY <1>6
  <2> QED
    BY <1>1, <1>4, <1>6, <1>8, <2>1 DEF Behind
<1>10. Reported'
  <2>1. None # "ok" /\ None # "no parent"
    BY MigrateAssumption DEF Results
  <2> QED
    BY <1>1, <2>1 DEF Progress, Reported, InTransaction
<1>11. Added'
  BY <1>1 DEF Progress, Added, Columns, ToSet
<1> QED
  BY <1>9, <1>10, <1>11 DEF Progress

\* A plain run is over, and every table is filled; or the rebuild begins.
LEMMA AdditiveDoneProgress ==
    ASSUME Sound, Progress, AdditiveDone
    PROVE  Progress'
PROOF
<1>1. /\ pc = "additive" /\ todo = <<>>
      /\ UNCHANGED <<dialect, schema, catalog, saved, rebuild, existing, applied>>
  BY DEF AdditiveDone, database
<1>2. PICK o : o = DependencyOrder(schema) /\ o = DependencyOrder(schema)'
  BY <1>1
<1>3. PICK k \in 1..(Len(o) + 1) : Reached(k) /\ \A j \in 1..(k - 1) : Filled(o[j])
  BY <1>1, <1>2 DEF Progress, Behind
<1>4. \A t \in ToSet(schema) : Filled(t)
  <2>1. \A t \in ToSet(schema) : \E j \in 1..(k - 1) : t = o[j]
    BY <1>1, <1>2, <1>3, ReachedEnd DEF Sound
  <2> QED
    BY <1>3, <2>1
<1>5. result = None /\ None # "ok" /\ None # "no parent"
  BY <1>1, MigrateAssumption DEF Progress, Reported, Results
<1>6. Added'
  <2>1. pc' # "additive"
    BY DEF AdditiveDone, Finish
  <2> QED
    BY <1>1, <2>1 DEF Progress, Added
<1>7. CASE rebuild /\ dialect = "sqlite"
  <2>1. pc' = "rebuild" /\ todo' = DependencyOrder(schema) /\ result' = result
    BY <1>7 DEF AdditiveDone
  <2>2. 1 \in 1..(Len(o) + 1) /\ Reached(1)'
    BY <1>1, <1>2, <2>1, ReachedFirst DEF Sound
  <2>3. 1..(1 - 1) = {}
    OBVIOUS
  <2>4. Behind'
    BY <1>2, <2>1, <2>2, <2>3 DEF Behind
  <2>5. Reported'
    BY <1>1, <1>5, <1>7, <2>1 DEF Reported, InTransaction
  <2> QED
    BY <1>6, <2>4, <2>5 DEF Progress
<1>8. CASE ~(rebuild /\ dialect = "sqlite")
  <2>1. pc' = "done" /\ result' = IF rebuild THEN "sqlite only" ELSE "ok"
    BY <1>8 DEF AdditiveDone, Finish
  <2>2. Behind'
    BY <2>1 DEF Behind
  <2>3. ~rebuild => \A t \in ToSet(schema)' : Filled(t)'
    BY <1>1, <1>4 DEF Filled
  <2>4. Reported'
    BY <1>1, <2>1, <2>3 DEF Reported, InTransaction
  <2> QED
    BY <1>6, <2>2, <2>4 DEF Progress
<1> QED
  BY <1>7, <1>8

\* A table that is in sync is behind at once.
LEMMA CheckTableProgress ==
    ASSUME Sound, Progress, CheckTable
    PROVE  Progress'
PROOF
<1>1. /\ pc = "rebuild" /\ todo # <<>> /\ saved = None
      /\ UNCHANGED <<dialect, schema, catalog, saved, rebuild, applied, result>>
  BY DEF CheckTable, Rebuilding, database, Sound, Open, InTransaction
<1>2. Committed.catalog' = Committed.catalog /\ Committed.catalog = catalog
  BY <1>1, CommittedIs, CommittedIsNext
<1>3. CASE ProblemsOf(dialect, Table, Shape(Table.name)) # {}
  <2>1. pc' = "begin" /\ todo' = todo
    BY <1>1, <1>3 DEF CheckTable
  <2> QED
    BY <1>1, <1>2, <2>1, Within
<1>4. CASE ProblemsOf(dialect, Table, Shape(Table.name)) = {}
  <2>1. pc' = pc /\ todo' = Tail(todo)
    BY <1>1, <1>4 DEF CheckTable
  <2>2. PICK o : o = DependencyOrder(schema) /\ o = DependencyOrder(schema)'
    BY <1>1
  <2>3. PICK k \in 1..(Len(o) + 1) : Reached(k) /\ \A j \in 1..(k - 1) : Agrees(o[j])
    BY <1>1, <2>2 DEF Progress, Behind
  <2>4. k \in 1..Len(o) /\ Table = o[k] /\ Reached(k + 1)'
    BY <1>1, <2>1, <2>2, <2>3, ReachedTable DEF Sound, Table
  <2>5. Agrees(Table)
    <3>1. Shape(Table.name) = Committed.catalog[Table.name]
      BY <1>1, <1>2, TheTable DEF Shape
    <3> QED
      BY <1>4, <3>1 DEF Agrees
  <2>6. \A j \in 1..(k + 1 - 1) : Agrees(o[j])'
    <3>1. \A j \in 1..(k + 1 - 1) : j \in 1..(k - 1) \/ j = k
      BY <2>3
    <3>2. \A j \in 1..(k + 1 - 1) : Agrees(o[j])
      BY <2>3, <2>4, <2>5, <3>1
    <3> QED
      BY <1>1, <1>2, <3>2 DEF Agrees
  <2>7. Behind'
    <3>1. k + 1 \in 1..(Len(o) + 1)
      BY <2>4
    <3> QED
      BY <1>1, <2>1, <2>2, <2>4, <2>6, <3>1 DEF Behind
  <2>8. Reported'
    <3>1. None # "ok" /\ None # "no parent"
      BY MigrateAssumption DEF Results
    <3> QED
      BY <1>1, <2>1, <3>1 DEF Progress, Reported, InTransaction
  <2>9. Added'
    BY <1>1, <2>1 DEF Progress, Added
  <2> QED
    BY <2>7, <2>8, <2>9 DEF Progress
<1> QED
  BY <1>3, <1>4

\* The statements of a rebuild, up to its COMMIT, which the others do not see.
LEMMA StatementProgress ==
    ASSUME NoneIsNoDatabase, Sound, Progress, CreateTmp \/ CopyRows \/ DropOld \/ RenameTmp
    PROVE  Progress'
PROOF
<1>1. UNCHANGED <<dialect, schema, todo, rebuild, applied>>
  BY DEF CreateTmp, CopyRows, DropOld, RenameTmp, Rebuilding
<1>2. Committed.catalog' = Committed.catalog
  BY CreateTmpStep, CopyRowsStep, DropOldStep, RenameTmpStep DEF Seen
<1>3. CASE pc' = "rollback"
  <2>1. pc = "copy" /\ result' \in {"keys collide", "null refused"}
    BY <1>3 DEF CreateTmp, CopyRows, DropOld, RenameTmp, Rebuilding
  <2> QED
    BY <1>1, <1>3, <2>1, Ends DEF InTransaction
<1>4. CASE pc' # "rollback"
  <2>1. /\ result' = result /\ pc \in {"begin", "copy", "drop", "rename"}
        /\ pc' \in {"copy", "drop", "rename", "commit"}
    BY <1>4 DEF CreateTmp, CopyRows, DropOld, RenameTmp, Rebuilding
  <2> QED
    BY <1>1, <1>2, <2>1, Within
<1> QED
  BY <1>3, <1>4

\* The table that was rebuilt is in sync, and no other has changed.
LEMMA CommitProgress ==
    ASSUME Sound, Progress, Commit
    PROVE  Progress'
PROOF
<1>1. /\ pc = "commit" /\ pc' = "rebuild" /\ saved # None /\ saved' = None /\ todo # <<>>
      /\ todo' = Tail(todo)
      /\ UNCHANGED <<dialect, schema, catalog, rebuild, applied, result>>
  BY DEF Commit, Rebuilding, database, Sound, Open, Listed, InTransaction
<1>2. PICK t \in ToSet(schema) : t = Table /\ Declared(t) /\ dialect \in Dialects
  BY <1>1, TheTable DEF InTransaction
<1>3. PICK c : c = saved.catalog /\ Committed.catalog = c /\ Committed.catalog' = catalog
  BY <1>1, CommittedIs, CommittedIsNext
<1>4. PICK shape : shape = CreateTable(dialect, t) /\ catalog = With(c, t.name, shape)
  BY <1>1, <1>2, <1>3 DEF Sound, Halfway
<1>5. PICK o : o = DependencyOrder(schema) /\ o = DependencyOrder(schema)'
  BY <1>1
<1>6. PICK k \in 1..(Len(o) + 1) : Reached(k) /\ \A j \in 1..(k - 1) : Agrees(o[j])
  BY <1>1, <1>5 DEF Progress, Behind
<1>7. k \in 1..Len(o) /\ t = o[k] /\ Reached(k + 1)'
  BY <1>1, <1>2, <1>5, <1>6, ReachedTable DEF Sound, Table
<1>8. Agrees(t)'
  <2>1. ProblemsOf(dialect, t, shape) = {}
    BY <1>2, <1>4, CreatedInSync
  <2>2. catalog[t.name] = shape
    BY <1>4 DEF With
  <2> QED
    BY <1>1, <1>3, <2>1, <2>2 DEF Agrees
<1>9. ASSUME NEW u \in ToSet(schema), Agrees(u), u.name \in DOMAIN c PROVE Agrees(u)'
  <2>1. CASE u.name = t.name
    <3>1. u = t
      BY <1>2, <2>1, OneColumnOfAName DEF Sound, Parsed
    <3> QED
      BY <1>8, <3>1
  <2>2. CASE u.name # t.name
    <3>1. catalog[u.name] = c[u.name]
      BY <1>4, <1>9, <2>2 DEF With
    <3> QED
      BY <1>1, <1>3, <1>9, <3>1 DEF Agrees
  <2> QED
    BY <2>1, <2>2
<1>10. \A j \in 1..(k + 1 - 1) : Agrees(o[j])'
  <2>1. \A j \in 1..(k + 1 - 1) : j \in 1..(k - 1) \/ j = k
    BY <1>6
  <2>2. ASSUME NEW j \in 1..(k - 1) PROVE Agrees(o[j])'
    <3>1. o[j] \in ToSet(o)
      <4>1. o \in Seq(ToSet(o))
        BY <1>5, OrderOfItself DEF Sound
      <4>2. j \in 1..Len(o) /\ DOMAIN o = 1..Len(o)
        BY <1>7, <4>1
      <4> QED
        BY <4>2 DEF ToSet
    <3>2. ToSet(o) = ToSet(schema)
      BY <1>5, OrderFollows DEF Sound, Parsed
    <3>3. o[j].name \in DOMAIN c
      BY <1>1, <1>3, <1>5, <3>1 DEF Sound, Listed, InTransaction
    <3> QED
      BY <1>6, <1>9, <3>1, <3>2, <3>3
  <2> QED
    BY <1>7, <1>8, <2>1, <2>2
<1>11. Behind'
  <2>1. k + 1 \in 1..(Len(o) + 1)
    BY <1>7
  <2> QED
    BY <1>1, <1>5, <1>7, <1>10, <2>1 DEF Behind
<1>12. Reported'
  <2>1. None # "ok" /\ None # "no parent"
    BY MigrateAssumption DEF Results
  <2> QED
    BY <1>1, <2>1 DEF Progress, Reported, InTransaction
<1>13. Added'
  BY <1>1 DEF Progress, Added
<1> QED
  BY <1>11, <1>12, <1>13 DEF Progress

\* What fails, and what ends a run in the middle.
LEMMA FailureProgress ==
    ASSUME Sound, Progress, StepFails \/ CommitFails \/ Rollback \/ Crash
    PROVE  Progress'
PROOF
<1>1. UNCHANGED <<schema, rebuild, applied>>
  BY DEF StepFails, CommitFails, Rollback, Crash, Rebuilding
<1>2. CASE StepFails
  <2>1. pc \in {"begin", "copy", "drop", "rename"} /\ pc' = "rollback" /\ result' = "statement failed"
    BY <1>2 DEF StepFails
  <2> QED
    BY <1>1, <2>1, Ends DEF InTransaction
<1>3. CASE CommitFails
  <2>1. pc' = "restore" /\ result' = "busy"
    BY <1>3 DEF CommitFails
  <2> QED
    BY <1>1, <2>1, Ends
<1>4. CASE Rollback
  <2>1. pc = "rollback" /\ pc' = "restore" /\ result' = result
    BY <1>4 DEF Rollback, Rebuilding
  <2>2. result # "ok" /\ (result = "no parent" => Cyclic)
    BY <2>1 DEF Progress, Reported
  <2> QED
    BY <1>1, <2>1, <2>2, Ends
<1>5. CASE Crash
  <2>1. pc' = "done" /\ result' = "crash"
    BY <1>5 DEF Crash
  <2> QED
    BY <1>1, <2>1, Ends
<1> QED
  BY <1>2, <1>3, <1>4, <1>5

\* A rebuild is over when every table is in sync.
LEMMA RebuildDoneProgress ==
    ASSUME Sound, Progress, RebuildDone
    PROVE  Progress'
PROOF
<1>1. /\ pc = "rebuild" /\ todo = <<>> /\ pc' = "restore" /\ result' = "ok" /\ saved = None
      /\ UNCHANGED <<dialect, schema, catalog, saved, rebuild, applied>>
  BY DEF RebuildDone, Rebuilding, database, Sound, Open, InTransaction
<1>2. Committed.catalog = catalog /\ Committed.catalog' = Committed.catalog
  BY <1>1, CommittedIs, CommittedIsNext
<1>3. PICK o : o = DependencyOrder(schema)
  OBVIOUS
<1>4. PICK k \in 1..(Len(o) + 1) : Reached(k) /\ \A j \in 1..(k - 1) : Agrees(o[j])
  BY <1>1, <1>3 DEF Progress, Behind
<1>5. \A t \in ToSet(schema) : t.name \in DOMAIN catalog /\ Agrees(t)
  <2> TAKE t \in ToSet(schema)
  <2>1. Agrees(t)
    BY <1>1, <1>3, <1>4, ReachedEnd DEF Sound
  <2>2. ToSet(o) = ToSet(schema)
    BY <1>3, OrderFollows DEF Sound, Parsed
  <2>3. t.name \in DOMAIN catalog
    BY <1>1, <1>2, <1>3, <2>2 DEF Sound, Listed
  <2> QED
    BY <2>1, <2>3
<1>6. \A t : Agrees(t)' = Agrees(t)
  BY <1>1, <1>2 DEF Agrees
<1>7. rebuild
  BY <1>1 DEF Progress, Reported
<1>8. Reported'
  BY <1>1, <1>5, <1>6, <1>7 DEF Reported, InTransaction
<1>9. Behind'
  BY <1>1 DEF Behind
<1>10. Added'
  BY <1>1 DEF Progress, Added
<1> QED
  BY <1>8, <1>9, <1>10 DEF Progress

\* What changes nothing that a run reports of.
LEMMA OtherProgress ==
    ASSUME Sound, Progress, Restore \/ AppInserts \/ UNCHANGED vars
    PROVE  Progress'
PROOF
<1>1. /\ UNCHANGED <<dialect, schema, todo, existing, rebuild, applied, result, catalog, saved>>
      /\ pc' = pc \/ (pc = "restore" /\ pc' = "done")
  BY DEF Restore, Rebuilding, AppInserts, run, vars, database
<1>2. Committed.catalog' = Committed.catalog
  BY <1>1, CommittedIs, CommittedIsNext
<1> QED
  BY <1>1, <1>2, Elsewhere

\* No run has reported yet.
LEMMA ProgressAtFirst ==
    ASSUME Init
    PROVE  Progress
PROOF
<1>1. pc = "done" /\ applied = <<>> /\ result = None
  BY DEF Init
<1>2. None # "ok" /\ None # "no parent"
  BY MigrateAssumption DEF Results
<1>3. Behind
  BY <1>1 DEF Behind
<1>4. Reported
  BY <1>1, <1>2 DEF Reported, InTransaction
<1>5. Added
  <2>1. ToSet(<<>>) = {} /\ <<>> \in Seq({})
    BY DEF ToSet
  <2> QED
    BY <1>1, <2>1 DEF Added
<1> QED
  BY <1>3, <1>4, <1>5 DEF Progress

\* Every step keeps Progress.
LEMMA ProgressNext ==
    ASSUME NoneIsNoDatabase, Sound, Progress, [Next]_vars
    PROVE  Progress'
PROOF
<1>1. ASSUME NEW r \in BOOLEAN, Start(r) PROVE Progress'
  BY <1>1, StartProgress
<1>2. CASE ReadTable BY <1>2, ReadTableProgress
<1>3. CASE AddMissing BY <1>3, AddMissingProgress
<1>4. CASE NextTable BY <1>4, NextTableProgress
<1>5. CASE AdditiveDone BY <1>5, AdditiveDoneProgress
<1>6. CASE CheckTable BY <1>6, CheckTableProgress
<1>7. CASE CreateTmp \/ CopyRows \/ DropOld \/ RenameTmp BY <1>7, StatementProgress
<1>8. CASE Commit BY <1>8, CommitProgress
<1>9. CASE StepFails \/ CommitFails \/ Rollback \/ Crash BY <1>9, FailureProgress
<1>10. CASE RebuildDone BY <1>10, RebuildDoneProgress
<1>11. CASE Restore \/ AppInserts \/ UNCHANGED vars BY <1>11, OtherProgress
<1> QED
  BY <1>1, <1>2, <1>3, <1>4, <1>5, <1>6, <1>7, <1>8, <1>9, <1>10, <1>11 DEF Next, Migrating, Quiet

\* Validate finds no column missing in a table that has been filled.
LEMMA FilledLacksNothing ==
    ASSUME NEW t, NEW s, ToSet(Names(t.columns)) \subseteq Columns(s), NEW p \in ProblemsOf(dialect, t, s)
    PROVE  p[1] \notin {"table", "missing"}
PROOF
<1>1. Problem(dialect, t, s, p)
  BY ProblemsAre
<1>2. \A c \in ToSet(t.columns) : Named(s.cols, c.name) # {}
  <2> TAKE c \in ToSet(t.columns)
  <2>1. c.name \in Columns(s)
    BY NamesOfColumns
  <2>2. PICK e \in ToSet(s.cols) : e.name = c.name
    BY <2>1, NamesOfColumns DEF Columns
  <2> QED
    BY <2>2 DEF Named
<1>3. \E kind \in {"extra", "type", "key", "null", "fk", "extra fk"} : \E what : p = <<kind, what>>
  <2>1. ~\E c \in ToSet(t.columns) : p = <<"missing", c.name>> /\ Named(s.cols, c.name) = {}
    BY <1>2
  <2>2. \/ \E n : p = <<"extra", n>>
        \/ \E n : p = <<"type", n>>
        \/ \E n : p = <<"key", n>>
        \/ \E n : p = <<"null", n>>
        \/ \E n : p = <<"fk", n>>
        \/ \E n : p = <<"extra fk", n>>
    BY <1>1, <2>1, Zenon DEF Problem
  <2> QED
    BY <2>2
<1>4. PICK kind \in {"extra", "type", "key", "null", "fk", "extra fk"} : \E what : p = <<kind, what>>
  BY <1>3
<1>5. PICK what : p = <<kind, what>>
  BY <1>4
<1>6. p[1] = kind
  BY <1>5
<1> QED
  BY <1>6

\* What has been made of the tables is what validate looks for.
LEMMA ProgressReports ==
    ASSUME Sound, Progress
    PROVE  ResultIsTrue
PROOF
<1>1. result = "no parent" => Cyclic
  BY DEF Progress, Reported
<1>2. SUFFICES ASSUME pc = "done", result = "ok"
               PROVE  LET left == Validate(dialect, schema, catalog)
                      IN IF rebuild THEN left = {} ELSE \A p \in left : p[2][1] \notin {"table", "missing"}
  BY <1>1 DEF ResultIsTrue
<1>3. saved = None
  BY <1>2 DEF Sound, Open, InTransaction
<1>4. Committed.catalog = catalog
  BY <1>3, CommittedIs
<1>5. PICK left : left = Validate(dialect, schema, catalog)
  OBVIOUS
<1>6. CASE rebuild
  <2>1. \A t \in ToSet(schema) : t.name \in DOMAIN catalog /\ ProblemsOf(dialect, t, catalog[t.name]) = {}
    BY <1>2, <1>4, <1>6 DEF Progress, Reported, Agrees
  <2>2. left = {}
    BY <1>5, <2>1 DEF Validate
  <2> QED
    BY <1>5, <1>6, <2>2
<1>7. CASE ~rebuild
  <2>1. \A t \in ToSet(schema) : Filled(t)
    BY <1>2, <1>7 DEF Progress, Reported
  <2>2. ASSUME NEW p \in left PROVE p[2][1] \notin {"table", "missing"}
    <3>1. PICK t \in ToSet(schema) :
            p \in (IF t.name \in DOMAIN catalog
                   THEN {<<t.name, q>> : q \in ProblemsOf(dialect, t, catalog[t.name])}
                   ELSE {<<t.name, <<"table", "">>>>})
      BY <1>5, <2>2 DEF Validate
    <3>2. t.name \in DOMAIN catalog /\ ToSet(Names(t.columns)) \subseteq Columns(catalog[t.name])
      BY <2>1 DEF Filled
    <3>3. PICK q \in ProblemsOf(dialect, t, catalog[t.name]) : p = <<t.name, q>>
      BY <3>1, <3>2
    <3>4. q[1] \notin {"table", "missing"}
      BY <3>2, <3>3, FilledLacksNothing
    <3> QED
      BY <3>3, <3>4
  <2> QED
    BY <1>5, <1>7, <2>2
<1> QED
  BY <1>6, <1>7

\* What a run reports is so, for every schema and every database it started
\* from, and after any earlier runs: after a success --rebuild has left
\* nothing for validate to find, and a plain run no table and no column
\* missing; "no parent" is reported only when no order of the tables would do
\* (migrate_inner, migrate_rebuild, validate, db.rs;
\* tables_in_dependency_order, schema.rs:406-428).
THEOREM ResultIsTrueHolds ==
    ASSUME NoneIsNoDatabase
    PROVE  Spec => []ResultIsTrue
PROOF
<1>1. Init => Progress
  BY ProgressAtFirst
<1>2. Sound /\ Progress /\ [Next]_vars => Progress'
  BY ProgressNext
<1>3. Sound /\ Progress => ResultIsTrue
  BY ProgressReports
<1>4. Spec => []Sound
  BY SoundHolds
<1> QED
  BY <1>1, <1>2, <1>3, <1>4, PTL DEF Spec

-----------------------------------------------------------------------------
(* Sequences that grow. *)

\* What a prefix is, place by place.
LEMMA PrefixIs ==
    ASSUME NEW S, NEW s, s \in Seq(S), NEW t, t \in Seq(S)
    PROVE  IsPrefix(s, t) <=> Len(s) <= Len(t) /\ \A i \in 1..Len(s) : s[i] = t[i]
PROOF
<1>1. PICK m \in Nat, n \in Nat : m = Len(s) /\ n = Len(t)
  BY LenProperties
<1>2. ASSUME m <= n
      PROVE  SubSeq(s, 1, m) = SubSeq(t, 1, m) <=> \A i \in 1..m : s[i] = t[i]
  <2>1. PICK a, b : a = SubSeq(s, 1, m) /\ b = SubSeq(t, 1, m)
    OBVIOUS
  <2>2. a \in Seq(S) /\ Len(a) = m /\ \A i \in 1..m : a[i] = s[i]
    BY <1>1, <2>1
  <2>3. b \in Seq(S) /\ Len(b) = m /\ \A i \in 1..m : b[i] = t[i]
    BY <1>1, <1>2, <2>1
  <2>4. a = b <=> \A i \in 1..m : a[i] = b[i]
    <3>1. ASSUME \A i \in 1..m : a[i] = b[i] PROVE a = b
      BY <2>2, <2>3, <3>1
    <3> QED
      BY <3>1
  <2> QED
    BY <2>1, <2>2, <2>3, <2>4
<1> QED
  BY <1>1, <1>2 DEF IsPrefix

\* was appended.
LEMMA PrefixAppend ==
    ASSUME NEW S, NEW s, s \in Seq(S), NEW e \in S
    PROVE  IsPrefix(s, s) /\ IsPrefix(s, Append(s, e))
PROOF
<1>1. Append(s, e) \in Seq(S) /\ Len(s) \in Nat /\ Len(Append(s, e)) = Len(s) + 1
      /\ \A i \in 1..Len(s) : Append(s, e)[i] = s[i]
  OBVIOUS
<1>2. IsPrefix(s, s)
  BY <1>1, PrefixIs
<1>3. Len(s) <= Len(Append(s, e))
  BY <1>1
<1>4. IsPrefix(s, Append(s, e))
  BY <1>1, <1>3, PrefixIs
<1> QED
  BY <1>2, <1>4

\* A prefix of a prefix.
LEMMA PrefixOfPrefix ==
    ASSUME NEW X, NEW a, a \in Seq(X), NEW b, b \in Seq(X), NEW c, c \in Seq(X),
           IsPrefix(a, b), IsPrefix(b, c)
    PROVE  IsPrefix(a, c)
PROOF
<1>1. PICK x \in Nat, y \in Nat, z \in Nat : x = Len(a) /\ y = Len(b) /\ z = Len(c)
  BY LenProperties
<1>2. x <= y /\ \A k \in 1..x : a[k] = b[k]
  <2>1. Len(a) <= Len(b) /\ \A k \in 1..Len(a) : a[k] = b[k]
    BY ONLY a \in Seq(X), b \in Seq(X), IsPrefix(a, b), PrefixIs
  <2> QED
    BY <1>1, <2>1
<1>3. y <= z /\ \A k \in 1..y : b[k] = c[k]
  <2>1. Len(b) <= Len(c) /\ \A k \in 1..Len(b) : b[k] = c[k]
    BY ONLY b \in Seq(X), c \in Seq(X), IsPrefix(b, c), PrefixIs
  <2> QED
    BY <1>1, <2>1
<1>4. x <= z /\ \A k \in 1..x : a[k] = c[k]
  BY <1>1, <1>2, <1>3
<1> QED
  BY <1>1, <1>4, PrefixIs

\* What grows step by step begins with what it was at any.
LEMMA Grows ==
    ASSUME NEW S, NEW n \in Nat, NEW G, \A i \in 0..n : G[i] \in Seq(S),
           \A i \in 1..n : IsPrefix(G[i - 1], G[i]), NEW i \in 0..n
    PROVE  IsPrefix(G[i], G[n])
PROOF
<1>1. PICK P : P = {j \in 0..n : j >= i => IsPrefix(G[i], G[j])}
  OBVIOUS
<1>2. IsPrefix(G[i], G[i])
  <2>1. G[i] \in Seq(S) /\ Len(G[i]) \in Nat
    BY LenProperties
  <2> QED
    BY <2>1, PrefixIs
<1>3. 0 \in P
  <2>1. 0 >= i => i = 0
    OBVIOUS
  <2> QED
    BY <1>1, <1>2, <2>1
<1>4. ASSUME NEW j \in 1..n, j - 1 \in P PROVE j \in P
  <2>1. CASE j = i
    BY <1>1, <1>2, <2>1
  <2>2. CASE j < i
    BY <1>1, <2>2
  <2>3. CASE j > i
    <3>1. j - 1 \in 0..n /\ j - 1 >= i
      BY <2>3
    <3>2. IsPrefix(G[i], G[j - 1]) /\ IsPrefix(G[j - 1], G[j])
      BY <1>1, <1>4, <3>1
    <3>3. IsPrefix(G[i], G[j])
      <4>1. G[i] \in Seq(S) /\ G[j - 1] \in Seq(S) /\ G[j] \in Seq(S)
        BY <3>1
      <4> QED
        BY ONLY <3>2, <4>1, PrefixOfPrefix
    <3> QED
      BY <1>1, <3>3
  <2> QED
    BY <2>1, <2>2, <2>3
<1>5. 0..n \subseteq P
  BY <1>3, <1>4, UpTo
<1> QED
  BY <1>1, <1>5

\* The elements of a sequence up to a place where it no longer changes.
LEMMA Constant ==
    ASSUME NEW n \in Nat, NEW G, NEW p \in 0..n, NEW q \in 0..n, p <= q,
           \A i \in 1..n : p < i /\ i <= q => G[i] = G[i - 1]
    PROVE  G[q] = G[p]
PROOF
<1>1. PICK P : P = {i \in 0..n : p <= i /\ i <= q => G[i] = G[p]}
  OBVIOUS
<1>2. 0 \in P
  BY <1>1
<1>3. ASSUME NEW i \in 1..n, i - 1 \in P PROVE i \in P
  BY <1>1, <1>3
<1>4. 0..n \subseteq P
  BY <1>2, <1>3, UpTo
<1> QED
  BY <1>1, <1>4

-----------------------------------------------------------------------------
(* What --dry-run says. *)

\* One column, and one table.
ColumnStep(t, shape, j, acc) ==
    LET col == t.columns[j]
    IN IF col.name \in Columns(shape) \/ GaveUp(acc) THEN acc
       ELSE Append(acc, <<IF col.pk THEN "give up" ELSE "add", t.name, col.name>>)

TableStep(tables, t, acc) ==
    IF GaveUp(acc) THEN acc
    ELSE IF t.name \notin DOMAIN tables THEN Append(acc, <<"create", t.name>>)
    ELSE ColumnSteps(t, tables[t.name], acc)[Len(t.columns)]

\* G goes through n steps, and X has all there is to say.
Saying(X, G, n) == \A i \in 0..n : G[i] \in Seq(X)

\* What may be said of a table.
SaidOfColumns(X, t) ==
    \A i \in 1..Len(t.columns), kind \in {"add", "give up"} : <<kind, t.name, t.columns[i].name>> \in X

SaidOf(X, t) == <<"create", t.name>> \in X /\ SaidOfColumns(X, t)

\* The dry run goes through the columns one after the other, and only adds to
\* what it has said (migrate_inner, db.rs:783-792).
LEMMA ColumnStepsRun ==
    ASSUME NEW X, NEW t, Len(t.columns) \in Nat, SaidOfColumns(X, t), NEW shape,
           NEW steps, steps \in Seq(X), NEW g, g = ColumnSteps(t, shape, steps)
    PROVE  /\ g[0] = steps /\ Saying(X, g, Len(t.columns))
           /\ \A j \in 1..Len(t.columns) :
                g[j] = ColumnStep(t, shape, j, g[j - 1]) /\ IsPrefix(g[j - 1], g[j])
PROOF
<1>0. PICK n \in Nat : n = Len(t.columns)
  OBVIOUS
<1>1. PICK A : A = Seq(X)
  OBVIOUS
<1> DEFINE Body(f) == [j \in 0..n |-> IF j = 0 THEN steps ELSE ColumnStep(t, shape, j, f[j - 1])]
<1>2. \A j \in 1..n, acc \in A : ColumnStep(t, shape, j, acc) \in A /\ IsPrefix(acc, ColumnStep(t, shape, j, acc))
  <2> TAKE j \in 1..n, acc \in A
  <2>1. PICK e \in X : e = <<IF t.columns[j].pk THEN "give up" ELSE "add", t.name, t.columns[j].name>>
    BY <1>0 DEF SaidOfColumns
  <2>2. acc \in Seq(X) /\ Append(acc, e) \in A
    BY <1>1
  <2>3. IsPrefix(acc, acc) /\ IsPrefix(acc, Append(acc, e))
    BY <2>2, PrefixAppend
  <2>4. ColumnStep(t, shape, j, acc) = acc \/ ColumnStep(t, shape, j, acc) = Append(acc, e)
    BY <2>1 DEF ColumnStep
  <2> QED
    BY <2>2, <2>3, <2>4
<1>3. PICK step : step = [j \in 1..n |-> [acc \in A |-> ColumnStep(t, shape, j, acc)]]
  OBVIOUS
<1>4. step \in [1..n -> [A -> A]]
  BY <1>2, <1>3
<1>5. PICK F \in [0..n -> A] : F[0] = steps /\ \A j \in 1..n : F[j] = step[j][F[j - 1]]
  <2>1. PICK base \in A : base = steps
    BY <1>1
  <2>2. \E F \in [0..n -> A] : F[0] = base /\ \A i \in 1..n : F[i] = step[i][F[i - 1]]
    <3>1. n \in Nat /\ base \in A
      OBVIOUS
    <3> QED
      BY ONLY <1>4, <3>1, Recursion
  <2> QED
    BY <2>1, <2>2
<1>6. \A j \in 1..n : F[j] = ColumnStep(t, shape, j, F[j - 1])
  <2> TAKE j \in 1..n
  <2>1. F[j - 1] \in A
    BY <1>5
  <2> QED
    BY <2>1, <1>3, <1>5
<1>7. F = Body(F)
  <2>1. \A j \in 0..n : j # 0 => j \in 1..n
    OBVIOUS
  <2> QED
    BY <1>5, <1>6, <2>1
<1>8. PICK G : G = (CHOOSE f : f = Body(f))
  BY Zenon
<1>9. G = Body(G)
  BY <1>7, <1>8
<1>10. g = G
  BY <1>0, <1>8 DEF ColumnSteps, ColumnStep
<1>11. G[0] = steps
  BY <1>9
<1>12. \A j \in 1..n : G[j] = ColumnStep(t, shape, j, G[j - 1])
  <2> TAKE j \in 1..n
  <2>1. j \in 0..n /\ j # 0
    OBVIOUS
  <2> QED
    BY <2>1, <1>9
<1>13. 0..n \subseteq {j \in Nat : G[j] \in A}
  <2>1. PICK P : P = {j \in Nat : G[j] \in A}
    OBVIOUS
  <2>2. 0 \in P
    BY <2>1, <1>1, <1>11
  <2>3. \A j \in 1..n : j - 1 \in P => j \in P
    BY <2>1, <1>2, <1>12
  <2> QED
    BY <2>1, <2>2, <2>3, UpTo
<1>14. \A j \in 1..n : IsPrefix(G[j - 1], G[j])
  <2> TAKE j \in 1..n
  <2>1. j - 1 \in 0..n
    OBVIOUS
  <2>2. G[j - 1] \in A
    BY <1>13, <2>1
  <2> QED
    BY <1>2, <1>12, <2>2
<1> QED
  BY <1>0, <1>1, <1>10, <1>11, <1>12, <1>13, <1>14 DEF Saying

\* It goes through the tables one after the other, and only adds to what it
\* has said (migrate_inner, db.rs:769-795).
LEMMA TableStepsRun ==
    ASSUME NEW X, NEW o, Len(o) \in Nat,
           \A i \in 1..Len(o) : Len(o[i].columns) \in Nat /\ SaidOf(X, o[i]),
           NEW tables, NEW f, f = TableSteps(o, tables)
    PROVE  /\ f[0] = <<>> /\ Saying(X, f, Len(o))
           /\ \A i \in 1..Len(o) : f[i] = TableStep(tables, o[i], f[i - 1]) /\ IsPrefix(f[i - 1], f[i])
PROOF
<1>0. PICK n \in Nat : n = Len(o)
  OBVIOUS
<1>1. PICK A : A = Seq(X)
  OBVIOUS
<1> DEFINE Body(h) == [i \in 0..n |-> IF i = 0 THEN <<>> ELSE TableStep(tables, o[i], h[i - 1])]
<1>1a. <<>> \in A
  BY <1>1
<1>2. \A i \in 1..n, acc \in A : TableStep(tables, o[i], acc) \in A /\ IsPrefix(acc, TableStep(tables, o[i], acc))
  <2> TAKE i \in 1..n, acc \in A
  <2>1. PICK t : t = o[i] /\ Len(t.columns) \in Nat /\ <<"create", t.name>> \in X /\ SaidOfColumns(X, t)
    BY <1>0 DEF SaidOf
  <2>2. acc \in Seq(X) /\ Append(acc, <<"create", t.name>>) \in A
    BY <1>1, <2>1
  <2>3. IsPrefix(acc, acc) /\ IsPrefix(acc, Append(acc, <<"create", t.name>>))
    BY <2>1, <2>2, PrefixAppend
  <2>4. PICK m, g : m \in Nat /\ m = Len(t.columns) /\ g = ColumnSteps(t, tables[t.name], acc)
    BY <2>1
  <2>5. /\ g[0] = acc /\ \A j \in 0..m : g[j] \in Seq(X)
        /\ \A j \in 1..m : IsPrefix(g[j - 1], g[j])
    BY <2>1, <2>2, <2>4, ColumnStepsRun DEF Saying
  <2>6. g[m] \in A /\ IsPrefix(acc, g[m])
    <3>1. m \in Nat /\ 0 \in 0..m /\ m \in 0..m
      BY <2>4
    <3>2. IsPrefix(g[0], g[m])
      BY ONLY <2>5, <3>1, Grows
    <3> QED
      BY <1>1, <2>5, <3>1, <3>2
  <2>7. \/ TableStep(tables, o[i], acc) = acc \/ TableStep(tables, o[i], acc) = Append(acc, <<"create", t.name>>)
        \/ TableStep(tables, o[i], acc) = g[m]
    BY <2>1, <2>4 DEF TableStep
  <2> QED
    BY <2>2, <2>3, <2>6, <2>7
<1>3. PICK step : step = [i \in 1..n |-> [acc \in A |-> TableStep(tables, o[i], acc)]]
  OBVIOUS
<1>4. step \in [1..n -> [A -> A]]
  BY <1>2, <1>3
<1>5. PICK F \in [0..n -> A] : F[0] = <<>> /\ \A i \in 1..n : F[i] = step[i][F[i - 1]]
  <2>1. PICK none \in A : none = <<>>
    BY <1>1a
  <2>2. \E F \in [0..n -> A] : F[0] = none /\ \A i \in 1..n : F[i] = step[i][F[i - 1]]
    BY <1>4, Recursion
  <2> QED
    BY <2>1, <2>2
<1>6. \A i \in 1..n : F[i] = TableStep(tables, o[i], F[i - 1])
  <2> TAKE i \in 1..n
  <2>1. F[i - 1] \in A
    BY <1>5
  <2> QED
    BY <2>1, <1>3, <1>5
<1>7. F = Body(F)
  <2>1. \A i \in 0..n : i # 0 => i \in 1..n
    OBVIOUS
  <2> QED
    BY <1>5, <1>6, <2>1
<1>8. PICK G : G = (CHOOSE h : h = Body(h))
  BY Zenon
<1>9. G = Body(G)
  BY <1>7, <1>8
<1>10. f = G
  BY <1>0, <1>8 DEF TableSteps, TableStep
<1>11. G[0] = <<>>
  BY <1>9
<1>12. \A i \in 1..n : G[i] = TableStep(tables, o[i], G[i - 1])
  <2> TAKE i \in 1..n
  <2>1. i \in 0..n /\ i # 0
    OBVIOUS
  <2> QED
    BY <2>1, <1>9
<1>13. 0..n \subseteq {i \in Nat : G[i] \in A}
  <2>1. PICK P : P = {i \in Nat : G[i] \in A}
    OBVIOUS
  <2>2. 0 \in P
    BY <2>1, <1>1a, <1>11
  <2>3. \A i \in 1..n : i - 1 \in P => i \in P
    BY <2>1, <1>2, <1>12
  <2> QED
    BY <2>1, <2>2, <2>3, UpTo
<1>14. \A i \in 1..n : IsPrefix(G[i - 1], G[i])
  <2> TAKE i \in 1..n
  <2>1. i - 1 \in 0..n
    OBVIOUS
  <2>2. G[i - 1] \in A
    BY <1>13, <2>1
  <2> QED
    BY <1>2, <1>12, <2>2
<1> QED
  BY <1>0, <1>1, <1>10, <1>11, <1>12, <1>13, <1>14 DEF Saying

-----------------------------------------------------------------------------
(* What the run does of what --dry-run said. *)

\* From the k-th on, the tables are as they were in c.
Untouched(c, k) ==
    LET order == DependencyOrder(schema)
    IN \A j \in k..Len(order) :
         LET n == order[j].name
         IN /\ n \in DOMAIN c <=> n \in DOMAIN catalog
            /\ n \in DOMAIN c => catalog[n] = c[n]

\* The steps so far are those said up to the p-th column of the table.
UpToColumn(t, steps, p) ==
    /\ p \in 0..Len(t.columns) /\ applied = ColumnSteps(t, existing, steps)[p]
    /\ \A i \in 1..Len(t.columns) :
         t.columns[i].name \notin Columns(existing) =>
           (<<"add", t.name, t.columns[i].name>> \in ToSet(applied) <=> i <= p)

\* The run is at the k-th table, and has done what was said of a database with
\* the tables c up to there.
AsPlanned(c, k) ==
    LET order == DependencyOrder(schema)
        steps == TableSteps(order, c)
    IN /\ Reached(k) /\ plan = steps[Len(order)] /\ ~GaveUp(applied) /\ ~GaveUp(steps[k - 1])
       /\ \A s \in ToSet(applied) : s[1] = "add" =>
            \E j \in 1..Len(order) : s[2] = order[j].name /\ (j < k \/ (j = k /\ existing # None))
       /\ existing = None => applied = steps[k - 1] /\ Untouched(c, k)
       /\ existing # None =>
            /\ k <= Len(order) /\ order[k].name \in DOMAIN c /\ existing = c[order[k].name]
            /\ \E p : UpToColumn(order[k], steps[k - 1], p)
            /\ Untouched(c, k + 1)

Announced ==
    /\ pc = "additive" => \E c, k : AsPlanned(c, k)
    /\ pc \in {"rebuild", "begin", "copy", "drop", "rename", "commit"} \/ result = "ok" => applied = plan
    /\ IsPrefix(applied, plan)

\* The tables of the order are those of the schema, each with a name of its own.
LEMMA OrderNames ==
    ASSUME Parsed, NEW o, o = DependencyOrder(schema)
    PROVE  /\ Len(o) \in Nat
           /\ \A i \in 1..Len(o) : o[i] \in ToSet(schema) /\ Len(o[i].columns) \in Nat
           /\ \A i, j \in 1..Len(o) : o[i].name = o[j].name => i = j
           /\ \E X : \A i \in 1..Len(o) : SaidOf(X, o[i])
PROOF
<1>1. PICK S : S = ToSet(schema)
  OBVIOUS
<1>2. schema \in Seq(S) /\ IsInjective(Names(schema)) /\ \A t \in S : Declared(t)
  BY <1>1 DEF Parsed
<1>3. o \in Seq(S)
  BY <1>2, OrderIsOfTheSchema
<1>4. PICK n \in Nat : n = Len(o) /\ \A i \in 1..n : o[i] \in S
  BY <1>3
<1>5. \A i, j \in 1..Len(schema) : schema[i] = schema[j] => i = j
  <2>1. DOMAIN schema = 1..Len(schema)
    BY <1>2
  <2> QED
    BY <1>2, <2>1 DEF IsInjective, Names
<1>6. \A i, j \in 1..n : o[i] = o[j] => i = j
  BY <1>2, <1>4, <1>5, OrderOnce
<1>7. \A t, u \in S : t.name = u.name => t = u
  BY <1>1, <1>2, OneColumnOfAName
<1>8. \A i, j \in 1..n : o[i].name = o[j].name => i = j
  BY <1>4, <1>6, <1>7
<1>9. \A t \in S : Len(t.columns) \in Nat /\ \A i \in 1..Len(t.columns) : t.columns[i] \in ToSet(t.columns)
  BY <1>2 DEF Declared
<1> DEFINE Words(t) == {<<"create", t.name>>} \cup {<<"add", t.name, x.name>> : x \in ToSet(t.columns)}
                       \cup {<<"give up", t.name, x.name>> : x \in ToSet(t.columns)}
<1>10. PICK X : X = UNION {Words(t) : t \in S}
  BY Zenon
<1>11. \A t \in S : SaidOf(X, t)
  <2> TAKE t \in S
  <2>1. Words(t) \subseteq X
    <3> HIDE DEF Words
    <3> QED
      BY <1>10
  <2>2. <<"create", t.name>> \in Words(t)
    OBVIOUS
  <2>3. \A x \in ToSet(t.columns) : <<"add", t.name, x.name>> \in Words(t) /\ <<"give up", t.name, x.name>> \in Words(t)
    OBVIOUS
  <2> HIDE DEF Words
  <2>4. \A x \in ToSet(t.columns), kind \in {"add", "give up"} : <<kind, t.name, x.name>> \in X
    BY <2>1, <2>3
  <2> QED
    BY <1>9, <2>1, <2>2, <2>4 DEF SaidOf, SaidOfColumns
<1> QED
  BY <1>1, <1>4, <1>8, <1>9, <1>11

\* The names of a table's columns are different.
LEMMA ColumnNames ==
    ASSUME NEW t, Declared(t)
    PROVE  \A i, j \in 1..Len(t.columns) : t.columns[i].name = t.columns[j].name => i = j
PROOF
<1>1. DOMAIN t.columns = 1..Len(t.columns)
  BY DEF Declared
<1> QED
  BY <1>1 DEF Declared, IsInjective, Names

\* What was said table by table, each part a part of the whole.
LEMMA Plans ==
    ASSUME Parsed, NEW o, o = DependencyOrder(schema), NEW c, NEW f, f = TableSteps(o, c)
    PROVE  /\ f[0] = <<>>
           /\ \A i \in 1..Len(o) : f[i] = TableStep(c, o[i], f[i - 1])
           /\ \E X : /\ \A i \in 1..Len(o) : SaidOf(X, o[i])
                     /\ \A i \in 0..Len(o) : f[i] \in Seq(X) /\ IsPrefix(f[i], f[Len(o)])
PROOF
<1>1. PICK n \in Nat : n = Len(o)
  BY OrderNames
<1>2. PICK X : \A i \in 1..n : SaidOf(X, o[i])
  BY <1>1, OrderNames
<1>3. \A i \in 1..n : Len(o[i].columns) \in Nat
  BY <1>1, OrderNames
<1>4. /\ f[0] = <<>> /\ \A i \in 0..n : f[i] \in Seq(X)
      /\ \A i \in 1..n : f[i] = TableStep(c, o[i], f[i - 1]) /\ IsPrefix(f[i - 1], f[i])
  <2>1. Len(o) \in Nat /\ \A i \in 1..Len(o) : Len(o[i].columns) \in Nat /\ SaidOf(X, o[i])
    BY <1>1, <1>2, <1>3
  <2>2. /\ f[0] = <<>> /\ Saying(X, f, Len(o))
        /\ \A i \in 1..Len(o) : f[i] = TableStep(c, o[i], f[i - 1]) /\ IsPrefix(f[i - 1], f[i])
    BY ONLY <2>1, f = TableSteps(o, c), TableStepsRun, ZenonT(60)
  <2> QED
    BY <1>1, <2>2 DEF Saying
<1>5. \A i \in 0..n : IsPrefix(f[i], f[n])
  BY <1>4, Grows
<1> QED
  BY <1>1, <1>2, <1>4, <1>5

\* What was said column by column, each part a part of the whole.
LEMMA ColumnPlans ==
    ASSUME NEW X, NEW t, Len(t.columns) \in Nat, SaidOf(X, t), NEW shape,
           NEW steps, steps \in Seq(X), NEW g, g = ColumnSteps(t, shape, steps)
    PROVE  /\ g[0] = steps
           /\ \A j \in 1..Len(t.columns) : g[j] = ColumnStep(t, shape, j, g[j - 1])
           /\ \A j \in 0..Len(t.columns) : g[j] \in Seq(X) /\ IsPrefix(g[j], g[Len(t.columns)])
PROOF
<1>1. PICK n \in Nat : n = Len(t.columns)
  OBVIOUS
<1>2. /\ g[0] = steps /\ \A j \in 0..n : g[j] \in Seq(X)
      /\ \A j \in 1..n : g[j] = ColumnStep(t, shape, j, g[j - 1]) /\ IsPrefix(g[j - 1], g[j])
  BY <1>1, ColumnStepsRun DEF SaidOf, Saying
<1>3. \A j \in 0..n : IsPrefix(g[j], g[n])
  BY <1>2, Grows
<1> QED
  BY <1>1, <1>2, <1>3

\* A run that goes on after its additive pass, or is over.
LEMMA StaysAnnounced ==
    ASSUME Announced, UNCHANGED <<plan, applied>>, pc' # "additive",
           pc' \in {"rebuild", "begin", "copy", "drop", "rename", "commit"} \/ result' = "ok" => applied = plan
    PROVE  Announced'
PROOF
<1> QED
  BY DEF Announced

\* A step that has nothing to do with the additive pass.
LEMMA AsAnnounced ==
    ASSUME Announced, UNCHANGED <<schema, catalog, todo, existing, plan, applied, pc, result>>
    PROVE  Announced'
PROOF
<1>1. \A c, k : AsPlanned(c, k)' = AsPlanned(c, k)
  BY DEF AsPlanned, Reached, Untouched, UpToColumn
<1> QED
  BY <1>1 DEF Announced

\* The dry run reads the tables as they are when the run starts.
LEMMA StartAnnounced ==
    ASSUME Sound, Announced, NEW r \in BOOLEAN, Start(r)
    PROVE  Announced'
PROOF
<1>1. PICK o, c, f : o = DependencyOrder(schema) /\ c = Committed.catalog /\ f = TableSteps(o, c)
  OBVIOUS
<1>2. /\ pc' = "additive" /\ todo' = o /\ existing' = None /\ applied' = <<>> /\ result' = None
      /\ plan' = f[Len(o)] /\ schema' = schema
  BY <1>1 DEF Start, Plan
<1>3. catalog' = c
  <2>1. CASE saved = None
    BY <1>1, <2>1, CommittedIs DEF Start, database
  <2>2. CASE saved # None
    BY <1>1, <2>2, CommittedIs DEF Start
  <2> QED
    BY <2>1, <2>2
<1>4. PICK X : /\ f[0] = <<>>
               /\ \A i \in 0..Len(o) : f[i] \in Seq(X) /\ IsPrefix(f[i], f[Len(o)])
  BY <1>1, Plans DEF Sound
<1>5. Len(o) \in Nat
  BY <1>1, OrderNames DEF Sound
<1>6. AsPlanned(c, 1)'
  <2>1. Reached(1)'
    BY <1>1, <1>2, ReachedFirst DEF Sound
  <2>2. ToSet(applied') = {}
    BY <1>2 DEF ToSet
  <2>3. ~GaveUp(<<>>)
    BY DEF GaveUp
  <2>4. Untouched(c, 1)'
    BY <1>3 DEF Untouched
  <2>5. f[1 - 1] = <<>>
    BY <1>4
  <2>6. TableSteps(DependencyOrder(schema)', c) = f /\ DependencyOrder(schema)' = o
    BY <1>1, <1>2
  <2> QED
    BY <1>2, <2>1, <2>2, <2>3, <2>4, <2>5, <2>6 DEF AsPlanned, ToSet
<1>7. IsPrefix(applied', plan')
  BY <1>2, <1>4, <1>5
<1>8. None # "ok"
  BY MigrateAssumption DEF Results
<1> QED
  BY <1>2, <1>6, <1>7, <1>8 DEF Announced

\* The next step was said: the table is there, as it was, or it is created.
LEMMA ReadTableAnnounced ==
    ASSUME Sound, Progress, Announced, ReadTable
    PROVE  Announced'
PROOF
<1>1. /\ pc = "additive" /\ existing = None /\ todo # <<>>
      /\ UNCHANGED <<schema, plan>>
  BY DEF ReadTable
<1>2. PICK t \in ToSet(schema) : t = todo[1] /\ Declared(t)
  BY <1>1, TheNextTable DEF Sound, Parsed
<1>3. PICK o : o = DependencyOrder(schema) /\ o = DependencyOrder(schema)'
  BY <1>1
<1>4. PICK c, k : AsPlanned(c, k)
  BY <1>1 DEF Announced
<1>5. PICK f : f = TableSteps(o, c) /\ f = TableSteps(DependencyOrder(schema)', c)
  BY <1>3
<1>6. /\ Reached(k) /\ plan = f[Len(o)] /\ ~GaveUp(applied) /\ ~GaveUp(f[k - 1])
      /\ \A s \in ToSet(applied) : s[1] = "add" => \E j \in 1..Len(o) : s[2] = o[j].name /\ j < k
      /\ applied = f[k - 1] /\ Untouched(c, k)
  BY <1>1, <1>3, <1>4, <1>5 DEF AsPlanned
<1>7. /\ k \in 1..Len(o) /\ t = o[k]
      /\ todo' = Tail(todo) => Reached(k + 1)'
  BY <1>1, <1>2, <1>3, <1>6, ReachedTable DEF Sound
<1>8. /\ Len(o) \in Nat /\ Len(t.columns) \in Nat
      /\ \A i, j \in 1..Len(o) : o[i].name = o[j].name => i = j
  BY <1>3, <1>7, OrderNames DEF Sound
<1>9. PICK X : /\ \A i \in 1..Len(o) : SaidOf(X, o[i]) /\ f[i] = TableStep(c, o[i], f[i - 1])
               /\ \A i \in 0..Len(o) : f[i] \in Seq(X) /\ IsPrefix(f[i], f[Len(o)])
  BY <1>3, <1>5, Plans DEF Sound
<1>10. result = None /\ None # "ok"
  BY <1>1, MigrateAssumption DEF Progress, Reported, Results
<1>11. t.name \in DOMAIN c <=> t.name \in DOMAIN catalog
  BY <1>3, <1>6, <1>7, <1>8 DEF Untouched
<1>12. CASE t.name \in DOMAIN catalog
  <2>1. existing' = catalog[t.name] /\ UNCHANGED <<catalog, pc, todo, applied, result>>
    BY <1>2, <1>12 DEF ReadTable, database
  <2>2. catalog[t.name] = c[t.name]
    BY <1>3, <1>6, <1>7, <1>8, <1>11, <1>12 DEF Untouched
  <2>3. CASE existing' = None
    BY <1>1, <1>4, <2>1, <2>3, AsAnnounced
  <2>4. CASE existing' # None
    <3>1. UpToColumn(o[k], f[k - 1], 0)'
      <4>1. ColumnSteps(t, existing', f[k - 1])[0] = f[k - 1]
        <5>1. f[k - 1] \in Seq(X) /\ SaidOf(X, t)
          BY <1>7, <1>8, <1>9
        <5> QED
          BY <1>8, <5>1, ColumnPlans
      <4>2. \A i \in 1..Len(t.columns) : <<"add", t.name, t.columns[i].name>> \notin ToSet(applied)
        <5> SUFFICES ASSUME NEW i \in 1..Len(t.columns), <<"add", t.name, t.columns[i].name>> \in ToSet(applied)
                     PROVE  FALSE
          OBVIOUS
        <5>1. PICK s \in ToSet(applied) : s[1] = "add" /\ s[2] = t.name
          OBVIOUS
        <5>2. PICK j \in 1..Len(o) : t.name = o[j].name /\ j < k
          BY <1>6, <5>1
        <5> QED
          BY <1>7, <1>8, <5>2
      <4>3. \A i \in 1..Len(t.columns) : ~(i <= 0)
        BY <1>8
      <4>4. 0 \in 0..Len(t.columns)
        BY <1>8
      <4> QED
        BY <1>6, <1>7, <2>1, <4>1, <4>2, <4>3, <4>4 DEF UpToColumn, ToSet
    <3>2. Untouched(c, k + 1)'
      BY <1>1, <1>6, <1>7, <1>8, <2>1 DEF Untouched
    <3>3. Reached(k)'
      BY <1>1, <1>6, <2>1 DEF Reached
    <3>4. AsPlanned(c, k)'
      <4>1. o[k].name \in DOMAIN c /\ existing' = c[o[k].name] /\ k <= Len(o)
        BY <1>7, <1>8, <1>11, <1>12, <2>1, <2>2
      <4>2. \A s \in ToSet(applied)' : s[1] = "add" =>
              \E j \in 1..Len(o) : s[2] = o[j].name /\ (j < k \/ (j = k /\ existing' # None))
        BY <1>6, <2>1 DEF ToSet
      <4>3. \E p : UpToColumn(o[k], f[k - 1], p)'
        BY <3>1
      <4>4. plan' = f[Len(o)] /\ ~GaveUp(applied)' /\ ~GaveUp(f[k - 1])
        BY <1>1, <1>6, <2>1 DEF GaveUp
      <4> QED
        BY <1>3, <1>5, <2>4, <3>2, <3>3, <4>1, <4>2, <4>3, <4>4 DEF AsPlanned
    <3> QED
      BY <1>1, <1>10, <2>1, <3>4 DEF Announced
  <2> QED
    BY <2>3, <2>4
<1>13. CASE t.name \notin DOMAIN catalog
  <2>1. PICK shape : shape = CreateTable(dialect, t)
    OBVIOUS
  <2>2. CASE ~ParentsThere(shape.fks, t.name)
    <3>1. pc' = "done" /\ result' = "no parent" /\ applied' = applied
      BY <1>2, <1>13, <2>1, <2>2 DEF ReadTable, Finish
    <3> QED
      BY <1>1, <3>1, StaysAnnounced
  <2>3. CASE ParentsThere(shape.fks, t.name)
    <3>1. /\ catalog' = With(catalog, t.name, shape) /\ todo' = Tail(todo)
          /\ applied' = Append(applied, <<"create", t.name>>) /\ UNCHANGED <<existing, pc, result>>
      BY <1>2, <1>13, <2>1, <2>3 DEF ReadTable
    <3>2. applied' = f[k]
      <4>1. f[k] = TableStep(c, t, f[k - 1])
        BY <1>7, <1>9
      <4> QED
        BY <1>6, <1>11, <1>13, <3>1, <4>1 DEF TableStep
    <3>3. /\ ~GaveUp(applied')
          /\ ToSet(applied') = ToSet(applied) \cup {<<"create", t.name>>}
      <4>1. applied \in Seq(X) /\ <<"create", t.name>> \in X
        BY <1>6, <1>7, <1>8, <1>9 DEF SaidOf
      <4>2. Last(applied') = <<"create", t.name>>
        BY <3>1, <4>1 DEF Last
      <4>3. applied \in Seq(ToSet(applied))
        BY <4>1, OfItsElements
      <4>4. <<"create", t.name>>[1] # "give up"
        OBVIOUS
      <4> QED
        BY <3>1, <4>2, <4>3, <4>4, AppendElements DEF GaveUp
    <3>4. Untouched(c, k + 1)'
      <4> SUFFICES ASSUME NEW j \in (k + 1)..Len(o)
                   PROVE  /\ o[j].name \in DOMAIN c <=> o[j].name \in DOMAIN catalog'
                          /\ o[j].name \in DOMAIN c => catalog'[o[j].name] = c[o[j].name]
        BY <1>3 DEF Untouched
      <4>1. j \in k..Len(o) /\ j \in 1..Len(o) /\ j # k
        BY <1>7
      <4>2. o[j].name # t.name
        BY <1>7, <1>8, <4>1
      <4>3. /\ o[j].name \in DOMAIN c <=> o[j].name \in DOMAIN catalog
            /\ o[j].name \in DOMAIN c => catalog[o[j].name] = c[o[j].name]
        BY <1>3, <1>6, <4>1 DEF Untouched
      <4> QED
        BY <3>1, <4>2, <4>3 DEF With
    <3>5. AsPlanned(c, k + 1)'
      <4>1. PICK m : m = k + 1 /\ m - 1 = k
        BY <1>7
      <4>2. \A s \in ToSet(applied)' : s[1] = "add" =>
              \E j \in 1..Len(o) : s[2] = o[j].name /\ (j < m \/ (j = m /\ existing' # None))
        <5>1. ToSet(applied)' = ToSet(applied')
          BY DEF ToSet
        <5>2. \A s \in ToSet(applied') : s[1] = "add" => s \in ToSet(applied)
          BY <3>3
        <5>3. \A j \in 1..Len(o) : j < k => j < m
          BY <1>7, <4>1
        <5> QED
          BY <1>6, <5>1, <5>2, <5>3
      <4>3. plan' = f[Len(o)] /\ ~GaveUp(applied)' /\ ~GaveUp(f[m - 1]) /\ applied' = f[m - 1]
        BY <1>1, <1>6, <1>11, <1>13, <3>2, <3>3, <4>1 DEF GaveUp
      <4>4. existing' = None /\ Reached(m)' /\ Untouched(c, m)'
        BY <1>1, <1>7, <3>1, <3>4, <4>1
      <4>5. AsPlanned(c, m)'
        BY <1>3, <1>5, <4>2, <4>3, <4>4 DEF AsPlanned
      <4> QED
        BY <4>1, <4>5
    <3>6. IsPrefix(applied', plan')
      BY <1>1, <1>6, <1>7, <1>8, <1>9, <3>2
    <3> QED
      BY <1>1, <1>10, <3>1, <3>5, <3>6 DEF Announced
  <2> QED
    BY <2>2, <2>3
<1> QED
  BY <1>12, <1>13

\* The q-th column is the next that the table lacks, and what is done about it
\* is what was said.
IsNext(t, g, q) ==
    /\ q \in 1..Len(t.columns)
    /\ Lacking[1] = t.columns[q] /\ Lacking[1].name \notin Columns(existing)
    /\ g[q] = Append(applied, <<IF Lacking[1].pk THEN "give up" ELSE "add", t.name, Lacking[1].name>>)
    /\ \A i \in 1..Len(t.columns) :
         t.columns[i].name \notin Columns(existing) =>
           (<<"add", t.name, t.columns[i].name>> \in ToSet(applied) \/ i = q <=> i <= q)

\* What a table lacks is what was said of it and has not been done: the next of
\* it is the next step, and if nothing is left, all that was said is done.
LEMMA NextSaid ==
    ASSUME NEW X, NEW t, Declared(t), Len(t.columns) \in Nat, SaidOf(X, t),
           NEW steps, steps \in Seq(X), NEW g, g = ColumnSteps(t, existing, steps),
           NEW p, UpToColumn(t, steps, p), ~GaveUp(applied), todo[1] = t
    PROVE  /\ Lacking = <<>> => applied = g[Len(t.columns)]
           /\ Lacking # <<>> => \E q : IsNext(t, g, q)
PROOF
<1>1. PICK n \in Nat : n = Len(t.columns) /\ DOMAIN t.columns = 1..n
  BY DEF Declared
<1>2. /\ \A j \in 1..n : g[j] = ColumnStep(t, existing, j, g[j - 1])
      /\ \A j \in 0..n : g[j] \in Seq(X)
  BY <1>1, ColumnPlans
<1>3. /\ p \in 0..n /\ applied = g[p]
      /\ \A i \in 1..n : t.columns[i].name \notin Columns(existing) =>
           (<<"add", t.name, t.columns[i].name>> \in ToSet(applied) <=> i <= p)
  BY <1>1 DEF UpToColumn
<1>4. PICK keep : /\ Lacking = Filtered(t.columns, keep)
                  /\ keep = {i \in 1..n : /\ t.columns[i].name \notin Columns(existing)
                                          /\ <<"add", t.name, t.columns[i].name>> \notin ToSet(applied)}
  BY <1>1 DEF Lacking
<1>5. \A i \in 1..n : i \in keep <=> (t.columns[i].name \notin Columns(existing) /\ p < i)
  <2> TAKE i \in 1..n
  <2>1. i <= p <=> ~(p < i)
    BY <1>3
  <2>2. i \in keep <=> /\ t.columns[i].name \notin Columns(existing)
                      /\ <<"add", t.name, t.columns[i].name>> \notin ToSet(applied)
    BY <1>4, Zenon
  <2>3. t.columns[i].name \notin Columns(existing) =>
          (<<"add", t.name, t.columns[i].name>> \in ToSet(applied) <=> i <= p)
    BY <1>3, Zenon
  <2> QED
    BY <2>1, <2>2, <2>3, Zenon
<1>6. ASSUME NEW q \in 0..n, p <= q, \A i \in 1..n : p < i /\ i <= q => i \notin keep
      PROVE  g[q] = applied
  <2>1. \A i \in 1..n : p < i /\ i <= q => g[i] = g[i - 1]
    BY <1>2, <1>5, <1>6 DEF ColumnStep
  <2>2. g[q] = g[p]
    BY ONLY <1>3, <1>6, <2>1, n \in Nat, Constant
  <2> QED
    BY <1>3, <2>2
<1>7. t.columns \in Seq(ToSet(t.columns))
  BY DEF Declared
<1>8. ASSUME Lacking = <<>> PROVE applied = g[n]
  <2>1. {t.columns[i] : i \in keep \cap DOMAIN t.columns} = {}
    <3>1. ToSet(<<>>) = {}
      BY DEF ToSet
    <3>2. ToSet(Filtered(t.columns, keep)) = {t.columns[i] : i \in keep \cap DOMAIN t.columns}
      BY ONLY <1>7, FilteredElements
    <3> QED
      BY <1>4, <1>8, <3>1, <3>2, Zenon
  <2>2. \A i \in 1..n : i \notin keep
    BY <1>1, <2>1
  <2>3. n \in 0..n /\ p <= n
    BY <1>3
  <2> QED
    BY <1>6, <2>2, <2>3
<1>9. ASSUME Lacking # <<>> PROVE \E q : IsNext(t, g, q)
  <2>1. PICK q \in keep \cap (1..n) : Lacking[1] = t.columns[q] /\ \A i \in keep \cap (1..n) : q <= i
    <3>1. Filtered(t.columns, keep) # <<>>
      BY <1>4, <1>9
    <3>2. \E q \in keep \cap (1..Len(t.columns)) :
             /\ Filtered(t.columns, keep)[1] = t.columns[q]
             /\ \A i \in keep \cap (1..Len(t.columns)) : q <= i
      BY <1>7, <3>1, FilteredFirst
    <3> QED
      BY <1>1, <1>4, <3>2
  <2>2. q \in 1..n /\ t.columns[q].name \notin Columns(existing) /\ p < q
    BY <1>5, <2>1
  <2>3. g[q - 1] = applied
    <3>1. q - 1 \in 0..n /\ p <= q - 1
      BY <1>3, <2>2
    <3>2. \A i \in 1..n : p < i /\ i <= q - 1 => i \notin keep
      BY <2>1, <2>2
    <3> QED
      BY <1>6, <3>1, <3>2
  <2>4. g[q] = Append(applied, <<IF Lacking[1].pk THEN "give up" ELSE "add", t.name, Lacking[1].name>>)
    <3>1. g[q] = ColumnStep(t, existing, q, applied)
      BY <1>2, <2>2, <2>3
    <3> QED
      BY <2>1, <2>2, <3>1 DEF ColumnStep
  <2>5. ASSUME NEW i \in 1..n, t.columns[i].name \notin Columns(existing)
        PROVE  <<"add", t.name, t.columns[i].name>> \in ToSet(applied) \/ i = q <=> i <= q
    <3>1. i \in keep => q <= i
      BY <2>1
    <3>2. i \in keep <=> p < i
      BY <1>5, <2>5
    <3>3. <<"add", t.name, t.columns[i].name>> \in ToSet(applied) <=> i <= p
      BY <1>3, <2>5
    <3> QED
      BY <1>3, <2>2, <3>1, <3>2, <3>3
  <2>6. IsNext(t, g, q)
    BY <1>1, <2>1, <2>2, <2>4, <2>5 DEF IsNext
  <2> QED
    BY <2>6
<1> QED
  BY <1>1, <1>8, <1>9

\* Nothing is left of what was said of the table.
LEMMA NextTableAnnounced ==
    ASSUME Sound, Progress, Announced, NextTable
    PROVE  Announced'
PROOF
<1>1. /\ pc = "additive" /\ existing # None /\ Lacking = <<>> /\ todo' = Tail(todo) /\ existing' = None
      /\ UNCHANGED <<schema, catalog, plan, pc, applied, result>>
  BY DEF NextTable, database
<1>2. todo # <<>>
  BY <1>1 DEF Sound, Listed
<1>3. PICK t \in ToSet(schema) : t = todo[1] /\ Declared(t)
  BY <1>2, TheNextTable DEF Sound, Parsed
<1>4. PICK o : o = DependencyOrder(schema) /\ o = DependencyOrder(schema)'
  BY <1>1
<1>5. PICK c, k : AsPlanned(c, k)
  BY <1>1 DEF Announced
<1>6. PICK f : f = TableSteps(o, c) /\ f = TableSteps(DependencyOrder(schema)', c)
  BY <1>4
<1>7. /\ Reached(k) /\ plan = f[Len(o)] /\ ~GaveUp(applied) /\ ~GaveUp(f[k - 1])
      /\ \A s \in ToSet(applied) : s[1] = "add" => \E j \in 1..Len(o) : s[2] = o[j].name /\ j < k + 1
      /\ o[k].name \in DOMAIN c /\ existing = c[o[k].name]
      /\ \E p : UpToColumn(o[k], f[k - 1], p)
      /\ Untouched(c, k + 1)
  <2>1. /\ Reached(k) /\ plan = f[Len(o)] /\ ~GaveUp(applied) /\ ~GaveUp(f[k - 1])
        /\ \A s \in ToSet(applied) : s[1] = "add" =>
             \E j \in 1..Len(o) : s[2] = o[j].name /\ (j < k \/ (j = k /\ existing # None))
        /\ o[k].name \in DOMAIN c /\ existing = c[o[k].name]
        /\ \E p : UpToColumn(o[k], f[k - 1], p)
        /\ Untouched(c, k + 1)
    BY <1>1, <1>4, <1>5, <1>6 DEF AsPlanned
  <2>2. k \in Int
    BY <2>1 DEF Reached
  <2>3. \A j \in 1..Len(o) : j < k \/ j = k => j < k + 1
    BY <2>2
  <2> QED
    BY <2>1, <2>3
<1>8. k \in 1..Len(o) /\ t = o[k] /\ Reached(k + 1)'
  BY <1>1, <1>2, <1>3, <1>4, <1>7, ReachedTable DEF Sound
<1>9. Len(o) \in Nat /\ Len(t.columns) \in Nat
  BY <1>4, <1>8, OrderNames DEF Sound
<1>10. PICK X : /\ \A i \in 1..Len(o) : SaidOf(X, o[i]) /\ f[i] = TableStep(c, o[i], f[i - 1])
                /\ \A i \in 0..Len(o) : f[i] \in Seq(X) /\ IsPrefix(f[i], f[Len(o)])
  BY <1>4, <1>6, Plans DEF Sound
<1>11. applied = f[k]
  <2>1. PICK p : UpToColumn(t, f[k - 1], p)
    BY <1>7, <1>8
  <2>2. f[k - 1] \in Seq(X) /\ SaidOf(X, t)
    BY <1>8, <1>9, <1>10
  <2>3. applied = ColumnSteps(t, existing, f[k - 1])[Len(t.columns)]
    BY <1>1, <1>3, <1>7, <1>9, <2>1, <2>2, NextSaid
  <2>4. f[k] = TableStep(c, t, f[k - 1])
    BY <1>8, <1>10
  <2> QED
    BY <1>7, <1>8, <2>3, <2>4 DEF TableStep
<1>12. Untouched(c, k + 1)'
  BY <1>1, <1>7 DEF Untouched
<1>13. AsPlanned(c, k + 1)'
  <2>1. PICK m : m = k + 1 /\ m - 1 = k
    BY <1>8
  <2>2. \A s \in ToSet(applied)' : s[1] = "add" =>
          \E j \in 1..Len(o) : s[2] = o[j].name /\ (j < m \/ (j = m /\ existing' # None))
    BY <1>1, <1>7, <2>1 DEF ToSet
  <2>3. plan' = f[Len(o)] /\ ~GaveUp(applied)' /\ ~GaveUp(f[m - 1]) /\ applied' = f[m - 1]
    BY <1>1, <1>7, <1>11, <2>1 DEF GaveUp
  <2>4. existing' = None /\ Reached(m)' /\ Untouched(c, m)'
    BY <1>1, <1>8, <1>12, <2>1
  <2>5. AsPlanned(c, m)'
    BY <1>4, <1>6, <2>2, <2>3, <2>4 DEF AsPlanned
  <2> QED
    BY <2>1, <2>5
<1>14. result = None /\ None # "ok"
  BY <1>1, MigrateAssumption DEF Progress, Reported, Results
<1> QED
  BY <1>1, <1>13, <1>14 DEF Announced

\* The column that is added is the next that was said, and so is the one that
\* ends the run.
LEMMA AddMissingAnnounced ==
    ASSUME Sound, Progress, Announced, AddMissing
    PROVE  Announced'
PROOF
<1>1. /\ pc = "additive" /\ existing # None /\ Lacking # <<>>
      /\ UNCHANGED <<schema, todo, existing, plan>>
  BY DEF AddMissing
<1>2. todo # <<>> /\ todo[1].name \in DOMAIN catalog
  BY <1>1 DEF Sound, Listed
<1>3. PICK t \in ToSet(schema) : t = todo[1] /\ Declared(t)
  BY <1>2, TheNextTable DEF Sound, Parsed
<1>4. PICK o : o = DependencyOrder(schema) /\ o = DependencyOrder(schema)'
  BY <1>1
<1>5. PICK c, k : AsPlanned(c, k)
  BY <1>1 DEF Announced
<1>6. PICK f : f = TableSteps(o, c) /\ f = TableSteps(DependencyOrder(schema)', c)
  BY <1>4
<1>7. /\ Reached(k) /\ plan = f[Len(o)] /\ ~GaveUp(applied) /\ ~GaveUp(f[k - 1])
      /\ \A s \in ToSet(applied) : s[1] = "add" =>
           \E j \in 1..Len(o) : s[2] = o[j].name /\ (j < k \/ (j = k /\ existing # None))
      /\ k <= Len(o) /\ o[k].name \in DOMAIN c /\ existing = c[o[k].name]
      /\ \E p : UpToColumn(o[k], f[k - 1], p)
      /\ Untouched(c, k + 1)
  BY <1>1, <1>4, <1>5, <1>6 DEF AsPlanned
<1>8. k \in 1..Len(o) /\ t = o[k]
  BY <1>1, <1>2, <1>3, <1>4, <1>7, ReachedTable DEF Sound
<1>9. /\ Len(o) \in Nat /\ Len(t.columns) \in Nat
      /\ \A i, j \in 1..Len(o) : o[i].name = o[j].name => i = j
  BY <1>4, <1>8, OrderNames DEF Sound
<1>10. PICK X : /\ \A i \in 1..Len(o) : SaidOf(X, o[i]) /\ f[i] = TableStep(c, o[i], f[i - 1])
                /\ \A i \in 0..Len(o) : f[i] \in Seq(X) /\ IsPrefix(f[i], f[Len(o)])
  BY <1>4, <1>6, Plans DEF Sound
<1>11. PICK g : g = ColumnSteps(t, existing, f[k - 1])
  OBVIOUS
<1>12. f[k - 1] \in Seq(X) /\ SaidOf(X, t)
  BY <1>8, <1>9, <1>10
<1>13. /\ g[Len(t.columns)] = f[k]
       /\ \A j \in 0..Len(t.columns) : g[j] \in Seq(X) /\ IsPrefix(g[j], g[Len(t.columns)])
  <2>1. \A j \in 0..Len(t.columns) : g[j] \in Seq(X) /\ IsPrefix(g[j], g[Len(t.columns)])
    BY <1>9, <1>11, <1>12, ColumnPlans
  <2>2. f[k] = TableStep(c, t, f[k - 1])
    BY <1>8, <1>10
  <2> QED
    BY <1>7, <1>8, <1>11, <2>1, <2>2 DEF TableStep
<1>14. PICK p : UpToColumn(t, f[k - 1], p)
  BY <1>7, <1>8
<1>15. PICK col : col = Lacking[1]
  OBVIOUS
<1>16. PICK q \in 1..Len(t.columns) :
         /\ col = t.columns[q] /\ col.name \notin Columns(existing)
         /\ g[q] = Append(applied, <<IF col.pk THEN "give up" ELSE "add", t.name, col.name>>)
         /\ \A i \in 1..Len(t.columns) :
              t.columns[i].name \notin Columns(existing) =>
                (<<"add", t.name, t.columns[i].name>> \in ToSet(applied) \/ i = q <=> i <= q)
  <2>1. todo[1] = t /\ Lacking # <<>> /\ Declared(t) /\ Len(t.columns) \in Nat /\ ~GaveUp(applied)
    BY <1>1, <1>3, <1>7, <1>9
  <2>2. PICK q : IsNext(t, g, q)
    BY <2>1, <1>11, <1>12, <1>14, NextSaid
  <2> QED
    BY <1>15, <2>2 DEF IsNext
<1>17. IsPrefix(g[q], plan)
  <2>1. q \in 0..Len(t.columns) /\ Len(t.columns) \in 0..Len(t.columns)
    BY <1>9
  <2>2. g[q] \in Seq(X) /\ f[k] \in Seq(X) /\ IsPrefix(g[q], f[k])
    BY <1>13, <2>1
  <2>3. f[Len(o)] \in Seq(X) /\ IsPrefix(f[k], f[Len(o)])
    BY <1>8, <1>9, <1>10
  <2> QED
    BY <1>7, <2>2, <2>3, PrefixOfPrefix
<1>18. result = None /\ None # "ok" /\ None # "primary key" /\ None # "duplicate column"
  BY <1>1, MigrateAssumption DEF Progress, Reported, Results
<1>19. PICK failed : failed = IF col.pk THEN "primary key" ELSE AddFails(t.name, col)
  OBVIOUS
<1>20. CASE failed # None
  <2>1. pc' = "done" /\ result' = failed
        /\ applied' = IF col.pk THEN Append(applied, <<"give up", t.name, col.name>>) ELSE applied
    BY <1>3, <1>15, <1>19, <1>20 DEF AddMissing, Finish
  <2>2. failed # "ok"
    BY <1>18, <1>19 DEF AddFails
  <2>3. IsPrefix(applied', plan')
    BY <1>1, <1>16, <1>17, <2>1 DEF Announced
  <2> QED
    BY <2>1, <2>2, <2>3 DEF Announced
<1>21. CASE failed = None
  <2>1. PICK shape : shape = AddColumn(dialect, catalog[t.name], col)
    OBVIOUS
  <2>2. /\ ~col.pk /\ catalog' = [catalog EXCEPT ![t.name] = shape]
        /\ applied' = Append(applied, <<"add", t.name, col.name>>)
        /\ UNCHANGED <<pc, result>>
    <3>1. ~col.pk
      BY <1>18, <1>19, <1>21
    <3> QED
      BY <1>3, <1>15, <1>19, <1>21, <2>1, <3>1 DEF AddMissing
  <2>3. applied' = g[q]
    BY <1>16, <2>2
  <2>4. /\ ~GaveUp(applied')
        /\ ToSet(applied') = ToSet(applied) \cup {<<"add", t.name, col.name>>}
    <3>1. applied \in Seq(X)
      <4>1. p \in 0..Len(t.columns) /\ applied = g[p]
        BY <1>11, <1>14 DEF UpToColumn
      <4> QED
        BY <1>13, <4>1
    <3>2. PICK e : e = <<"add", t.name, col.name>> /\ e \in X
      BY <1>12, <1>16 DEF SaidOf, SaidOfColumns
    <3>3. Last(applied') = e /\ e[1] # "give up"
      BY <2>2, <3>1, <3>2 DEF Last
    <3>4. applied \in Seq(ToSet(applied))
      BY <3>1, OfItsElements
    <3> QED
      BY <2>2, <3>2, <3>3, <3>4, AppendElements DEF GaveUp
  <2>5. UpToColumn(t, f[k - 1], q)'
    <3>1. \A i, j \in 1..Len(t.columns) : t.columns[i].name = t.columns[j].name => i = j
      BY <1>3, ColumnNames
    <3>2. ASSUME NEW i \in 1..Len(t.columns), t.columns[i].name \notin Columns(existing)
          PROVE  <<"add", t.name, t.columns[i].name>> \in ToSet(applied') <=> i <= q
      <4>1. <<"add", t.name, t.columns[i].name>> = <<"add", t.name, col.name>> <=> i = q
        BY <1>16, <3>1
      <4>2. <<"add", t.name, t.columns[i].name>> \in ToSet(applied')
              <=> <<"add", t.name, t.columns[i].name>> \in ToSet(applied) \/ i = q
        BY <2>4, <4>1
      <4> QED
        BY <1>16, <3>2, <4>2
    <3>3. ToSet(applied)' = ToSet(applied') /\ Columns(existing)' = Columns(existing)
      BY <1>1 DEF ToSet, Columns
    <3>4. applied' = ColumnSteps(t, existing', f[k - 1])[q] /\ q \in 0..Len(t.columns)
      BY <1>1, <1>9, <1>11, <2>3
    <3> QED
      BY <3>2, <3>3, <3>4 DEF UpToColumn
  <2>6. Untouched(c, k + 1)'
    <3> SUFFICES ASSUME NEW j \in (k + 1)..Len(o)
                 PROVE  /\ o[j].name \in DOMAIN c <=> o[j].name \in DOMAIN catalog'
                        /\ o[j].name \in DOMAIN c => catalog'[o[j].name] = c[o[j].name]
      BY <1>4 DEF Untouched
    <3>1. j \in 1..Len(o) /\ j # k
      BY <1>8
    <3>2. o[j].name # t.name
      BY <1>8, <1>9, <3>1
    <3>3. /\ o[j].name \in DOMAIN c <=> o[j].name \in DOMAIN catalog
          /\ o[j].name \in DOMAIN c => catalog[o[j].name] = c[o[j].name]
      BY <1>4, <1>7 DEF Untouched
    <3> QED
      BY <2>2, <3>2, <3>3
  <2>7. AsPlanned(c, k)'
    <3>1. \A s \in ToSet(applied)' : s[1] = "add" =>
            \E j \in 1..Len(o) : s[2] = o[j].name /\ (j < k \/ (j = k /\ existing' # None))
      <4>1. ToSet(applied)' = ToSet(applied) \cup {<<"add", t.name, col.name>>}
        BY <2>4 DEF ToSet
      <4>2. <<"add", t.name, col.name>>[2] = o[k].name
        BY <1>8
      <4> QED
        BY <1>1, <1>7, <1>8, <4>1, <4>2
    <3>2. plan' = f[Len(o)] /\ ~GaveUp(applied)' /\ ~GaveUp(f[k - 1])
      BY <1>1, <1>7, <2>4 DEF GaveUp
    <3>3. Reached(k)'
      BY <1>1, <1>7 DEF Reached
    <3>4. \E x : UpToColumn(o[k], f[k - 1], x)'
      BY <1>8, <2>5
    <3>5. existing' # None /\ k <= Len(o) /\ o[k].name \in DOMAIN c /\ existing' = c[o[k].name]
      BY <1>1, <1>7
    <3> QED
      BY <1>4, <1>6, <2>6, <3>1, <3>2, <3>3, <3>4, <3>5 DEF AsPlanned
  <2>8. IsPrefix(applied', plan')
    BY <1>1, <1>17, <2>3
  <2> QED
    BY <1>1, <1>18, <2>2, <2>7, <2>8 DEF Announced
<1> QED
  BY <1>20, <1>21

\* When no table is left, all that was said has been done.
LEMMA AdditiveDoneAnnounced ==
    ASSUME Sound, Progress, Announced, AdditiveDone
    PROVE  Announced'
PROOF
<1>1. pc = "additive" /\ todo = <<>> /\ pc' # "additive" /\ UNCHANGED <<plan, applied>>
  BY DEF AdditiveDone, Finish
<1>2. PICK o : o = DependencyOrder(schema)
  OBVIOUS
<1>3. PICK c, k : AsPlanned(c, k)
  BY <1>1 DEF Announced
<1>4. PICK f : f = TableSteps(o, c)
  OBVIOUS
<1>5. Len(o) \in Nat
  BY <1>2, OrderNames DEF Sound
<1>6. k = Len(o) + 1
  <2>1. Reached(k) /\ Len(todo) = 0
    BY <1>1, <1>3 DEF AsPlanned
  <2>2. k \in 1..(Len(o) + 1) /\ 0 = Len(o) + 1 - k
    BY <1>2, <2>1 DEF Reached
  <2> QED
    BY <1>5, <2>2
<1>7. existing = None
  BY <1>2, <1>3, <1>5, <1>6 DEF AsPlanned
<1>8. applied = f[k - 1] /\ plan = f[Len(o)] /\ k - 1 = Len(o)
  BY <1>2, <1>3, <1>4, <1>5, <1>6, <1>7 DEF AsPlanned
<1> QED
  BY <1>1, <1>8, StaysAnnounced

\* The steps after the additive pass, and those that end a run.
LEMMA LaterAnnounced ==
    ASSUME Sound, Progress, Announced,
           \/ CheckTable \/ CreateTmp \/ CopyRows \/ DropOld \/ RenameTmp
           \/ Commit \/ CommitFails \/ StepFails \/ Rollback \/ RebuildDone \/ Restore \/ Crash
    PROVE  Announced'
PROOF
<1>1. UNCHANGED <<plan, applied>>
  BY DEF CheckTable, CreateTmp, CopyRows, DropOld, RenameTmp, Commit, CommitFails, StepFails,
         Rollback, RebuildDone, Restore, Crash, Rebuilding
<1>2. pc' # "additive"
  BY DEF CheckTable, CreateTmp, CopyRows, DropOld, RenameTmp, Commit, CommitFails, StepFails,
         Rollback, RebuildDone, Restore, Crash, Rebuilding
<1>3. /\ result' = "ok" => result = "ok" \/ pc = "rebuild"
      /\ pc' \in {"rebuild", "begin", "copy", "drop", "rename", "commit"} =>
           pc \in {"rebuild", "begin", "copy", "drop", "rename", "commit"}
  BY DEF CheckTable, CreateTmp, CopyRows, DropOld, RenameTmp, Commit, CommitFails, StepFails,
         Rollback, RebuildDone, Restore, Crash, Rebuilding
<1>4. pc' \in {"rebuild", "begin", "copy", "drop", "rename", "commit"} \/ result' = "ok" => applied = plan
  BY <1>3 DEF Announced
<1> QED
  BY <1>1, <1>2, <1>4, StaysAnnounced

\* Nothing has been said or done.
LEMMA AnnouncedAtFirst ==
    ASSUME Init
    PROVE  Announced
PROOF
<1>1. pc = "done" /\ applied = <<>> /\ plan = <<>> /\ result = None
  BY DEF Init
<1>2. None # "ok"
  BY MigrateAssumption DEF Results
<1>3. IsPrefix(<<>>, <<>>)
  <2>1. Len(<<>>) = 0
    OBVIOUS
  <2> QED
    BY <2>1 DEF IsPrefix
<1> QED
  BY <1>1, <1>2, <1>3 DEF Announced

\* Every step keeps Announced.
LEMMA AnnouncedNext ==
    ASSUME Sound, Progress, Announced, [Next]_vars
    PROVE  Announced'
PROOF
<1>1. ASSUME NEW r \in BOOLEAN, Start(r) PROVE Announced'
  BY <1>1, StartAnnounced
<1>2. CASE ReadTable BY <1>2, ReadTableAnnounced
<1>3. CASE AddMissing BY <1>3, AddMissingAnnounced
<1>4. CASE NextTable BY <1>4, NextTableAnnounced
<1>5. CASE AdditiveDone BY <1>5, AdditiveDoneAnnounced
<1>6. CASE \/ CheckTable \/ CreateTmp \/ CopyRows \/ DropOld \/ RenameTmp
           \/ Commit \/ CommitFails \/ StepFails \/ Rollback \/ RebuildDone \/ Restore \/ Crash
  BY <1>6, LaterAnnounced
<1>7. CASE AppInserts \/ UNCHANGED vars
  <2>1. UNCHANGED <<schema, catalog, todo, existing, plan, applied, pc, result>>
    BY <1>7 DEF AppInserts, run, vars
  <2> QED
    BY <2>1, AsAnnounced
<1> QED
  BY <1>1, <1>2, <1>3, <1>4, <1>5, <1>6, <1>7 DEF Next, Migrating, Quiet

\* What a run does is what --dry-run said at its start it would do, as far as
\* it comes, for every schema and every database, though the dry run reads
\* every table before any is changed and the run reads each one when its turn
\* comes, while the application works on; a run that succeeds has done all of
\* it (migrate_plan and migrate share migrate_inner, db.rs:762-795).
THEOREM DryRunTellsAllHolds ==
    ASSUME NoneIsNoDatabase
    PROVE  Spec => []DryRunTellsAll
PROOF
<1>1. Init => Progress /\ Announced
  BY ProgressAtFirst, AnnouncedAtFirst
<1>2. Sound /\ Progress /\ Announced /\ [Next]_vars => Progress' /\ Announced'
  BY ProgressNext, AnnouncedNext
<1>3. Announced => DryRunTellsAll
  BY DEF Announced, DryRunTellsAll
<1>4. Spec => []Sound
  BY SoundHolds
<1> QED
  BY <1>1, <1>2, <1>3, <1>4, PTL DEF Spec

-----------------------------------------------------------------------------
(* Filters and maps of concatenations. *)

\* The places at which a sequence has an element of K, and those elements, as
\* f has them.
Where(seq, K) == {k \in DOMAIN seq : seq[k] \in K}
Mapped(seq, f) == [k \in DOMAIN seq |-> f[seq[k]]]
Picked(seq, K, f) == Mapped(Filtered(seq, Where(seq, K)), f)
IsMap(f, S, R) == f \in [S -> R]

\* G has what filtering has kept so far.
Filters(S, seq, keep, n, G) ==
    /\ G[0] = <<>> /\ Filtered(seq, keep) = G[n]
    /\ \A i \in 0..n : G[i] \in Seq(S)
    /\ \A i \in 1..n : G[i] = G[i - 1] \o (IF i \in keep THEN <<seq[i]>> ELSE <<>>)

LEMMA FilteredGrows ==
    ASSUME NEW S, NEW seq, seq \in Seq(S), NEW keep, NEW n, n = Len(seq)
    PROVE  \E G : Filters(S, seq, keep, n, G)
PROOF
<1>1. PICK G : /\ G[0] = <<>> /\ Filtered(seq, keep) = G[Len(seq)]
               /\ \A i \in 0..Len(seq) : G[i] \in Seq(S)
               /\ \A i \in 1..Len(seq) :
                    G[i] = IF i \in keep THEN Append(G[i - 1], seq[i]) ELSE G[i - 1]
  BY FilteredRuns
<1>2. n \in Nat
  OBVIOUS
<1>3. ASSUME NEW i \in 1..n PROVE G[i] = G[i - 1] \o (IF i \in keep THEN <<seq[i]>> ELSE <<>>)
  <2>1. PICK x, z : x = G[i - 1] /\ z = seq[i]
    OBVIOUS
  <2>2. x \in Seq(S) /\ z \in S
    <3>1. i - 1 \in 0..n
      BY <1>2
    <3> QED
      BY <1>1, <2>1, <3>1
  <2>3. Append(x, z) = x \o <<z>> /\ x \o <<>> = x
    <3>1. x \in Seq(S) /\ z \in S
      BY <2>2
    <3> QED
      BY ONLY <3>1, AppendIsConcat, ConcatEmptySeq
  <2> QED
    BY <1>1, <2>1, <2>3
<1> QED
  BY <1>1, <1>3 DEF Filters

\* Filtering goes on behind the first sequence.
LEMMA FilteredConcat ==
    ASSUME NEW S, NEW a, a \in Seq(S), NEW b, b \in Seq(S), NEW K, NEW c, c = a \o b,
           NEW x, x = Filtered(a, Where(a, K)), NEW y, y = Filtered(b, Where(b, K)),
           NEW z, z = Filtered(c, Where(c, K))
    PROVE  x \in Seq(S) /\ y \in Seq(S) /\ z \in Seq(S) /\ AndThen(z, x, Len(x), y, Len(y))
PROOF
<1>1. PICK n \in Nat, m \in Nat : n = Len(a) /\ m = Len(b)
  OBVIOUS
<1>2. /\ c \in Seq(S) /\ Len(c) = n + m
      /\ \A i \in 1..n : c[i] = a[i]
      /\ \A i \in 1..m : c[n + i] = b[i]
  BY <1>1
<1>3. PICK keepA, keepB, keepC : keepA = Where(a, K) /\ keepB = Where(b, K) /\ keepC = Where(c, K)
  OBVIOUS
<1>4. /\ \A i \in 1..n : i \in keepC <=> i \in keepA
      /\ \A i \in 1..m : n + i \in keepC <=> i \in keepB
  <2>1. DOMAIN a = 1..n /\ DOMAIN b = 1..m /\ DOMAIN c = 1..(n + m)
    BY <1>1, <1>2
  <2>2. \A i \in 1..n : i \in 1..(n + m)
    OBVIOUS
  <2>3. \A i \in 1..m : n + i \in 1..(n + m)
    OBVIOUS
  <2> QED
    BY <1>2, <1>3, <2>1, <2>2, <2>3 DEF Where
<1>5. PICK A : Filters(S, a, keepA, n, A)
  BY <1>1, FilteredGrows
<1>6. PICK B : Filters(S, b, keepB, m, B)
  BY <1>1, FilteredGrows
<1>7. PICK C : Filters(S, c, keepC, n + m, C)
  BY <1>2, FilteredGrows
<1>8. C[n] = A[n]
  <2>1. PICK P : P = {i \in 0..n : C[i] = A[i]}
    OBVIOUS
  <2>2. 0 \in P
    BY <1>5, <1>7, <2>1 DEF Filters
  <2>3. ASSUME NEW i \in 1..n, i - 1 \in P PROVE i \in P
    <3>1. i \in 1..(n + m) /\ i \in 0..n
      OBVIOUS
    <3>2. A[i] = A[i - 1] \o (IF i \in keepA THEN <<a[i]>> ELSE <<>>)
      BY <1>5 DEF Filters
    <3>3. C[i] = C[i - 1] \o (IF i \in keepC THEN <<c[i]>> ELSE <<>>)
      BY <1>7, <3>1 DEF Filters
    <3>4. C[i - 1] = A[i - 1] /\ c[i] = a[i] /\ (i \in keepC <=> i \in keepA)
      BY <1>2, <1>4, <2>1, <2>3
    <3> QED
      BY <2>1, <3>1, <3>2, <3>3, <3>4
  <2>4. 0..n \subseteq P
    BY <2>2, <2>3, UpTo
  <2> QED
    BY <2>1, <2>4
<1>9. C[n + m] = A[n] \o B[m]
  <2>1. PICK P : P = {i \in 0..m : C[n + i] = A[n] \o B[i]}
    OBVIOUS
  <2>2. 0 \in P
    <3>1. PICK u : u = A[n]
      OBVIOUS
    <3>2. u \in Seq(S)
      <4>1. n \in 0..n
        OBVIOUS
      <4> QED
        BY <1>5, <3>1, <4>1 DEF Filters
    <3>3. u \o <<>> = u
      BY <3>2
    <3>4. n + 0 = n /\ 0 \in 0..m /\ B[0] = <<>>
      BY <1>6 DEF Filters
    <3> QED
      BY <1>8, <2>1, <3>1, <3>3, <3>4
  <2>3. ASSUME NEW i \in 1..m, i - 1 \in P PROVE i \in P
    <3>1. PICK j \in 0..m, l \in 1..(n + m) : j = i - 1 /\ l = n + i /\ l - 1 = n + j
      <4>1. i - 1 \in 0..m /\ n + i \in 1..(n + m) /\ (n + i) - 1 = n + (i - 1)
        OBVIOUS
      <4> QED
        BY <4>1
    <3>2. PICK u, v, w : u = A[n] /\ v = B[j] /\ w = (IF i \in keepB THEN <<b[i]>> ELSE <<>>)
      OBVIOUS
    <3>3. u \in Seq(S) /\ v \in Seq(S) /\ w \in Seq(S)
      <4>1. n \in 0..n /\ b[i] \in S
        BY <1>1
      <4>2. <<b[i]>> \in Seq(S) /\ <<>> \in Seq(S)
        BY <4>1
      <4> QED
        BY <1>5, <1>6, <3>2, <4>1, <4>2 DEF Filters
    <3>4. C[n + j] = u \o v
      BY <2>1, <2>3, <3>1, <3>2
    <3>5. C[l] = C[l - 1] \o (IF l \in keepC THEN <<c[l]>> ELSE <<>>)
      BY <1>7 DEF Filters
    <3>6. C[l] = (u \o v) \o w
      <4>1. c[l] = b[i] /\ (l \in keepC <=> i \in keepB)
        BY <1>2, <1>4, <3>1
      <4> QED
        BY <3>1, <3>2, <3>4, <3>5, <4>1
    <3>7. B[i] = v \o w
      BY <1>6, <3>1, <3>2 DEF Filters
    <3>8. (u \o v) \o w = u \o (v \o w)
      <4>1. u \in Seq(S) /\ v \in Seq(S) /\ w \in Seq(S)
        BY <3>3
      <4> QED
        BY ONLY <4>1, ConcatAssociative
    <3>9. i \in 0..m
      OBVIOUS
    <3> QED
      BY <2>1, <3>1, <3>2, <3>6, <3>7, <3>8, <3>9
  <2>4. 0..m \subseteq P
    BY <2>2, <2>3, UpTo
  <2>5. m \in P
    BY <2>4
  <2> QED
    BY <2>1, <2>5
<1>10. z = x \o y
  BY <1>3, <1>5, <1>6, <1>7, <1>9 DEF Filters
<1>11. x \in Seq(S) /\ y \in Seq(S)
  <2>1. n \in 0..n /\ m \in 0..m
    OBVIOUS
  <2> QED
    BY <1>3, <1>5, <1>6, <2>1 DEF Filters
<1>12. z \in Seq(S) /\ AndThen(z, x, Len(x), y, Len(y))
  BY ONLY <1>10, <1>11, ConcatIs
<1> QED
  BY <1>11, <1>12

\* A map of a sequence.
LEMMA MappedIs ==
    ASSUME NEW S, NEW R, NEW f, IsMap(f, S, R), NEW a, a \in Seq(S)
    PROVE  /\ Mapped(a, f) \in Seq(R) /\ Len(Mapped(a, f)) = Len(a)
           /\ \A i \in 1..Len(a) : Mapped(a, f)[i] = f[a[i]] /\ a[i] \in S
PROOF
<1>1. PICK n \in Nat : n = Len(a) /\ DOMAIN a = 1..n /\ \A i \in 1..n : a[i] \in S
  OBVIOUS
<1>2. PICK x : x = Mapped(a, f)
  OBVIOUS
<1>3. x \in [1..n -> R] /\ \A i \in 1..n : x[i] = f[a[i]]
  BY <1>1, <1>2 DEF Mapped, IsMap
<1> QED
  BY <1>1, <1>2, <1>3

\* Only a concatenation is one and then the other.
LEMMA ConcatOnly ==
    ASSUME NEW S, NEW a, a \in Seq(S), NEW b, b \in Seq(S), NEW c, c \in Seq(S),
           NEW n, n = Len(a), NEW m, m = Len(b), AndThen(c, a, n, b, m)
    PROVE  c = a \o b
PROOF
<1>1. PICK d : d = a \o b
  OBVIOUS
<1>2. d \in Seq(S) /\ AndThen(d, a, n, b, m)
  BY <1>1, ConcatIs
<1>3. n \in Nat /\ m \in Nat /\ Len(c) = n + m /\ Len(d) = n + m
  BY <1>2 DEF AndThen
<1>4. ASSUME NEW i \in 1..(n + m) PROVE c[i] = d[i]
  <2>1. i \in 1..n \/ \E j \in 1..m : i = n + j
    <3>1. i \notin 1..n => i - n \in 1..m /\ i = n + (i - n)
      BY <1>3
    <3> QED
      BY <3>1
  <2> QED
    BY <1>2, <2>1 DEF AndThen
<1>5. c = d
  <2>1. Len(c) = Len(d) /\ \A i \in 1..Len(c) : c[i] = d[i]
    BY <1>3, <1>4
  <2> QED
    BY <1>2, <2>1, SeqEqual
<1> QED
  BY <1>1, <1>5

\* A map of a concatenation.
LEMMA MappedConcat ==
    ASSUME NEW S, NEW R, NEW f, IsMap(f, S, R), NEW a, a \in Seq(S), NEW b, b \in Seq(S),
           NEW c, c \in Seq(S), NEW n, NEW m, n = Len(a), m = Len(b), AndThen(c, a, n, b, m)
    PROVE  AndThen(Mapped(c, f), Mapped(a, f), n, Mapped(b, f), m)
PROOF
<1>1. n \in Nat /\ m \in Nat /\ Len(c) = n + m
  BY DEF AndThen
<1>2. PICK x, y, z : x = Mapped(a, f) /\ y = Mapped(b, f) /\ z = Mapped(c, f)
  OBVIOUS
<1>3. /\ Len(z) = n + m
      /\ \A i \in 1..n : x[i] = f[a[i]]
      /\ \A i \in 1..m : y[i] = f[b[i]]
      /\ \A i \in 1..(n + m) : z[i] = f[c[i]]
  BY <1>1, <1>2, MappedIs
<1>4. \A i \in 1..n : i \in 1..(n + m)
  BY <1>1
<1>5. \A i \in 1..m : n + i \in 1..(n + m)
  BY <1>1
<1>6. \A i \in 1..n : z[i] = x[i]
  BY <1>3, <1>4 DEF AndThen
<1>7. \A i \in 1..m : z[n + i] = y[i]
  BY <1>3, <1>5 DEF AndThen
<1> QED
  BY <1>1, <1>2, <1>3, <1>6, <1>7 DEF AndThen

\* A map goes through a filter.
LEMMA FilteredMapped ==
    ASSUME NEW S, NEW R, NEW s, s \in Seq(S), NEW f, IsMap(f, S, R), NEW keep
    PROVE  Filtered(Mapped(s, f), keep) = Mapped(Filtered(s, keep), f)
PROOF
<1>1. PICK n \in Nat : n = Len(s) /\ DOMAIN s = 1..n
  OBVIOUS
<1>2. PICK t : t = Mapped(s, f)
  OBVIOUS
<1>3. t \in Seq(R) /\ Len(t) = n /\ \A i \in 1..n : t[i] = f[s[i]] /\ s[i] \in S
  BY <1>1, <1>2, MappedIs
<1>4. PICK A : Filters(S, s, keep, n, A)
  BY <1>1, FilteredGrows
<1>5. PICK B : Filters(R, t, keep, n, B)
  BY <1>3, FilteredGrows
<1>6. PICK P : P = {i \in 0..n : B[i] = Mapped(A[i], f)}
  OBVIOUS
<1>7. 0 \in P
  <2>1. Mapped(<<>>, f) = <<>>
    BY DEF Mapped, IsMap
  <2> QED
    BY <1>4, <1>5, <1>6, <2>1 DEF Filters
<1>8. ASSUME NEW i \in 1..n, i - 1 \in P PROVE i \in P
  <2>1. PICK x, z, y : /\ x = A[i - 1] /\ z = (IF i \in keep THEN <<s[i]>> ELSE <<>>)
                       /\ y = (IF i \in keep THEN <<t[i]>> ELSE <<>>)
    OBVIOUS
  <2>2. x \in Seq(S) /\ z \in Seq(S)
    <3>1. i - 1 \in 0..n /\ s[i] \in S
      BY <1>3
    <3>2. <<s[i]>> \in Seq(S) /\ <<>> \in Seq(S)
      BY <3>1
    <3> QED
      BY <1>4, <2>1, <3>1, <3>2 DEF Filters
  <2>3. Mapped(z, f) = y
    <3>1. t[i] = f[s[i]]
      BY <1>3
    <3> QED
      BY <2>1, <3>1 DEF Mapped, IsMap
  <2>4. Mapped(x \o z, f) = Mapped(x, f) \o y
    <3>1. PICK c, k, l : c = x \o z /\ k = Len(x) /\ l = Len(z)
      OBVIOUS
    <3>2. c \in Seq(S) /\ AndThen(c, x, k, z, l)
      BY ONLY <2>2, <3>1, ConcatIs
    <3>3. PICK u, v : u = Mapped(c, f) /\ v = Mapped(x, f)
      OBVIOUS
    <3>4. u \in Seq(R) /\ v \in Seq(R) /\ y \in Seq(R) /\ Len(v) = k /\ Len(y) = l
      <4>1. u \in Seq(R)
        BY <3>2, <3>3, MappedIs
      <4>2. v \in Seq(R) /\ Len(v) = k
        BY <2>2, <3>1, <3>3, MappedIs
      <4>3. y \in Seq(R) /\ Len(y) = l
        BY <2>2, <2>3, <3>1, MappedIs
      <4> QED
        BY <4>1, <4>2, <4>3
    <3>5. AndThen(u, v, k, y, l)
      BY <2>2, <2>3, <3>1, <3>2, <3>3, MappedConcat
    <3>6. u = v \o y
      BY ONLY <3>4, <3>5, ConcatOnly
    <3> QED
      BY <3>1, <3>3, <3>6
  <2>5. B[i] = B[i - 1] \o y
    BY <1>5, <2>1 DEF Filters
  <2>6. A[i] = x \o z
    BY <1>4, <2>1 DEF Filters
  <2>7. i \in 0..n /\ B[i - 1] = Mapped(x, f)
    BY <1>6, <1>8, <2>1
  <2> QED
    BY <1>6, <2>3, <2>4, <2>5, <2>6, <2>7
<1>9. 0..n \subseteq P
  BY <1>7, <1>8, UpTo
<1> QED
  BY <1>1, <1>2, <1>4, <1>5, <1>6, <1>9 DEF Filters

\* What is picked of the one is behind what is picked of the other.
PickedOn(R, K, f, a, b, c) ==
    \E u, v, w \in Seq(R) :
        /\ u = Picked(a, K, f) /\ v = Picked(b, K, f) /\ w = Picked(c, K, f)
        /\ AndThen(w, u, Len(u), v, Len(v))

\* Picking goes on behind the first sequence.
LEMMA PickedConcat ==
    ASSUME NEW S, NEW R, NEW f, IsMap(f, S, R), NEW K, NEW a, a \in Seq(S), NEW b, b \in Seq(S),
           NEW c, c = a \o b
    PROVE  PickedOn(R, K, f, a, b, c)
PROOF
<1>1. PICK x, y, z : /\ x = Filtered(a, Where(a, K)) /\ y = Filtered(b, Where(b, K))
                     /\ z = Filtered(c, Where(c, K))
  OBVIOUS
<1>2. x \in Seq(S) /\ y \in Seq(S) /\ z \in Seq(S) /\ AndThen(z, x, Len(x), y, Len(y))
  BY <1>1, FilteredConcat
<1>4. PICK k, l : k = Len(x) /\ l = Len(y)
  OBVIOUS
<1>5. AndThen(z, x, k, y, l)
  BY <1>2, <1>4
<1>6. PICK u, v, w : u = Mapped(x, f) /\ v = Mapped(y, f) /\ w = Mapped(z, f)
  OBVIOUS
<1>7. u \in Seq(R) /\ Len(u) = k
  BY <1>2, <1>4, <1>6, MappedIs
<1>8. v \in Seq(R) /\ Len(v) = l
  BY <1>2, <1>4, <1>6, MappedIs
<1>9. w \in Seq(R)
  BY <1>2, <1>6, MappedIs
<1>10. AndThen(w, u, k, v, l)
  BY <1>2, <1>4, <1>5, <1>6, MappedConcat
<1>11. u = Picked(a, K, f) /\ v = Picked(b, K, f) /\ w = Picked(c, K, f)
  BY <1>1, <1>6 DEF Picked
<1> QED
  BY <1>7, <1>8, <1>9, <1>10, <1>11 DEF PickedOn

\* Nothing picked from nothing.
LEMMA PickedNothing == \A K, f : Picked(<<>>, K, f) = <<>>
PROOF
<1>1. Filtered(<<>>, {}) = <<>>
  <2>1. PICK s : s = <<>> /\ s \in Seq(Nat) /\ 0 = Len(s)
    BY EmptySeq
  <2>2. PICK G : Filters(Nat, s, {}, 0, G)
    BY <2>1, FilteredGrows
  <2> QED
    BY <2>1, <2>2 DEF Filters
<1>2. \A K : Where(<<>>, K) = {}
  BY DEF Where
<1>3. \A f : Mapped(<<>>, f) = <<>>
  BY DEF Mapped
<1> QED
  BY <1>1, <1>2, <1>3 DEF Picked

\* What is picked of each sequence.
Parts(seqs, K, f) == [i \in DOMAIN seqs |-> Picked(seqs[i], K, f)]

\* What is picked of a concatenation is picked of each sequence.
LEMMA PickedFlatten ==
    ASSUME NEW S, NEW R, NEW f, IsMap(f, S, R), NEW K, NEW seqs, seqs \in Seq(Seq(S))
    PROVE  /\ Parts(seqs, K, f) \in Seq(Seq(R))
           /\ Picked(FlattenSeq(seqs), K, f) = FlattenSeq(Parts(seqs, K, f))
PROOF
<1>0. PICK parts : parts = Parts(seqs, K, f)
  OBVIOUS
<1>1. PICK n : n = Len(seqs)
  OBVIOUS
<1>2. n \in Nat /\ InTurn(S, seqs, n) /\ DOMAIN seqs = 1..n
  BY <1>1, FlattenUpto
<1>3. parts \in Seq(Seq(R)) /\ n = Len(parts) /\ \A i \in 1..n : parts[i] = Picked(seqs[i], K, f)
  <2>1. ASSUME NEW i \in 1..n PROVE Picked(seqs[i], K, f) \in Seq(R)
    <3>1. PICK x, c : x = seqs[i] /\ c = x \o <<>>
      OBVIOUS
    <3>2. x \in Seq(S) /\ <<>> \in Seq(S)
      BY <1>1, <1>2, <3>1
    <3>3. PickedOn(R, K, f, x, <<>>, c)
      BY <3>1, <3>2, PickedConcat
    <3> QED
      BY <3>1, <3>3 DEF PickedOn
  <2>2. PICK T : T = Seq(R)
    OBVIOUS
  <2>3. parts \in [1..n -> T] /\ \A i \in 1..n : parts[i] = Picked(seqs[i], K, f)
    BY <1>0, <1>2, <2>1, <2>2 DEF Parts
  <2> QED
    BY <1>2, <2>2, <2>3
<1>4. InTurn(R, parts, n)
  BY <1>3, FlattenUpto
<1>5. PICK P : P = {i \in 0..n : Picked(Upto(seqs, i), K, f) = Upto(parts, i)}
  OBVIOUS
<1>6. 0 \in P
  <2>1. Upto(seqs, 0) = <<>> /\ Upto(parts, 0) = <<>>
    BY <1>2, <1>4 DEF InTurn
  <2>2. Picked(<<>>, K, f) = <<>>
    BY PickedNothing
  <2> QED
    BY <1>2, <1>5, <2>1, <2>2
<1>7. ASSUME NEW i \in 1..n, i - 1 \in P PROVE i \in P
  <2>1. PICK x, y, c : x = Upto(seqs, i - 1) /\ y = seqs[i] /\ c = Upto(seqs, i)
    OBVIOUS
  <2>2. i - 1 \in 0..n /\ i \in 0..n
    BY <1>2
  <2>3. x \in Seq(S) /\ y \in Seq(S) /\ c = x \o y
    BY <1>2, <2>1, <2>2 DEF InTurn
  <2>4. Picked(c, K, f) = Picked(x, K, f) \o Picked(y, K, f)
    <3>1. PickedOn(R, K, f, x, y, c)
      BY <2>3, PickedConcat
    <3>2. PICK u, v, w : /\ u = Picked(x, K, f) /\ v = Picked(y, K, f) /\ w = Picked(c, K, f)
                         /\ u \in Seq(R) /\ v \in Seq(R) /\ w \in Seq(R)
                         /\ AndThen(w, u, Len(u), v, Len(v))
      BY <3>1 DEF PickedOn
    <3>3. w = u \o v
      BY ONLY <3>2, ConcatOnly
    <3> QED
      BY <3>2, <3>3
  <2>5. Upto(parts, i) = Upto(parts, i - 1) \o parts[i]
    BY <1>4 DEF InTurn
  <2>6. Picked(x, K, f) = Upto(parts, i - 1)
    BY <1>5, <1>7, <2>1
  <2>7. Picked(y, K, f) = parts[i]
    BY <1>3, <2>1
  <2> QED
    BY <1>5, <2>1, <2>2, <2>4, <2>5, <2>6, <2>7
<1>8. n \in P
  <2>1. 0..n \subseteq P
    BY ONLY <1>2, <1>6, <1>7, UpTo
  <2> QED
    BY <1>2, <2>1
<1>9. Upto(seqs, n) = FlattenSeq(seqs) /\ Upto(parts, n) = FlattenSeq(parts)
  BY <1>2, <1>4 DEF InTurn
<1> QED
  BY <1>0, <1>3, <1>5, <1>8, <1>9

\* A concatenation of nothing but one sequence.
LEMMA FlattenSingle ==
    ASSUME NEW S, NEW seqs, seqs \in Seq(Seq(S)), NEW n, n = Len(seqs), NEW k \in 1..n,
           \A i \in 1..n : i # k => seqs[i] = <<>>
    PROVE  FlattenSeq(seqs) = seqs[k]
PROOF
<1>1. n \in Nat /\ InTurn(S, seqs, n)
  BY FlattenUpto
<1>2. PICK U, s : U = [i \in 0..n |-> Upto(seqs, i)] /\ s = seqs[k]
  OBVIOUS
<1>3. U[0] = <<>> /\ U[n] = FlattenSeq(seqs) /\ s \in Seq(S)
  BY <1>1, <1>2 DEF InTurn
<1>4. \A i \in 1..n : i - 1 \in 0..n /\ i \in 0..n /\ U[i] = U[i - 1] \o seqs[i]
  <2> TAKE i \in 1..n
  <2>1. i - 1 \in 0..n /\ i \in 0..n
    BY <1>1
  <2>2. U[i] = Upto(seqs, i) /\ U[i - 1] = Upto(seqs, i - 1)
    BY <1>2, <2>1
  <2> QED
    BY <1>1, <2>1, <2>2 DEF InTurn
<1>5. PICK P : P = {i \in 0..n : U[i] = IF i < k THEN <<>> ELSE s}
  OBVIOUS
<1>6. 0 \in P
  BY <1>1, <1>3, <1>5
<1>7. ASSUME NEW i \in 1..n, i - 1 \in P PROVE i \in P
  <2>1. i \in 0..n /\ U[i] = U[i - 1] \o seqs[i] /\ U[i - 1] = IF i - 1 < k THEN <<>> ELSE s
    BY <1>1, <1>4, <1>5, <1>7
  <2>2. <<>> \o s = s /\ s \o <<>> = s /\ <<>> \o <<>> = <<>>
    BY <1>3
  <2>3. CASE i < k
    <3>1. seqs[i] = <<>> /\ i - 1 < k
      BY <1>1, <2>3
    <3> QED
      BY <1>5, <2>1, <2>2, <2>3, <3>1
  <2>4. CASE i = k
    <3>1. seqs[i] = s /\ i - 1 < k /\ ~(i < k)
      BY <1>1, <1>2, <2>4
    <3> QED
      BY <1>5, <2>1, <2>2, <3>1
  <2>5. CASE i > k
    <3>1. seqs[i] = <<>> /\ ~(i - 1 < k) /\ ~(i < k)
      BY <1>1, <2>5
    <3> QED
      BY <1>5, <2>1, <2>2, <3>1
  <2> QED
    BY <1>1, <2>3, <2>4, <2>5
<1>8. n \in P /\ ~(n < k)
  <2>1. 0..n \subseteq P
    BY ONLY <1>1, <1>6, <1>7, UpTo
  <2> QED
    BY <1>1, <2>1
<1> QED
  BY <1>2, <1>3, <1>5, <1>8

\* Filtering by what all or none have.
LEMMA FilteredAll ==
    ASSUME NEW S, NEW s, s \in Seq(S), NEW keep
    PROVE  /\ (\A i \in DOMAIN s : i \in keep) => Filtered(s, keep) = s
           /\ (\A i \in DOMAIN s : i \notin keep) => Filtered(s, keep) = <<>>
PROOF
<1>1. PICK n \in Nat : n = Len(s) /\ DOMAIN s = 1..n
  OBVIOUS
<1>2. PICK G : Filters(S, s, keep, n, G)
  BY <1>1, FilteredGrows
<1>3. PICK ones : ones = [i \in 1..n |-> <<s[i]>>]
  OBVIOUS
<1>4. ASSUME \A i \in DOMAIN s : i \in keep PROVE Filtered(s, keep) = s
  <2>1. PICK P : P = {i \in 0..n : Len(G[i]) = i /\ \A j \in 1..i : G[i][j] = s[j]}
    OBVIOUS
  <2>2. 0 \in P
    BY <1>2, <2>1 DEF Filters
  <2>3. ASSUME NEW i \in 1..n, i - 1 \in P PROVE i \in P
    <3>1. PICK x, y, z : x = G[i - 1] /\ y = G[i] /\ z = s[i]
      OBVIOUS
    <3>2. x \in Seq(S) /\ z \in S /\ i \in 0..n
      <4>1. i - 1 \in 0..n
        OBVIOUS
      <4> QED
        BY <1>1, <1>2, <3>1, <4>1 DEF Filters
    <3>3. y = x \o <<z>>
      BY <1>1, <1>2, <1>4, <3>1 DEF Filters
    <3>4. Len(x) = i - 1 /\ \A j \in 1..(i - 1) : x[j] = s[j]
      BY <2>1, <2>3, <3>1
    <3>5. Len(y) = i /\ y[i] = z /\ \A j \in 1..(i - 1) : y[j] = x[j]
      BY <3>2, <3>3, <3>4
    <3>6. \A j \in 1..i : j = i \/ j \in 1..(i - 1)
      OBVIOUS
    <3>7. Len(y) = i /\ \A j \in 1..i : y[j] = s[j]
      BY <3>1, <3>4, <3>5, <3>6
    <3> QED
      BY <2>1, <3>1, <3>2, <3>7
  <2>4. n \in P
    <3>1. 0..n \subseteq P
      BY <2>2, <2>3, UpTo
    <3> QED
      BY <3>1
  <2>5. G[n] \in Seq(S) /\ Filtered(s, keep) = G[n]
    <3>1. n \in 0..n
      OBVIOUS
    <3> QED
      BY <1>2, <3>1 DEF Filters
  <2>6. Len(G[n]) = Len(s) /\ \A i \in 1..Len(G[n]) : G[n][i] = s[i]
    BY <1>1, <2>1, <2>4
  <2> QED
    BY <2>5, <2>6, SeqEqual
<1>5. ASSUME \A i \in DOMAIN s : i \notin keep PROVE Filtered(s, keep) = <<>>
  <2>1. PICK P : P = {i \in 0..n : G[i] = <<>>}
    OBVIOUS
  <2>2. 0 \in P
    BY <1>2, <2>1 DEF Filters
  <2>3. ASSUME NEW i \in 1..n, i - 1 \in P PROVE i \in P
    <3>1. G[i] = G[i - 1] \o <<>>
      BY <1>1, <1>2, <1>5 DEF Filters
    <3>2. G[i - 1] = <<>> /\ i \in 0..n /\ <<>> \o <<>> = <<>>
      BY <2>1, <2>3
    <3> QED
      BY <2>1, <3>1, <3>2
  <2>4. n \in P
    <3>1. 0..n \subseteq P
      BY <2>2, <2>3, UpTo
    <3> QED
      BY <3>1
  <2> QED
    BY <1>2, <2>1, <2>4 DEF Filters
<1> QED
  BY <1>4, <1>5

-----------------------------------------------------------------------------
(* Relations. *)

\* The foreign keys with their owners, and what the two derivations pick.
Owners(N, F) == [owner : N, fk : F]
Of(n, O) == {o \in O : o.owner = n}
To(n, O) == {o \in O : o.owner # n /\ o.fk.table = n}
AsOwn(O) == [o \in O |-> BelongsTo(o.fk)]
AsOther(O) == [o \in O |-> HasMany(o.owner, o.fk)]
Derived(N, F) == {BelongsTo(x) : x \in F} \cup {HasMany(n, x) : n \in N, x \in F}

LEMMA Derivations ==
    ASSUME NEW N, NEW F, NEW O, O = Owners(N, F), NEW R, R = Derived(N, F)
    PROVE  IsMap(AsOwn(O), O, R) /\ IsMap(AsOther(O), O, R)
PROOF
<1>1. \A o \in O : o.owner \in N /\ o.fk \in F
  BY DEF Owners
<1>2. \A o \in O : BelongsTo(o.fk) \in R /\ HasMany(o.owner, o.fk) \in R
  BY <1>1 DEF Derived
<1> QED
  BY <1>2 DEF IsMap, AsOwn, AsOther

\* A table's foreign keys, with it as their owner.
LEMMA OwnedIs ==
    ASSUME NEW N, NEW F, NEW O, O = Owners(N, F), NEW x, x.name \in N,
           NEW fks, fks = ForeignKeys(x), fks \in Seq(F)
    PROVE  /\ Owned(x) \in Seq(O) /\ Len(Owned(x)) = Len(fks)
           /\ \A j \in 1..Len(fks) : Owned(x)[j] = [owner |-> x.name, fk |-> fks[j]]
PROOF
<1>1. PICK n \in Nat : n = Len(fks) /\ DOMAIN fks = 1..n /\ \A j \in 1..n : fks[j] \in F
  OBVIOUS
<1>2. PICK l : l = Owned(x)
  OBVIOUS
<1>3. l = [j \in 1..n |-> [owner |-> x.name, fk |-> fks[j]]]
  BY <1>1, <1>2 DEF Owned
<1>4. \A j \in 1..n : [owner |-> x.name, fk |-> fks[j]] \in O
  BY <1>1 DEF Owners
<1>5. l \in Seq(O) /\ Len(l) = n
  <2>1. l \in [1..n -> O]
    BY <1>3, <1>4
  <2> QED
    BY <2>1
<1>6. \A j \in 1..n : l[j] = [owner |-> x.name, fk |-> fks[j]]
  BY <1>3
<1> QED
  BY <1>1, <1>2, <1>5, <1>6

\* Of a table's foreign keys the engine picks all as its own, or none.
LEMMA OwnPicked ==
    ASSUME NEW N, NEW F, NEW O, O = Owners(N, F), NEW x, x.name \in N,
           NEW fks, fks = ForeignKeys(x), fks \in Seq(F), NEW n
    PROVE  Picked(Owned(x), Of(n, O), AsOwn(O)) =
             IF x.name = n THEN [k \in DOMAIN fks |-> BelongsTo(fks[k])] ELSE <<>>
PROOF
<1>1. PICK l, m : l = Owned(x) /\ m = Len(fks)
  OBVIOUS
<1>2. /\ m \in Nat /\ DOMAIN fks = 1..m /\ l \in Seq(O) /\ Len(l) = m /\ DOMAIN l = 1..m
      /\ \A j \in 1..m : l[j] = [owner |-> x.name, fk |-> fks[j]]
  BY <1>1, OwnedIs
<1>3. \A j \in 1..m : l[j] \in O /\ l[j].owner = x.name /\ l[j].fk = fks[j]
  BY <1>2
<1>4. PICK keep : keep = Where(l, Of(n, O))
  OBVIOUS
<1>5. CASE x.name = n
  <2>1. \A j \in DOMAIN l : j \in keep
    BY <1>2, <1>3, <1>4, <1>5 DEF Where, Of
  <2>2. Filtered(l, keep) = l
    BY <1>2, <2>1, FilteredAll
  <2>3. Mapped(l, AsOwn(O)) = [k \in 1..m |-> BelongsTo(fks[k])]
    <3>1. \A k \in 1..m : AsOwn(O)[l[k]] = BelongsTo(fks[k])
      BY <1>3 DEF AsOwn
    <3> QED
      BY <1>2, <3>1 DEF Mapped
  <2> QED
    BY <1>1, <1>2, <1>4, <1>5, <2>2, <2>3 DEF Picked
<1>6. CASE x.name # n
  <2>1. \A j \in DOMAIN l : j \notin keep
    BY <1>2, <1>3, <1>4, <1>6 DEF Where, Of
  <2>2. Filtered(l, keep) = <<>>
    BY <1>2, <2>1, FilteredAll
  <2>3. Mapped(<<>>, AsOwn(O)) = <<>>
    BY DEF Mapped
  <2> QED
    BY <1>1, <1>4, <1>6, <2>2, <2>3 DEF Picked
<1> QED
  BY <1>5, <1>6

\* Of a table's foreign keys the engine picks those that lead to another table
\* as the generator does.
LEMMA OthersPicked ==
    ASSUME NEW N, NEW F, NEW O, O = Owners(N, F), NEW x, x.name \in N,
           NEW fks, fks = ForeignKeys(x), fks \in Seq(F), NEW t
    PROVE  Picked(Owned(x), To(t.name, O), AsOther(O)) = Referring(x, t)
PROOF
<1>1. PICK l, m, n : l = Owned(x) /\ m = Len(fks) /\ n = t.name
  OBVIOUS
<1>2. /\ m \in Nat /\ DOMAIN fks = 1..m /\ l \in Seq(O) /\ Len(l) = m /\ DOMAIN l = 1..m
      /\ \A j \in 1..m : l[j] = [owner |-> x.name, fk |-> fks[j]] /\ fks[j] \in F
  BY <1>1, OwnedIs
<1>3. \A j \in 1..m : l[j] \in O /\ l[j].owner = x.name /\ l[j].fk = fks[j]
  BY <1>2
<1>4. PICK keep : keep = Where(l, To(n, O))
  OBVIOUS
<1>5. CASE x.name = n
  <2>1. \A j \in DOMAIN l : j \notin keep
    BY <1>2, <1>3, <1>4, <1>5 DEF Where, To
  <2>2. Filtered(l, keep) = <<>>
    BY <1>2, <2>1, FilteredAll
  <2>3. Mapped(<<>>, AsOther(O)) = <<>>
    BY DEF Mapped
  <2> QED
    BY <1>1, <1>4, <1>5, <2>2, <2>3 DEF Picked, Referring
<1>6. CASE x.name # n
  <2>1. keep = {k \in DOMAIN fks : fks[k].table = n}
    BY <1>2, <1>3, <1>4, <1>6 DEF Where, To
  <2>2. PICK h : h = [y \in F |-> [owner |-> x.name, fk |-> y]]
    OBVIOUS
  <2>3. IsMap(h, F, O)
    <3>1. \A y \in F : [owner |-> x.name, fk |-> y] \in O
      BY DEF Owners
    <3> QED
      BY <2>2, <3>1 DEF IsMap
  <2>4. l = Mapped(fks, h)
    <3>1. \A k \in 1..m : h[fks[k]] = l[k]
      BY <1>2, <2>2
    <3>2. l = [k \in 1..m |-> l[k]]
      BY <1>2
    <3> QED
      BY <1>2, <3>1, <3>2 DEF Mapped
  <2>5. PICK kept : kept = Filtered(fks, keep) /\ kept \in Seq(F)
    BY FilteredElements
  <2>6. Filtered(l, keep) = Mapped(kept, h)
    BY <2>3, <2>4, <2>5, FilteredMapped
  <2>7. Mapped(Mapped(kept, h), AsOther(O)) = [k \in DOMAIN kept |-> HasMany(x.name, kept[k])]
    <3>1. DOMAIN Mapped(kept, h) = DOMAIN kept
      BY DEF Mapped
    <3>2. \A k \in DOMAIN kept : Mapped(kept, h)[k] = [owner |-> x.name, fk |-> kept[k]] /\ kept[k] \in F
      BY <2>2, <2>5 DEF Mapped
    <3>3. \A k \in DOMAIN kept : AsOther(O)[Mapped(kept, h)[k]] = HasMany(x.name, kept[k])
      <4> TAKE k \in DOMAIN kept
      <4>1. PICK o : o = Mapped(kept, h)[k]
        OBVIOUS
      <4>2. o = [owner |-> x.name, fk |-> kept[k]] /\ kept[k] \in F
        BY <3>2, <4>1
      <4>3. o \in O /\ o.owner = x.name /\ o.fk = kept[k]
        BY <4>2 DEF Owners
      <4> QED
        BY <4>1, <4>3 DEF AsOther
    <3>4. PICK q : q = Mapped(kept, h)
      OBVIOUS
    <3>5. [k \in DOMAIN q |-> AsOther(O)[q[k]]] = [k \in DOMAIN kept |-> HasMany(x.name, kept[k])]
      BY <3>1, <3>3, <3>4
    <3> QED
      BY <3>4, <3>5 DEF Mapped
  <2>8. Picked(l, To(n, O), AsOther(O)) = [k \in DOMAIN kept |-> HasMany(x.name, kept[k])]
    BY <1>4, <2>6, <2>7 DEF Picked
  <2>9. Referring(x, t) = [k \in DOMAIN kept |-> HasMany(x.name, kept[k])]
    BY <1>1, <1>6, <2>1, <2>5 DEF Referring
  <2> QED
    BY <1>1, <2>8, <2>9
<1> QED
  BY <1>5, <1>6

\* The foreign keys of a schema's tables.
KeysOf(s) == UNION {ToSet(ForeignKeys(x)) : x \in ToSet(s)}
NamesOf(s) == {x.name : x \in ToSet(s)}

\* What has been parsed of the relations: tables with names of their own.
Tables(s) == s \in Seq(ToSet(s)) /\ IsInjective(Names(s)) /\ \A x \in ToSet(s) : Declared(x)

LEMMA TheKeys ==
    ASSUME NEW s, Tables(s), NEW n, n = Len(s), NEW i \in 1..n
    PROVE  s[i].name \in NamesOf(s) /\ ForeignKeys(s[i]) \in Seq(KeysOf(s)) /\ s[i] \in ToSet(s)
PROOF
<1>1. PICK x : x = s[i] /\ x \in ToSet(s)
  BY DEF Tables, ToSet
<1>2. Declared(x)
  BY <1>1 DEF Tables
<1>3. PICK fks, T : fks = ForeignKeys(x) /\ T = ToSet(fks)
  OBVIOUS
<1>4. fks \in Seq(T)
  <2>1. Shaped(CreateTable("sqlite", x))
    BY <1>2, CreatedShaped
  <2>2. CreateTable("sqlite", x).fks = fks
    BY <1>3 DEF CreateTable
  <2> QED
    BY <1>3, <2>1, <2>2 DEF Shaped
<1>5. PICK F : F = KeysOf(s)
  OBVIOUS
<1>6. T \subseteq F
  BY <1>1, <1>3, <1>5 DEF KeysOf
<1>7. fks \in Seq(F)
  BY <1>4, <1>6
<1> QED
  BY <1>1, <1>3, <1>5, <1>7 DEF NamesOf

\* Tables have names of their own.
LEMMA NamesTell ==
    ASSUME NEW s, Tables(s), NEW n, n = Len(s), NEW i \in 1..n, NEW j \in 1..n, s[i].name = s[j].name
    PROVE  i = j
PROOF
<1>1. DOMAIN s = 1..n
  BY DEF Tables
<1>2. PICK l : l = Names(s)
  OBVIOUS
<1>3. DOMAIN l = 1..n /\ l[i] = l[j]
  BY <1>1, <1>2 DEF Names
<1>4. IsInjective(l)
  BY <1>2 DEF Tables
<1> QED
  BY <1>3, <1>4 DEF IsInjective

\* The engine and the generator claim names for the same foreign keys, in the
\* same order.
LEMMA SameRelations ==
    ASSUME NEW s, Tables(s), NEW t \in ToSet(s)
    PROVE  EngineRelations(s, t) = CodegenRelations(s, t)
PROOF
<1>1. PICK n \in Nat : n = Len(s) /\ DOMAIN s = 1..n
  BY DEF Tables
<1>2. PICK k \in 1..n : t = s[k]
  BY <1>1 DEF ToSet
<1>3. PICK F, N : F = KeysOf(s) /\ N = NamesOf(s)
  OBVIOUS
<1>4. PICK O, R : O = Owners(N, F) /\ R = Derived(N, F)
  OBVIOUS
<1>5. PICK f, g : f = AsOwn(O) /\ g = AsOther(O)
  OBVIOUS
<1>6. IsMap(f, O, R) /\ IsMap(g, O, R)
  BY <1>4, <1>5, Derivations
<1>7. PICK lists : lists = [i \in DOMAIN s |-> Owned(s[i])]
  OBVIOUS
<1>8. \A i \in 1..n : s[i].name \in N /\ ForeignKeys(s[i]) \in Seq(F)
  BY <1>1, <1>3, TheKeys
<1>9. \A i \in 1..n : Owned(s[i]) \in Seq(O)
  <2> TAKE i \in 1..n
  <2>1. PICK x, fks : x = s[i] /\ fks = ForeignKeys(x)
    OBVIOUS
  <2>2. x.name \in N /\ fks \in Seq(F)
    BY <1>8, <2>1
  <2>3. Owned(x) \in Seq(O)
    BY <1>4, <2>1, <2>2, OwnedIs
  <2> QED
    BY <2>1, <2>3
<1>10. lists \in Seq(Seq(O)) /\ DOMAIN lists = 1..n /\ Len(lists) = n /\ \A i \in 1..n : lists[i] = Owned(s[i])
  <2>1. PICK T : T = Seq(O)
    OBVIOUS
  <2>2. lists \in [1..n -> T] /\ \A i \in 1..n : lists[i] = Owned(s[i])
    BY <1>1, <1>7, <1>9, <2>1
  <2> QED
    BY <2>1, <2>2
<1>11. PICK all : all = FlattenSeq(lists) /\ all \in Seq(O)
  BY <1>10, FlattenType
<1>12. PICK own, others : own = Filtered(all, Where(all, Of(t.name, O))) /\ own \in Seq(O)
                          /\ others = Filtered(all, Where(all, To(t.name, O))) /\ others \in Seq(O)
  <2>1. PICK u, v : u = Filtered(all, Where(all, Of(t.name, O))) /\ v = Filtered(all, Where(all, To(t.name, O)))
    OBVIOUS
  <2>2. u \in Seq(O)
    BY <1>11, <2>1, FilteredElements
  <2>3. v \in Seq(O)
    BY <1>11, <2>1, FilteredElements
  <2> QED
    BY <2>1, <2>2, <2>3
<1>13. PICK fks : fks = ForeignKeys(t)
  OBVIOUS
<1>14. PICK X, Y : X = [j \in DOMAIN fks |-> BelongsTo(fks[j])]
                   /\ Y = FlattenSeq([i \in DOMAIN s |-> Referring(s[i], t)])
  OBVIOUS
<1>15. Mapped(own, f) = X
  <2>1. PICK parts : parts = Parts(lists, Of(t.name, O), f)
    OBVIOUS
  <2>2. parts \in Seq(Seq(R)) /\ Picked(all, Of(t.name, O), f) = FlattenSeq(parts)
    BY <1>6, <1>10, <1>11, <2>1, PickedFlatten
  <2>3. \A i \in 1..n : parts[i] = IF i = k THEN X ELSE <<>>
    <3> TAKE i \in 1..n
    <3>1. PICK x, l : x = s[i] /\ l = ForeignKeys(x)
      OBVIOUS
    <3>2. x.name \in N /\ l \in Seq(F)
      BY <1>8, <3>1
    <3>3. Picked(Owned(x), Of(t.name, O), AsOwn(O)) =
            IF x.name = t.name THEN [j \in DOMAIN l |-> BelongsTo(l[j])] ELSE <<>>
      BY <1>4, <3>1, <3>2, OwnPicked
    <3>4. x.name = t.name <=> i = k
      BY <1>1, <1>2, <3>1, NamesTell
    <3>5. parts[i] = Picked(Owned(x), Of(t.name, O), AsOwn(O))
      BY <1>5, <1>10, <2>1, <3>1 DEF Parts
    <3>6. i = k => l = fks
      BY <1>2, <1>13, <3>1
    <3> QED
      BY <1>14, <3>3, <3>4, <3>5, <3>6
  <2>4. Len(parts) = n
    <3>1. DOMAIN parts = 1..n
      BY <1>10, <2>1 DEF Parts
    <3> QED
      BY <1>1, <2>2, <3>1
  <2>5. FlattenSeq(parts) = parts[k]
    <3>1. \A i \in 1..n : i # k => parts[i] = <<>>
      BY <2>3
    <3> QED
      BY <2>2, <2>4, <3>1, FlattenSingle
  <2>6. parts[k] = X
    BY <2>3
  <2> QED
    BY <1>12, <2>2, <2>5, <2>6 DEF Picked
<1>16. Mapped(others, g) = Y
  <2>1. PICK parts : parts = Parts(lists, To(t.name, O), g)
    OBVIOUS
  <2>2. Picked(all, To(t.name, O), g) = FlattenSeq(parts)
    BY <1>6, <1>10, <1>11, <2>1, PickedFlatten
  <2>3. \A i \in 1..n : Picked(lists[i], To(t.name, O), g) = Referring(s[i], t)
    <3> TAKE i \in 1..n
    <3>1. PICK x, l : x = s[i] /\ l = ForeignKeys(x)
      OBVIOUS
    <3>2. x.name \in N /\ l \in Seq(F)
      BY <1>8, <3>1
    <3>3. Picked(Owned(x), To(t.name, O), AsOther(O)) = Referring(x, t)
      BY <1>4, <3>1, <3>2, OthersPicked
    <3> QED
      BY <1>5, <1>10, <3>1, <3>3
  <2>4. parts = [i \in DOMAIN s |-> Referring(s[i], t)]
    BY <1>1, <1>10, <2>1, <2>3 DEF Parts
  <2> QED
    BY <1>12, <1>14, <2>2, <2>4 DEF Picked
<1>17. EngineRelations(s, t) = Claims(t, X \o Y)
  <2>1. \A j \in DOMAIN all : all[j] \in O
    BY <1>11
  <2>2. Where(all, Of(t.name, O)) = {j \in DOMAIN all : all[j].owner = t.name}
    BY <2>1 DEF Where, Of
  <2>3. Where(all, To(t.name, O)) = {j \in DOMAIN all : all[j].owner # t.name /\ all[j].fk.table = t.name}
    BY <2>1 DEF Where, To
  <2>4. [j \in DOMAIN own |-> BelongsTo(own[j].fk)] = X
    <3>1. \A j \in DOMAIN own : own[j] \in O /\ f[own[j]] = BelongsTo(own[j].fk)
      BY <1>5, <1>12 DEF AsOwn
    <3> QED
      BY <1>15, <3>1 DEF Mapped
  <2>5. [j \in DOMAIN others |-> HasMany(others[j].owner, others[j].fk)] = Y
    <3>1. \A j \in DOMAIN others : others[j] \in O /\ g[others[j]] = HasMany(others[j].owner, others[j].fk)
      BY <1>5, <1>12 DEF AsOther
    <3> QED
      BY <1>16, <3>1 DEF Mapped
  <2> QED
    <3>1. /\ all = FlattenSeq([i \in DOMAIN s |-> Owned(s[i])])
          /\ own = Filtered(all, {j \in DOMAIN all : all[j].owner = t.name})
          /\ others = Filtered(all, {j \in DOMAIN all : all[j].owner # t.name
                                                       /\ all[j].fk.table = t.name})
      BY <1>7, <1>11, <1>12, <2>2, <2>3
    <3> QED
      BY ONLY <3>1, <2>4, <2>5, Zenon DEF EngineRelations
<1>18. CodegenRelations(s, t) = Claims(t, X \o Y)
  BY <1>13, <1>14 DEF CodegenRelations
<1> QED
  BY <1>17, <1>18

-----------------------------------------------------------------------------
(* Names of relations. *)

\* Names are spelled in tokens; foreign keys lead from columns.
Spelled(s) ==
    /\ ReferencesResolve(s)
    /\ \A x \in ToSet(s) :
         /\ Spelling[x.name] \in Seq(STRING)
         /\ \A c \in ToSet(x.columns) : Spelling[c.name] \in Seq(STRING)
         /\ \A k \in ToSet(x.keys) : k.from \in Seq(ToSet(k.from))

\* Also what the underscores are made of, of which the provers do not know that
\* they are strings.
Tokens == STRING \cup {"_"}

\* A name with k underscores.
Padded(base, k) == base \o [i \in 1..k |-> "_"]

LEMMA PaddedIs ==
    ASSUME NEW base, base \in Seq(Tokens), NEW k \in Nat
    PROVE  Padded(base, k) \in Seq(Tokens) /\ Len(Padded(base, k)) = Len(base) + k
PROOF
<1>1. PICK tail, T : tail = [i \in 1..k |-> "_"] /\ T = Tokens /\ "_" \in T
  BY DEF Tokens
<1>2. tail \in Seq(T) /\ Len(tail) = k
  <2>1. "_" \in T
    BY <1>1
  <2>2. tail \in [1..k -> T]
    BY <1>1, <2>1
  <2> QED
    BY <2>2
<1>3. base \in Seq(T)
  BY <1>1
<1>4. base \o tail \in Seq(T) /\ Len(base \o tail) = Len(base) + k
  BY <1>2, <1>3
<1> QED
  BY <1>1, <1>4 DEF Padded

\* What is taken runs out: among one more names than are taken one is free, and
\* one of these is the first.
LEMMA FreeName ==
    ASSUME NEW base, base \in Seq(Tokens), NEW taken, IsFiniteSet(taken)
    PROVE  \E k \in 0..Cardinality(taken) :
             Padded(base, k) \notin taken /\ \A j \in 0..(k - 1) : Padded(base, j) \in taken
PROOF
<1>1. PICK n \in Nat : n = Cardinality(taken)
  BY FS_CardinalityType
<1>2. PICK f : f = [k \in 0..n |-> Padded(base, k)]
  OBVIOUS
<1>3. \E k \in 0..n : f[k] \notin taken
  <2>1. SUFFICES ASSUME \A k \in 0..n : f[k] \in taken PROVE FALSE
    OBVIOUS
  <2>2. ASSUME NEW k \in 0..n PROVE Len(f[k]) = Len(base) + k
    <3>1. PICK p : p = Padded(base, k)
      OBVIOUS
    <3>2. Len(p) = Len(base) + k
      <4>1. k \in Nat
        OBVIOUS
      <4> QED
        BY <3>1, <4>1, PaddedIs
    <3> QED
      BY <1>2, <3>1, <3>2
  <2>3. f \in Injection(0..n, taken)
    <3>1. f \in [0..n -> taken]
      BY <1>2, <2>1
    <3>2. \A i, j \in 0..n : f[i] = f[j] => i = j
      <4> TAKE i, j \in 0..n
      <4>1. PICK l \in Nat : l = Len(base)
        OBVIOUS
      <4>2. f[i] = f[j] => l + i = l + j
        BY <2>2, <4>1
      <4> QED
        BY <4>2
    <3> QED
      BY <3>1, <3>2 DEF Injection, IsInjective
  <2>4. Cardinality(0..n) <= n
    BY <1>1, <2>3, FS_Injection
  <2>5. Cardinality(0..n) = n + 1
    BY FS_Interval
  <2> QED
    BY <2>4, <2>5
<1>4. PICK P : P = {k \in 0..n : \A j \in 0..k : f[j] \in taken}
  OBVIOUS
<1>5. \E k \in 0..n : f[k] \notin taken /\ \A j \in 0..(k - 1) : f[j] \in taken
  <2>1. SUFFICES ASSUME \A k \in 0..n : (\A j \in 0..(k - 1) : f[j] \in taken) => f[k] \in taken
                 PROVE  FALSE
    OBVIOUS
  <2>2. 0 \in P
    <3>1. f[0] \in taken
      BY <2>1
    <3> QED
      BY <1>4, <3>1
  <2>3. ASSUME NEW k \in 1..n, k - 1 \in P PROVE k \in P
    <3>1. f[k] \in taken
      BY <1>4, <2>1, <2>3
    <3>2. \A j \in 0..k : j = k \/ j \in 0..(k - 1)
      OBVIOUS
    <3> QED
      BY <1>4, <2>3, <3>1, <3>2
  <2>4. 0..n \subseteq P
    BY <2>2, <2>3, UpTo
  <2> QED
    BY <1>3, <1>4, <2>4
<1>6. PICK k \in 0..n : f[k] \notin taken /\ \A j \in 0..(k - 1) : f[j] \in taken
  BY <1>5
<1>7. f[k] = Padded(base, k) /\ \A j \in 0..(k - 1) : f[j] = Padded(base, j)
  <2>1. 0..(k - 1) \subseteq 0..n
    OBVIOUS
  <2> QED
    BY <1>2, <2>1
<1> QED
  BY <1>1, <1>6, <1>7

\* A claimed name is neither in use nor a column.
ColumnSpellings(t) == {Spelling[c.name] : c \in ToSet(t.columns)}

LEMMA ClaimedIs ==
    ASSUME NEW base, base \in Seq(Tokens), NEW t, Declared(t), NEW used, IsFiniteSet(used)
    PROVE  /\ Claimed(base, t, used) \in Seq(Tokens)
           /\ Claimed(base, t, used) \notin used \cup ColumnSpellings(t)
PROOF
<1>1. PICK taken : taken = used \cup ColumnSpellings(t)
  OBVIOUS
<1>2. IsFiniteSet(taken)
  <2>1. PICK n \in Nat : DOMAIN t.columns = 1..n
    BY DEF Declared
  <2>2. PICK m : m = [i \in 1..n |-> Spelling[t.columns[i].name]]
    OBVIOUS
  <2>3. ColumnSpellings(t) = {m[i] : i \in 1..n}
    BY <2>1, <2>2 DEF ColumnSpellings, ToSet
  <2>4. m \in Surjection(1..n, ColumnSpellings(t))
    <3>1. PICK T : T = ColumnSpellings(t)
      OBVIOUS
    <3>2. m \in [1..n -> T] /\ \A x \in T : \E i \in 1..n : m[i] = x
      BY <2>2, <2>3, <3>1
    <3> QED
      BY <3>1, <3>2 DEF Surjection
  <2>5. IsFiniteSet(ColumnSpellings(t))
    BY <2>4, FS_Interval, FS_Surjection
  <2> QED
    BY <1>1, <2>5, FS_Union
<1>3. PICK k \in 0..Cardinality(taken) :
        Padded(base, k) \notin taken /\ \A j \in 0..(k - 1) : Padded(base, j) \in taken
  BY <1>2, FreeName
<1>4. PICK c : c = (CHOOSE i \in 0..Cardinality(taken) :
                     Padded(base, i) \notin taken /\ \A j \in 0..(i - 1) : Padded(base, j) \in taken)
  OBVIOUS
<1>5. c \in 0..Cardinality(taken) /\ Padded(base, c) \notin taken
  BY <1>3, <1>4
<1>6. Claimed(base, t, used) = Padded(base, c)
  BY <1>1, <1>4 DEF Claimed, Padded, ColumnSpellings
<1>7. Padded(base, c) \in Seq(Tokens)
  BY <1>2, <1>5, PaddedIs, FS_CardinalityType
<1> QED
  BY <1>1, <1>5, <1>6, <1>7

-----------------------------------------------------------------------------
(* Names before they are claimed, and after. *)

\* A sequence of elements of S is one of any larger set's.
LEMMA SeqMonotone ==
    ASSUME NEW S, NEW T, S \subseteq T, NEW x, x \in Seq(S)
    PROVE  x \in Seq(T)
PROOF
<1>1. PICK n \in Nat : n = Len(x) /\ DOMAIN x = 1..n
  OBVIOUS
<1>2. x \in [1..n -> T]
  <2>1. x = [i \in 1..n |-> x[i]] /\ \A i \in 1..n : x[i] \in S
    BY <1>1
  <2> QED
    BY <2>1
<1> QED
  BY <1>2

\* The first of two elements.
LEMMA FirstOfTwo ==
    ASSUME NEW S, NEW x, x \in Seq(S), Len(x) = 2
    PROVE  <<x[1]>> \in Seq(S)
PROOF
<1>1. x[1] \in S
  OBVIOUS
<1> QED
  BY <1>1

LEMMA Wider ==
    ASSUME NEW x, x \in Seq(STRING)
    PROVE  x \in Seq(Tokens)
PROOF
<1>1. STRING \subseteq Tokens
  BY DEF Tokens
<1> QED
  BY ONLY <1>1, x \in Seq(STRING), SeqMonotone

\* A foreign key leads from a sequence of columns.
LEMMA KeyFrom ==
    ASSUME NEW t, Declared(t), \A k \in ToSet(t.keys) : k.from \in Seq(ToSet(k.from)),
           NEW k \in ToSet(ForeignKeys(t))
    PROVE  \E S : k.from \in Seq(S)
PROOF
<1> DEFINE Key(e) == [from |-> <<e.name>>, table |-> e.ref[1], to |-> <<e.ref[2]>>]
<1>1. PICK keep : keep = {i \in DOMAIN t.columns : t.columns[i].ref # <<>>}
  OBVIOUS
<1>2. PICK S : S = ToSet(t.columns)
  OBVIOUS
<1>3. PICK refs \in Seq(S) : refs = Filtered(t.columns, keep)
  BY <1>2, FilteredElements DEF Declared
<1>5. PICK own : own = [i \in DOMAIN refs |-> Key(refs[i])]
  OBVIOUS
<1>6. ForeignKeys(t) = own \o t.keys
  BY <1>1, <1>3, <1>5 DEF ForeignKeys
<1> HIDE DEF Key
<1>7. ToSet(own) = {Key(e) : e \in ToSet(refs)}
  BY <1>5 DEF ToSet
<1>8. own \in Seq(ToSet(own))
  <2>1. PICK n \in Nat : DOMAIN refs = 1..n
    BY <1>3
  <2>2. PICK K : K = ToSet(own)
    OBVIOUS
  <2>3. DOMAIN own = 1..n /\ own = [i \in 1..n |-> Key(refs[i])]
    BY <1>5, <2>1
  <2>4. \A i \in 1..n : own[i] \in K
    BY <2>2, <2>3 DEF ToSet
  <2>5. own \in [1..n -> K]
    BY <2>3, <2>4
  <2> QED
    BY <2>2, <2>5
<1>9. ToSet(ForeignKeys(t)) = ToSet(own) \cup ToSet(t.keys)
  BY <1>6, <1>8, ConcatElements DEF Declared
<1>10. CASE k \in ToSet(own)
  <2>1. PICK e \in ToSet(refs) : k = Key(e)
    BY <1>7, <1>10
  <2>2. k.from = <<e.name>>
    BY <2>1 DEF Key
  <2>3. k.from \in Seq({e.name})
    BY <2>2
  <2> QED
    BY <2>3
<1>11. CASE k \in ToSet(t.keys)
  BY <1>11
<1> QED
  BY <1>9, <1>10, <1>11

\* What a foreign key leads from and to has a spelling.
LEMMA KeySpelled ==
    ASSUME NEW s, Tables(s), Spelled(s), NEW x \in ToSet(s), NEW k \in ToSet(ForeignKeys(x))
    PROVE  BaseName(k) \in Seq(Tokens) /\ Spelling[x.name] \in Seq(Tokens)
PROOF
<1>1. k.from # <<>> /\ Len(k.from) = Len(k.to)
  BY DEF Spelled, ReferencesResolve
<1>2. PICK target \in Named(s, k.table) :
        \A i \in DOMAIN k.from : \E c \in Named(x.columns, k.from[i]), d \in Named(target.columns, k.to[i]) :
          c.type = d.type
  BY DEF Spelled, ReferencesResolve
<1>3. target \in ToSet(s) /\ target.name = k.table
  BY <1>2 DEF Named
<1>4. Spelling[k.table] \in Seq(STRING) /\ Spelling[x.name] \in Seq(STRING)
  BY <1>3 DEF Spelled
<1>5. 1 \in DOMAIN k.from
  <2>1. PICK S : k.from \in Seq(S)
    BY KeyFrom DEF Spelled, Tables
  <2> QED
    BY <1>1, <2>1
<1>6. PICK c \in Named(x.columns, k.from[1]) : TRUE
  BY <1>2, <1>5
<1>7. c \in ToSet(x.columns) /\ c.name = k.from[1]
  BY <1>6 DEF Named
<1>8. PICK l : l = Spelling[k.from[1]] /\ l \in Seq(STRING)
  BY <1>7 DEF Spelled
<1>9. BaseName(k) \in Seq(Tokens)
  <2>1. CASE Len(k.from) = 1 /\ Len(l) = 2 /\ l[2] = "_id"
    <3>1. <<l[1]>> \in Seq(STRING)
      BY ONLY <1>8, <2>1, FirstOfTwo
    <3>2. BaseName(k) = <<l[1]>>
      BY <1>8, <2>1 DEF BaseName
    <3> QED
      BY <3>1, <3>2, Wider
  <2>2. CASE ~(Len(k.from) = 1 /\ Len(l) = 2 /\ l[2] = "_id")
    BY <1>4, <1>8, <2>2, Wider DEF BaseName
  <2> QED
    BY <2>1, <2>2
<1> QED
  BY <1>4, <1>9, Wider

\* Relations, with the columns of L, of the tables of T.
Relation(L, T) == [name : Seq(Tokens), kind : {"belongsTo", "hasMany"},
                   local : L, foreign : L, target : T]

\* A relation claims a name that no other has, nor a column.
LEMMA ClaimIs ==
    ASSUME NEW L, NEW T, NEW acc, acc \in Seq(Relation(L, T)), NEW r \in Relation(L, T),
           NEW t, Declared(t)
    PROVE  \E q \in Relation(L, T) :
             /\ Claim(acc, t, r) = Append(acc, q) /\ q.name \notin ColumnSpellings(t)
             /\ \A i \in 1..Len(acc) : acc[i].name # q.name
PROOF
<1>1. PICK n \in Nat : n = Len(acc) /\ DOMAIN acc = 1..n
  OBVIOUS
<1>2. PICK used : used = {x.name : x \in ToSet(acc)}
  OBVIOUS
<1>3. used = {acc[i].name : i \in 1..n}
  BY <1>1, <1>2 DEF ToSet
<1>4. IsFiniteSet(used)
  <2>1. PICK m : m = [i \in 1..n |-> acc[i].name]
    OBVIOUS
  <2>2. m \in [1..n -> used] /\ \A x \in used : \E i \in 1..n : m[i] = x
    BY <1>3, <2>1
  <2>3. m \in Surjection(1..n, used)
    BY <2>2 DEF Surjection
  <2> QED
    BY <2>3, FS_Interval, FS_Surjection
<1>5. r.name \in Seq(Tokens)
  BY DEF Relation
<1>6. PICK name : /\ name = Claimed(r.name, t, used) /\ name \in Seq(Tokens)
                  /\ name \notin used \cup ColumnSpellings(t)
  BY <1>4, <1>5, ClaimedIs
<1>7. PICK q : q = [r EXCEPT !.name = name]
  OBVIOUS
<1>8. q \in Relation(L, T) /\ q.name = name
  BY <1>6, <1>7 DEF Relation
<1>9. Claim(acc, t, r) = Append(acc, q)
  BY <1>2, <1>6, <1>7 DEF Claim
<1> QED
  BY <1>1, <1>3, <1>6, <1>8, <1>9

\* G has the relations whose names are claimed, one more at a time.
ClaimRun(R, t, rels, n, G) ==
    /\ G[0] = <<>> /\ Claims(t, rels) = G[n]
    /\ \A i \in 0..n : G[i] \in Seq(R)
    /\ \A i \in 1..n : G[i] = Claim(G[i - 1], t, rels[i])

LEMMA ClaimsRun ==
    ASSUME NEW L, NEW T, NEW R, R = Relation(L, T), NEW rels, rels \in Seq(R), NEW n, n = Len(rels),
           NEW t, Declared(t)
    PROVE  n \in Nat /\ \E G : ClaimRun(R, t, rels, n, G)
PROOF
<1>1. n \in Nat /\ \A i \in 1..n : rels[i] \in R
  OBVIOUS
<1>2. PICK A : A = Seq(R)
  OBVIOUS
<1> DEFINE Body(f) == [i \in 0..n |-> IF i = 0 THEN <<>> ELSE Claim(f[i - 1], t, rels[i])]
<1>3. <<>> \in A
  BY <1>2
<1>4. ASSUME NEW i \in 1..n, NEW acc \in A PROVE Claim(acc, t, rels[i]) \in A
  <2>1. rels[i] \in Relation(L, T) /\ acc \in Seq(Relation(L, T))
    BY <1>1, <1>2
  <2>2. PICK q \in R : Claim(acc, t, rels[i]) = Append(acc, q)
    BY <2>1, ClaimIs
  <2> QED
    BY <1>2, <2>2
<1>5. PICK step : step = [i \in 1..n |-> [acc \in A |-> Claim(acc, t, rels[i])]]
  OBVIOUS
<1>6. step \in [1..n -> [A -> A]]
  BY <1>4, <1>5
<1>7. PICK F \in [0..n -> A] : F[0] = <<>> /\ \A i \in 1..n : F[i] = step[i][F[i - 1]]
  <2>1. PICK none \in A : none = <<>>
    BY <1>3
  <2>2. n \in Nat
    BY <1>1
  <2>3. \E F \in [0..n -> A] : F[0] = none /\ \A i \in 1..n : F[i] = step[i][F[i - 1]]
    BY ONLY <1>6, <2>2, none \in A, Recursion
  <2> QED
    BY <2>1, <2>3
<1>8. ASSUME NEW i \in 1..n PROVE F[i] = Claim(F[i - 1], t, rels[i])
  <2>1. F[i - 1] \in A
    BY <1>1, <1>7
  <2> QED
    BY <2>1, <1>5, <1>7
<1>9. F = Body(F)
  <2>1. ASSUME NEW i \in 0..n PROVE F[i] = IF i = 0 THEN <<>> ELSE Claim(F[i - 1], t, rels[i])
    <3>1. i # 0 => i \in 1..n
      BY <1>1
    <3> QED
      BY <1>7, <1>8, <3>1
  <2>2. F = [i \in 0..n |-> F[i]]
    BY <1>7
  <2> QED
    BY <2>1, <2>2, Zenon
<1>10. PICK G : G = (CHOOSE f : f = Body(f))
  <2> HIDE DEF Body
  <2> QED
    BY Zenon
<1>11. G = Body(G)
  <2> HIDE DEF Body
  <2> QED
    BY <1>9, <1>10, Zenon
<1>12. Claims(t, rels) = G[n]
  BY <1>10 DEF Claims
<1>13. G[0] = <<>> /\ \A i \in 1..n : G[i] = Claim(G[i - 1], t, rels[i])
  <2>1. G[0] = <<>>
    BY <1>1, <1>11
  <2>2. ASSUME NEW i \in 1..n PROVE G[i] = Claim(G[i - 1], t, rels[i])
    <3>1. i \in 0..n /\ i # 0
      BY <1>1
    <3> QED
      BY <1>11, <3>1
  <2> QED
    BY <2>1, <2>2
<1>14. PICK P : P = {i \in Nat : G[i] \in A}
  OBVIOUS
<1>15. 0..n \subseteq P
  <2>1. 0 \in P
    BY <1>3, <1>13, <1>14
  <2>2. ASSUME NEW i \in 1..n, i - 1 \in P PROVE i \in P
    <3>1. G[i - 1] \in A
      BY <1>14, <2>2
    <3>2. G[i] \in A
      BY <1>4, <1>13, <3>1
    <3> QED
      BY <1>14, <3>2
  <2> QED
    BY <1>1, <2>1, <2>2, UpTo
<1> QED
  <2>1. \A i \in 0..n : G[i] \in Seq(R)
    BY <1>2, <1>14, <1>15
  <2>2. ClaimRun(R, t, rels, n, G)
    BY <1>12, <1>13, <2>1 DEF ClaimRun
  <2> QED
    BY <1>1, <2>2

\* The names of relations are theirs alone.
OwnNames(t, acc, m) ==
    /\ Len(acc) = m
    /\ \A i, j \in 1..m : acc[i].name = acc[j].name => i = j
    /\ \A i \in 1..m : acc[i].name \notin ColumnSpellings(t)

LEMMA ClaimsAreOwn ==
    ASSUME NEW L, NEW T, NEW R, R = Relation(L, T), NEW rels, rels \in Seq(R), NEW n, n = Len(rels),
           NEW t, Declared(t)
    PROVE  n \in Nat /\ OwnNames(t, Claims(t, rels), n) /\ Claims(t, rels) \in Seq(R)
PROOF
<1>1. n \in Nat /\ \A i \in 1..n : rels[i] \in R
  OBVIOUS
<1>2. PICK G : ClaimRun(R, t, rels, n, G)
  BY ClaimsRun
<1>3. PICK P : P = {i \in 0..n : OwnNames(t, G[i], i)}
  OBVIOUS
<1>4. 0 \in P
  <2>1. G[0] = <<>> /\ Len(<<>>) = 0
    BY <1>2 DEF ClaimRun
  <2>2. OwnNames(t, G[0], 0)
    BY <2>1 DEF OwnNames
  <2> QED
    BY <1>1, <1>3, <2>2
<1>5. ASSUME NEW i \in 1..n, i - 1 \in P PROVE i \in P
  <2>1. PICK m \in Nat : m = i - 1 /\ i = m + 1 /\ m \in 0..n
    BY <1>1
  <2>2. PICK acc : acc = G[m] /\ acc \in Seq(R) /\ OwnNames(t, acc, m)
    BY <1>2, <1>3, <1>5, <2>1 DEF ClaimRun
  <2>3. PICK q \in R : /\ Claim(acc, t, rels[i]) = Append(acc, q) /\ q.name \notin ColumnSpellings(t)
                       /\ \A j \in 1..Len(acc) : acc[j].name # q.name
    <3>1. rels[i] \in Relation(L, T) /\ acc \in Seq(Relation(L, T))
      BY <1>1, <2>2
    <3>2. \E q \in Relation(L, T) :
            /\ Claim(acc, t, rels[i]) = Append(acc, q) /\ q.name \notin ColumnSpellings(t)
            /\ \A j \in 1..Len(acc) : acc[j].name # q.name
      BY ONLY <3>1, Declared(t), ClaimIs
    <3> QED
      BY <3>2
  <2>4. G[i] = Append(acc, q)
    BY <1>2, <2>1, <2>2, <2>3 DEF ClaimRun
  <2>5. PICK next : next = G[i]
    OBVIOUS
  <2>6. /\ Len(next) = m + 1 /\ next[m + 1] = q
        /\ \A j \in 1..m : next[j] = acc[j]
    BY <2>1, <2>2, <2>4, <2>5 DEF OwnNames
  <2>7. ASSUME NEW j \in 1..(m + 1), NEW k \in 1..(m + 1), next[j].name = next[k].name PROVE j = k
    <3>1. (j \in 1..m \/ j = m + 1) /\ (k \in 1..m \/ k = m + 1)
      BY <2>1
    <3>2. Len(acc) = m
      BY <2>2 DEF OwnNames
    <3>3. CASE j \in 1..m /\ k \in 1..m
      BY <2>2, <2>6, <2>7, <3>3 DEF OwnNames
    <3>4. CASE j \in 1..m /\ k = m + 1
      BY <2>3, <2>6, <2>7, <3>2, <3>4
    <3>5. CASE j = m + 1 /\ k \in 1..m
      BY <2>3, <2>6, <2>7, <3>2, <3>5
    <3> QED
      BY <3>1, <3>3, <3>4, <3>5
  <2>8. ASSUME NEW j \in 1..(m + 1) PROVE next[j].name \notin ColumnSpellings(t)
    <3>1. j \in 1..m \/ j = m + 1
      BY <2>1
    <3> QED
      BY <2>2, <2>3, <2>6, <3>1 DEF OwnNames
  <2>9. OwnNames(t, next, m + 1)
    BY <2>6, <2>7, <2>8 DEF OwnNames
  <2> QED
    BY <1>1, <1>3, <2>1, <2>5, <2>9
<1>6. 0..n \subseteq P
  BY <1>1, <1>4, <1>5, UpTo
<1>7. n \in P
  BY <1>1, <1>6
<1> QED
  BY <1>1, <1>2, <1>3, <1>7 DEF ClaimRun

-----------------------------------------------------------------------------
(* The relations of a schema. *)

RelationsOf(s) ==
    Relation({k.from : k \in KeysOf(s)} \cup {k.to : k \in KeysOf(s)},
             {k.table : k \in KeysOf(s)} \cup NamesOf(s))

LEMMA RelationsTyped ==
    ASSUME NEW s, Tables(s), Spelled(s), NEW x \in ToSet(s), NEW k \in ToSet(ForeignKeys(x))
    PROVE  BelongsTo(k) \in RelationsOf(s) /\ HasMany(x.name, k) \in RelationsOf(s)
PROOF
<1>1. BaseName(k) \in Seq(Tokens) /\ Spelling[x.name] \in Seq(Tokens)
  BY KeySpelled
<1>2. k \in KeysOf(s) /\ x.name \in NamesOf(s)
  BY DEF KeysOf, NamesOf
<1> QED
  BY <1>1, <1>2 DEF RelationsOf, Relation, BelongsTo, HasMany

LEMMA ReferringTyped ==
    ASSUME NEW s, Tables(s), Spelled(s), NEW n, n = Len(s), NEW i \in 1..n, NEW t
    PROVE  Referring(s[i], t) \in Seq(RelationsOf(s))
PROOF
<1>1. PICK x, K, fks : x = s[i] /\ fks = ForeignKeys(x) /\ K = KeysOf(s) /\ fks \in Seq(K) /\ x \in ToSet(s)
  BY TheKeys
<1>2. PICK R : R = RelationsOf(s)
  OBVIOUS
<1>3. PICK keep, to : keep = {k \in DOMAIN fks : fks[k].table = t.name} /\ to = Filtered(fks, keep)
  OBVIOUS
<1>4. to \in Seq(K) /\ ToSet(to) = {fks[k] : k \in keep \cap DOMAIN fks}
  BY <1>1, <1>3, FilteredElements
<1>5. PICK m \in Nat : DOMAIN to = 1..m
  BY <1>4
<1>6. PICK many : many = [k \in DOMAIN to |-> HasMany(x.name, to[k])]
  OBVIOUS
<1>7. ASSUME NEW k \in 1..m PROVE many[k] \in R
  <2>1. to[k] \in ToSet(fks)
    <3>1. to[k] \in ToSet(to)
      BY <1>5 DEF ToSet
    <3> QED
      BY <1>4, <3>1 DEF ToSet
  <2>2. HasMany(x.name, to[k]) \in R
    BY <1>1, <1>2, <2>1, RelationsTyped
  <2> QED
    BY <1>5, <1>6, <2>2
<1>8. many \in [1..m -> R]
  BY <1>5, <1>6, <1>7
<1>9. many \in Seq(R) /\ <<>> \in Seq(R)
  BY <1>8
<1>10. Referring(x, t) = IF x.name = t.name THEN <<>> ELSE many
  BY <1>1, <1>3, <1>6 DEF Referring
<1> QED
  BY <1>1, <1>2, <1>9, <1>10

\* Both derivations claim names for relations of the schema.
LEMMA OwnRelations ==
    ASSUME NEW s, Tables(s), Spelled(s), NEW t \in ToSet(s)
    PROVE  \E n \in Nat : /\ OwnNames(t, CodegenRelations(s, t), n)
                          /\ CodegenRelations(s, t) \in Seq(RelationsOf(s))
PROOF
<1>1. PICK n \in Nat : n = Len(s) /\ DOMAIN s = 1..n
  BY DEF Tables
<1>2. PICK j \in 1..n : t = s[j]
  BY <1>1 DEF ToSet
<1>3. PICK R : R = RelationsOf(s)
  OBVIOUS
<1>4. PICK own, K : own = ForeignKeys(t) /\ K = KeysOf(s) /\ own \in Seq(K)
  BY <1>1, <1>2, TheKeys
<1>5. PICK belong : belong = [k \in DOMAIN own |-> BelongsTo(own[k])]
  OBVIOUS
<1>6. belong \in Seq(R)
  <2>1. PICK m \in Nat : DOMAIN own = 1..m
    BY <1>4
  <2>2. ASSUME NEW k \in 1..m PROVE belong[k] \in R
    <3>1. own[k] \in ToSet(ForeignKeys(t))
      BY <1>4, <2>1 DEF ToSet
    <3> QED
      BY <1>3, <1>5, <2>1, <3>1, RelationsTyped
  <2>3. belong \in [1..m -> R]
    BY <1>5, <2>1, <2>2
  <2> QED
    BY <2>3
<1>7. PICK parts : parts = [i \in DOMAIN s |-> Referring(s[i], t)]
  OBVIOUS
<1>8. parts \in Seq(Seq(R))
  <2>1. PICK Q : Q = Seq(R)
    OBVIOUS
  <2>2. ASSUME NEW i \in 1..n PROVE parts[i] \in Q
    BY <1>1, <1>3, <1>7, <2>1, ReferringTyped
  <2>3. parts \in [1..n -> Q]
    BY <1>1, <1>7, <2>2
  <2> QED
    BY <2>1, <2>3
<1>9. FlattenSeq(parts) \in Seq(R)
  BY <1>8, FlattenType
<1>10. PICK rels, m : rels = belong \o FlattenSeq(parts) /\ m = Len(rels)
  OBVIOUS
<1>11. rels \in Seq(R)
  BY <1>6, <1>9, <1>10
<1>12. Declared(t)
  BY DEF Tables
<1>13. m \in Nat /\ OwnNames(t, Claims(t, rels), m) /\ Claims(t, rels) \in Seq(R)
  BY <1>3, <1>10, <1>11, <1>12, ClaimsAreOwn DEF RelationsOf
<1>14. CodegenRelations(s, t) = Claims(t, rels)
  BY <1>4, <1>5, <1>7, <1>10 DEF CodegenRelations
<1> QED
  BY <1>3, <1>13, <1>14

\* What RelationsAgree says of one table.
LEMMA TableRelations ==
    ASSUME NEW s, Tables(s), Spelled(s), NEW t \in ToSet(s)
    PROVE  LET relations == EngineRelations(s, t)
           IN /\ relations = CodegenRelations(s, t)
              /\ IsInjective(Names(relations))
              /\ ToSet(Names(relations)) \cap {Spelling[n] : n \in ToSet(Names(t.columns))} = {}
PROOF
<1>1. PICK rels : rels = EngineRelations(s, t) /\ rels = CodegenRelations(s, t)
  BY SameRelations
<1>2. PICK n, R : n \in Nat /\ OwnNames(t, rels, n) /\ rels \in Seq(R)
  <2>1. PICK n \in Nat : OwnNames(t, rels, n) /\ rels \in Seq(RelationsOf(s))
    BY <1>1, OwnRelations
  <2> QED
    BY <2>1
<1>3. PICK names : names = Names(rels) /\ names = [i \in 1..n |-> rels[i].name]
  <2>1. DOMAIN rels = 1..n
    BY <1>2 DEF OwnNames
  <2> QED
    BY <2>1 DEF Names
<1>4. IsInjective(names)
  BY <1>2, <1>3 DEF IsInjective, OwnNames
<1>5. {Spelling[c] : c \in ToSet(Names(t.columns))} = ColumnSpellings(t)
  <2>1. ToSet(Names(t.columns)) = {c.name : c \in ToSet(t.columns)}
    BY DEF Names, ToSet
  <2> QED
    BY <2>1 DEF ColumnSpellings
<1>6. ToSet(names) \cap ColumnSpellings(t) = {}
  BY <1>2, <1>3 DEF ToSet, OwnNames
<1> QED
  BY <1>1, <1>3, <1>4, <1>5, <1>6

\* The schema is what it was parsed as.
LEMMA SchemaStays ==
    ASSUME [Next]_vars
    PROVE  schema' = schema
PROOF
<1>1. CASE \E r \in BOOLEAN : Start(r) BY <1>1 DEF Start
<1>2. CASE ReadTable BY <1>2 DEF ReadTable
<1>3. CASE AddMissing BY <1>3 DEF AddMissing
<1>4. CASE NextTable BY <1>4 DEF NextTable
<1>5. CASE AdditiveDone BY <1>5 DEF AdditiveDone
<1>6. CASE CheckTable BY <1>6 DEF CheckTable, Rebuilding
<1>7. CASE CreateTmp BY <1>7 DEF CreateTmp, Rebuilding
<1>8. CASE CopyRows BY <1>8 DEF CopyRows, Rebuilding
<1>9. CASE DropOld BY <1>9 DEF DropOld, Rebuilding
<1>10. CASE RenameTmp BY <1>10 DEF RenameTmp, Rebuilding
<1>11. CASE Commit BY <1>11 DEF Commit, Rebuilding
<1>12. CASE CommitFails BY <1>12 DEF CommitFails, Rebuilding
<1>13. CASE StepFails BY <1>13 DEF StepFails, Rebuilding
<1>14. CASE Rollback BY <1>14 DEF Rollback, Rebuilding
<1>15. CASE RebuildDone BY <1>15 DEF RebuildDone, Rebuilding
<1>16. CASE Restore BY <1>16 DEF Restore, Rebuilding
<1>17. CASE Crash BY <1>17 DEF Crash
<1>18. CASE AppInserts BY <1>18 DEF AppInserts
<1>19. CASE UNCHANGED vars BY <1>19 DEF vars
<1> QED
  BY <1>1, <1>2, <1>3, <1>4, <1>5, <1>6, <1>7, <1>8, <1>9, <1>10, <1>11, <1>12, <1>13,
     <1>14, <1>15, <1>16, <1>17, <1>18, <1>19
     DEF Next, Migrating, Quiet

\* For every schema that has been parsed, whatever its tables, keys and names:
\* the generator and the engine derive the same relations for every table, no
\* two share a name, and none hides a column (relations_of, codegen.rs:35-92;
\* OrmSchema::parse, orm.rs:209-262).
THEOREM RelationsAgreeHolds ==
    Spec => []RelationsAgree
PROOF
<1> DEFINE Readable == Tables(schema) /\ Spelled(schema)
<1>1. Init => Readable
  <2>1. SUFFICES ASSUME Init PROVE Readable
    OBVIOUS
  <2>2. PICK i \in Instances : schema = i.schema
    BY <2>1 DEF Init
  <2>3. Tables(schema)
    BY <2>2, InstancesAssumption DEF Tables, Declared
  <2>4. Spelled(schema)
    BY <2>2, InstancesAssumption, MigrateAssumption DEF Spelled
  <2> QED
    BY <2>3, <2>4
<1>2. Readable /\ [Next]_vars => Readable'
  <2>1. SUFFICES ASSUME Readable, [Next]_vars PROVE Readable'
    OBVIOUS
  <2>2. schema' = schema
    BY <2>1, SchemaStays
  <2> QED
    BY <2>1, <2>2 DEF Tables, Spelled
<1>3. Readable => RelationsAgree
  BY TableRelations DEF RelationsAgree
<1> QED
  BY <1>1, <1>2, <1>3, PTL DEF Spec
=============================================================================
