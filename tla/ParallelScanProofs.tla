------------------------- MODULE ParallelScanProofs -------------------------
(***************************************************************************)
(* Four results about every parallel scan, whatever the number of threads  *)
(* and scans and whatever fails.                                           *)
(*                                                                         *)
(* 1. No worker connection is lost.                                        *)
(* 2. A client opens at most two connections per thread.  This needs       *)
(*    PoolInv: a scan that has to open connections of its own has emptied  *)
(*    the pool, so that what the pool can still receive is what the        *)
(*    background thread has yet to open.                                   *)
(* 3. If no computed bound wraps around, the workers' ranges are disjoint  *)
(*    and cover the table.                                                 *)
(* 4. Then the answer of a calm scan is the serial scan's: the ranges come *)
(*    in the order of the workers, so that the chunks, one after the other,*)
(*    are the table in rowid order.  ScanInv says, for as long as the table*)
(*    is steady, what the ends and the chunks are of.                      *)
(***************************************************************************)
EXTENDS ParallelScan, RecursionProofs, FiniteSetTheorems, FunctionTheorems

Labels == {"idle", "endpoints", "take", "open", "scan", "serial"}

\* The inductive invariant of the pool.
PoolInv ==
    /\ pool \in Nat /\ prewarming \in Nat /\ held \in Nat /\ opened \in Nat
    /\ pc \in Labels
    /\ opened = pool + held
    /\ opened + prewarming <= 2 * Threads
    /\ prewarming <= Threads
    /\ held <= Threads
    /\ pc \notin {"open", "scan"} => held = 0
    /\ pc = "open" /\ held < Threads => pool + prewarming <= Threads

-----------------------------------------------------------------------------
\* The minimum of two numbers is the smaller one: what TakePooled takes.
LEMMA MinOfTwo ==
    ASSUME NEW a \in Nat, NEW b \in Nat
    PROVE  Min({a, b}) = IF a <= b THEN a ELSE b
<1> DEFINE m == IF a <= b THEN a ELSE b
<1>1. m \in {a, b} /\ \A y \in {a, b} : m <= y
  OBVIOUS
<1>2. \A x \in {a, b} : (\A y \in {a, b} : x <= y) => x = m
  OBVIOUS
<1> QED
  BY <1>1, <1>2 DEF Min

-----------------------------------------------------------------------------
\* The first state has PoolInv.
LEMMA PoolInvInit == Init => PoolInv
BY ScanAssumption DEF Init, PoolInv, Labels

\* Every step keeps PoolInv.
LEMMA PoolInvNext == PoolInv /\ [Next]_vars => PoolInv'
<1> SUFFICES ASSUME PoolInv, [Next]_vars PROVE PoolInv'
  OBVIOUS
<1> USE ScanAssumption DEF PoolInv, Labels, workers
<1>1. CASE OwnWrite
  BY <1>1 DEF OwnWrite
<1>2. CASE OwnBegin
  BY <1>2 DEF OwnBegin
<1>3. CASE OwnEnd
  BY <1>3 DEF OwnEnd
<1>4. CASE ExternalWrite
  BY <1>4 DEF ExternalWrite
<1>5. CASE Prewarm
  BY <1>5 DEF Prewarm
<1>6. CASE Query
  BY <1>6 DEF Query
<1>7. CASE ReadEndpoints
  <2>1. UNCHANGED <<pool, prewarming, held, opened>> /\ held = 0
    BY <1>7 DEF ReadEndpoints
  <2>2. pc' \in {"take", "serial"}
    BY <1>7 DEF ReadEndpoints
  <2> QED
    BY <2>1, <2>2
<1>8. CASE TakePooled
  <2>1. held' = IF Threads <= pool THEN Threads ELSE pool
    BY <1>8, MinOfTwo DEF TakePooled
  <2>2. pool' = pool - held' /\ pc' = "open" /\ held = 0
    BY <1>8 DEF TakePooled
  <2>3. UNCHANGED <<prewarming, opened>>
    BY <1>8 DEF TakePooled
  <2> QED
    BY <2>1, <2>2, <2>3
<1>9. CASE OpenWorker
  BY <1>9 DEF OpenWorker
<1>10. CASE Partition
  <2>1. CASE held < 2
    BY <1>10, <2>1 DEF Partition
  <2>2. CASE ~(held < 2)
    BY <1>10, <2>2 DEF Partition
  <2> QED
    BY <2>1, <2>2
<1>11. CASE \E i \in DOMAIN chunks : ScanChunk(i)
  BY <1>11 DEF ScanChunk
<1>12. CASE Collect
  <2>1. pc = "scan" /\ pool' = pool + held /\ held' = 0
    BY <1>12 DEF Collect
  <2>2. pc' \in {"idle", "serial"} /\ UNCHANGED <<opened, prewarming>>
    BY <1>12 DEF Collect
  <2> QED
    BY <2>1, <2>2
<1>13. CASE SerialScan
  BY <1>13 DEF SerialScan
<1>14. CASE QueryFails
  BY <1>14 DEF QueryFails
<1>15. CASE UNCHANGED vars
  BY <1>15 DEF vars
<1> QED
  BY <1>1, <1>2, <1>3, <1>4, <1>5, <1>6, <1>7, <1>8, <1>9, <1>10, <1>11,
     <1>12, <1>13, <1>14, <1>15 DEF Next, ScanStep, Quiescent

\* The pool and the scan under way agree in every reachable state.
THEOREM PoolInvariant == Spec => []PoolInv
BY PoolInvInit, PoolInvNext, PTL DEF Spec

\* Worker connections are conserved on every path of try_parallel_scan.
THEOREM ConnectionsConservedHolds == Spec => []ConnectionsConserved
<1>1. PoolInv => ConnectionsConserved
  BY DEF PoolInv, ConnectionsConserved
<1> QED
  BY <1>1, PoolInvariant, PTL

\* Scans and the background thread open at most two connections per thread.
THEOREM ConnectionsBoundedHolds == Spec => []ConnectionsBounded
<1>1. PoolInv => ConnectionsBounded
  BY ScanAssumption DEF PoolInv, ConnectionsBounded
<1> QED
  BY <1>1, PoolInvariant, PTL

\* Both at once: every connection ever opened is in the pool or with the scan
\* under way, and there are at most two per thread.
THEOREM PoolSoundHolds == Spec => []PoolSound
<1>1. ConnectionsConserved /\ ConnectionsBounded => PoolSound
  BY DEF PoolSound
<1> QED
  BY <1>1, ConnectionsConservedHolds, ConnectionsBoundedHolds, PTL
-----------------------------------------------------------------------------
\* A remainder below the modulus is the number itself.
LEMMA SmallMod ==
    ASSUME NEW a \in Nat, NEW b \in Nat, a < b
    PROVE  a % b = a
OBVIOUS

\* Arithmetic on i64 is exact while its results fit.
LEMMA WrapExact ==
    ASSUME NEW x \in MinRowid..MaxRowid
    PROVE  Wrap(x) = x
<1>1. x - MinRowid \in Nat /\ 2 * SignBit \in Nat /\ x - MinRowid < 2 * SignBit
  BY ScanAssumption DEF MinRowid, MaxRowid
<1>2. (x - MinRowid) % (2 * SignBit) = x - MinRowid
  BY <1>1, SmallMod
<1> QED
  BY <1>2, ScanAssumption DEF Wrap, MinRowid, MaxRowid

\* What the code takes the division for.
LEMMA Division ==
    ASSUME NEW a \in Nat, NEW n \in Nat \ {0}
    PROVE  /\ a \div n \in Nat
           /\ n * (a \div n) <= a
           /\ a < n * (a \div n) + n
<1>1. a \div n \in Int /\ a % n \in 0..(n - 1) /\ a = n * (a \div n) + (a % n)
  OBVIOUS
<1>2. a \div n >= 0
  BY <1>1
<1> QED
  BY <1>1, <1>2

\* Multiplication keeps the order.
LEMMA Monotone ==
    ASSUME NEW s \in Nat, NEW i \in Nat, NEW k \in Nat, i <= k
    PROVE  s * i <= s * k
<1>1. k - i \in Nat /\ s * k = s * i + s * (k - i)
  OBVIOUS
<1>2. s * (k - i) \in Nat /\ s * i \in Nat
  BY <1>1
<1> QED
  BY <1>1, <1>2

\* The conditions under which try_parallel_scan means to split: enough rowids
\* for n workers (PARALLEL_MIN_SPAN is more than that) and a span that fits.
Splittable(n, min, max) ==
    /\ n \in Nat \ {0}
    /\ min \in MinRowid..MaxRowid /\ max \in MinRowid..MaxRowid
    /\ max - min + 1 \in n..MaxRowid

Step(n, min, max) == (max - min + 1) \div n

\* The bounds the code computes are then the ones it writes down.
LEMMA BoundsExact ==
    ASSUME NEW n, NEW min, NEW max, Splittable(n, min, max), NEW i \in 0..(n - 1)
    PROVE  /\ Step(n, min, max) \in Nat \ {0}
           /\ Bounds(i, n, min, max) =
                (min + Step(n, min, max) * i)..
                (IF i = n - 1 THEN max ELSE (min + Step(n, min, max) * (i + 1)) - 1)
<1> DEFINE span == max - min + 1
           step == Step(n, min, max)
<1>0. /\ n \in Nat /\ n >= 1 /\ min \in Int /\ max \in Int /\ span \in Nat
      /\ SignBit \in Nat /\ SignBit >= 1
      /\ MinRowid = -SignBit /\ MaxRowid = SignBit - 1
      /\ span >= n /\ span <= MaxRowid /\ min >= MinRowid /\ max <= MaxRowid
  BY ScanAssumption DEF Splittable, MinRowid, MaxRowid
<1>1. step \in Nat /\ n * step <= span /\ span < n * step + n
  BY <1>0, Division DEF Step
<1>2. step # 0
  BY <1>0, <1>1
<1>3. Wrap(Wrap(max - min) + 1) = span
  <2>1. max - min \in MinRowid..MaxRowid /\ span \in MinRowid..MaxRowid
    BY <1>0
  <2> QED
    BY <1>0, <2>1, WrapExact
<1>4. Quotient(Wrap(Wrap(max - min) + 1), n) = step
  BY <1>0, <1>3 DEF Quotient, Step
<1> HIDE DEF step
<1>5. ASSUME NEW j \in 0..(n - 1) PROVE Wrap(min + Wrap(step * j)) = min + step * j
  <2>1. step * j \in Nat /\ step * (n - 1) = n * step - step
    BY <1>0, <1>1
  <2>2. step * j <= step * (n - 1)
    BY <1>0, <1>1, Monotone
  <2>3. step * j \in MinRowid..MaxRowid /\ min + step * j \in MinRowid..MaxRowid
    BY <1>0, <1>1, <1>2, <2>1, <2>2
  <2> QED
    BY <2>3, WrapExact
<1>6. ASSUME i # n - 1
      PROVE  Wrap(Wrap(min + Wrap(step * (i + 1))) - 1) = (min + step * (i + 1)) - 1
  <2>1. i + 1 \in 0..(n - 1)
    BY <1>0, <1>6
  <2>2. Wrap(min + Wrap(step * (i + 1))) = min + step * (i + 1)
    BY <1>5, <2>1
  <2>3. step * (i + 1) \in Nat /\ step * 1 <= step * (i + 1)
    BY <1>0, <1>1, <2>1, Monotone
  <2>4. step * (i + 1) <= step * (n - 1) /\ step * (n - 1) = n * step - step
    BY <1>0, <1>1, <2>1, Monotone
  <2>5. (min + step * (i + 1)) - 1 \in MinRowid..MaxRowid
    BY <1>0, <1>1, <1>2, <2>3, <2>4
  <2>6. Wrap((min + step * (i + 1)) - 1) = (min + step * (i + 1)) - 1
    BY <2>5, WrapExact
  <2> QED
    BY <2>2, <2>6
<1>7. Bounds(i, n, min, max) =
        (min + step * i)..(IF i = n - 1 THEN max ELSE (min + step * (i + 1)) - 1)
  BY <1>4, <1>5, <1>6 DEF Bounds
<1> QED
  BY <1>1, <1>2, <1>7 DEF step

\* "Contiguous rowid ranges covering [min, max]": every rowid between the
\* endpoints is in the range of exactly one worker, so that no row is missing
\* from a parallel scan and none is answered twice.
THEOREM RangesPartition ==
    ASSUME NEW n, NEW min, NEW max, Splittable(n, min, max)
    PROVE  /\ \A r \in min..max : \E i \in 0..(n - 1) : r \in Bounds(i, n, min, max)
           /\ \A i, k \in 0..(n - 1) :
                i # k => Bounds(i, n, min, max) \cap Bounds(k, n, min, max) = {}
<1> DEFINE step == Step(n, min, max)
           hi(i) == IF i = n - 1 THEN max ELSE (min + step * (i + 1)) - 1
<1>1. n \in Nat /\ n >= 1 /\ min \in Int /\ max \in Int
  BY ScanAssumption DEF Splittable, MinRowid, MaxRowid
<1>2. step \in Nat \ {0}
  BY <1>1, BoundsExact
<1>3. \A i \in 0..(n - 1) : Bounds(i, n, min, max) = (min + step * i)..hi(i)
  BY BoundsExact
<1> HIDE DEF step
<1>4. ASSUME NEW r \in min..max
      PROVE  \E i \in 0..(n - 1) : r \in Bounds(i, n, min, max)
  <2> DEFINE q == (r - min) \div step
  <2>1. r - min \in Nat
    BY <1>1
  <2>2. q \in Nat /\ step * q <= r - min /\ r - min < step * q + step
    BY <1>2, <2>1, Division
  <2> HIDE DEF q
  <2>3. CASE q < n - 1
    <3>1. step * (q + 1) = step * q + step
      BY <1>2, <2>2
    <3>2. r \in (min + step * q)..hi(q)
      BY <1>1, <1>2, <2>2, <2>3, <3>1
    <3>3. q \in 0..(n - 1)
      BY <1>1, <2>2, <2>3
    <3>4. Bounds(q, n, min, max) = (min + step * q)..hi(q)
      BY <1>3, <3>3
    <3> QED
      BY <3>2, <3>3, <3>4
  <2>4. CASE q >= n - 1
    <3>1. step * (n - 1) <= step * q /\ step * (n - 1) \in Nat
      BY <1>1, <1>2, <2>2, <2>4, Monotone
    <3>2. r \in (min + step * (n - 1))..hi(n - 1)
      BY <1>1, <1>2, <2>2, <3>1
    <3>3. n - 1 \in 0..(n - 1)
      BY <1>1
    <3>4. Bounds(n - 1, n, min, max) = (min + step * (n - 1))..hi(n - 1)
      BY <1>3, <3>3
    <3> QED
      BY <3>2, <3>3, <3>4
  <2> QED
    BY <1>1, <2>2, <2>3, <2>4
<1>5. ASSUME NEW i \in 0..(n - 1), NEW k \in 0..(n - 1), i < k
      PROVE  Bounds(i, n, min, max) \cap Bounds(k, n, min, max) = {}
  <2>1. step * (i + 1) <= step * k /\ step * (i + 1) \in Nat /\ step * k \in Nat
    BY <1>1, <1>2, <1>5, Monotone
  <2>2. hi(i) < min + step * k
    BY <1>1, <1>5, <2>1
  <2>3. hi(i) \in Int /\ hi(k) \in Int /\ min + step * i \in Int
    BY <1>1, <1>2
  <2>4. /\ Bounds(i, n, min, max) = (min + step * i)..hi(i)
        /\ Bounds(k, n, min, max) = (min + step * k)..hi(k)
    BY <1>3
  <2>5. \A r \in (min + step * i)..hi(i) : r \notin (min + step * k)..hi(k)
    BY <1>1, <2>1, <2>2, <2>3
  <2> QED
    BY <2>4, <2>5
<1>6. ASSUME NEW i \in 0..(n - 1), NEW k \in 0..(n - 1), i # k
      PROVE  Bounds(i, n, min, max) \cap Bounds(k, n, min, max) = {}
  <2>1. i < k \/ k < i
    BY <1>1, <1>6
  <2> QED
    BY <1>5, <2>1
<1> QED
  BY <1>4, <1>6

-----------------------------------------------------------------------------
\* S from its least element to its greatest.
Rises(s, n, S) ==
    /\ n \in Nat /\ s \in [1..n -> S]
    /\ \A i, j \in 1..n : i < j => s[i] < s[j]
    /\ \A x \in S : \E i \in 1..n : s[i] = x

\* The elements of S that are not above x.
Below(S, x) == {y \in S : y <= x}

\* Counting these ranks the elements of S.
LEMMA RankRises ==
    ASSUME NEW S \in SUBSET Int, IsFiniteSet(S)
    PROVE  /\ \A x \in S : Cardinality(Below(S, x)) \in 1..Cardinality(S)
           /\ \A x, y \in S : x < y => Cardinality(Below(S, x)) < Cardinality(Below(S, y))
           /\ \A x, y \in S : Cardinality(Below(S, x)) = Cardinality(Below(S, y)) => x = y
PROOF
<1>1. \A x \in S : /\ IsFiniteSet(Below(S, x)) /\ Cardinality(Below(S, x)) \in Nat
                   /\ Cardinality(Below(S, x)) <= Cardinality(S) /\ x \in Below(S, x)
  <2> TAKE x \in S
  <2>1. Below(S, x) \in SUBSET S /\ x \in Below(S, x)
    BY DEF Below
  <2> QED
    BY <2>1, FS_Subset, FS_CardinalityType
<1>2. \A x \in S : Cardinality(Below(S, x)) \in 1..Cardinality(S)
  <2> TAKE x \in S
  <2>1. Cardinality(Below(S, x)) # 0
    BY <1>1, FS_EmptySet
  <2>2. Cardinality(S) \in Nat
    BY FS_CardinalityType
  <2> QED
    BY <1>1, <2>1, <2>2
<1>3. ASSUME NEW x \in S, NEW y \in S, x < y
      PROVE  Cardinality(Below(S, x)) < Cardinality(Below(S, y))
  <2>1. PICK B : B = Below(S, y) \ {y}
    OBVIOUS
  <2>2. IsFiniteSet(B) /\ Cardinality(B) = Cardinality(Below(S, y)) - 1
    BY <1>1, <2>1, FS_RemoveElement
  <2>3. Below(S, x) \subseteq B
    <3>1. \A z \in S : z <= x => z <= y /\ z # y
      BY <1>3
    <3> QED
      BY <2>1, <3>1 DEF Below
  <2>4. Cardinality(Below(S, x)) <= Cardinality(B)
    BY <2>2, <2>3, FS_Subset
  <2> QED
    BY <1>1, <2>2, <2>4
<1>4. ASSUME NEW x \in S, NEW y \in S, Cardinality(Below(S, x)) = Cardinality(Below(S, y)) PROVE x = y
  <2>1. x \in Int /\ y \in Int /\ ~(x < y) /\ ~(y < x)
    BY <1>1, <1>3, <1>4
  <2> QED
    BY <2>1
<1> QED
  BY <1>2, <1>3, <1>4

\* There is such a sequence.
LEMMA RisingExists ==
    ASSUME NEW S \in SUBSET Int, IsFiniteSet(S)
    PROVE  \E s : Rises(s, Cardinality(S), S)
PROOF
<1>1. PICK n \in Nat : n = Cardinality(S)
  BY FS_CardinalityType
<1>2. PICK R : R = [x \in S |-> Cardinality(Below(S, x))]
  OBVIOUS
<1>3. R \in Injection(S, 1..n)
  <2>1. R \in [S -> 1..n]
    BY <1>1, <1>2, RankRises
  <2>2. \A x, y \in S : R[x] = R[y] => x = y
    BY <1>2, RankRises
  <2> QED
    BY <2>1, <2>2, Fun_IsInj
<1>4. R \in Surjection(S, 1..n)
  <2>1. IsFiniteSet(1..n) /\ Cardinality(1..n) = n
    BY FS_Interval
  <2> QED
    BY <1>1, <1>3, <2>1, FS_Injection
<1>5. R \in [S -> 1..n] /\ (\A i \in 1..n : \E x \in S : R[x] = i)
  BY <1>4, Fun_SurjectionProperties
<1>6. \A x, y \in S : /\ R[x] = R[y] => x = y
                      /\ x < y => R[x] < R[y]
  BY <1>2, RankRises
<1>7. PICK s : s = [i \in 1..n |-> CHOOSE x \in S : R[x] = i]
  OBVIOUS
<1>8. \A i \in 1..n : s[i] \in S /\ R[s[i]] = i
  BY <1>5, <1>7
<1>9. \A i, j \in 1..n : i < j => s[i] < s[j]
  <2> SUFFICES ASSUME NEW i \in 1..n, NEW j \in 1..n, i < j, ~(s[i] < s[j]) PROVE FALSE
    OBVIOUS
  <2>1. s[i] \in S /\ s[j] \in S /\ R[s[i]] = i /\ R[s[j]] = j
    BY <1>8
  <2>2. PICK u \in S, v \in S : u = s[i] /\ v = s[j] /\ R[u] = i /\ R[v] = j
    BY <2>1
  <2>3. u \in Int /\ v \in Int /\ ~(u < v)
    BY <2>2
  <2>4. v < u \/ u = v
    BY ONLY <2>3
  <2>5. v < u => R[v] < R[u]
    BY <1>6
  <2>6. i \in Int /\ j \in Int /\ i < j /\ (v < u => j < i) /\ (u = v => i = j)
    BY <2>2, <2>5
  <2> QED
    BY ONLY <2>4, <2>6
<1>10. \A x \in S : \E i \in 1..n : s[i] = x
  <2> TAKE x \in S
  <2>1. R[x] \in 1..n
    BY <1>5
  <2>2. s[R[x]] = x
    BY <1>6, <1>8, <2>1
  <2> QED
    BY <2>1, <2>2
<1>11. s \in [1..n -> S]
  BY <1>7, <1>8
<1> QED
  BY <1>1, <1>9, <1>10, <1>11 DEF Rises

\* Its i-th element has i elements that are not above it.
LEMMA RisingRank ==
    ASSUME NEW S \in SUBSET Int, NEW n, NEW s, Rises(s, n, S), NEW i \in 1..n
    PROVE  Cardinality(Below(S, s[i])) = i
PROOF
<1>1. PICK T : T = Below(S, s[i])
  OBVIOUS
<1>2. PICK f : f = [k \in 1..i |-> s[k]]
  OBVIOUS
<1>3. \A k \in 1..i : k \in 1..n /\ s[k] \in Int /\ s[k] \in S
  <2>1. n \in Nat /\ s \in [1..n -> S]
    BY DEF Rises
  <2>2. \A k \in 1..i : k \in 1..n
    BY <2>1
  <2> QED
    BY <2>1, <2>2
<1>4. f \in [1..i -> T]
  <2>1. \A k \in 1..i : s[k] <= s[i]
    <3> TAKE k \in 1..i
    <3>1. k < i \/ k = i
      OBVIOUS
    <3>2. k \in 1..n /\ s[k] \in Int /\ s[i] \in Int
      BY <1>3 DEF Rises
    <3>3. k < i => s[k] < s[i]
      BY <3>2 DEF Rises
    <3> QED
      BY <3>1, <3>2, <3>3
  <2>2. \A k \in 1..i : s[k] \in T
    BY <1>1, <1>3, <2>1 DEF Below
  <2> QED
    BY <1>2, <2>2
<1>5. \A a, b \in 1..i : f[a] = f[b] => a = b
  <2> SUFFICES ASSUME NEW a \in 1..i, NEW b \in 1..i, s[a] = s[b] PROVE a = b
    BY <1>2
  <2>1. a \in 1..n /\ b \in 1..n /\ s[a] \in Int
    BY <1>3
  <2>2. ~(a < b) /\ ~(b < a)
    BY <2>1 DEF Rises
  <2> QED
    BY <2>1, <2>2
<1>6. \A t \in T : \E k \in 1..i : f[k] = t
  <2> TAKE t \in T
  <2>1. t \in S /\ t <= s[i] /\ t \in Int /\ s[i] \in Int
    BY <1>1, <1>3 DEF Below
  <2>2. PICK k \in 1..n : s[k] = t
    BY <2>1 DEF Rises
  <2>3. ~(i < k)
    <3>1. i < k => s[i] < s[k]
      BY DEF Rises
    <3> QED
      BY <2>1, <2>2, <3>1
  <2>4. k \in 1..i
    BY <2>3
  <2> QED
    BY <1>2, <2>2, <2>4
<1>7. f \in Bijection(1..i, T)
  BY <1>4, <1>5, <1>6, Fun_IsBij
<1>8. ExistsBijection(1..i, T)
  BY <1>7 DEF ExistsBijection
<1>9. IsFiniteSet(1..i) /\ Cardinality(1..i) = i
  BY FS_Interval DEF Rises
<1>10. Cardinality(T) = Cardinality(1..i)
  BY ONLY <1>8, <1>9, FS_Bijection
<1> QED
  BY <1>1, <1>9, <1>10

\* And only one: Ascending is it.
LEMMA AscendingIs ==
    ASSUME NEW S \in SUBSET Int, IsFiniteSet(S)
    PROVE  /\ Rises(Ascending(S), Cardinality(S), S)
           /\ \A s, n : Rises(s, n, S) => s = Ascending(S) /\ n = Cardinality(S)
PROOF
<1>1. PICK c \in Nat : c = Cardinality(S)
  BY FS_CardinalityType
<1>2. \A s, n : Rises(s, n, S) => n = c
  <2> SUFFICES ASSUME NEW s, NEW n, Rises(s, n, S) PROVE n = c
    OBVIOUS
  <2>0. n \in Nat /\ s \in [1..n -> S]
    BY DEF Rises
  <2>1. CASE n = 0
    <3>1. S = {}
      BY <2>1 DEF Rises
    <3> QED
      BY <1>1, <2>1, <3>1, FS_EmptySet
  <2>2. CASE n # 0
    <3>1. n \in 1..n
      BY <2>0, <2>2
    <3>2. Below(S, s[n]) = S
      <4>1. \A x \in S : x <= s[n]
        <5> TAKE x \in S
        <5>1. PICK i \in 1..n : s[i] = x
          BY DEF Rises
        <5>2. i < n \/ i = n
          BY <2>0
        <5>3. i < n => s[i] < s[n]
          BY <3>1 DEF Rises
        <5>4. x \in Int /\ s[n] \in Int
          BY <2>0, <3>1
        <5> QED
          BY <5>1, <5>2, <5>3, <5>4
      <4> QED
        BY <4>1 DEF Below
    <3> QED
      BY <1>1, <3>1, <3>2, RisingRank
  <2> QED
    BY <2>1, <2>2
<1>3. \A s, t : Rises(s, c, S) /\ Rises(t, c, S) => s = t
  <2> SUFFICES ASSUME NEW s, NEW t, Rises(s, c, S), Rises(t, c, S) PROVE s = t
    OBVIOUS
  <2>1. s \in [1..c -> S] /\ t \in [1..c -> S]
    BY DEF Rises
  <2>2. \A i \in 1..c : s[i] = t[i]
    <3> TAKE i \in 1..c
    <3>1. Cardinality(Below(S, s[i])) = i /\ Cardinality(Below(S, t[i])) = i
      BY RisingRank
    <3>2. PICK u \in S, v \in S : u = s[i] /\ v = t[i]
      BY <2>1
    <3>3. Cardinality(Below(S, u)) = Cardinality(Below(S, v))
      BY ONLY <3>1, <3>2
    <3>4. u = v
      BY <3>3, RankRises
    <3> QED
      BY ONLY <3>2, <3>4
  <2> QED
    BY <2>1, <2>2
<1>4. PICK r : Rises(r, c, S)
  BY <1>1, RisingExists
<1>5. PICK Sorts : Sorts = {s \in SetToSeqs(S) : \A i, j \in DOMAIN s : i < j => s[i] < s[j]}
  OBVIOUS
<1>6. r \in Sorts
  <2>1. r \in [1..c -> S] /\ DOMAIN r = 1..c
    BY <1>4 DEF Rises
  <2>2. \A i, j \in 1..c : i # j => r[i] # r[j]
    <3> TAKE i, j \in 1..c
    <3>1. i # j => i < j \/ j < i
      OBVIOUS
    <3>2. r[i] \in Int /\ r[j] \in Int
      BY <2>1
    <3>3. (i < j => r[i] < r[j]) /\ (j < i => r[j] < r[i])
      BY <1>4 DEF Rises
    <3> QED
      BY <3>1, <3>2, <3>3
  <2>3. r \in SetToSeqs(S)
    BY <1>1, <2>1, <2>2 DEF SetToSeqs
  <2> QED
    BY <1>4, <1>5, <2>1, <2>3 DEF Rises
<1>7. \A s \in Sorts : Rises(s, c, S)
  <2> TAKE s \in Sorts
  <2>1. s \in SetToSeqs(S) /\ \A i, j \in DOMAIN s : i < j => s[i] < s[j]
    BY <1>5
  <2>2. s \in [1..c -> S] /\ (\A i, j \in 1..c : i # j => s[i] # s[j])
    BY <1>1, <2>1 DEF SetToSeqs
  <2>3. s \in Injection(1..c, S)
    <3>1. \A i, j \in 1..c : s[i] = s[j] => i = j
      BY <2>2
    <3> QED
      BY ONLY <2>2, <3>1, Fun_IsInj
  <2>4. Cardinality(1..c) = c
    BY FS_Interval, <1>1
  <2>5. s \in Surjection(1..c, S)
    BY ONLY <1>1, <2>3, <2>4, FS_Injection, IsFiniteSet(S)
  <2>6. \A x \in S : \E i \in 1..c : s[i] = x
    BY <2>5, Fun_SurjectionProperties
  <2>7. \A i, j \in 1..c : i < j => s[i] < s[j]
    BY <2>1, <2>2
  <2> QED
    BY <1>1, <2>2, <2>6, <2>7 DEF Rises
<1>8. Ascending(S) \in Sorts
  <2>1. Ascending(S) = CHOOSE s \in SetToSeqs(S) : \A i, j \in DOMAIN s : i < j => s[i] < s[j]
    BY Zenon DEF Ascending
  <2>2. \E s \in SetToSeqs(S) : \A i, j \in DOMAIN s : i < j => s[i] < s[j]
    BY <1>5, <1>6
  <2>3. Ascending(S) \in SetToSeqs(S) /\ \A i, j \in DOMAIN Ascending(S) : i < j => Ascending(S)[i] < Ascending(S)[j]
    BY ONLY <2>1, <2>2, Zenon
  <2> QED
    BY <1>5, <2>3
<1> QED
  BY <1>1, <1>2, <1>3, <1>7, <1>8

\* Apart from one another and in this order.
InOrder(sets, n) ==
    /\ n \in Nat
    /\ \A i \in 1..n : sets[i] \in SUBSET Int /\ IsFiniteSet(sets[i])
    /\ \A i, k \in 1..n : i < k => \A x \in sets[i], y \in sets[k] : x < y

\* Sets in order, each ascending, are their union, ascending.
LEMMA AscendingConcat ==
    ASSUME NEW sets, NEW n, InOrder(sets, n), NEW S, S = UNION {sets[i] : i \in 1..n}, IsFiniteSet(S)
    PROVE  FlattenSeq([i \in 1..n |-> Ascending(sets[i])]) = Ascending(S)
PROOF
<1>1. PICK seqs : seqs = [i \in 1..n |-> Ascending(sets[i])]
  OBVIOUS
<1>2. n \in Nat /\ S \in SUBSET Int
  BY DEF InOrder
<1>3. \A i \in 1..n : /\ seqs[i] = Ascending(sets[i])
                      /\ Rises(seqs[i], Cardinality(sets[i]), sets[i])
  <2> TAKE i \in 1..n
  <2>1. sets[i] \in SUBSET Int /\ IsFiniteSet(sets[i])
    BY DEF InOrder
  <2>2. Rises(Ascending(sets[i]), Cardinality(sets[i]), sets[i])
    BY ONLY <2>1, AscendingIs
  <2> QED
    BY <1>1, <2>2
<1>4. \A i \in 1..n : /\ seqs[i] \in Seq(S) /\ Len(seqs[i]) = Cardinality(sets[i]) /\ Len(seqs[i]) \in Nat
                      /\ \A j \in 1..Len(seqs[i]) : seqs[i][j] \in sets[i]
  <2> TAKE i \in 1..n
  <2>1. PICK c : c = Cardinality(sets[i]) /\ c \in Nat /\ seqs[i] \in [1..c -> sets[i]]
    BY <1>3 DEF Rises
  <2>2. seqs[i] \in [1..c -> S]
    BY <2>1
  <2>3. seqs[i] \in Seq(S) /\ Len(seqs[i]) = c
    BY <2>1, <2>2
  <2> QED
    BY <2>1, <2>3
<1>5. seqs \in Seq(Seq(S)) /\ Len(seqs) = n
  <2>1. PICK T : T = Seq(S)
    OBVIOUS
  <2>2. seqs \in [1..n -> T]
    BY <1>1, <1>4, <2>1
  <2>3. seqs \in Seq(T) /\ Len(seqs) = n
    BY ONLY <1>2, <2>2
  <2> QED
    BY <2>1, <2>3
<1>6. PICK w, m : w = FlattenSeq(seqs) /\ m = Len(w)
  OBVIOUS
<1>7. InPlace(seqs, n, w) /\ w \in [1..m -> S] /\ m \in Nat
  <2>1. w \in Seq(S)
    BY ONLY <1>5, <1>6, FlattenType
  <2>2. w \in [1..m -> S] /\ m \in Nat
    BY ONLY <1>6, <2>1
  <2>3. InPlace(seqs, n, w)
    BY ONLY <1>5, <1>6, FlattenPlaces
  <2> QED
    BY ONLY <2>2, <2>3
\* Where an element of the concatenation is from.
<1>8. ASSUME NEW p \in 1..m
      PROVE  \E k \in 1..n : \E j \in 1..Len(seqs[k]) : p = Length(seqs, k - 1) + j /\ w[p] = seqs[k][j]
  <2>1. PICK k \in 1..n : \E j \in 1..Len(seqs[k]) : p = Length(seqs, k - 1) + j
    BY ONLY <1>6, <1>7, <1>8 DEF InPlace
  <2>2. PICK j \in 1..Len(seqs[k]) : p = Length(seqs, k - 1) + j
    BY ONLY <2>1
  <2>3. w[p] = seqs[k][j]
    BY ONLY <1>7, <2>2, <2>1 DEF InPlace
  <2> QED
    BY ONLY <2>2, <2>3, <2>1
<1>9. ASSUME NEW p \in 1..m, NEW q \in 1..m, p < q PROVE w[p] < w[q]
  <2>1. PICK k \in 1..n : \E j \in 1..Len(seqs[k]) : p = Length(seqs, k - 1) + j /\ w[p] = seqs[k][j]
    BY ONLY <1>8, p \in 1..m
  <2>2. PICK j \in 1..Len(seqs[k]) : p = Length(seqs, k - 1) + j /\ w[p] = seqs[k][j]
    BY ONLY <2>1
  <2>3. PICK h \in 1..n : \E i \in 1..Len(seqs[h]) : q = Length(seqs, h - 1) + i /\ w[q] = seqs[h][i]
    BY ONLY <1>8, q \in 1..m
  <2>4. PICK i \in 1..Len(seqs[h]) : q = Length(seqs, h - 1) + i /\ w[q] = seqs[h][i]
    BY ONLY <2>3
  <2>5. /\ k \in Nat /\ h \in Nat /\ k - 1 \in 0..n /\ h \in 0..n
        /\ j \in Nat \ {0} /\ i \in 1..Len(seqs[h]) /\ Len(seqs[h]) \in Nat
        /\ Length(seqs, k - 1) \in Nat /\ Length(seqs, h - 1) \in Nat
        /\ Length(seqs, h) = Length(seqs, h - 1) + Len(seqs[h])
    <3>1. k \in Nat /\ h \in Nat /\ k - 1 \in 0..n /\ h - 1 \in 0..n /\ h \in 0..n
      BY ONLY <1>2, <2>1, <2>3
    <3>2. Len(seqs[h]) \in Nat /\ Len(seqs[k]) \in Nat
      BY ONLY <1>4, <2>1, <2>3
    <3>3. /\ Length(seqs, k - 1) \in Nat /\ Length(seqs, h - 1) \in Nat
          /\ Length(seqs, h) = Length(seqs, h - 1) + Len(seqs[h])
      BY ONLY <1>7, <3>1, <2>3 DEF InPlace
    <3>4. j \in Nat \ {0}
      BY ONLY <2>2, <3>2
    <3> QED
      BY ONLY <3>1, <3>2, <3>3, <3>4, <2>4
  <2>6. CASE k = h
    <3>1. j < i
      BY ONLY <1>9, <2>2, <2>4, <2>5, <2>6
    <3>2. PICK c : c = Cardinality(sets[k]) /\ c = Len(seqs[k])
      BY ONLY <1>4, <2>1
    <3>3. Rises(seqs[k], c, sets[k])
      BY ONLY <1>3, <2>1, <3>2
    <3>4. j \in 1..c /\ i \in 1..c
      BY ONLY <2>2, <2>4, <2>6, <3>2
    <3>5. seqs[k][j] < seqs[k][i]
      BY ONLY <3>1, <3>3, <3>4 DEF Rises
    <3> QED
      BY ONLY <2>2, <2>4, <2>6, <3>5
  <2>7. CASE k < h
    <3>1. seqs[k][j] \in sets[k] /\ seqs[h][i] \in sets[h]
      BY ONLY <1>4, <2>1, <2>2, <2>3, <2>4
    <3>2. seqs[k][j] < seqs[h][i]
      BY ONLY <2>1, <2>3, <2>7, <3>1, InOrder(sets, n) DEF InOrder
    <3> QED
      BY ONLY <2>2, <2>4, <3>2
  <2>8. CASE h < k
    <3>1. h <= k - 1
      BY ONLY <2>5, <2>8
    <3>2. Length(seqs, h) <= Length(seqs, k - 1)
      BY ONLY <1>2, <1>4, <1>7, <2>5, <3>1, EndsGrow
    <3> QED
      BY ONLY <1>9, <2>2, <2>4, <2>5, <3>2
  <2> QED
    BY ONLY <2>5, <2>6, <2>7, <2>8
<1>10. ASSUME NEW x \in S PROVE \E p \in 1..m : w[p] = x
  <2>1. PICK k \in 1..n : x \in sets[k]
    BY <1>10
  <2>2. PICK j \in 1..Cardinality(sets[k]) : seqs[k][j] = x
    BY <1>3, <2>1 DEF Rises
  <2>3. j \in 1..Len(seqs[k])
    BY <1>4, <2>1, <2>2
  <2>4. Length(seqs, k - 1) + j \in 1..Len(w) /\ w[Length(seqs, k - 1) + j] = seqs[k][j]
    BY ONLY <1>7, <2>1, <2>3 DEF InPlace
  <2> QED
    BY <1>6, <2>2, <2>4
<1>11. Rises(w, m, S)
  BY <1>7, <1>9, <1>10 DEF Rises
<1>12. w = Ascending(S)
  BY ONLY <1>2, <1>11, IsFiniteSet(S), AscendingIs
<1> QED
  BY <1>1, <1>6, <1>12

\* The ends of a table: its least and its greatest rowid.
LEMMA EndsOf ==
    ASSUME NEW S \in SUBSET Int, IsFiniteSet(S), S # {}
    PROVE  /\ Min(S) \in S /\ \A x \in S : Min(S) <= x
           /\ Max(S) \in S /\ \A x \in S : x <= Max(S)
PROOF
<1>1. PICK n, s : n \in Nat /\ Rises(s, n, S)
  <2>1. Cardinality(S) \in Nat
    BY FS_CardinalityType
  <2> QED
    BY <2>1, RisingExists
<1>2. n >= 1
  <2>1. PICK x \in S : TRUE
    OBVIOUS
  <2>2. PICK i \in 1..n : s[i] = x
    BY ONLY <1>1, <2>1 DEF Rises
  <2> QED
    BY ONLY <2>2, <1>1
<1>3. 1 \in 1..n /\ n \in 1..n /\ s[1] \in S /\ s[n] \in S
  BY <1>1, <1>2 DEF Rises
<1>4. \A x \in S : s[1] <= x /\ x <= s[n]
  <2> TAKE x \in S
  <2>1. PICK i \in 1..n : s[i] = x
    BY <1>1 DEF Rises
  <2>2. (1 < i => s[1] < s[i]) /\ (i < n => s[i] < s[n])
    BY <1>1, <1>3 DEF Rises
  <2>3. (i = 1 \/ 1 < i) /\ (i = n \/ i < n)
    BY ONLY <1>1, <2>1
  <2>4. s[1] \in Int /\ s[n] \in Int /\ x \in Int
    BY <1>3
  <2> QED
    BY ONLY <2>1, <2>2, <2>3, <2>4
<1>5. \E x \in S : \A y \in S : x <= y
  BY <1>3, <1>4
<1>6. \E x \in S : \A y \in S : x >= y
  <2>1. \A y \in S : s[n] >= y
    BY <1>3, <1>4
  <2> QED
    BY <1>3, <2>1
<1>7. Min(S) \in S /\ \A y \in S : Min(S) <= y
  BY ONLY <1>5 DEF Min
<1>8. Max(S) \in S /\ \A y \in S : Max(S) >= y
  BY ONLY <1>6 DEF Max
<1>9. \A y \in S : y <= Max(S)
  BY <1>8
<1> QED
  BY <1>7, <1>8, <1>9

\* The ranges of the workers come in the order of the workers.
LEMMA RangesAscend ==
    ASSUME NEW n, NEW min, NEW max, Splittable(n, min, max), NEW i \in 0..(n - 1), NEW k \in 0..(n - 1), i < k,
           NEW x \in Bounds(i, n, min, max), NEW y \in Bounds(k, n, min, max)
    PROVE  x < y
PROOF
<1>1. n \in Nat /\ min \in Int /\ max \in Int
  BY ScanAssumption DEF Splittable, MinRowid, MaxRowid
<1>2. PICK step : step = Step(n, min, max)
  OBVIOUS
<1>3. /\ step \in Nat \ {0}
      /\ Bounds(i, n, min, max) = (min + step * i)..(IF i = n - 1 THEN max ELSE (min + step * (i + 1)) - 1)
      /\ Bounds(k, n, min, max) = (min + step * k)..(IF k = n - 1 THEN max ELSE (min + step * (k + 1)) - 1)
  BY <1>2, BoundsExact
<1>4. i # n - 1 /\ i + 1 \in Nat /\ k \in Nat /\ i + 1 <= k
  BY ONLY <1>1, i \in 0..(n - 1), k \in 0..(n - 1), i < k
<1>5. PICK a, b : a = step * (i + 1) /\ b = step * k
  OBVIOUS
<1>6. a \in Int /\ b \in Int /\ a <= b
  <2>1. step * (i + 1) <= step * k
    BY ONLY <1>3, <1>4, Monotone
  <2>2. step * (i + 1) \in Int /\ step * k \in Int
    BY ONLY <1>3, <1>4
  <2> QED
    BY ONLY <1>5, <2>1, <2>2
<1>7. x \in Int /\ x <= (min + a) - 1
  <2>1. x \in (min + step * i)..((min + a) - 1)
    BY <1>3, <1>4, <1>5
  <2> QED
    BY ONLY <2>1
<1>8. y \in Int /\ min + b <= y
  <2>1. PICK hi : y \in (min + b)..hi
    BY <1>3, <1>5
  <2>2. y \in Int /\ min + b <= y
    BY ONLY <2>1
  <2> QED
    BY <2>2
<1> QED
  BY ONLY <1>1, <1>6, <1>7, <1>8

\* The shares of the workers of a table, and these in rowid order.
Shares(sets, rows, n) == sets = [i \in 1..n |-> rows \cap Bounds(i - 1, n, Min(rows), Max(rows))]
Sorted(seqs, sets, n) == seqs = [i \in 1..n |-> Ascending(sets[i])]

\* What the workers of a steady table return is, put together, the table.
LEMMA ChunksAreTable ==
    ASSUME NEW n, NEW rows \in SUBSET Rowids, rows # {}, Splittable(n, Min(rows), Max(rows)),
           NEW sets, Shares(sets, rows, n), NEW seqs, Sorted(seqs, sets, n)
    PROVE  FlattenSeq(seqs) = Ascending(rows)
PROOF
<1>1. PICK min, max : min = Min(rows) /\ max = Max(rows)
  OBVIOUS
<1>2. n \in Nat /\ n >= 1
  BY DEF Splittable
<1>3. rows \in SUBSET Int /\ IsFiniteSet(rows)
  <2>1. MinRowid \in Int /\ MaxRowid \in Int
    BY ScanAssumption DEF MinRowid, MaxRowid
  <2>2. IsFiniteSet(MinRowid..MaxRowid)
    BY ONLY <2>1, FS_Interval
  <2>3. rows \in SUBSET (MinRowid..MaxRowid)
    BY ScanAssumption
  <2>4. IsFiniteSet(rows)
    BY ONLY <2>2, <2>3, FS_Subset
  <2>5. MinRowid..MaxRowid \subseteq Int
    BY ONLY <2>1
  <2> QED
    BY ONLY <2>3, <2>4, <2>5
<1>4. \A x \in rows : x \in min..max
  <2>1. min \in rows /\ max \in rows /\ \A x \in rows : min <= x /\ x <= max
    BY <1>1, <1>3, EndsOf
  <2> QED
    BY <1>3, <2>1
<1>5. Splittable(n, min, max) /\ sets = [i \in 1..n |-> rows \cap Bounds(i - 1, n, min, max)]
  BY <1>1 DEF Shares
<1>6. InOrder(sets, n)
  <2>1. \A i \in 1..n : sets[i] \in SUBSET rows /\ sets[i] \in SUBSET Int /\ IsFiniteSet(sets[i])
    BY <1>3, <1>5, FS_Subset
  <2>2. ASSUME NEW i \in 1..n, NEW k \in 1..n, i < k, NEW x \in sets[i], NEW y \in sets[k]
        PROVE  x < y
    <3>1. PICK a, b : a = i - 1 /\ b = k - 1
      OBVIOUS
    <3>2. a \in 0..(n - 1) /\ b \in 0..(n - 1) /\ a < b
      BY ONLY <1>2, <2>2, <3>1
    <3>3. x \in Bounds(a, n, min, max) /\ y \in Bounds(b, n, min, max)
      BY ONLY <1>5, <2>2, <3>1
    <3> QED
      BY ONLY <1>5, <3>2, <3>3, RangesAscend
  <2> QED
    BY <1>2, <2>1, <2>2 DEF InOrder
<1>7. rows = UNION {sets[i] : i \in 1..n}
  <2>1. \A i \in 1..n : sets[i] \subseteq rows
    BY <1>5
  <2>2. ASSUME NEW x \in rows PROVE \E i \in 1..n : x \in sets[i]
    <3>1. \E a \in 0..(n - 1) : x \in Bounds(a, n, min, max)
      <4>1. \A r \in min..max : \E a \in 0..(n - 1) : r \in Bounds(a, n, min, max)
        BY ONLY <1>5, RangesPartition
      <4> QED
        BY <1>4, <4>1
    <3>2. PICK a \in 0..(n - 1) : x \in Bounds(a, n, min, max)
      BY <3>1
    <3>3. a + 1 \in 1..n /\ (a + 1) - 1 = a
      BY <1>2
    <3>4. x \in sets[a + 1]
      BY <1>5, <3>2, <3>3
    <3> QED
      BY <3>3, <3>4
  <2> QED
    BY <2>1, <2>2
<1> QED
  <2>1. FlattenSeq([i \in 1..n |-> Ascending(sets[i])]) = Ascending(rows)
    BY ONLY <1>3, <1>6, <1>7, AscendingConcat
  <2> QED
    BY <2>1 DEF Sorted

-----------------------------------------------------------------------------
\* No span of the table overflows i64: what the code takes for granted.
SpansFit == \A a, b \in Rowids : (a - b) + 1 <= MaxRowid

\* Nobody else commits while the scan runs, and no transaction hides it from
\* the workers.
Calm == setting.inMemory \/ (~setting.ownTransactions /\ \E rows \in seen : seen = {rows})

\* Worth splitting, and not too wide.
Wide(rows) == rows # {} /\ Max(rows) - Min(rows) >= ParallelMinSpan

\* The inductive invariant of the answers.
ScanInv ==
    /\ setting \in Settings /\ committed \in SUBSET Rowids /\ txn \in (SUBSET Rowids) \cup {NoTxn}
    /\ setting.ownTransactions \/ txn = NoTxn
    /\ pc # "idle" => Current \in seen /\ answer = NoAnswer
    /\ pc # "idle" /\ setting.inMemory => seen = {Current}
    /\ pc \in {"take", "open", "scan"} /\ Calm => Wide(Current) /\ ends = <<Min(Current), Max(Current)>>
    /\ pc = "scan" => DOMAIN chunks = 1..held /\ held >= 2
    /\ pc = "scan" /\ Calm =>
         \A i \in 1..held : \/ chunks[i] = Unread \/ chunks[i] = Failed
                            \/ txn = NoTxn /\ chunks[i] = ChunkOf(i)
    /\ answer # NoAnswer => seen # {}
    /\ SafeScanMatchesSerial

\* The first state has ScanInv.
LEMMA ScanInvInit == Init => ScanInv
PROOF
<1> SUFFICES ASSUME Init PROVE ScanInv
  OBVIOUS
<1>1. /\ setting \in Settings /\ committed \in SUBSET Rowids /\ txn = NoTxn
      /\ pc = "idle" /\ answer = NoAnswer
  BY DEF Init
<1>2. SafeScanMatchesSerial
  BY <1>1 DEF SafeScanMatchesSerial, IndistinguishableFromSerial
<1>3. txn \in (SUBSET Rowids) \cup {NoTxn} /\ pc \notin {"take", "open", "scan"} /\ pc # "scan"
  BY ONLY <1>1
<1> QED
  BY ONLY <1>1, <1>2, <1>3 DEF ScanInv

\* In a call, a calm scan has seen what is current, and only that.
LEMMA CalmCall ==
    ASSUME ScanInv, Calm, pc # "idle"
    PROVE  seen = {Current} /\ (setting.inMemory \/ txn = NoTxn)
PROOF
BY DEF ScanInv, Calm

\* Nothing of the scan changes but what is idle.
LEMMA ScanKept ==
    ASSUME ScanInv, UNCHANGED <<setting, committed, txn, pc, ends, chunks, answer, seen, held>>
    PROVE  ScanInv'
PROOF
<1>1. /\ Current' = Current /\ (Calm' <=> Calm) /\ (\A rows : Wide(rows)' <=> Wide(rows))
      /\ (\A i : ChunkOf(i)' = ChunkOf(i)) /\ SafeScanMatchesSerial' = SafeScanMatchesSerial
  BY DEF Current, Calm, Wide, ChunkOf, SafeScanMatchesSerial, IndistinguishableFromSerial
<1>2. Wide(Current)' <=> Wide(Current)
  BY <1>1 DEF Wide
<1> QED
  BY <1>1, <1>2 DEF ScanInv

\* While nothing is under way, the invariant is the types and the last answer.
LEMMA IdleScanInv ==
    ASSUME pc = "idle",
           setting \in Settings, committed \in SUBSET Rowids, txn \in (SUBSET Rowids) \cup {NoTxn},
           setting.ownTransactions \/ txn = NoTxn,
           answer # NoAnswer => seen # {}, SafeScanMatchesSerial
    PROVE  ScanInv
PROOF
<1>1. pc \notin {"take", "open", "scan"} /\ pc # "scan"
  OBVIOUS
<1> QED
  BY <1>1 DEF ScanInv

\* What is answered is still an answer when more contents were seen.
LEMMA AnswerStays ==
    ASSUME SafeScanMatchesSerial, answer # NoAnswer => seen # {}, pc = "idle", pc' = "idle",
           answer' = answer, setting' = setting, seen \subseteq seen'
    PROVE  SafeScanMatchesSerial' /\ (answer' # NoAnswer => seen' # {})
PROOF
<1>1. ASSUME answer # NoAnswer, setting'.inMemory \/ (~setting'.ownTransactions /\ \E rows \in seen' : seen' = {rows})
      PROVE  \E rows \in seen' : answer' = Ascending(rows)
  <2>1. \E rows \in seen' : seen' = {rows} => \E r \in seen : seen = {r}
    BY <1>1
  <2>2. setting.inMemory \/ (~setting.ownTransactions /\ \E rows \in seen : seen = {rows})
    BY <1>1
  <2>3. IndistinguishableFromSerial
    BY <2>2 DEF SafeScanMatchesSerial
  <2>4. PICK rows \in seen : answer = Ascending(rows)
    BY <1>1, <2>3 DEF IndistinguishableFromSerial
  <2> QED
    BY <2>4
<1>2. SafeScanMatchesSerial'
  BY <1>1 DEF SafeScanMatchesSerial, IndistinguishableFromSerial
<1> QED
  BY <1>2

\* Between scans this client may do what it likes.
LEMMA ScanInvOwn ==
    ASSUME ScanInv, UNCHANGED setting, OwnWrite \/ OwnBegin \/ OwnEnd
    PROVE  ScanInv'
PROOF
<1>1. pc = "idle" /\ pc' = "idle" /\ answer' = answer /\ seen' = seen
  BY DEF OwnWrite, OwnBegin, OwnEnd
<1>2. /\ setting \in Settings /\ committed \in SUBSET Rowids /\ txn \in (SUBSET Rowids) \cup {NoTxn}
      /\ setting.ownTransactions \/ txn = NoTxn
      /\ answer # NoAnswer => seen # {}
      /\ SafeScanMatchesSerial
  BY DEF ScanInv
<1>3. /\ committed' \in SUBSET Rowids /\ txn' \in (SUBSET Rowids) \cup {NoTxn}
      /\ setting.ownTransactions \/ txn' = NoTxn
  <2>1. CASE OwnWrite
    BY <1>2, <2>1 DEF OwnWrite
  <2>2. CASE OwnBegin
    BY <1>2, <2>2 DEF OwnBegin
  <2>3. CASE OwnEnd
    BY <1>2, <2>3 DEF OwnEnd
  <2> QED
    BY <2>1, <2>2, <2>3
<1>4. SafeScanMatchesSerial' /\ (answer' # NoAnswer => seen' # {})
  BY ONLY <1>1, <1>2, AnswerStays, UNCHANGED setting
<1>5. setting' \in Settings /\ setting'.ownTransactions = setting.ownTransactions
  BY <1>2
<1> QED
  BY ONLY <1>1, <1>3, <1>4, <1>5 DEF ScanInv

\* A commit of another process is seen, and is of what it was if the scan is calm.
LEMMA ScanInvExternal ==
    ASSUME ScanInv, UNCHANGED setting, ExternalWrite
    PROVE  ScanInv'
PROOF
<1>1. /\ txn = NoTxn /\ txn' = NoTxn /\ committed' \in SUBSET Rowids /\ seen' = seen \cup {committed'}
      /\ pc' = pc /\ ends' = ends /\ chunks' = chunks /\ answer' = answer /\ held' = held
      /\ setting.externalWriters
  BY DEF ExternalWrite, workers
<1>2. setting \in Settings /\ ~setting.inMemory
  <2>1. setting \in Settings
    BY DEF ScanInv
  <2> QED
    BY <1>1, <2>1, ScanAssumption
<1>3. Current = committed /\ Current' = committed'
  BY <1>1 DEF Current
<1>4. answer # NoAnswer => seen # {}
  BY DEF ScanInv
<1>5. SafeScanMatchesSerial' /\ (answer' # NoAnswer => seen' # {})
  <2>1. CASE pc = "idle"
    <3>1. SafeScanMatchesSerial /\ pc' = "idle" /\ seen \subseteq seen'
      BY <1>1, <2>1 DEF ScanInv
    <3> QED
      BY ONLY <1>1, <1>4, <2>1, <3>1, AnswerStays, UNCHANGED setting
  <2>2. CASE pc # "idle"
    BY <1>1, <2>2 DEF SafeScanMatchesSerial, IndistinguishableFromSerial
  <2> QED
    BY <2>1, <2>2
<1>6. pc # "idle" /\ Calm' => Calm /\ committed' = committed
  <2> SUFFICES ASSUME pc # "idle", Calm' PROVE Calm /\ committed' = committed
    OBVIOUS
  <2>1. committed \in seen
    BY <1>3 DEF ScanInv
  <2>2. ~setting.ownTransactions /\ \E rows \in seen' : seen' = {rows}
    BY <1>2 DEF Calm
  <2>3. seen = {committed} /\ committed' = committed
    BY <1>1, <2>1, <2>2
  <2> QED
    BY <2>2, <2>3 DEF Calm
<1>7. pc # "idle" => Current' \in seen' /\ answer' = NoAnswer
  BY <1>1, <1>3 DEF ScanInv
<1>8. pc \in {"take", "open", "scan"} /\ Calm' =>
        Wide(Current)' /\ ends' = <<Min(Current'), Max(Current')>>
  <2> SUFFICES ASSUME pc \in {"take", "open", "scan"}, Calm'
               PROVE  Wide(Current)' /\ ends' = <<Min(Current'), Max(Current')>>
    OBVIOUS
  <2>1. Calm /\ Current' = Current
    BY <1>3, <1>6
  <2>2. Wide(Current) /\ ends = <<Min(Current), Max(Current)>>
    BY <2>1 DEF ScanInv
  <2>3. Wide(Current)'
    BY <2>1, <2>2 DEF Wide
  <2> QED
    BY <1>1, <2>1, <2>2, <2>3
<1>9. pc = "scan" => DOMAIN chunks' = 1..held' /\ held' >= 2
  BY <1>1 DEF ScanInv
<1>10. pc = "scan" /\ Calm' =>
         \A i \in 1..held : \/ chunks'[i] = Unread \/ chunks'[i] = Failed
                            \/ txn' = NoTxn /\ chunks'[i] = ChunkOf(i)'
  <2> SUFFICES ASSUME pc = "scan", Calm'
               PROVE  \A i \in 1..held : \/ chunks'[i] = Unread \/ chunks'[i] = Failed
                                         \/ txn' = NoTxn /\ chunks'[i] = ChunkOf(i)'
    OBVIOUS
  <2>1. Calm /\ committed' = committed
    BY <1>6
  <2>2. \A i : ChunkOf(i)' = ChunkOf(i)
    BY <1>1, <2>1 DEF ChunkOf
  <2> QED
    BY <1>1, <2>1, <2>2 DEF ScanInv
<1> QED
  BY <1>1, <1>2, <1>5, <1>7, <1>8, <1>9, <1>10 DEF ScanInv

\* A call under way has no answer yet.
LEMMA NoAnswerYet ==
    ASSUME pc' # "idle" \/ answer' = NoAnswer
    PROVE  SafeScanMatchesSerial'
PROOF
BY DEF SafeScanMatchesSerial, IndistinguishableFromSerial

\* What no step of a scan changes.
Unmoved == UNCHANGED <<setting, committed, txn>>

\* What is current stays so.
LEMMA UnmovedIs ==
    ASSUME Unmoved
    PROVE  /\ Current' = Current
           /\ seen' = seen => (Calm' <=> Calm)
           /\ Wide(Current)' <=> Wide(Current)
PROOF
<1>1. Current' = Current
  BY DEF Unmoved, Current
<1> QED
  BY <1>1 DEF Unmoved, Calm, Wide

\* A query arrives: what is current is what was seen.
LEMMA ScanInvQuery ==
    ASSUME ScanInv, UNCHANGED setting, Query
    PROVE  ScanInv'
PROOF
<1>1. /\ pc' \in {"endpoints", "serial"} /\ answer' = NoAnswer /\ seen' = {Current}
      /\ UNCHANGED <<committed, txn>>
  BY DEF Query, database
<1>2. Unmoved
  BY <1>1 DEF Unmoved
<1>3. Current' = Current
  BY ONLY <1>2, UnmovedIs
<1>4. SafeScanMatchesSerial'
  BY ONLY <1>1, NoAnswerYet
<1>5. /\ setting' \in Settings /\ committed' \in SUBSET Rowids /\ txn' \in (SUBSET Rowids) \cup {NoTxn}
      /\ setting'.ownTransactions \/ txn' = NoTxn
  BY <1>1 DEF ScanInv
<1>6. pc' \notin {"take", "open", "scan"} /\ pc' # "scan"
  BY ONLY <1>1
<1> QED
  BY ONLY <1>1, <1>3, <1>4, <1>5, <1>6 DEF ScanInv

\* The first half of the invariant, on which no step of a scan bears.
LEMMA ScanKeepsTypes ==
    ASSUME ScanInv, Unmoved, answer' = answer, seen' = seen, pc # "idle"
    PROVE  /\ setting' \in Settings /\ committed' \in SUBSET Rowids /\ txn' \in (SUBSET Rowids) \cup {NoTxn}
           /\ setting'.ownTransactions \/ txn' = NoTxn
           /\ Current' \in seen' /\ answer' = NoAnswer
           /\ setting'.inMemory => seen' = {Current'}
           /\ answer' # NoAnswer => seen' # {}
           /\ SafeScanMatchesSerial'
PROOF
<1>1. Current' = Current
  BY ONLY Unmoved, UnmovedIs
<1>2. answer' = NoAnswer /\ Current \in seen
  BY DEF ScanInv
<1>3. SafeScanMatchesSerial'
  BY ONLY <1>2, NoAnswerYet
<1> QED
  BY <1>1, <1>2, <1>3 DEF ScanInv, Unmoved

\* Worth splitting: the span does not overflow, so what is computed of it is right.
LEMMA EndsAreWide ==
    ASSUME SpansFit, NEW rows \in SUBSET Rowids, rows # {},
           SaturatingSub(Max(rows), Min(rows)) >= ParallelMinSpan
    PROVE  Wide(rows)
PROOF
<1>1. MinRowid \in Int /\ MaxRowid \in Int /\ MinRowid < 0
  BY ScanAssumption DEF MinRowid, MaxRowid
<1>2. rows \in SUBSET Int /\ IsFiniteSet(rows)
  <2>1. IsFiniteSet(MinRowid..MaxRowid)
    BY ONLY <1>1, FS_Interval
  <2>2. rows \in SUBSET (MinRowid..MaxRowid)
    BY ScanAssumption
  <2>3. IsFiniteSet(rows)
    BY ONLY <2>1, <2>2, FS_Subset
  <2>4. MinRowid..MaxRowid \subseteq Int
    BY ONLY <1>1
  <2> QED
    BY ONLY <2>2, <2>3, <2>4
<1>3. PICK a, b : a = Max(rows) /\ b = Min(rows)
  OBVIOUS
<1>4. a \in rows /\ b \in rows /\ a \in Int /\ b \in Int /\ b <= a
  BY ONLY <1>2, <1>3, EndsOf, rows # {}
<1>5. PICK d : d = a - b
  OBVIOUS
<1>6. d \in Int /\ d >= 0 /\ d <= MaxRowid /\ d >= MinRowid
  <2>1. (a - b) + 1 <= MaxRowid
    BY ONLY <1>4, SpansFit, rows \in SUBSET Rowids DEF SpansFit
  <2> QED
    BY ONLY <1>1, <1>4, <1>5, <2>1
<1>7. Max({MinRowid, d}) = d
  <2>1. d \in {MinRowid, d} /\ \A y \in {MinRowid, d} : d >= y
    BY ONLY <1>1, <1>6
  <2>2. \A x \in {MinRowid, d} : (\A y \in {MinRowid, d} : x >= y) => x = d
    BY ONLY <1>1, <1>6
  <2> QED
    BY ONLY <2>1, <2>2 DEF Max
<1>8. Min({MaxRowid, d}) = d
  <2>1. d \in {MaxRowid, d} /\ \A y \in {MaxRowid, d} : d <= y
    BY ONLY <1>1, <1>6
  <2>2. \A x \in {MaxRowid, d} : (\A y \in {MaxRowid, d} : x <= y) => x = d
    BY ONLY <1>1, <1>6
  <2> QED
    BY ONLY <2>1, <2>2 DEF Min
<1>9. SaturatingSub(a, b) = d
  BY ONLY <1>5, <1>7, <1>8 DEF SaturatingSub
<1> QED
  BY ONLY <1>3, <1>5, <1>9, rows # {}, SaturatingSub(Max(rows), Min(rows)) >= ParallelMinSpan DEF Wide

\* The endpoints are those of the table, and splitting is worth it.
LEMMA ScanInvEndpoints ==
    ASSUME SpansFit, ScanInv, UNCHANGED setting, ReadEndpoints
    PROVE  ScanInv'
PROOF
<1>1. /\ pc = "endpoints" /\ pc' \in {"take", "serial"} /\ Unmoved /\ answer' = answer /\ seen' = seen
      /\ pc' = "take" => /\ Current # {} /\ ends' = <<Min(Current), Max(Current)>>
                         /\ SaturatingSub(Max(Current), Min(Current)) >= ParallelMinSpan
  BY DEF ReadEndpoints, database, Unmoved
<1>2. /\ setting' \in Settings /\ committed' \in SUBSET Rowids /\ txn' \in (SUBSET Rowids) \cup {NoTxn}
      /\ setting'.ownTransactions \/ txn' = NoTxn
      /\ Current' \in seen' /\ answer' = NoAnswer
      /\ setting'.inMemory => seen' = {Current'}
      /\ answer' # NoAnswer => seen' # {}
      /\ SafeScanMatchesSerial'
  <2>1. pc # "idle"
    BY ONLY <1>1
  <2> QED
    BY ONLY <1>1, <2>1, ScanInv, ScanKeepsTypes
<1>3. Current \in SUBSET Rowids
  BY DEF ScanInv, Current
<1>4. pc' = "take" => Wide(Current)
  BY ONLY <1>1, <1>3, SpansFit, EndsAreWide
<1>5. Current' = Current /\ (Wide(Current)' <=> Wide(Current))
  BY ONLY <1>1, UnmovedIs
<1>6. pc' \in {"take", "open", "scan"} /\ Calm' => Wide(Current)' /\ ends' = <<Min(Current'), Max(Current')>>
  BY ONLY <1>1, <1>4, <1>5
<1>7. pc' # "scan"
  BY ONLY <1>1
<1> QED
  BY ONLY <1>2, <1>6, <1>7 DEF ScanInv

\* Taking connections and opening more, until they are partitioned.
LEMMA ScanInvConnections ==
    ASSUME PoolInv, ScanInv, UNCHANGED setting, TakePooled \/ OpenWorker \/ Partition
    PROVE  ScanInv'
PROOF
<1>1. /\ pc \in {"take", "open"} /\ pc' \in {"open", "scan", "serial"} /\ Unmoved
      /\ answer' = answer /\ seen' = seen /\ ends' = ends
      /\ pc' = "scan" => held' = held /\ held >= 2 /\ chunks' = [i \in 1..held |-> Unread]
  <2>1. CASE TakePooled
    BY <2>1 DEF TakePooled, database, Unmoved
  <2>2. CASE OpenWorker
    BY <2>2 DEF OpenWorker, database, Unmoved
  <2>3. CASE Partition
    <3>1. held \in Nat
      BY DEF PoolInv
    <3>2. CASE held < 2
      BY <2>3, <3>2 DEF Partition, database, Unmoved
    <3>3. CASE ~(held < 2)
      BY <2>3, <3>1, <3>3 DEF Partition, database, Unmoved
    <3> QED
      BY ONLY <3>2, <3>3
  <2> QED
    BY <2>1, <2>2, <2>3
<1>2. /\ setting' \in Settings /\ committed' \in SUBSET Rowids /\ txn' \in (SUBSET Rowids) \cup {NoTxn}
      /\ setting'.ownTransactions \/ txn' = NoTxn
      /\ Current' \in seen' /\ answer' = NoAnswer
      /\ setting'.inMemory => seen' = {Current'}
      /\ answer' # NoAnswer => seen' # {}
      /\ SafeScanMatchesSerial'
  <2>1. pc # "idle"
    BY ONLY <1>1
  <2> QED
    BY ONLY <1>1, <2>1, ScanInv, ScanKeepsTypes
<1>3. Current' = Current /\ (Wide(Current)' <=> Wide(Current)) /\ (Calm' <=> Calm)
  BY ONLY <1>1, UnmovedIs
<1>4. Calm => Wide(Current) /\ ends = <<Min(Current), Max(Current)>>
  <2>1. pc \in {"take", "open", "scan"}
    BY ONLY <1>1
  <2> QED
    BY ONLY <2>1, ScanInv DEF ScanInv
<1>5. pc' \in {"take", "open", "scan"} /\ Calm' => Wide(Current)' /\ ends' = <<Min(Current'), Max(Current')>>
  BY ONLY <1>1, <1>3, <1>4
<1>6. pc' = "scan" => DOMAIN chunks' = 1..held' /\ held' >= 2
  BY ONLY <1>1
<1>7. pc' = "scan" => \A i \in 1..held' : chunks'[i] = Unread
  BY ONLY <1>1
<1> QED
  BY ONLY <1>2, <1>5, <1>6, <1>7 DEF ScanInv

\* A worker returns its share of what is current, or fails.
LEMMA ScanInvChunk ==
    ASSUME ScanInv, UNCHANGED setting, NEW k \in DOMAIN chunks, ScanChunk(k)
    PROVE  ScanInv'
PROOF
<1>1. /\ pc = "scan" /\ pc' = pc /\ Unmoved /\ answer' = answer /\ seen' = seen /\ ends' = ends /\ held' = held
      /\ \/ chunks' = [chunks EXCEPT ![k] = Failed]
         \/ chunks' = [chunks EXCEPT ![k] = ChunkOf(k)] /\ ~(setting.inMemory /\ txn # NoTxn /\ ChunkOf(k) # Failed)
  BY DEF ScanChunk, database, workers, Unmoved
<1>2. /\ setting' \in Settings /\ committed' \in SUBSET Rowids /\ txn' \in (SUBSET Rowids) \cup {NoTxn}
      /\ setting'.ownTransactions \/ txn' = NoTxn
      /\ Current' \in seen' /\ answer' = NoAnswer
      /\ setting'.inMemory => seen' = {Current'}
      /\ answer' # NoAnswer => seen' # {}
      /\ SafeScanMatchesSerial'
  <2>1. pc # "idle"
    BY ONLY <1>1
  <2> QED
    BY ONLY <1>1, <2>1, ScanInv, ScanKeepsTypes
<1>3. Current' = Current /\ (Wide(Current)' <=> Wide(Current)) /\ (Calm' <=> Calm)
  BY ONLY <1>1, UnmovedIs
<1>4. /\ Calm => Wide(Current) /\ ends = <<Min(Current), Max(Current)>>
      /\ DOMAIN chunks = 1..held /\ held >= 2
      /\ Calm => \A i \in 1..held : \/ chunks[i] = Unread \/ chunks[i] = Failed
                                    \/ txn = NoTxn /\ chunks[i] = ChunkOf(i)
  <2>1. pc \in {"take", "open", "scan"} /\ pc = "scan"
    BY ONLY <1>1
  <2> QED
    BY ONLY <2>1, ScanInv DEF ScanInv
<1>5. pc' \in {"take", "open", "scan"} /\ Calm' => Wide(Current)' /\ ends' = <<Min(Current'), Max(Current')>>
  BY ONLY <1>1, <1>3, <1>4
<1>6. DOMAIN chunks' = 1..held' /\ held' >= 2
  BY ONLY <1>1, <1>4
<1>7. \A i : ChunkOf(i)' = ChunkOf(i)
  BY ONLY <1>1 DEF ChunkOf, Unmoved
<1>8. ASSUME Calm', NEW i \in 1..held'
      PROVE  \/ chunks'[i] = Unread \/ chunks'[i] = Failed
             \/ txn' = NoTxn /\ chunks'[i] = ChunkOf(i)'
  <2>1. i \in 1..held /\ i \in DOMAIN chunks /\ txn' = txn
    BY ONLY <1>1, <1>4, <1>8 DEF Unmoved
  <2>2. CASE i = k
    <3>1. setting.inMemory \/ txn = NoTxn
      <4>1. pc # "idle"
        BY ONLY <1>1
      <4>2. Calm
        BY ONLY <1>3, <1>8
      <4> QED
        BY ONLY <4>1, <4>2, ScanInv, CalmCall
    <3>2. chunks'[i] = Failed \/ (chunks'[i] = ChunkOf(k) /\ (txn = NoTxn \/ ChunkOf(k) = Failed))
      BY ONLY <1>1, <2>1, <2>2, <3>1
    <3> QED
      BY ONLY <1>7, <2>1, <2>2, <3>2
  <2>3. CASE i # k
    <3>1. chunks'[i] = chunks[i]
      BY ONLY <1>1, <2>1, <2>3
    <3> QED
      BY ONLY <1>3, <1>4, <1>7, <1>8, <2>1, <3>1
  <2> QED
    BY ONLY <2>2, <2>3
<1>9. pc' = "scan" /\ Calm' =>
         \A i \in 1..held' : \/ chunks'[i] = Unread \/ chunks'[i] = Failed
                             \/ txn' = NoTxn /\ chunks'[i] = ChunkOf(i)'
  BY ONLY <1>8
<1> QED
  BY ONLY <1>2, <1>5, <1>6, <1>9 DEF ScanInv

\* A scan that ends, with this answer or with none.
LEMMA ScanInvEnds ==
    ASSUME ScanInv, Unmoved, pc # "idle", pc' = "idle", seen' = seen,
           answer' = answer \/ (Calm => answer' = Ascending(Current))
    PROVE  ScanInv'
PROOF
<1>1. /\ setting' \in Settings /\ committed' \in SUBSET Rowids /\ txn' \in (SUBSET Rowids) \cup {NoTxn}
      /\ setting'.ownTransactions \/ txn' = NoTxn
  BY DEF ScanInv, Unmoved
<1>2. Current \in seen /\ answer = NoAnswer
  BY DEF ScanInv
<1>3. Calm' <=> Calm
  BY ONLY Unmoved, seen' = seen, UnmovedIs
<1>4. ASSUME Calm', answer' # NoAnswer PROVE \E rows \in seen' : answer' = Ascending(rows)
  <2>1. answer' = Ascending(Current)
    BY <1>2, <1>3, <1>4
  <2> QED
    BY <1>2, <2>1
<1>5. SafeScanMatchesSerial'
  BY <1>4 DEF SafeScanMatchesSerial, IndistinguishableFromSerial, Calm
<1>6. seen' # {} /\ pc' \notin {"take", "open", "scan"} /\ pc' # "scan"
  BY <1>2
<1> QED
  BY ONLY <1>1, <1>5, <1>6, pc' = "idle" DEF ScanInv

\* All workers of a calm scan are done and none failed: the answer is the table.
LEMMA CollectedIsTable ==
    ASSUME SpansFit, PoolInv, ScanInv, Calm, pc = "scan",
           \A i \in DOMAIN chunks : chunks[i] # Unread, \A i \in DOMAIN chunks : chunks[i] # Failed
    PROVE  FlattenSeq([i \in DOMAIN chunks |-> Ascending(chunks[i])]) = Ascending(Current)
PROOF
<1>1. /\ Wide(Current) /\ ends = <<Min(Current), Max(Current)>>
      /\ DOMAIN chunks = 1..held /\ held >= 2
      /\ \A i \in 1..held : \/ chunks[i] = Unread \/ chunks[i] = Failed
                            \/ txn = NoTxn /\ chunks[i] = ChunkOf(i)
  <2>1. pc \in {"take", "open", "scan"}
    OBVIOUS
  <2> QED
    BY <2>1 DEF ScanInv
<1>2. held \in Nat /\ held <= Threads /\ Threads \in Nat /\ ParallelMinSpan \in Nat /\ Threads <= ParallelMinSpan
  BY ScanAssumption DEF PoolInv
<1>3. \A i \in 1..held : txn = NoTxn /\ chunks[i] = ChunkOf(i)
  BY <1>1
<1>4. 1 \in 1..held
  BY ONLY <1>1, <1>2
<1>5. txn = NoTxn
  BY ONLY <1>3, <1>4
<1>6. PICK rows : rows = committed /\ rows = Current
  BY ONLY <1>5 DEF Current
<1>7. rows \in SUBSET Rowids /\ rows # {} /\ Max(rows) - Min(rows) >= ParallelMinSpan
  BY ONLY <1>1, <1>6, ScanInv DEF ScanInv, Wide
<1>8. Splittable(held, Min(rows), Max(rows))
  <2>1. MinRowid \in Int /\ MaxRowid \in Int
    BY ScanAssumption DEF MinRowid, MaxRowid
  <2>2. rows \in SUBSET (MinRowid..MaxRowid)
    BY ONLY ScanAssumption, <1>7 DEF ScanAssumption
  <2>3. rows \in SUBSET Int /\ IsFiniteSet(rows)
    <3>1. IsFiniteSet(MinRowid..MaxRowid)
      BY ONLY <2>1, FS_Interval
    <3>2. IsFiniteSet(rows)
      BY ONLY <2>2, <3>1, FS_Subset
    <3>3. MinRowid..MaxRowid \subseteq Int
      BY ONLY <2>1
    <3> QED
      BY ONLY <2>2, <3>2, <3>3
  <2>4. PICK a, b : a = Max(rows) /\ b = Min(rows)
    OBVIOUS
  <2>5. a \in rows /\ b \in rows
    BY ONLY <1>7, <2>3, <2>4, EndsOf
  <2>6. a \in MinRowid..MaxRowid /\ b \in MinRowid..MaxRowid /\ a \in Int /\ b \in Int
    BY ONLY <2>2, <2>3, <2>5
  <2>7. (a - b) + 1 <= MaxRowid
    BY ONLY <1>7, <2>5, SpansFit DEF SpansFit
  <2>8. a - b >= ParallelMinSpan
    BY ONLY <1>7, <2>4
  <2>9. held \in Nat \ {0} /\ a - b + 1 \in held..MaxRowid
    BY ONLY <1>1, <1>2, <2>1, <2>6, <2>7, <2>8
  <2> QED
    BY ONLY <2>4, <2>6, <2>9 DEF Splittable
<1>9. PICK sets : sets = [i \in 1..held |-> rows \cap Bounds(i - 1, held, Min(rows), Max(rows))]
  OBVIOUS
<1>10. PICK seqs : seqs = [i \in 1..held |-> Ascending(sets[i])]
  OBVIOUS
<1>11. FlattenSeq(seqs) = Ascending(rows)
  <2>1. Shares(sets, rows, held) /\ Sorted(seqs, sets, held)
    BY ONLY <1>9, <1>10 DEF Shares, Sorted
  <2> QED
    BY ONLY <1>7, <1>8, <2>1, ChunksAreTable
<1>12. \A i \in 1..held : chunks[i] = sets[i]
  BY ONLY <1>1, <1>3, <1>6, <1>9 DEF ChunkOf
<1>13. [i \in DOMAIN chunks |-> Ascending(chunks[i])] = seqs
  BY ONLY <1>1, <1>10, <1>12
<1> QED
  BY ONLY <1>6, <1>11, <1>13

\* The workers' answers are collected.
LEMMA ScanInvCollect ==
    ASSUME SpansFit, PoolInv, ScanInv, UNCHANGED setting, Collect
    PROVE  ScanInv'
PROOF
<1>1. /\ pc = "scan" /\ pc # "idle" /\ Unmoved /\ seen' = seen
      /\ \A i \in DOMAIN chunks : chunks[i] # Unread
  BY DEF Collect, database, Unmoved
<1>2. CASE \E i \in DOMAIN chunks : chunks[i] = Failed
  <2>1. pc' = "serial" /\ answer' = answer
    BY <1>2 DEF Collect
  <2>2. /\ setting' \in Settings /\ committed' \in SUBSET Rowids /\ txn' \in (SUBSET Rowids) \cup {NoTxn}
        /\ setting'.ownTransactions \/ txn' = NoTxn
        /\ Current' \in seen' /\ answer' = NoAnswer
        /\ setting'.inMemory => seen' = {Current'}
        /\ answer' # NoAnswer => seen' # {}
        /\ SafeScanMatchesSerial'
    BY ONLY <1>1, <2>1, ScanInv, ScanKeepsTypes
  <2>3. pc' \notin {"take", "open", "scan"} /\ pc' # "scan"
    BY ONLY <2>1
  <2> QED
    BY ONLY <2>2, <2>3 DEF ScanInv
<1>3. CASE \A i \in DOMAIN chunks : chunks[i] # Failed
  <2>1. pc' = "idle" /\ answer' = FlattenSeq([i \in DOMAIN chunks |-> Ascending(chunks[i])])
    BY <1>3 DEF Collect
  <2>2. Calm => answer' = Ascending(Current)
    BY ONLY <1>1, <1>3, <2>1, SpansFit, PoolInv, ScanInv, CollectedIsTable
  <2> QED
    BY ONLY <1>1, <2>1, <2>2, ScanInv, ScanInvEnds
<1> QED
  BY <1>2, <1>3

\* Every step keeps ScanInv.
LEMMA ScanInvNext ==
    ASSUME SpansFit, PoolInv, ScanInv, [Next]_vars
    PROVE  ScanInv'
PROOF
<1>1. CASE UNCHANGED vars
  BY <1>1, ScanKept DEF vars
<1>2. ASSUME Next PROVE ScanInv'
  <2>0. UNCHANGED setting
    BY <1>2 DEF Next
  <2>1. CASE OwnWrite \/ OwnBegin \/ OwnEnd
    BY <2>0, <2>1, ScanInvOwn
  <2>2. CASE ExternalWrite
    BY <2>0, <2>2, ScanInvExternal
  <2>3. CASE Prewarm
    BY <2>0, <2>3, ScanKept DEF Prewarm, database
  <2>4. CASE Query
    BY <2>0, <2>4, ScanInvQuery
  <2>5. CASE ReadEndpoints
    BY <2>0, <2>5, ScanInvEndpoints
  <2>6. CASE TakePooled \/ OpenWorker \/ Partition
    BY <2>0, <2>6, ScanInvConnections
  <2>7. CASE \E i \in DOMAIN chunks : ScanChunk(i)
    BY <2>0, <2>7, ScanInvChunk
  <2>8. CASE Collect
    BY <2>0, <2>8, ScanInvCollect
  <2>9. CASE SerialScan
    <3>1. pc # "idle" /\ pc' = "idle" /\ Unmoved /\ seen' = seen /\ answer' = Ascending(Current)
      BY <2>0, <2>9 DEF SerialScan, database, Unmoved
    <3> QED
      BY ONLY <3>1, ScanInv, ScanInvEnds
  <2>10. CASE QueryFails
    <3>1. pc # "idle" /\ pc' = "idle" /\ Unmoved /\ seen' = seen /\ answer' = answer
      BY <2>0, <2>10 DEF QueryFails, database, Unmoved
    <3> QED
      BY ONLY <3>1, ScanInv, ScanInvEnds
  <2>11. CASE Quiescent
    BY <2>11, ScanKept DEF Quiescent, vars
  <2> QED
    BY <1>2, <2>1, <2>2, <2>3, <2>4, <2>5, <2>6, <2>7, <2>8, <2>9, <2>10, <2>11 DEF Next, ScanStep
<1> QED
  BY <1>1, <1>2

\* "The parallel range-partitioned scan must be indistinguishable from the
\* serial scan" (client.rs try_parallel_scan), for any table whose span fits
\* i64, any number of threads, and whatever fails.
THEOREM SafeScanMatchesSerialHolds ==
    ASSUME SpansFit
    PROVE  Spec => []SafeScanMatchesSerial
PROOF
<1>1. Init => ScanInv
  BY ScanInvInit
<1>2. PoolInv /\ ScanInv /\ [Next]_vars => ScanInv'
  BY ScanInvNext
<1>3. ScanInv => SafeScanMatchesSerial
  BY DEF ScanInv
<1> QED
  BY <1>1, <1>2, <1>3, PoolInvariant, PTL DEF Spec
=============================================================================
