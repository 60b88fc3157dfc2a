-------------------------- MODULE QueryCacheProofs --------------------------
(***************************************************************************)
(* The invariants of QueryCache hold for every choice of keys, buffers and *)
(* limits the assumption admits.                                           *)
(*                                                                         *)
(* TotalIsSum is not inductive by itself: after an eviction the remaining  *)
(* suffix sums must still lie below the reduced total, which needs that    *)
(* suffix sums decrease.  Decreasing adds that, and IInv is the            *)
(* conjunction that is preserved by every step.                            *)
(***************************************************************************)
EXTENDS QueryCache, SequenceTheorems, TLAPS

Decreasing(suffix) ==
    \A i, j \in 1..(Len(order) + 1) : i <= j => suffix[j] <= suffix[i]

SumInv ==
    \E suffix \in [1..(Len(order) + 1) -> Nat] :
        IsSuffixSum(suffix) /\ Decreasing(suffix)

IInv == TypeOK /\ OrderAgreesWithMap /\ SumInv /\ WithinLimits
        /\ (inserting # NoInsert => Length[inserting.bytes] <= MaxResultBytes)

\* The key of the oldest entry is cached, and it is no later entry's key.
LEMMA HeadFacts ==
    ASSUME TypeOK, OrderAgreesWithMap, order # <<>>
    PROVE  /\ Head(order) = order[1]
           /\ Head(order) \in DOMAIN map
           /\ Tail(order) \in Seq(Keys)
           /\ Len(Tail(order)) = Len(order) - 1
           /\ Len(order) \in Nat \ {0}
           /\ \A i \in 1..Len(Tail(order)) : Tail(order)[i] = order[i + 1]
<1>1. Len(order) \in Nat \ {0} /\ order \in Seq(Keys)
  BY DEF TypeOK
<1>2. QED
  BY <1>1 DEF OrderAgreesWithMap, ToSet

\* A loop iteration always finds an entry to evict: the loop's `else break`
\* is never taken.
LEMMA EvictFindsEntry ==
    ASSUME TypeOK, MustEvict
    PROVE  order # <<>>
BY CacheAssumption DEF TypeOK, MustEvict

\* The first state has IInv.
LEMMA InitStep == Init => IInv
<1>1. SUFFICES ASSUME Init PROVE IInv
  OBVIOUS
<1>2. TypeOK
  BY <1>1 DEF Init, TypeOK, EmptyMap
<1>3. OrderAgreesWithMap
  BY <1>1 DEF Init, OrderAgreesWithMap, EmptyMap, ToSet
<1>4. SumInv
  <2> DEFINE zero == [i \in 1..1 |-> 0]
  <2>1. order = <<>> /\ total_bytes = 0 /\ Len(order) = 0
    BY <1>1 DEF Init
  <2>2. zero \in [1..(Len(order) + 1) -> Nat]
    BY <2>1
  <2>3. /\ zero[1] = total_bytes
        /\ zero[Len(order) + 1] = 0
        /\ \A i \in 1..Len(order) :
             zero[i] = Length[map[order[i]]] + zero[i + 1]
    BY <2>1
  <2>4. \A i, j \in 1..(Len(order) + 1) : i <= j => zero[j] <= zero[i]
    BY <2>1
  <2>5. QED
    BY <2>2, <2>3, <2>4 DEF SumInv, IsSuffixSum, Decreasing
<1>5. WithinLimits
  BY <1>1, CacheAssumption DEF Init, WithinLimits
<1>6. QED
  BY <1>1, <1>2, <1>3, <1>4, <1>5 DEF IInv, Init

\* Clear keeps IInv.
LEMMA ClearStep == IInv /\ Clear => IInv'
<1>1. SUFFICES ASSUME IInv, Clear PROVE IInv'
  OBVIOUS
<1>2. TypeOK'
  BY <1>1 DEF Clear, Emptied, TypeOK, EmptyMap, IInv
<1>3. OrderAgreesWithMap'
  BY <1>1 DEF Clear, Emptied, OrderAgreesWithMap, EmptyMap, ToSet
<1>4. SumInv'
  <2> DEFINE zero == [i \in 1..1 |-> 0]
  <2>1. order' = <<>> /\ total_bytes' = 0 /\ Len(order') = 0
    BY <1>1 DEF Clear, Emptied
  <2>2. zero \in [1..(Len(order') + 1) -> Nat]
    BY <2>1
  <2>3. /\ zero[1] = total_bytes'
        /\ zero[Len(order') + 1] = 0
        /\ \A i \in 1..Len(order') :
             zero[i] = Length[map'[order'[i]]] + zero[i + 1]
    BY <2>1
  <2>4. \A i, j \in 1..(Len(order') + 1) : i <= j => zero[j] <= zero[i]
    BY <2>1
  <2>5. QED
    BY <2>2, <2>3, <2>4 DEF SumInv, IsSuffixSum, Decreasing
<1>5. WithinLimits'
  BY <1>1, CacheAssumption DEF Clear, Emptied, WithinLimits
<1>6. QED
  BY <1>1, <1>2, <1>3, <1>4, <1>5 DEF IInv, Clear, Emptied

\* Start keeps IInv.
LEMMA StartStep ==
    ASSUME IInv, NEW k \in Keys, NEW b \in Buffers, StartInsert(k, b)
    PROVE  IInv'
<1>1. TypeOK' /\ inserting' # NoInsert
  BY CacheAssumption DEF StartInsert, InsertCalled, TypeOK, IInv
<1>2. OrderAgreesWithMap'
  BY DEF StartInsert, InsertCalled, OrderAgreesWithMap, IInv
<1>3. SumInv'
  BY DEF StartInsert, InsertCalled, SumInv, IsSuffixSum, Decreasing, IInv
<1>4. WithinLimits'
  BY DEF StartInsert, InsertCalled, WithinLimits, IInv
<1>5. QED
  BY <1>1, <1>2, <1>3, <1>4 DEF IInv, StartInsert, InsertCalled

\* Evict keeps IInv.
LEMMA EvictStep == IInv /\ EvictOldest => IInv'
<1>1. SUFFICES ASSUME IInv, EvictOldest PROVE IInv'
  OBVIOUS
<1>2. order # <<>>
  BY <1>1, EvictFindsEntry DEF IInv, EvictOldest
<1> DEFINE old == Head(order)
<1>3. /\ old = order[1]
      /\ old \in DOMAIN map
      /\ order' \in Seq(Keys)
      /\ Len(order') = Len(order) - 1
      /\ Len(order) \in Nat \ {0}
      /\ \A i \in 1..Len(order') : order'[i] = order[i + 1]
  BY <1>1, <1>2, HeadFacts DEF IInv, EvictOldest
<1>4. /\ map' = [k \in DOMAIN map \ {old} |-> map[k]]
      /\ total_bytes' = total_bytes - Length[map[old]]
      /\ inserting' = inserting
  BY <1>1, <1>3 DEF EvictOldest
<1>5. PICK suffix \in [1..(Len(order) + 1) -> Nat] :
        IsSuffixSum(suffix) /\ Decreasing(suffix)
  BY <1>1 DEF IInv, SumInv
<1>6. Length[map[old]] \in Nat /\ total_bytes \in Nat
  BY <1>1, <1>3, CacheAssumption DEF IInv, TypeOK
<1>7. total_bytes' = suffix[2] /\ suffix[2] \in Nat
  <2>1. 1 \in 1..Len(order) /\ 2 \in 1..(Len(order) + 1)
    BY <1>3
  <2>2. suffix[1] = total_bytes /\ suffix[1] = Length[map[order[1]]] + suffix[2]
    BY <1>5, <2>1 DEF IsSuffixSum
  <2>3. suffix[2] \in Nat
    BY <1>5, <2>1
  <2>4. QED
    BY <1>3, <1>4, <1>6, <2>2, <2>3
<1>8. TypeOK'
  BY <1>1, <1>3, <1>4, <1>7 DEF IInv, TypeOK
<1>9. \A i \in 1..Len(order') : order'[i] # old
  BY <1>1, <1>3 DEF IInv, OrderAgreesWithMap, TypeOK
<1>10. OrderAgreesWithMap'
  <2>1. DOMAIN order = 1..Len(order) /\ DOMAIN order' = 1..Len(order')
    BY <1>1, <1>3 DEF IInv, TypeOK
  <2>2. ToSet(order') = DOMAIN map'
    <3>1. \A x \in ToSet(order') : x \in DOMAIN map'
      BY <1>1, <1>3, <1>4, <1>9, <2>1 DEF IInv, OrderAgreesWithMap, ToSet
    <3>2. \A x \in DOMAIN map' : x \in ToSet(order')
      <4>1. SUFFICES ASSUME NEW x \in DOMAIN map' PROVE x \in ToSet(order')
        OBVIOUS
      <4>2. PICK i \in 1..Len(order) : x = order[i]
        BY <1>1, <1>4, <2>1, <4>1 DEF IInv, OrderAgreesWithMap, ToSet
      <4>3. i # 1
        BY <1>3, <1>4, <4>1, <4>2
      <4>4. i - 1 \in 1..Len(order') /\ x = order'[i - 1]
        BY <1>3, <4>2, <4>3
      <4>5. QED
        BY <2>1, <4>4 DEF ToSet
    <3>3. QED
      BY <3>1, <3>2
  <2>3. \A i, j \in DOMAIN order' : order'[i] = order'[j] => i = j
    <3>1. SUFFICES ASSUME NEW i \in 1..Len(order'), NEW j \in 1..Len(order'),
                          order'[i] = order'[j]
                   PROVE  i = j
      BY <2>1
    <3>2. i + 1 \in DOMAIN order /\ j + 1 \in DOMAIN order
      BY <1>3, <2>1
    <3>3. order[i + 1] = order[j + 1]
      BY <1>3, <3>1
    <3>4. i + 1 = j + 1
      BY <1>1, <3>2, <3>3 DEF IInv, OrderAgreesWithMap
    <3>5. QED
      BY <3>4
  <2>4. inserting' # NoInsert => inserting'.key \notin DOMAIN map'
    BY <1>1, <1>4 DEF IInv, OrderAgreesWithMap
  <2>5. QED
    BY <2>2, <2>3, <2>4 DEF OrderAgreesWithMap
<1>11. SumInv'
  <2> DEFINE rest == [i \in 1..(Len(order') + 1) |-> suffix[i + 1]]
  <2>1. rest \in [1..(Len(order') + 1) -> Nat]
    BY <1>3
  <2>2. \A i, j \in 1..(Len(order') + 1) : i <= j => rest[j] <= rest[i]
    <3>1. SUFFICES ASSUME NEW i \in 1..(Len(order') + 1),
                          NEW j \in 1..(Len(order') + 1), i <= j
                   PROVE  rest[j] <= rest[i]
      OBVIOUS
    <3>2. /\ i + 1 \in 1..(Len(order) + 1) /\ j + 1 \in 1..(Len(order) + 1)
          /\ i + 1 <= j + 1
      BY <1>3, <3>1
    <3>3. suffix[j + 1] <= suffix[i + 1]
      BY <1>5, <3>2 DEF Decreasing
    <3>4. QED
      BY <3>3
  <2>3. \A i \in 1..Len(order') : map'[order'[i]] = map[order[i + 1]]
    <3>1. SUFFICES ASSUME NEW i \in 1..Len(order')
                   PROVE  map'[order'[i]] = map[order[i + 1]]
      OBVIOUS
    <3>2. order[i + 1] \in DOMAIN map
      BY <1>1, <1>3 DEF IInv, OrderAgreesWithMap, ToSet, TypeOK
    <3>3. QED
      BY <1>3, <1>4, <1>9, <3>2
  <2>4. rest[1] = total_bytes' /\ rest[Len(order') + 1] = 0
    BY <1>3, <1>5, <1>7 DEF IsSuffixSum
  <2>5. \A i \in 1..Len(order') :
           rest[i] = Length[map'[order'[i]]] + rest[i + 1]
    BY <1>3, <1>5, <2>3 DEF IsSuffixSum
  <2>6. QED
    BY <2>1, <2>2, <2>4, <2>5 DEF SumInv, IsSuffixSum, Decreasing
<1>12. WithinLimits'
  BY <1>1, <1>3, <1>4, <1>6, CacheAssumption DEF IInv, WithinLimits
<1>13. QED
  BY <1>1, <1>4, <1>8, <1>10, <1>11, <1>12 DEF IInv

\* Finish keeps IInv.
LEMMA FinishStep == IInv /\ FinishInsert => IInv'
<1>1. SUFFICES ASSUME IInv, FinishInsert PROVE IInv'
  OBVIOUS
<1> DEFINE key == inserting.key
           len == Length[inserting.bytes]
           n == Len(order)
<1>2. /\ key \in Keys /\ inserting.bytes \in Buffers /\ len \in Nat
      /\ n \in Nat /\ order \in Seq(Keys)
      /\ total_bytes \in Nat
      /\ key \notin DOMAIN map
  BY <1>1, CacheAssumption DEF IInv, TypeOK, OrderAgreesWithMap, FinishInsert
<1>3. /\ order' = Append(order, key)
      /\ order' \in Seq(Keys)
      /\ Len(order') = n + 1
      /\ \A i \in 1..n : order'[i] = order[i]
      /\ order'[n + 1] = key
      /\ DOMAIN order = 1..n /\ DOMAIN order' = 1..(n + 1)
  BY <1>1, <1>2 DEF FinishInsert
<1>4. /\ map' = [k \in DOMAIN map \cup {key} |->
                   IF k = key THEN inserting.bytes ELSE map[k]]
      /\ total_bytes' = total_bytes + len
      /\ inserting' = NoInsert
  BY <1>1 DEF FinishInsert
<1>5. TypeOK'
  BY <1>1, <1>2, <1>3, <1>4 DEF IInv, TypeOK
<1>6. \A i \in 1..n : order[i] \in DOMAIN map /\ order[i] # key
  BY <1>1, <1>2, <1>3 DEF IInv, OrderAgreesWithMap, ToSet
<1>7. OrderAgreesWithMap'
  <2>1. ToSet(order') = DOMAIN map'
    <3>1. \A x \in DOMAIN map : x \in ToSet(order')
      BY <1>1, <1>2, <1>3 DEF IInv, OrderAgreesWithMap, ToSet
    <3>2. key \in ToSet(order')
      BY <1>2, <1>3 DEF ToSet
    <3>3. \A x \in ToSet(order') : x \in DOMAIN map \cup {key}
      BY <1>2, <1>3, <1>6 DEF ToSet
    <3>4. DOMAIN map' = DOMAIN map \cup {key}
      BY <1>4
    <3>5. QED
      BY <3>1, <3>2, <3>3, <3>4
  <2>2. \A i, j \in DOMAIN order' : order'[i] = order'[j] => i = j
    <3>1. SUFFICES ASSUME NEW i \in 1..(n + 1), NEW j \in 1..(n + 1),
                          order'[i] = order'[j]
                   PROVE  i = j
      BY <1>3
    <3>2. CASE i \in 1..n /\ j \in 1..n
      BY <1>1, <1>3, <3>1, <3>2 DEF IInv, OrderAgreesWithMap
    <3>3. CASE i = n + 1 \/ j = n + 1
      BY <1>2, <1>3, <1>6, <3>1, <3>3
    <3>4. QED
      BY <1>2, <3>2, <3>3
  <2>3. QED
    BY <1>4, <2>1, <2>2 DEF OrderAgreesWithMap
<1>8. SumInv'
  <2>1. PICK suffix \in [1..(n + 1) -> Nat] :
          IsSuffixSum(suffix) /\ Decreasing(suffix)
    BY <1>1 DEF IInv, SumInv
  <2> DEFINE longer == [i \in 1..(n + 2) |->
                          IF i = n + 2 THEN 0 ELSE suffix[i] + len]
  <2>2. longer \in [1..(Len(order') + 1) -> Nat]
    BY <1>2, <1>3, <2>1
  <2>3. \A i, j \in 1..(Len(order') + 1) : i <= j => longer[j] <= longer[i]
    <3>1. SUFFICES ASSUME NEW i \in 1..(n + 2), NEW j \in 1..(n + 2), i <= j
                   PROVE  longer[j] <= longer[i]
      BY <1>2, <1>3
    <3>2. CASE j = n + 2
      BY <1>2, <1>3, <2>2, <3>1, <3>2
    <3>3. CASE j # n + 2
      <4>1. i \in 1..(n + 1) /\ j \in 1..(n + 1)
        BY <1>2, <3>1, <3>3
      <4>2. suffix[j] <= suffix[i]
        BY <2>1, <3>1, <4>1 DEF Decreasing
      <4>3. QED
        BY <1>2, <2>1, <3>3, <4>1, <4>2
    <3>4. QED
      BY <3>2, <3>3
  <2>4. longer[1] = total_bytes' /\ longer[Len(order') + 1] = 0
    BY <1>2, <1>3, <1>4, <2>1 DEF IsSuffixSum
  <2>5. \A i \in 1..Len(order') :
           longer[i] = Length[map'[order'[i]]] + longer[i + 1]
    <3>2. SUFFICES ASSUME NEW i \in 1..(n + 1)
                   PROVE  longer[i] = Length[map'[order'[i]]] + longer[i + 1]
      BY <1>3
    <3>3. CASE i = n + 1
      BY <1>2, <1>3, <1>4, <2>1, <3>3 DEF IsSuffixSum
    <3>4. CASE i \in 1..n
      <4>1. map'[order'[i]] = map[order[i]]
        BY <1>3, <1>4, <1>6, <3>4
      <4>2. /\ suffix[i] = Length[map[order[i]]] + suffix[i + 1]
            /\ suffix[i] \in Nat /\ suffix[i + 1] \in Nat
        BY <1>2, <2>1, <3>4 DEF IsSuffixSum
      <4>3. Length[map[order[i]]] \in Nat
        BY <1>1, <1>6, <3>4, CacheAssumption DEF IInv, TypeOK
      <4>4. longer[i] = suffix[i] + len /\ longer[i + 1] = suffix[i + 1] + len
        BY <1>2, <3>4
      <4>5. QED
        BY <1>2, <4>1, <4>2, <4>3, <4>4
    <3>5. QED
      BY <1>2, <3>2, <3>3, <3>4
  <2>6. QED
    BY <2>2, <2>3, <2>4, <2>5 DEF SumInv, IsSuffixSum, Decreasing
<1>9. WithinLimits'
  <2>1. ~MustEvict /\ len <= MaxResultBytes
    BY <1>1 DEF FinishInsert, IInv
  <2>2. n < MaxEntries
    BY <1>2, <2>1, CacheAssumption DEF MustEvict
  <2>3. CASE order # <<>>
    BY <1>2, <1>3, <1>4, <2>1, <2>2, <2>3, CacheAssumption
    DEF MustEvict, WithinLimits
  <2>4. CASE order = <<>>
    <3>1. total_bytes = 0
      BY <1>1, <2>4 DEF IInv, SumInv, IsSuffixSum
    <3>2. QED
      BY <1>2, <1>3, <1>4, <2>1, <2>2, <3>1, CacheAssumption DEF WithinLimits
  <2>5. QED
    BY <2>3, <2>4
<1>10. QED
  BY <1>4, <1>5, <1>7, <1>8, <1>9 DEF IInv

\* The sum over the entries is the total the cache keeps.
LEMMA IInvImpliesTotalIsSum == IInv => TotalIsSum
<1>1. SUFFICES ASSUME IInv PROVE TotalIsSum
  OBVIOUS
<1>2. PICK suffix \in [1..(Len(order) + 1) -> Nat] :
        IsSuffixSum(suffix) /\ Decreasing(suffix)
  BY <1>1 DEF IInv, SumInv
<1>3. suffix \in [1..(Len(order) + 1) -> 0..total_bytes]
  BY <1>1, <1>2 DEF IInv, TypeOK, IsSuffixSum, Decreasing
<1>4. QED
  BY <1>2, <1>3 DEF TotalIsSum

\* IInv is an invariant of the cache, for every key, buffer and limit.
THEOREM CacheInvariant == Spec => []IInv
<1>1. IInv /\ [Next]_vars => IInv'
  <2>1. SUFFICES ASSUME IInv, [Next]_vars PROVE IInv'
    OBVIOUS
  <2>2. CASE Clear
    BY <2>1, <2>2, ClearStep
  <2>3. CASE \E k \in Keys, b \in Buffers : StartInsert(k, b)
    BY <2>1, <2>3, StartStep
  <2>4. CASE EvictOldest
    BY <2>1, <2>4, EvictStep
  <2>5. CASE FinishInsert
    BY <2>1, <2>5, FinishStep
  <2>6. CASE UNCHANGED vars
    BY <2>1, <2>6 DEF vars, IInv, TypeOK, OrderAgreesWithMap, SumInv,
       IsSuffixSum, Decreasing, WithinLimits
  <2>7. QED
    BY <2>1, <2>2, <2>3, <2>4, <2>5, <2>6 DEF Next
<1>2. QED
  BY <1>1, InitStep, PTL DEF Spec

\* The variables keep their types.
THEOREM TypeCorrect == Spec => []TypeOK
<1>1. IInv => TypeOK
  BY DEF IInv
<1>2. QED
  BY <1>1, CacheInvariant, PTL

\* QueryCache::insert and QueryCache::clear keep the map and the queue in
\* agreement, without duplicates.
THEOREM OrderAgreesWithMapHolds == Spec => []OrderAgreesWithMap
<1>1. IInv => OrderAgreesWithMap
  BY DEF IInv
<1>2. QED
  BY <1>1, CacheInvariant, PTL

\* The byte account of QueryCache is exact: the subtraction in the eviction
\* loop cannot wrap.
THEOREM TotalIsSumHolds == Spec => []TotalIsSum
<1>1. QED
  BY IInvImpliesTotalIsSum, CacheInvariant, PTL

\* The cache never holds more than CACHE_MAX_ENTRIES entries or
\* CACHE_MAX_TOTAL_BYTES bytes.
THEOREM WithinLimitsHolds == Spec => []WithinLimits
<1>1. IInv => WithinLimits
  BY DEF IInv
<1>2. QED
  BY <1>1, CacheInvariant, PTL

\* Eviction is first in, first out in every step of the cache.
THEOREM EvictsOldestFirstHolds == Spec => EvictsOldestFirst
<1> DEFINE Fifo ==
      \A i, j \in DOMAIN order :
         i < j /\ order[i] \in DOMAIN map' => order[j] \in DOMAIN map'
<1>1. IInv /\ [Next]_vars => [Fifo]_vars
  <2>1. SUFFICES ASSUME IInv, Next,
                        NEW i \in DOMAIN order, NEW j \in DOMAIN order,
                        i < j, order[i] \in DOMAIN map'
                 PROVE  order[j] \in DOMAIN map'
    OBVIOUS
  <2>2. order[j] \in DOMAIN map
    BY <2>1 DEF IInv, OrderAgreesWithMap, ToSet
  <2>3. CASE Clear
    BY <2>1, <2>3 DEF Clear, Emptied, EmptyMap
  <2>4. CASE \E k \in Keys, b \in Buffers : StartInsert(k, b)
    BY <2>2, <2>4 DEF StartInsert, InsertCalled
  <2>5. CASE EvictOldest
    <3>1. 1 \in DOMAIN order /\ j # 1
      BY <2>1 DEF IInv, TypeOK
    <3>2. order[j] # order[1]
      BY <2>1, <3>1 DEF IInv, OrderAgreesWithMap
    <3>3. order # <<>>
      BY <2>1, <2>5, EvictFindsEntry DEF IInv, EvictOldest
    <3>4. Head(order) = order[1] /\ Head(order) \in DOMAIN map
      BY <2>1, <3>3, HeadFacts DEF IInv
    <3>5. QED
      BY <2>2, <2>5, <3>2, <3>4 DEF EvictOldest
  <2>6. CASE FinishInsert
    BY <2>2, <2>6 DEF FinishInsert
  <2>7. QED
    BY <2>1, <2>3, <2>4, <2>5, <2>6 DEF Next
<1>2. QED
  BY <1>1, CacheInvariant, PTL DEF Spec, EvictsOldestFirst
=============================================================================
