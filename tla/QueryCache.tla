----------------------------- MODULE QueryCache -----------------------------
(***************************************************************************)
(* The bounded result cache of a SQLite client                             *)
(* (crates/powder-core/src/client.rs, struct QueryCache): encoded buffers  *)
(* under a key made of the SQL text and its parameters, evicted first in,  *)
(* first out when the number of entries or the number of bytes would       *)
(* exceed its limit.                                                       *)
(*                                                                         *)
(* The module is the cache as its mutex shows it: `insert` is a call whose *)
(* eviction loop takes one step per iteration, `clear` is one step, and    *)
(* neither starts while an insert is under way.  Who calls them, and when, *)
(* is the subject of SqliteClient, which implements this specification.    *)
(***************************************************************************)
EXTENDS Integers, Sequences, SequencesExt

CONSTANTS
    Keys,           \* cache keys: SQL text plus tagged parameters
    Buffers,        \* encoded results
    Length,         \* Length[b] is the number of bytes of buffer b
    MaxEntries,     \* CACHE_MAX_ENTRIES
    MaxTotalBytes,  \* CACHE_MAX_TOTAL_BYTES
    MaxResultBytes, \* CACHE_MAX_RESULT_BYTES
    NoInsert        \* the value of `inserting` when no insert is under way

\* The code's limits are 32 entries, 128 MiB in all and 64 MiB per result.
ASSUME CacheAssumption ==
    /\ Length \in [Buffers -> Nat]
    /\ MaxEntries \in Nat \ {0}
    /\ MaxTotalBytes \in Nat
    /\ MaxResultBytes \in 0..MaxTotalBytes
    /\ NoInsert \notin [key : Keys, bytes : Buffers]

VARIABLES
    map,         \* cached key -> buffer
    order,       \* the cached keys, oldest first
    total_bytes, \* the bytes accounted to the cache
    inserting    \* the arguments of the insert under way, or NoInsert

vars == <<map, order, total_bytes, inserting>>

EmptyMap == [k \in {} |-> NoInsert]

Init ==
    /\ map = EmptyMap
    /\ order = <<>>
    /\ total_bytes = 0
    /\ inserting = NoInsert

-----------------------------------------------------------------------------
\* clear without the reset of the eviction queue.
EmptiedButOrder ==
    /\ map' = EmptyMap
    /\ total_bytes' = 0
    /\ UNCHANGED <<order, inserting>>

\* The body of QueryCache::clear.
Emptied ==
    /\ map' = EmptyMap
    /\ order' = <<>>
    /\ total_bytes' = 0
    /\ UNCHANGED inserting

\* clear is called under the mutex: no insert is under way.
Clear == inserting = NoInsert /\ Emptied

\* QueryCache::insert is called.  A buffer above the per-result limit is
\* rejected at once and nothing changes.
InsertCalled(k, b) ==
    /\ Length[b] <= MaxResultBytes
    /\ inserting' = [key |-> k, bytes |-> b]
    /\ UNCHANGED <<map, order, total_bytes>>

\* What insert needs of its caller, and never checks: it is called under the
\* mutex, with a key that is not cached.
StartInsert(k, b) ==
    /\ inserting = NoInsert
    /\ k \notin DOMAIN map
    /\ InsertCalled(k, b)

\* The loop condition with the entry limit off by one.
MustEvictOffByOne ==
    \/ Len(order) > MaxEntries
    \/ /\ total_bytes + Length[inserting.bytes] > MaxTotalBytes
       /\ order # <<>>

\* The condition of the eviction loop.
MustEvict ==
    \/ Len(order) >= MaxEntries
    \/ /\ total_bytes + Length[inserting.bytes] > MaxTotalBytes
       /\ order # <<>>

\* An eviction that forgets to give the bytes back.
EvictKeepsBytes ==
    /\ inserting # NoInsert
    /\ MustEvict
    /\ map' = [k \in DOMAIN map \ {Head(order)} |-> map[k]]
    /\ order' = Tail(order)
    /\ UNCHANGED <<total_bytes, inserting>>

\* An eviction that gives back the bytes of the buffer coming in.
EvictSubtractsNew ==
    /\ inserting # NoInsert
    /\ MustEvict
    /\ map' = [k \in DOMAIN map \ {Head(order)} |-> map[k]]
    /\ order' = Tail(order)
    /\ total_bytes' = total_bytes - Length[inserting.bytes]
    /\ UNCHANGED inserting

\* One iteration of the eviction loop: the oldest key leaves, and its bytes
\* with it if it is in the map.
EvictOldest ==
    /\ inserting # NoInsert
    /\ MustEvict
    /\ order' = Tail(order)
    /\ IF Head(order) \in DOMAIN map
         THEN /\ map' = [k \in DOMAIN map \ {Head(order)} |-> map[k]]
              /\ total_bytes' = total_bytes - Length[map[Head(order)]]
         ELSE UNCHANGED <<map, total_bytes>>
    /\ UNCHANGED inserting

\* The rest of insert, once the loop has ended.
FinishInsert ==
    /\ inserting # NoInsert
    /\ ~MustEvict
    /\ total_bytes' = total_bytes + Length[inserting.bytes]
    /\ order' = Append(order, inserting.key)
    /\ map' = [k \in DOMAIN map \cup {inserting.key} |->
                 IF k = inserting.key THEN inserting.bytes ELSE map[k]]
    /\ inserting' = NoInsert

Next ==
    \/ Clear
    \/ \E k \in Keys, b \in Buffers : StartInsert(k, b)
    \/ EvictOldest
    \/ FinishInsert

Spec == Init /\ [][Next]_vars

-----------------------------------------------------------------------------
\* The types of the variables.
TypeOK ==
    /\ DOMAIN map \subseteq Keys
    /\ map \in [DOMAIN map -> Buffers]
    /\ order \in Seq(Keys)
    /\ total_bytes \in Nat
    /\ inserting \in [key : Keys, bytes : Buffers] \cup {NoInsert}

\* The two halves of the structure (the HashMap and the VecDeque) agree, at
\* every iteration of the eviction loop: a key is queued once and only while
\* it is cached, and the insert under way adds a key that is not there.  A
\* key queued twice would be evicted while its newer buffer is in use.
OrderAgreesWithMap ==
    /\ ToSet(order) = DOMAIN map
    /\ \A i, j \in DOMAIN order : order[i] = order[j] => i = j
    /\ inserting # NoInsert => inserting.key \notin DOMAIN map

\* suffix[i] is the number of bytes of the entries from the i-th oldest on.
IsSuffixSum(suffix) ==
    /\ suffix[1] = total_bytes
    /\ suffix[Len(order) + 1] = 0
    /\ \A i \in 1..Len(order) : suffix[i] = Length[map[order[i]]] + suffix[i + 1]

\* total_bytes is exactly the sum of the lengths of the cached buffers, so the
\* unsigned subtraction of the eviction loop never wraps around and the loop
\* condition means what it says.
TotalIsSum ==
    \E suffix \in [1..(Len(order) + 1) -> 0..total_bytes] : IsSuffixSum(suffix)

\* The limits hold in every state, not only between calls.
WithinLimits ==
    /\ Len(order) <= MaxEntries
    /\ total_bytes <= MaxTotalBytes

\* Eviction is first in, first out: no step removes an entry and keeps one
\* that was inserted before it.
EvictsOldestFirst ==
    [][\A i, j \in DOMAIN order :
         i < j /\ order[i] \in DOMAIN map' => order[j] \in DOMAIN map']_vars
=============================================================================
