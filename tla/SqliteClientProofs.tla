------------------------- MODULE SqliteClientProofs -------------------------
(***************************************************************************)
(* Three results about every client, whatever the number of callers, the   *)
(* statements and the limits.                                              *)
(*                                                                         *)
(* 1. The client uses its cache as QueryCache prescribes (a refinement).   *)
(*    LockInv carries it: the holder of the connection mutex keeps the     *)
(*    knowledge of its miss until its insert, because only the holder of   *)
(*    the connection inserts.                                              *)
(* 2. If no write escapes the clear (no statement fails half-way and no    *)
(*    write runs through a query call), every answer is one that was       *)
(*    current during its call.  FreshInv carries it.                       *)
(* 3. Whatever escapes the clear, a write that returns rows is never       *)
(*    cached, and no answer misses a commit another process had made       *)
(*    before the call.  OutsideInv carries both.                           *)
(***************************************************************************)
EXTENDS SqliteClient, TLAPS

HoldsConn == {"execute", "clear", "query", "check", "lookup", "bytes",
              "insert", "evict"}
HoldsCache == {"lookup", "evict"}
ExecuteOps == {"write", "begin", "commit", "rollback"}

\* The shape of the variables the argument reads.
Shape ==
    /\ pc \in [Tasks -> Labels]
    /\ call \in [Tasks -> Calls]
    /\ answer \in [Tasks -> Content \cup {NoAnswer}]
    /\ Current \in Content /\ committed \in Content /\ newest \in Content
    /\ inserting \in [key : Cacheable, bytes : Buffers] \cup {NoInsert}
    /\ \A k \in DOMAIN map : map[k] \in Buffers

\* Both mutexes are held by the task whose program point says so, the insert
\* under way is that of the task in the eviction loop, and its key, like that
\* of any task between its miss and its insert, is not cached.
LockInv ==
    /\ \A t \in Tasks : pc[t] \in HoldsConn <=> conn = t
    /\ \A t \in Tasks : pc[t] \in HoldsCache <=> cache_lock = t
    /\ \A t \in Tasks : pc[t] = "evict" => inserting # NoInsert
    /\ inserting # NoInsert => \E t \in Tasks : pc[t] = "evict"
    /\ \A t \in Tasks : pc[t] \in {"insert", "evict"} =>
          /\ call[t].sql \in Cacheable
          /\ answer[t] \in Content
    /\ \A t \in Tasks : pc[t] \in {"check", "lookup"} =>
          call[t].sql \in Cacheable
    /\ \A t \in Tasks : pc[t] \in {"bytes", "insert", "evict"} =>
          call[t].sql \notin DOMAIN map
    /\ \A t \in Tasks : pc[t] = "want_conn" => call[t].op # "probe"
    /\ \A t \in Tasks : pc[t] = "execute" => call[t].op \in ExecuteOps
    /\ DOMAIN map \subseteq Cacheable

SafeInv == Shape /\ LockInv

-----------------------------------------------------------------------------
\* The first state has SafeInv.
LEMMA SafeInit == Init => SafeInv
BY ClientAssumption DEF Init, SafeInv, Shape, LockInv, QC!Init, QC!EmptyMap,
   Labels, Calls, Content, Current, HoldsConn, HoldsCache

\* A write leaves the contents in their bounds.
LEMMA WriteFacts ==
    ASSUME SafeInv, Write
    PROVE  Current' \in Content /\ committed' \in Content /\ newest' \in Content
BY ClientAssumption DEF SafeInv, Shape, Write, Current, Content

\* Call keeps SafeInv.
LEMMA SafeCall ==
    ASSUME SafeInv, NEW t \in Tasks, NEW c \in Calls, Call(t, c)
    PROVE  SafeInv'
<1>1. Shape'
  BY DEF SafeInv, Shape, Call, Goto, Labels, Current, database, cache
<1>2. LockInv'
  BY ClientAssumption DEF SafeInv, Shape, LockInv, Call, Goto, HoldsConn, HoldsCache, cache, Labels
<1>3. QED
  BY <1>1, <1>2 DEF SafeInv

\* Acquire keeps SafeInv.
LEMMA SafeAcquire ==
    ASSUME SafeInv, NEW t \in Tasks, Acquire(t)
    PROVE  SafeInv'
<1>1. \E l \in {"query", "check", "bytes", "execute"} :
         /\ Goto(t, l)
         /\ l = "check" => call[t].sql \in Cacheable
         /\ l = "bytes" => call[t].sql \notin Cacheable
         /\ l = "execute" => call[t].op \in ExecuteOps
  BY DEF Acquire, SafeInv, Shape, LockInv, Calls, ExecuteOps
<1>2. Shape'
  BY <1>1 DEF SafeInv, Shape, Acquire, Goto, Labels, Current, database, cache
<1>3. LockInv'
  BY <1>1, ClientAssumption DEF SafeInv, Shape, LockInv, Acquire, Goto, HoldsConn, HoldsCache, cache, Labels
<1>4. QED
  BY <1>2, <1>3 DEF SafeInv

\* ExecuteSucceeds keeps SafeInv.
LEMMA SafeExecuteSucceeds ==
    ASSUME SafeInv, NEW t \in Tasks, ExecuteSucceeds(t)
    PROVE  SafeInv'
<1>0. Current' \in Content /\ committed' \in Content /\ newest' \in Content
  <2>1. call[t].op \in {"write", "begin", "commit", "rollback"}
    BY DEF ExecuteSucceeds, SafeInv, LockInv, ExecuteOps
  <2>2. CASE call[t].op = "write"
    BY <2>2, WriteFacts DEF ExecuteSucceeds
  <2>3. CASE call[t].op = "begin"
    BY <2>3, ClientAssumption DEF ExecuteSucceeds, SafeInv, Shape, Current
  <2>4. CASE call[t].op = "commit"
    BY <2>4, ClientAssumption DEF ExecuteSucceeds, SafeInv, Shape, Current
  <2>5. CASE call[t].op = "rollback"
    BY <2>5, ClientAssumption DEF ExecuteSucceeds, SafeInv, Shape, Current
  <2>6. QED
    BY <2>1, <2>2, <2>3, <2>4, <2>5
<1>1. Shape'
  BY <1>0 DEF SafeInv, Shape, ExecuteSucceeds, Goto, Labels, cache
<1>2. LockInv'
  BY ClientAssumption DEF SafeInv, Shape, LockInv, ExecuteSucceeds, Write, Goto, Return, HoldsConn,
     HoldsCache, cache, Labels
<1>3. QED
  BY <1>1, <1>2 DEF SafeInv

\* ExecuteClears keeps SafeInv.
LEMMA SafeExecuteClears ==
    ASSUME SafeInv, NEW t \in Tasks, ExecuteClears(t)
    PROVE  SafeInv'
<1>1. Shape'
  BY ClientAssumption DEF SafeInv, Shape, ExecuteClears, QC!Emptied, QC!EmptyMap, Goto, Return, Labels, Current, Content,
     database, cache
<1>2. LockInv'
  BY ClientAssumption DEF SafeInv, Shape, LockInv, ExecuteClears, QC!Emptied, QC!EmptyMap, Goto, Return, HoldsConn,
     HoldsCache, cache, Labels
<1>3. QED
  BY <1>1, <1>2 DEF SafeInv

\* StatementFails keeps SafeInv.
LEMMA SafeStatementFails ==
    ASSUME SafeInv, NEW t \in Tasks, StatementFails(t)
    PROVE  SafeInv'
<1>1. Shape'
  BY ClientAssumption DEF SafeInv, Shape, StatementFails, ErrorEffect, Write, Goto, Return, Labels, Current, Content,
     database, cache
<1>2. LockInv'
  BY ClientAssumption DEF SafeInv, Shape, LockInv, StatementFails, ErrorEffect, Write, Goto, Return, HoldsConn,
     HoldsCache, cache, Labels
<1>3. QED
  BY <1>1, <1>2 DEF SafeInv

\* RunQuery keeps SafeInv.
LEMMA SafeRunQuery ==
    ASSUME SafeInv, NEW t \in Tasks, RunQuery(t)
    PROVE  SafeInv'
<1>1. Shape'
  BY ClientAssumption DEF SafeInv, Shape, RunQuery, Write, Goto, Return, Labels, Current, Content,
     database, cache
<1>2. LockInv'
  BY ClientAssumption DEF SafeInv, Shape, LockInv, RunQuery, Write, Goto, Return, HoldsConn,
     HoldsCache, cache, Labels
<1>3. QED
  BY <1>1, <1>2 DEF SafeInv

\* CheckDataVersion keeps SafeInv.
LEMMA SafeCheckDataVersion ==
    ASSUME SafeInv, NEW t \in Tasks, CheckDataVersion(t)
    PROVE  SafeInv'
<1>1. Shape'
  BY ClientAssumption DEF SafeInv, Shape, CheckDataVersion, QC!Emptied, QC!EmptyMap, Goto, Return, Labels, Current, Content,
     database, cache
<1>2. LockInv'
  BY ClientAssumption DEF SafeInv, Shape, LockInv, CheckDataVersion, QC!Emptied, QC!EmptyMap, Goto, Return, HoldsConn,
     HoldsCache, cache, Labels
<1>3. QED
  BY <1>1, <1>2 DEF SafeInv

\* CheckFails keeps SafeInv.
LEMMA SafeCheckFails ==
    ASSUME SafeInv, NEW t \in Tasks, CheckFails(t)
    PROVE  SafeInv'
<1>1. Shape'
  BY ClientAssumption DEF SafeInv, Shape, CheckFails, Goto, Return, Labels, Current, Content,
     database, cache
<1>2. LockInv'
  BY ClientAssumption DEF SafeInv, Shape, LockInv, CheckFails, Goto, Return, HoldsConn,
     HoldsCache, cache, Labels
<1>3. QED
  BY <1>1, <1>2 DEF SafeInv

\* LookupHit keeps SafeInv.
LEMMA SafeLookupHit ==
    ASSUME SafeInv, NEW t \in Tasks, LookupHit(t)
    PROVE  SafeInv'
<1>1. Shape'
  BY ClientAssumption DEF SafeInv, Shape, LookupHit, Goto, Return, Labels, Current, Buffers,
     database, cache
<1>2. LockInv'
  BY ClientAssumption DEF SafeInv, Shape, LockInv, LookupHit, Goto, Return, HoldsConn,
     HoldsCache, cache, Labels
<1>3. QED
  BY <1>1, <1>2 DEF SafeInv

\* LookupMiss keeps SafeInv.
LEMMA SafeLookupMiss ==
    ASSUME SafeInv, NEW t \in Tasks, LookupMiss(t)
    PROVE  SafeInv'
<1>1. Shape'
  BY ClientAssumption DEF SafeInv, Shape, LookupMiss, Goto, Return, Labels, Current, Content,
     database, cache
<1>2. LockInv'
  BY ClientAssumption DEF SafeInv, Shape, LockInv, LookupMiss, Goto, Return, HoldsConn,
     HoldsCache, cache, Labels
<1>3. QED
  BY <1>1, <1>2 DEF SafeInv

\* RunBytes keeps SafeInv.
LEMMA SafeRunBytes ==
    ASSUME SafeInv, NEW t \in Tasks, RunBytes(t)
    PROVE  SafeInv'
<1>1. Shape'
  BY ClientAssumption DEF SafeInv, Shape, RunBytes, Write, Cacheable, Statements, Goto, Return, Labels, Current, Content,
     database, cache
<1>2. LockInv'
  BY <1>1, ClientAssumption DEF SafeInv, Shape, LockInv, RunBytes, Write, Cacheable, Statements, Goto, Return, HoldsConn,
     HoldsCache, cache, Labels
<1>3. QED
  BY <1>1, <1>2 DEF SafeInv

\* StartInsert keeps SafeInv.
LEMMA SafeStartInsert ==
    ASSUME SafeInv, NEW t \in Tasks, StartInsert(t)
    PROVE  SafeInv'
<1>1. Shape'
  BY DEF SafeInv, Shape, LockInv, StartInsert, QC!InsertCalled, Result, Buffers, Goto, Return, Labels, Current, Content,
     database, cache
<1>2. LockInv'
  BY ClientAssumption DEF SafeInv, Shape, LockInv, StartInsert, QC!InsertCalled, Result, Buffers, Goto, Return, HoldsConn,
     HoldsCache, cache, Labels
<1>3. QED
  BY <1>1, <1>2 DEF SafeInv

\* RejectInsert keeps SafeInv.
LEMMA SafeRejectInsert ==
    ASSUME SafeInv, NEW t \in Tasks, RejectInsert(t)
    PROVE  SafeInv'
<1>1. Shape'
  BY ClientAssumption DEF SafeInv, Shape, RejectInsert, Goto, Return, Labels, Current, Content,
     database, cache
<1>2. LockInv'
  BY ClientAssumption DEF SafeInv, Shape, LockInv, RejectInsert, Goto, Return, HoldsConn,
     HoldsCache, cache, Labels
<1>3. QED
  BY <1>1, <1>2 DEF SafeInv

\* Evict keeps SafeInv.
LEMMA SafeEvict ==
    ASSUME SafeInv, NEW t \in Tasks, Evict(t)
    PROVE  SafeInv'
<1>1. Shape'
  BY ClientAssumption DEF SafeInv, Shape, Evict, QC!EvictOldest, QC!MustEvict, Goto, Return, Labels, Current, Content,
     database, cache
<1>2. LockInv'
  BY ClientAssumption DEF SafeInv, Shape, LockInv, Evict, QC!EvictOldest, QC!MustEvict, Goto, Return, HoldsConn,
     HoldsCache, cache, Labels
<1>3. QED
  BY <1>1, <1>2 DEF SafeInv

\* FinishInsert keeps SafeInv.
LEMMA SafeFinishInsert ==
    ASSUME SafeInv, NEW t \in Tasks, FinishInsert(t)
    PROVE  SafeInv'
<1>1. Shape'
  BY ClientAssumption DEF SafeInv, Shape, FinishInsert, QC!FinishInsert, Goto, Return, Labels, Current, Content,
     database, cache
<1>2. LockInv'
  BY ClientAssumption DEF SafeInv, Shape, LockInv, FinishInsert, QC!FinishInsert, Goto, Return, HoldsConn,
     HoldsCache, cache, Labels
<1>3. QED
  BY <1>1, <1>2 DEF SafeInv

\* Probe keeps SafeInv.
LEMMA SafeProbe ==
    ASSUME SafeInv, NEW t \in Tasks, Probe(t)
    PROVE  SafeInv'
<1>1. Shape'
  BY ClientAssumption DEF SafeInv, Shape, Probe, Goto, Return, Labels, Current, Buffers,
     database, cache
<1>2. LockInv'
  BY ClientAssumption DEF SafeInv, Shape, LockInv, Probe, Goto, Return, HoldsConn,
     HoldsCache, cache, Labels
<1>3. QED
  BY <1>1, <1>2 DEF SafeInv

\* ExternalCommit keeps SafeInv.
LEMMA SafeExternalCommit == SafeInv /\ ExternalCommit => SafeInv'
<1>1. SUFFICES ASSUME SafeInv, ExternalCommit PROVE SafeInv'
  OBVIOUS
<1>2. Shape'
  BY <1>1, ClientAssumption DEF SafeInv, Shape, ExternalCommit, Current,
     Content, cache
<1>3. LockInv'
  BY <1>1 DEF SafeInv, LockInv, ExternalCommit, cache
<1>4. QED
  BY <1>2, <1>3 DEF SafeInv

\* A stuttering step keeps SafeInv.
LEMMA SafeStutter == SafeInv /\ UNCHANGED vars => SafeInv'
BY DEF SafeInv, Shape, LockInv, vars, database, cache, Current

\* Every step keeps SafeInv.
LEMMA SafeNext == SafeInv /\ [Next]_vars => SafeInv'
<1>1. SUFFICES ASSUME SafeInv, [Next]_vars PROVE SafeInv'
  OBVIOUS
<1>2. CASE \E t \in Tasks, c \in Calls : Call(t, c)
  BY <1>1, <1>2, SafeCall
<1>3. CASE \E t \in Tasks : Step(t)
  <2>1. PICK t \in Tasks : Step(t)
    BY <1>3
  <2>2. QED
    BY <1>1, <2>1, SafeAcquire, SafeExecuteSucceeds, SafeExecuteClears, SafeStatementFails, SafeRunQuery, SafeCheckDataVersion, SafeCheckFails, SafeLookupHit, SafeLookupMiss, SafeRunBytes, SafeStartInsert, SafeRejectInsert, SafeEvict, SafeFinishInsert, SafeProbe
    DEF Step
<1>4. CASE ExternalCommit
  BY <1>1, <1>4, SafeExternalCommit
<1>5. CASE Quiescent \/ UNCHANGED vars
  BY <1>1, <1>5, SafeStutter DEF Quiescent
<1>6. QED
  BY <1>1, <1>2, <1>3, <1>4, <1>5 DEF Next

\* The lock discipline of with_conn and query_bytes_shared.
THEOREM SafeInvariant == Spec => []SafeInv
<1>1. QED
  BY SafeInit, SafeNext, PTL DEF Spec

-----------------------------------------------------------------------------
(***************************************************************************)
(* The refinement: every step of a client is a step of its cache or leaves *)
(* the cache alone.                                                        *)
(***************************************************************************)
CacheStep == [QC!Next]_QC!vars

\* Nothing done to the cache is a step of it.
LEMMA CacheUnchanged == UNCHANGED cache => CacheStep
BY DEF CacheStep, cache, QC!vars

\* While a task holds the cache mutex outside the eviction loop, no insert is
\* under way.
LEMMA NoInsertUnderway ==
    ASSUME SafeInv, cache_lock = Free \/ \E t \in Tasks : pc[t] = "lookup"
    PROVE  inserting = NoInsert
BY ClientAssumption DEF SafeInv, LockInv, HoldsCache

\* What a step of a task does to the cache is a step of the cache.
LEMMA StepRefines ==
    ASSUME SafeInv, NEW t \in Tasks, Step(t)
    PROVE  CacheStep
<1>1. CASE ExecuteClears(t)
  BY <1>1, NoInsertUnderway DEF ExecuteClears, CacheStep, QC!Next, QC!Clear
<1>2. CASE CheckDataVersion(t)
  <2>1. inserting = NoInsert
    BY <1>2, NoInsertUnderway DEF CheckDataVersion
  <2>2. CASE InMemory \/ data_version = file_version
    BY <1>2, <2>2, CacheUnchanged DEF CheckDataVersion
  <2>3. CASE ~(InMemory \/ data_version = file_version)
    BY <1>2, <2>1, <2>3 DEF CheckDataVersion, CacheStep, QC!Next, QC!Clear
  <2>4. QED
    BY <2>2, <2>3
<1>3. CASE StartInsert(t)
  <2>1. inserting = NoInsert
    BY <1>3, NoInsertUnderway DEF StartInsert
  <2>2. call[t].sql \in Cacheable /\ call[t].sql \notin DOMAIN map
        /\ answer[t] \in Content
    BY <1>3 DEF SafeInv, LockInv, StartInsert
  <2>3. Result(t) \in Buffers
    BY <2>2 DEF Result, Buffers
  <2>4. QC!StartInsert(call[t].sql, Result(t))
    BY <1>3, <2>1, <2>2 DEF StartInsert, QC!StartInsert
  <2>5. QED
    BY <2>2, <2>3, <2>4 DEF CacheStep, QC!Next
<1>4. CASE Evict(t)
  BY <1>4 DEF Evict, CacheStep, QC!Next
<1>5. CASE FinishInsert(t)
  BY <1>5 DEF FinishInsert, CacheStep, QC!Next
<1>6. CASE Acquire(t) \/ ExecuteSucceeds(t) \/ StatementFails(t) \/ RunQuery(t)
  BY <1>6, CacheUnchanged
  DEF Acquire, ExecuteSucceeds, StatementFails, RunQuery
<1>7. CASE CheckFails(t) \/ LookupHit(t) \/ LookupMiss(t) \/ RunBytes(t)
  BY <1>7, CacheUnchanged DEF CheckFails, LookupHit, LookupMiss, RunBytes
<1>8. CASE RejectInsert(t) \/ Probe(t)
  BY <1>8, CacheUnchanged DEF RejectInsert, Probe
<1>9. QED
  BY <1>1, <1>2, <1>3, <1>4, <1>5, <1>6, <1>7, <1>8 DEF Step

\* The client calls QueryCache::insert and QueryCache::clear one at a time and
\* never inserts a key that is cached: it implements QueryCache, whose
\* invariants therefore hold of it.
THEOREM UsesCacheCorrectlyHolds == Spec => UsesCacheCorrectly
<1>1. Init => QC!Init
  BY DEF Init
<1>2. SafeInv /\ [Next]_vars => CacheStep
  <2>1. SUFFICES ASSUME SafeInv, [Next]_vars PROVE CacheStep
    OBVIOUS
  <2>2. CASE \E t \in Tasks, c \in Calls : Call(t, c)
    BY <2>2, CacheUnchanged DEF Call
  <2>3. CASE \E t \in Tasks : Step(t)
    BY <2>1, <2>3, StepRefines
  <2>4. CASE ExternalCommit
    BY <2>4, CacheUnchanged DEF ExternalCommit
  <2>5. CASE Quiescent \/ UNCHANGED vars
    BY <2>5, CacheUnchanged DEF Quiescent, vars
  <2>6. QED
    BY <2>1, <2>2, <2>3, <2>4, <2>5 DEF Next
<1>3. QED
  BY <1>1, <1>2, SafeInvariant, PTL
  DEF Spec, UsesCacheCorrectly, QC!Spec, CacheStep

-----------------------------------------------------------------------------
(***************************************************************************)
(* Freshness.  A cache entry is compared with `settled`, the content the   *)
(* finished calls left behind, and not with the current one: between a     *)
(* write and its clear the two differ, and a probe may still answer the    *)
(* first.                                                                  *)
(***************************************************************************)
NoSilentWrites == Faults = {} /\ Returning = {}

Trusted == InMemory \/ data_version = file_version

FreshInv ==
    /\ seen \in [Tasks -> SUBSET Content] /\ settled \in Content
    /\ file_version \in Nat
    /\ data_version \in Nat => data_version <= file_version
    /\ \A t \in Tasks : pc[t] # "idle" => {settled, Current} \subseteq seen[t]
    /\ (\A t \in Tasks : pc[t] # "clear") => settled = Current
    /\ Trusted => \A k \in DOMAIN map : map[k].content = settled
    /\ \A t \in Tasks : pc[t] = "lookup" =>
          \A k \in DOMAIN map : map[k].content \in seen[t]
    /\ \A t \in Tasks : pc[t] \in {"insert", "evict"} =>
          answer[t] \in seen[t] /\ (Trusted => answer[t] = settled)
    /\ \A t \in Tasks : pc[t] = "evict" =>
          inserting.bytes.content = answer[t] /\ inserting.key = call[t].sql
    /\ AnswersCurrent

Fresh == SafeInv /\ FreshInv

\* The first state has Fresh.
LEMMA FreshInit == Init => FreshInv
BY ClientAssumption DEF Init, FreshInv, QC!Init, QC!EmptyMap, Content,
   Current, AnswersCurrent, Trusted

\* Call keeps Fresh.
LEMMA FreshCall ==
    ASSUME Fresh, NEW t \in Tasks, NEW c \in Calls, Call(t, c)
    PROVE  FreshInv'
BY DEF Fresh, SafeInv, Shape, FreshInv, Call, Goto, database, cache, Current,
   AnswersCurrent, Trusted

\* Acquire keeps Fresh.
LEMMA FreshAcquire ==
    ASSUME NoSilentWrites, Fresh, NEW t \in Tasks, Acquire(t)
    PROVE  FreshInv'
BY ClientAssumption DEF NoSilentWrites, Fresh, SafeInv, Shape, LockInv, FreshInv, Acquire,
   Goto, database, cache, history, Current, AnswersCurrent, Trusted, HoldsConn,
   HoldsCache

\* ExecuteClears keeps Fresh.
LEMMA FreshExecuteClears ==
    ASSUME NoSilentWrites, Fresh, NEW t \in Tasks, ExecuteClears(t)
    PROVE  FreshInv'
BY ClientAssumption DEF NoSilentWrites, Fresh, SafeInv, Shape, LockInv, FreshInv, ExecuteClears,
   QC!Emptied, QC!EmptyMap, Goto, Return, database, cache, history, Current, AnswersCurrent, Trusted, HoldsConn,
   HoldsCache

\* StatementFails keeps Fresh.
LEMMA FreshStatementFails ==
    ASSUME NoSilentWrites, Fresh, NEW t \in Tasks, StatementFails(t)
    PROVE  FreshInv'
BY ClientAssumption DEF NoSilentWrites, Fresh, SafeInv, Shape, LockInv, FreshInv, StatementFails,
   ErrorEffect, Goto, Return, Observe, database, cache, history, Current, AnswersCurrent, Trusted, HoldsConn,
   HoldsCache

\* RunQuery keeps Fresh.
LEMMA FreshRunQuery ==
    ASSUME NoSilentWrites, Fresh, NEW t \in Tasks, RunQuery(t)
    PROVE  FreshInv'
BY ClientAssumption DEF NoSilentWrites, Fresh, SafeInv, Shape, LockInv, FreshInv, RunQuery,
   Goto, Return, Observe, database, cache, history, Current, AnswersCurrent, Trusted, HoldsConn,
   HoldsCache

\* CheckDataVersion keeps Fresh.
LEMMA FreshCheckDataVersion ==
    ASSUME NoSilentWrites, Fresh, NEW t \in Tasks, CheckDataVersion(t)
    PROVE  FreshInv'
BY ClientAssumption DEF NoSilentWrites, Fresh, SafeInv, Shape, LockInv, FreshInv, CheckDataVersion,
   QC!Emptied, QC!EmptyMap, Goto, database, cache, history, Current, AnswersCurrent, Trusted, HoldsConn,
   HoldsCache

\* CheckFails keeps Fresh.
LEMMA FreshCheckFails ==
    ASSUME NoSilentWrites, Fresh, NEW t \in Tasks, CheckFails(t)
    PROVE  FreshInv'
BY ClientAssumption DEF NoSilentWrites, Fresh, SafeInv, Shape, LockInv, FreshInv, CheckFails,
   Goto, Return, database, cache, history, Current, AnswersCurrent, Trusted, HoldsConn,
   HoldsCache

\* LookupHit keeps Fresh.
LEMMA FreshLookupHit ==
    ASSUME NoSilentWrites, Fresh, NEW t \in Tasks, LookupHit(t)
    PROVE  FreshInv'
BY ClientAssumption DEF NoSilentWrites, Fresh, SafeInv, Shape, LockInv, FreshInv, LookupHit,
   Goto, Return, database, cache, history, Current, AnswersCurrent, Trusted, HoldsConn,
   HoldsCache

\* LookupMiss keeps Fresh.
LEMMA FreshLookupMiss ==
    ASSUME NoSilentWrites, Fresh, NEW t \in Tasks, LookupMiss(t)
    PROVE  FreshInv'
BY ClientAssumption DEF NoSilentWrites, Fresh, SafeInv, Shape, LockInv, FreshInv, LookupMiss,
   Goto, database, cache, history, Current, AnswersCurrent, Trusted, HoldsConn,
   HoldsCache

\* RunBytes keeps Fresh.
LEMMA FreshRunBytes ==
    ASSUME NoSilentWrites, Fresh, NEW t \in Tasks, RunBytes(t)
    PROVE  FreshInv'
BY ClientAssumption DEF NoSilentWrites, Fresh, SafeInv, Shape, LockInv, FreshInv, RunBytes,
   Goto, Return, Observe, database, cache, history, Current, AnswersCurrent, Trusted, HoldsConn,
   HoldsCache

\* StartInsert keeps Fresh.
LEMMA FreshStartInsert ==
    ASSUME NoSilentWrites, Fresh, NEW t \in Tasks, StartInsert(t)
    PROVE  FreshInv'
BY ClientAssumption DEF NoSilentWrites, Fresh, SafeInv, Shape, LockInv, FreshInv, StartInsert,
   QC!InsertCalled, Result, Goto, database, cache, history, Current, AnswersCurrent, Trusted, HoldsConn,
   HoldsCache

\* RejectInsert keeps Fresh.
LEMMA FreshRejectInsert ==
    ASSUME NoSilentWrites, Fresh, NEW t \in Tasks, RejectInsert(t)
    PROVE  FreshInv'
BY ClientAssumption DEF NoSilentWrites, Fresh, SafeInv, Shape, LockInv, FreshInv, RejectInsert,
   Goto, Return, database, cache, history, Current, AnswersCurrent, Trusted, HoldsConn,
   HoldsCache

\* Evict keeps Fresh.
LEMMA FreshEvict ==
    ASSUME NoSilentWrites, Fresh, NEW t \in Tasks, Evict(t)
    PROVE  FreshInv'
BY ClientAssumption DEF NoSilentWrites, Fresh, SafeInv, Shape, LockInv, FreshInv, Evict,
   QC!EvictOldest, database, cache, history, Current, AnswersCurrent, Trusted, HoldsConn,
   HoldsCache

\* FinishInsert keeps Fresh.
LEMMA FreshFinishInsert ==
    ASSUME NoSilentWrites, Fresh, NEW t \in Tasks, FinishInsert(t)
    PROVE  FreshInv'
BY ClientAssumption DEF NoSilentWrites, Fresh, SafeInv, Shape, LockInv, FreshInv, FinishInsert,
   QC!FinishInsert, Goto, Return, database, cache, history, Current, AnswersCurrent, Trusted, HoldsConn,
   HoldsCache

\* Probe keeps Fresh.
LEMMA FreshProbe ==
    ASSUME NoSilentWrites, Fresh, NEW t \in Tasks, Probe(t)
    PROVE  FreshInv'
BY ClientAssumption DEF NoSilentWrites, Fresh, SafeInv, Shape, LockInv, FreshInv, Probe,
   Goto, database, cache, history, Current, AnswersCurrent, Trusted, HoldsConn,
   HoldsCache

\* ExecuteSucceeds keeps Fresh.
LEMMA FreshExecuteSucceeds ==
    ASSUME Fresh, NEW t \in Tasks, ExecuteSucceeds(t)
    PROVE  FreshInv'
<1>1. /\ Current' \in Content
      /\ file_version' = file_version
  <2>1. call[t].op \in {"write", "begin", "commit", "rollback"}
    BY DEF ExecuteSucceeds, Fresh, SafeInv, LockInv, ExecuteOps
  <2>2. file_version' = file_version
    BY <2>1 DEF ExecuteSucceeds, Write
  <2>3. QED
    BY <2>2, SafeExecuteSucceeds DEF Fresh, SafeInv, Shape
<1>2. QED
  BY <1>1 DEF Fresh, SafeInv, Shape, LockInv, FreshInv, ExecuteSucceeds, Goto,
     Observe, cache, AnswersCurrent, Trusted, HoldsConn, HoldsCache

\* The commit makes the recorded data version differ from the file's, so no
\* entry is trusted until the next check has emptied the cache.
LEMMA FreshExternalCommit == Fresh /\ ExternalCommit => FreshInv'
<1>1. SUFFICES ASSUME Fresh, ExternalCommit PROVE FreshInv'
  OBVIOUS
<1>2. ~Trusted'
  BY <1>1, ClientAssumption DEF Fresh, FreshInv, ExternalCommit, Trusted
<1>3. Current' = newest' /\ settled' = newest' /\ newest' \in Content
  BY <1>1, SafeExternalCommit
  DEF ExternalCommit, Current, Fresh, SafeInv, Shape
<1>4. QED
  BY <1>1, <1>2, <1>3, ClientAssumption
  DEF Fresh, SafeInv, Shape, LockInv, FreshInv, ExternalCommit, Observe, cache,
      AnswersCurrent, HoldsConn, HoldsCache

\* A stuttering step keeps Fresh.
LEMMA FreshStutter == Fresh /\ UNCHANGED vars => FreshInv'
BY DEF Fresh, FreshInv, vars, database, cache, history, Current,
   AnswersCurrent, Trusted

\* Every step keeps Fresh.
LEMMA FreshNext == NoSilentWrites /\ Fresh /\ [Next]_vars => FreshInv'
<1>1. SUFFICES ASSUME NoSilentWrites, Fresh, [Next]_vars PROVE FreshInv'
  OBVIOUS
<1>2. CASE \E t \in Tasks, c \in Calls : Call(t, c)
  BY <1>1, <1>2, FreshCall
<1>3. CASE \E t \in Tasks : Step(t)
  <2>1. PICK t \in Tasks : Step(t)
    BY <1>3
  <2>2. QED
    BY <1>1, <2>1, FreshAcquire, FreshExecuteSucceeds, FreshExecuteClears, FreshStatementFails, FreshRunQuery, FreshCheckDataVersion, FreshCheckFails, FreshLookupHit, FreshLookupMiss, FreshRunBytes, FreshStartInsert, FreshRejectInsert, FreshEvict, FreshFinishInsert, FreshProbe
    DEF Step
<1>4. CASE ExternalCommit
  BY <1>1, <1>4, FreshExternalCommit
<1>5. CASE Quiescent \/ UNCHANGED vars
  BY <1>1, <1>5, FreshStutter DEF Quiescent
<1>6. QED
  BY <1>1, <1>2, <1>3, <1>4, <1>5 DEF Next

\* Fresh always holds.
LEMMA FreshInvariant ==
    ASSUME NoSilentWrites
    PROVE  Spec => []Fresh
<1>1. Init => Fresh
  BY SafeInit, FreshInit DEF Fresh
<1>2. Fresh /\ [Next]_vars => Fresh'
  BY SafeNext, FreshNext DEF Fresh
<1>3. QED
  BY <1>1, <1>2, PTL DEF Spec

\* If no write escapes the clear, every query, cached query and probe answers
\* a content that was current during its own call.
THEOREM AnswersCurrentHolds ==
    ASSUME NoSilentWrites
    PROVE  Spec => []AnswersCurrent
<1>1. Fresh => AnswersCurrent
  BY DEF Fresh, FreshInv
<1>2. QED
  BY <1>1, FreshInvariant, PTL

\* If no write escapes the clear, the cache is never behind the database when
\* a lookup may trust it.
THEOREM CacheCoherentHolds ==
    ASSUME NoSilentWrites
    PROVE  Spec => []CacheCoherent
<1>1. Fresh => CacheCoherent
  BY DEF Fresh, FreshInv, CacheCoherent, Trusted
<1>2. QED
  BY <1>1, FreshInvariant, PTL
-----------------------------------------------------------------------------
(***************************************************************************)
(* Statements that fail half-way and writes that return rows may leave old *)
(* entries in the cache, but never entries older than the last commit of   *)
(* another process: every content this connection can read is at least as  *)
(* new, and a cache filled before that commit is not trusted.              *)
(***************************************************************************)
OutsideShape ==
    /\ external \in Content /\ floor \in [Tasks -> Content]
    /\ file_version \in Nat
    /\ data_version \in Nat => data_version <= file_version

\* The contents are ordered by age: no transaction of this connection is open
\* when another process commits, and every later write is newer.
Ages ==
    /\ external <= committed /\ committed <= newest
    /\ txn # NoTxn => external <= txn /\ txn <= newest
    /\ InMemory => external = 0
    /\ \A t \in Tasks : floor[t] <= external

\* What an entry, and a result on its way into the cache, is worth.
EntriesSeeOutside ==
    /\ Trusted => \A k \in DOMAIN map : map[k].content >= external
    /\ \A t \in Tasks : pc[t] = "lookup" =>
          \A k \in DOMAIN map : map[k].content >= floor[t]
    /\ \A t \in Tasks : pc[t] \in {"insert", "evict"} =>
          /\ answer[t] >= floor[t]
          /\ Trusted => answer[t] >= external
          /\ call[t].sql \in Selects
    /\ \A t \in Tasks : pc[t] = "evict" =>
          inserting.bytes.content = answer[t] /\ inserting.key = call[t].sql

OutsideInv ==
    OutsideShape /\ Ages /\ EntriesSeeOutside
    /\ WritesNeverCached /\ ExternalCommitsSeen

Outside == SafeInv /\ OutsideInv

\* The first state has Outside.
LEMMA OutsideInit == Init => OutsideInv
BY ClientAssumption DEF Init, OutsideInv, OutsideShape, Ages, EntriesSeeOutside,
   WritesNeverCached, ExternalCommitsSeen, QC!Init, QC!EmptyMap, Content

\* Call keeps Outside.
LEMMA OutsideCall ==
    ASSUME Outside, NEW t \in Tasks, NEW c \in Calls, Call(t, c)
    PROVE  OutsideInv'
BY ClientAssumption DEF Outside, SafeInv, Shape, LockInv, OutsideInv, OutsideShape, Ages,
   EntriesSeeOutside, WritesNeverCached, ExternalCommitsSeen, Trusted, Content,
   Call, Goto, database, cache, history, HoldsConn, HoldsCache

\* Acquire keeps Outside.
LEMMA OutsideAcquire ==
    ASSUME Outside, NEW t \in Tasks, Acquire(t)
    PROVE  OutsideInv'
BY ClientAssumption DEF Outside, SafeInv, Shape, LockInv, OutsideInv, OutsideShape, Ages,
   EntriesSeeOutside, WritesNeverCached, ExternalCommitsSeen, Trusted, Content,
   Acquire, Goto, database, cache, history, HoldsConn, HoldsCache

\* ExecuteClears keeps Outside.
LEMMA OutsideExecuteClears ==
    ASSUME Outside, NEW t \in Tasks, ExecuteClears(t)
    PROVE  OutsideInv'
BY ClientAssumption DEF Outside, SafeInv, Shape, LockInv, OutsideInv, OutsideShape, Ages,
   EntriesSeeOutside, WritesNeverCached, ExternalCommitsSeen, Trusted, Content,
   ExecuteClears,
   QC!Emptied, QC!EmptyMap, Goto, Return, database, cache, history, HoldsConn, HoldsCache

\* CheckDataVersion keeps Outside.
LEMMA OutsideCheckDataVersion ==
    ASSUME Outside, NEW t \in Tasks, CheckDataVersion(t)
    PROVE  OutsideInv'
<1>1. /\ UNCHANGED <<database, history, answer, call>>
      /\ Goto(t, "lookup")
  BY DEF CheckDataVersion
<1>2. Ages'
  BY <1>1 DEF Outside, OutsideInv, Ages, database, history
<1>3. CASE Trusted
  <2>1. UNCHANGED <<cache, data_version>>
    BY <1>3 DEF CheckDataVersion, Trusted
  <2>2. EntriesSeeOutside'
    BY <1>1, <1>3, <2>1, ClientAssumption
    DEF Outside, SafeInv, Shape, OutsideInv, OutsideShape, Ages,
        EntriesSeeOutside, Trusted, Goto, Buffers, Content, database, history, cache
  <2>3. QED
    BY <1>1, <1>2, <2>1, <2>2
    DEF Outside, SafeInv, Shape, OutsideInv, OutsideShape, WritesNeverCached,
        ExternalCommitsSeen, Goto, database, history, cache
<1>4. CASE ~Trusted
  <2>1. DOMAIN map' = {} /\ data_version' = file_version /\ UNCHANGED inserting
    BY <1>4 DEF CheckDataVersion, Trusted, QC!Emptied, QC!EmptyMap
  <2>2. EntriesSeeOutside'
    BY <1>1, <1>4, <2>1
    DEF Outside, SafeInv, Shape, LockInv, OutsideInv, EntriesSeeOutside,
        CheckDataVersion, Goto, Trusted, database, history, HoldsConn
  <2>3. QED
    BY <1>1, <1>2, <2>1, <2>2
    DEF Outside, SafeInv, Shape, OutsideInv, OutsideShape, WritesNeverCached,
        ExternalCommitsSeen, Goto, database, history
<1>5. QED
  BY <1>3, <1>4

\* CheckFails keeps Outside.
LEMMA OutsideCheckFails ==
    ASSUME Outside, NEW t \in Tasks, CheckFails(t)
    PROVE  OutsideInv'
BY ClientAssumption DEF Outside, SafeInv, Shape, LockInv, OutsideInv, OutsideShape, Ages,
   EntriesSeeOutside, WritesNeverCached, ExternalCommitsSeen, Trusted, Content,
   CheckFails, Goto, Return, database, cache, history, HoldsConn, HoldsCache

\* LookupHit keeps Outside.
LEMMA OutsideLookupHit ==
    ASSUME Outside, NEW t \in Tasks, LookupHit(t)
    PROVE  OutsideInv'
BY ClientAssumption DEF Outside, SafeInv, Shape, LockInv, OutsideInv, OutsideShape, Ages,
   EntriesSeeOutside, WritesNeverCached, ExternalCommitsSeen, Trusted, Content,
   LookupHit, Buffers, Goto, Return, database, cache, history, HoldsConn, HoldsCache

\* LookupMiss keeps Outside.
LEMMA OutsideLookupMiss ==
    ASSUME Outside, NEW t \in Tasks, LookupMiss(t)
    PROVE  OutsideInv'
BY ClientAssumption DEF Outside, SafeInv, Shape, LockInv, OutsideInv, OutsideShape, Ages,
   EntriesSeeOutside, WritesNeverCached, ExternalCommitsSeen, Trusted, Content,
   LookupMiss, Goto, database, cache, history, HoldsConn, HoldsCache

\* StartInsert keeps Outside.
LEMMA OutsideStartInsert ==
    ASSUME Outside, NEW t \in Tasks, StartInsert(t)
    PROVE  OutsideInv'
BY ClientAssumption, SMTT(30) DEF Outside, SafeInv, Shape, LockInv, OutsideInv, OutsideShape, Ages,
   EntriesSeeOutside, WritesNeverCached, ExternalCommitsSeen, Trusted, Content,
   StartInsert,
   QC!InsertCalled, Result, Goto, database, cache, history, HoldsConn, HoldsCache

\* RejectInsert keeps Outside.
LEMMA OutsideRejectInsert ==
    ASSUME Outside, NEW t \in Tasks, RejectInsert(t)
    PROVE  OutsideInv'
BY ClientAssumption DEF Outside, SafeInv, Shape, LockInv, OutsideInv, OutsideShape, Ages,
   EntriesSeeOutside, WritesNeverCached, ExternalCommitsSeen, Trusted, Content,
   RejectInsert, Goto, Return, database, cache, history, HoldsConn, HoldsCache

\* Evict keeps Outside.
LEMMA OutsideEvict ==
    ASSUME Outside, NEW t \in Tasks, Evict(t)
    PROVE  OutsideInv'
BY ClientAssumption, SMTT(30) DEF Outside, SafeInv, Shape, LockInv, OutsideInv, OutsideShape, Ages,
   EntriesSeeOutside, WritesNeverCached, ExternalCommitsSeen, Trusted, Content,
   Evict, QC!EvictOldest, database, cache, history, HoldsConn, HoldsCache

\* FinishInsert keeps Outside.
LEMMA OutsideFinishInsert ==
    ASSUME Outside, NEW t \in Tasks, FinishInsert(t)
    PROVE  OutsideInv'
BY ClientAssumption, SMTT(30) DEF Outside, SafeInv, Shape, LockInv, OutsideInv, OutsideShape, Ages,
   EntriesSeeOutside, WritesNeverCached, ExternalCommitsSeen, Trusted, Content,
   FinishInsert,
   QC!FinishInsert, Goto, Return, database, cache, history, HoldsConn, HoldsCache

\* Probe keeps Outside.
LEMMA OutsideProbe ==
    ASSUME Outside, NEW t \in Tasks, Probe(t)
    PROVE  OutsideInv'
BY ClientAssumption DEF Outside, SafeInv, Shape, LockInv, OutsideInv, OutsideShape, Ages,
   EntriesSeeOutside, WritesNeverCached, ExternalCommitsSeen, Trusted, Content,
   Probe, Buffers, Goto, database, cache, history, HoldsConn, HoldsCache

\* What a statement of this connection may do to the contents.
LEMMA OwnStatementAges ==
    ASSUME Outside,
           \/ UNCHANGED database
           \/ Write
           \/ committed' = txn /\ txn # NoTxn /\ txn' = NoTxn
              /\ UNCHANGED <<newest, file_version>>
           \/ (txn' = NoTxn \/ txn' = committed) /\ UNCHANGED <<committed, newest, file_version>>,
           UNCHANGED <<external, floor>>
    PROVE  /\ Ages' /\ UNCHANGED file_version
           /\ Current' \in Content => Current' >= external
BY ClientAssumption DEF Outside, SafeInv, Shape, OutsideInv, OutsideShape, Ages, Write, Current,
   Content, database

\* ExecuteSucceeds keeps Outside.
LEMMA OutsideExecuteSucceeds ==
    ASSUME Outside, NEW t \in Tasks, ExecuteSucceeds(t)
    PROVE  OutsideInv'
<1>1. call[t].op \in {"write", "begin", "commit", "rollback"}
  BY DEF ExecuteSucceeds, Outside, SafeInv, LockInv, ExecuteOps
<1>2. Ages' /\ UNCHANGED file_version
  BY <1>1, OwnStatementAges DEF ExecuteSucceeds, Observe
<1>3. QED
  BY <1>2 DEF Outside, SafeInv, Shape, LockInv, OutsideInv, OutsideShape,
     EntriesSeeOutside, WritesNeverCached, ExternalCommitsSeen, Trusted,
     ExecuteSucceeds, Goto, Observe, cache, HoldsConn, HoldsCache

\* StatementFails keeps Outside.
LEMMA OutsideStatementFails ==
    ASSUME Outside, NEW t \in Tasks, StatementFails(t)
    PROVE  OutsideInv'
<1>1. Ages' /\ UNCHANGED file_version
  BY OwnStatementAges DEF StatementFails, ErrorEffect, Observe
<1>2. QED
  BY <1>1 DEF Outside, SafeInv, Shape, LockInv, OutsideInv, OutsideShape,
     EntriesSeeOutside, WritesNeverCached, ExternalCommitsSeen, Trusted,
     StatementFails, Goto, Return, Observe, cache, HoldsConn, HoldsCache

\* RunQuery keeps Outside.
LEMMA OutsideRunQuery ==
    ASSUME Outside, NEW t \in Tasks, RunQuery(t)
    PROVE  OutsideInv'
<1>1. /\ Ages' /\ UNCHANGED file_version
      /\ Current' \in Content => Current' >= external
  BY OwnStatementAges DEF RunQuery, Observe
<1>2. Current' \in Content
  BY SafeRunQuery DEF Outside, SafeInv, Shape
<1>3. QED
  BY <1>1, <1>2 DEF Outside, SafeInv, Shape, LockInv, OutsideInv, OutsideShape, Ages, Content,
     EntriesSeeOutside, WritesNeverCached, ExternalCommitsSeen, Trusted,
     RunQuery, Goto, Return, Observe, cache, HoldsConn, HoldsCache

\* RunBytes keeps Outside.
LEMMA OutsideRunBytes ==
    ASSUME Outside, NEW t \in Tasks, RunBytes(t)
    PROVE  OutsideInv'
<1>1. /\ Ages' /\ UNCHANGED file_version
      /\ Current' \in Content => Current' >= external
  BY OwnStatementAges DEF RunBytes, Observe
<1>2. Current' \in Content
  BY SafeRunBytes DEF Outside, SafeInv, Shape
<1>3. QED
  BY <1>1, <1>2 DEF Outside, SafeInv, Shape, LockInv, OutsideInv, OutsideShape, Ages, Content,
     EntriesSeeOutside, WritesNeverCached, ExternalCommitsSeen, Trusted,
     RunBytes, Goto, Return, Observe, cache, HoldsConn, HoldsCache

\* The commit is newer than everything, and the recorded data version is now
\* behind the file's.
LEMMA OutsideExternalCommit == Outside /\ ExternalCommit => OutsideInv'
<1>1. SUFFICES ASSUME Outside, ExternalCommit PROVE OutsideInv'
  OBVIOUS
<1>2. ~Trusted' /\ newest' \in Content /\ OutsideShape'
  BY <1>1, ClientAssumption, SafeExternalCommit
  DEF Outside, SafeInv, Shape, OutsideInv, OutsideShape, ExternalCommit, Trusted, Observe
<1>3. Ages'
  BY <1>1, ClientAssumption
  DEF Outside, SafeInv, Shape, OutsideInv, OutsideShape, Ages, ExternalCommit, Observe, Content
<1>4. QED
  BY <1>1, <1>2, <1>3
  DEF Outside, OutsideInv, EntriesSeeOutside, WritesNeverCached, ExternalCommitsSeen, ExternalCommit,
      Observe, cache

\* A stuttering step keeps Outside.
LEMMA OutsideStutter == Outside /\ UNCHANGED vars => OutsideInv'
BY DEF Outside, OutsideInv, OutsideShape, Ages, EntriesSeeOutside, WritesNeverCached,
   ExternalCommitsSeen, Trusted, vars, database, cache, history

\* Every step keeps Outside.
LEMMA OutsideNext == Outside /\ [Next]_vars => OutsideInv'
<1>1. SUFFICES ASSUME Outside, [Next]_vars PROVE OutsideInv'
  OBVIOUS
<1>2. CASE \E t \in Tasks, c \in Calls : Call(t, c)
  BY <1>1, <1>2, OutsideCall
<1>3. CASE \E t \in Tasks : Step(t)
  <2>1. PICK t \in Tasks : Step(t)
    BY <1>3
  <2>2. QED
    BY <1>1, <2>1, OutsideAcquire, OutsideExecuteSucceeds, OutsideExecuteClears, OutsideStatementFails, OutsideRunQuery, OutsideCheckDataVersion, OutsideCheckFails, OutsideLookupHit, OutsideLookupMiss, OutsideRunBytes, OutsideStartInsert, OutsideRejectInsert, OutsideEvict, OutsideFinishInsert, OutsideProbe
    DEF Step
<1>4. CASE ExternalCommit
  BY <1>1, <1>4, OutsideExternalCommit
<1>5. CASE Quiescent \/ UNCHANGED vars
  BY <1>1, <1>5, OutsideStutter DEF Quiescent
<1>6. QED
  BY <1>1, <1>2, <1>3, <1>4, <1>5 DEF Next

\* Outside always holds.
LEMMA OutsideInvariant == Spec => []Outside
<1>1. Init => Outside
  BY SafeInit, OutsideInit DEF Outside
<1>2. Outside /\ [Next]_vars => Outside'
  BY SafeNext, OutsideNext DEF Outside
<1>3. QED
  BY <1>1, <1>2, PTL DEF Spec

\* A statement that writes always executes: whatever runs through the query
\* calls, no result of an INSERT ... RETURNING is ever in the cache.
THEOREM WritesNeverCachedHolds == Spec => []WritesNeverCached
<1>1. Outside => WritesNeverCached
  BY DEF Outside, OutsideInv
<1>2. QED
  BY <1>1, OutsideInvariant, PTL

\* Whatever failing or row-returning statements leave in the cache, every
\* answer is at least as new as the last commit of another process before the
\* call.
THEOREM ExternalCommitsSeenHolds == Spec => []ExternalCommitsSeen
<1>1. Outside => ExternalCommitsSeen
  BY DEF Outside, OutsideInv
<1>2. QED
  BY <1>1, OutsideInvariant, PTL
=============================================================================
