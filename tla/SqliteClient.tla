---------------------------- MODULE SqliteClient ----------------------------
(***************************************************************************)
(* One SQLite client (crates/powder-core/src/client.rs, SqliteClient) and  *)
(* the tasks that share it: the connection mutex every statement runs      *)
(* under, the cache mutex, the result cache of QueryCache and the database *)
(* itself, which on a file other processes write too.                      *)
(*                                                                         *)
(* A database content is a number: every write makes a content that never  *)
(* existed before, a rollback returns to the committed one.  A read of any *)
(* SELECT answers the content it saw.  What the statements compute, and    *)
(* the parallel scan (ParallelScan), are left out.                         *)
(*                                                                         *)
(* Faults names what SQLite may do to a statement that returns an error:   *)
(* "partial_batch", some statements of a script took effect before the     *)
(* failing one; "auto_rollback", SQLite rolled the open transaction back.  *)
(***************************************************************************)
EXTENDS Integers, Sequences, SequencesExt

CONSTANTS
    Tasks,          \* concurrent callers
    Selects,        \* read-only statements without a volatile function
    Volatile,       \* read-only ones whose text names a volatile function
    Returning,      \* writes that return rows, run through the query calls
    Size,           \* Size[s] is the length of the encoded result of s
    InMemory,       \* whether the client opened a :memory: database
    Faults,         \* what failing statements may leave behind
    MaxEntries, MaxTotalBytes, MaxResultBytes, \* the limits of QueryCache
    MaxContent,     \* bound: contents the database goes through
    MaxRequests,    \* bound: calls on the client
    NoInsert, Free, NoSql, NoTxn, NoVersion, NoAnswer

Statements == Selects \cup Volatile \cup Returning
Content == 0..MaxContent

\* is_cache_safe: every text without the name of a volatile function.
Cacheable == Statements \ Volatile

\* The encoded results that may be cached.  A statement is its text with its
\* parameters, which cache_key keeps apart.
Buffers == [sql : Cacheable, content : Content]
Calls == [op : {"write", "begin", "commit", "rollback"}, sql : {NoSql}]
         \cup [op : {"query", "query_bytes"}, sql : Statements]
         \cup [op : {"probe"}, sql : Cacheable]

ASSUME ClientAssumption ==
    /\ Selects \cap Volatile = {} /\ Selects \cap Returning = {}
    /\ Volatile \cap Returning = {}
    /\ Size \in [Cacheable -> Nat]
    /\ InMemory \in BOOLEAN
    /\ Faults \subseteq {"partial_batch", "auto_rollback"}
    /\ MaxEntries \in Nat \ {0}
    /\ MaxTotalBytes \in Nat
    /\ MaxResultBytes \in 0..MaxTotalBytes
    /\ MaxContent \in Nat
    /\ MaxRequests \in Nat
    /\ Free \notin Tasks
    /\ NoSql \notin Statements
    /\ NoTxn \notin Content /\ NoAnswer \notin Content
    /\ NoVersion \notin Nat
    /\ NoInsert \notin [key : Cacheable, bytes : Buffers]

VARIABLES
    committed,    \* the committed content
    txn,          \* the content inside this connection's transaction, or NoTxn
    newest,       \* the newest content ever made
    file_version, \* what PRAGMA data_version answers: commits of others
    conn,         \* holder of the connection mutex, or Free
    cache_lock,   \* holder of the cache mutex, or Free
    map, order, total_bytes, inserting, \* the cache
    data_version, \* QueryCache::data_version
    pc, call,     \* per task: where it is, and in which call
    answer,       \* per task: the content its last call answered, or NoAnswer
    requests,     \* calls made so far
    settled,      \* history: the content every finished call has left behind
    seen,         \* history: per task, the contents current during its call
    external,     \* history: the last content another process committed
    floor         \* history: per task, `external` when its call was made

database == <<committed, txn, newest, file_version>>
cache == <<map, order, total_bytes, inserting>>
history == <<settled, seen, external, floor>>
vars == <<database, conn, cache_lock, cache, data_version, pc, call, answer,
          requests, history>>

QC == INSTANCE QueryCache WITH
        Keys <- Cacheable, Length <- [b \in Buffers |-> Size[b.sql]]

\* The content a statement on this connection reads.
Current == IF txn = NoTxn THEN committed ELSE txn

Init ==
    /\ committed = 0 /\ txn = NoTxn /\ newest = 0 /\ file_version = 0
    /\ conn = Free /\ cache_lock = Free
    /\ QC!Init
    /\ data_version = NoVersion
    /\ pc = [t \in Tasks |-> "idle"]
    /\ call = [t \in Tasks |-> [op |-> "rollback", sql |-> NoSql]]
    /\ answer = [t \in Tasks |-> NoAnswer]
    /\ requests = 0
    /\ settled = 0
    /\ seen = [t \in Tasks |-> {}]
    /\ external = 0
    /\ floor = [t \in Tasks |-> 0]

-----------------------------------------------------------------------------
\* The next program point of t.
Goto(t, l) == pc' = [pc EXCEPT ![t] = l]

\* Every call under way has seen the content this step leaves.
Observe ==
    /\ seen' = [t \in Tasks |-> IF pc[t] = "idle" THEN seen[t]
                                ELSE seen[t] \cup {Current'}]
    /\ UNCHANGED floor

\* The closure run by with_conn returns: the guard is dropped.
Return(t, a) ==
    /\ Goto(t, "idle")
    /\ conn' = Free
    /\ answer' = [answer EXCEPT ![t] = a]

\* The database makes a content that never existed before, inside the open
\* transaction or as a commit of its own.
Write ==
    /\ newest < MaxContent
    /\ newest' = newest + 1
    /\ IF txn = NoTxn
         THEN committed' = newest' /\ UNCHANGED txn
         ELSE txn' = newest' /\ UNCHANGED committed
    /\ UNCHANGED file_version

-----------------------------------------------------------------------------
\* A task calls the client.
Call(t, c) ==
    /\ pc[t] = "idle"
    /\ requests < MaxRequests
    /\ requests' = requests + 1
    /\ call' = [call EXCEPT ![t] = c]
    /\ answer' = [answer EXCEPT ![t] = NoAnswer]
    /\ Goto(t, IF c.op = "probe" THEN "probe" ELSE "want_conn")
    /\ seen' = [seen EXCEPT ![t] = {settled, Current}]
    /\ floor' = [floor EXCEPT ![t] = external]
    /\ UNCHANGED <<database, conn, cache_lock, cache, data_version, settled,
                   external>>

\* with_conn gets the connection mutex, by try_lock on the caller's thread or
\* by lock on a thread of the blocking pool, and runs the closure of the call.
Acquire(t) ==
    /\ pc[t] = "want_conn"
    /\ conn = Free
    /\ conn' = t
    /\ Goto(t, CASE call[t].op = "query" -> "query"
                 [] call[t].op = "query_bytes" ->
                      IF call[t].sql \in Cacheable THEN "check" ELSE "bytes"
                 [] OTHER -> "execute")
    /\ UNCHANGED <<database, cache_lock, cache, data_version, call, answer,
                   requests, history>>

\* The statement of an execute call succeeds.  BEGIN is BEGIN IMMEDIATE, the
\* form every binding sends; each form of transaction control succeeds only
\* in its own state.
ExecuteSucceeds(t) ==
    /\ pc[t] = "execute"
    /\ CASE call[t].op = "write" -> Write
         [] call[t].op = "begin" ->
              /\ txn = NoTxn
              /\ txn' = committed
              /\ UNCHANGED <<committed, newest, file_version>>
         [] call[t].op = "commit" ->
              /\ txn # NoTxn
              /\ committed' = txn
              /\ txn' = NoTxn
              /\ UNCHANGED <<newest, file_version>>
         [] call[t].op = "rollback" ->
              /\ txn # NoTxn
              /\ txn' = NoTxn
              /\ UNCHANGED <<committed, newest, file_version>>
    /\ Goto(t, "clear")
    /\ Observe
    /\ UNCHANGED <<conn, cache_lock, cache, data_version, call, answer,
                   requests, settled, external>>

\* An execute that returns before it clears the cache.
ExecuteSkipsClear(t) ==
    /\ pc[t] = "clear"
    /\ cache_lock = Free
    /\ Return(t, NoAnswer)
    /\ settled' = Current
    /\ UNCHANGED <<database, cache_lock, cache, data_version, call, requests,
                   seen, external, floor>>

\* "Writes invalidate every cached result", and the call returns.
ExecuteClears(t) ==
    /\ pc[t] = "clear"
    /\ cache_lock = Free
    /\ QC!Emptied
    /\ Return(t, NoAnswer)
    /\ settled' = Current
    /\ UNCHANGED <<database, cache_lock, data_version, call, requests, seen,
                   external, floor>>

\* What an execute or a query call that returns an error leaves behind.
ErrorEffect(t) ==
    \/ UNCHANGED database
    \/ /\ "partial_batch" \in Faults
       /\ call[t].op = "write"
       /\ Write
    \/ /\ "auto_rollback" \in Faults
       /\ call[t].op = "write" \/ call[t].sql \in Returning
       /\ txn # NoTxn
       /\ txn' = NoTxn
       /\ UNCHANGED <<committed, newest, file_version>>

\* The statement returns an error, which the `?` after it returns at once.
StatementFails(t) ==
    /\ pc[t] \in {"execute", "query", "bytes"}
    /\ ErrorEffect(t)
    /\ Return(t, NoAnswer)
    /\ settled' = Current'
    /\ Observe
    /\ UNCHANGED <<cache_lock, cache, data_version, call, requests, external>>

\* SqliteClient::query: the cache is neither read nor written.
RunQuery(t) ==
    /\ pc[t] = "query"
    /\ IF call[t].sql \in Returning THEN Write ELSE UNCHANGED database
    /\ Return(t, Current')
    /\ settled' = Current'
    /\ Observe
    /\ UNCHANGED <<cache_lock, cache, data_version, call, requests, external>>

-----------------------------------------------------------------------------
\* query_bytes_shared that trusts the cache of a file-backed database.
CheckNothing(t) ==
    /\ pc[t] = "check"
    /\ cache_lock = Free
    /\ cache_lock' = t
    /\ Goto(t, "lookup")
    /\ UNCHANGED <<database, conn, cache, data_version, call, answer, requests,
                   history>>

\* query_bytes_shared takes the cache mutex and, on a file, compares the
\* data version: a commit of another connection since the last comparison
\* empties the cache.
CheckDataVersion(t) ==
    /\ pc[t] = "check"
    /\ cache_lock = Free
    /\ cache_lock' = t
    /\ IF InMemory \/ data_version = file_version
         THEN UNCHANGED <<cache, data_version>>
         ELSE QC!Emptied /\ data_version' = file_version
    /\ Goto(t, "lookup")
    /\ UNCHANGED <<database, conn, call, answer, requests, history>>

\* PRAGMA data_version fails: both mutexes are released.
CheckFails(t) ==
    /\ pc[t] = "check"
    /\ cache_lock = Free
    /\ ~InMemory
    /\ Return(t, NoAnswer)
    /\ UNCHANGED <<database, cache_lock, cache, data_version, call, requests,
                   history>>

\* A hit hands out the cached buffer.
LookupHit(t) ==
    /\ pc[t] = "lookup"
    /\ call[t].sql \in DOMAIN map
    /\ cache_lock' = Free
    /\ Return(t, map[call[t].sql].content)
    /\ UNCHANGED <<database, cache, data_version, call, requests, history>>

\* A miss releases the cache mutex and keeps the connection.
LookupMiss(t) ==
    /\ pc[t] = "lookup"
    /\ call[t].sql \notin DOMAIN map
    /\ cache_lock' = Free
    /\ Goto(t, "bytes")
    /\ UNCHANGED <<database, conn, cache, data_version, call, answer, requests,
                   history>>

\* query_bytes_shared that inserts whatever is_cache_safe lets through.
RunBytesUngated(t) ==
    /\ pc[t] = "bytes"
    /\ IF call[t].sql \in Returning THEN Write ELSE UNCHANGED database
    /\ IF call[t].sql \in Cacheable
         THEN /\ Goto(t, "insert")
              /\ answer' = [answer EXCEPT ![t] = Current']
              /\ UNCHANGED conn
         ELSE Return(t, Current')
    /\ settled' = Current'
    /\ Observe
    /\ UNCHANGED <<cache_lock, cache, data_version, call, requests, external>>

\* query_bytes_shared that gives the connection back before it inserts.
RunBytesReleasesConn(t) ==
    /\ pc[t] = "bytes"
    /\ IF call[t].sql \in Returning THEN Write ELSE UNCHANGED database
    /\ Goto(t, IF call[t].sql \in Selects THEN "insert" ELSE "idle")
    /\ answer' = [answer EXCEPT ![t] = Current']
    /\ conn' = Free
    /\ settled' = Current'
    /\ Observe
    /\ UNCHANGED <<cache_lock, cache, data_version, call, requests, external>>

\* The statement runs and its result is encoded.  Only a result whose
\* statement SQLite reports read-only goes on to the cache.
RunBytes(t) ==
    /\ pc[t] = "bytes"
    /\ IF call[t].sql \in Returning THEN Write ELSE UNCHANGED database
    /\ IF call[t].sql \in Selects
         THEN /\ Goto(t, "insert")
              /\ answer' = [answer EXCEPT ![t] = Current']
              /\ UNCHANGED conn
         ELSE Return(t, Current')
    /\ settled' = Current'
    /\ Observe
    /\ UNCHANGED <<cache_lock, cache, data_version, call, requests, external>>

\* The buffer to cache.
Result(t) == [sql |-> call[t].sql, content |-> answer[t]]

\* insert is called under the cache mutex, unless the result is too large.
StartInsert(t) ==
    /\ pc[t] = "insert"
    /\ cache_lock = Free
    /\ cache_lock' = t
    /\ QC!InsertCalled(call[t].sql, Result(t))
    /\ Goto(t, "evict")
    /\ UNCHANGED <<database, conn, data_version, call, answer, requests, history>>

\* insert rejects the result: the call returns it uncached.
RejectInsert(t) ==
    /\ pc[t] = "insert"
    /\ cache_lock = Free
    /\ Size[call[t].sql] > MaxResultBytes
    /\ Return(t, answer[t])
    /\ UNCHANGED <<database, cache_lock, cache, data_version, call, requests,
                   history>>

\* An eviction loop that pops nothing.
EvictNothing(t) ==
    /\ pc[t] = "evict"
    /\ QC!MustEvict
    /\ UNCHANGED vars

\* One iteration of insert's eviction loop.
Evict(t) ==
    /\ pc[t] = "evict"
    /\ QC!EvictOldest
    /\ UNCHANGED <<database, conn, cache_lock, data_version, pc, call, answer,
                   requests, history>>

\* insert ends and the call returns the buffer it cached.
FinishInsert(t) ==
    /\ pc[t] = "evict"
    /\ QC!FinishInsert
    /\ cache_lock' = Free
    /\ Return(t, answer[t])
    /\ UNCHANGED <<database, data_version, call, requests, history>>

-----------------------------------------------------------------------------
\* probe_cache: under the cache mutex alone, on in-memory databases only.
Probe(t) ==
    /\ pc[t] = "probe"
    /\ cache_lock = Free
    /\ answer' = [answer EXCEPT ![t] =
                    IF InMemory /\ call[t].sql \in DOMAIN map
                      THEN map[call[t].sql].content ELSE NoAnswer]
    /\ Goto(t, "idle")
    /\ UNCHANGED <<database, conn, cache_lock, cache, data_version, call,
                   requests, history>>

\* Another process commits to the file.  SQLite admits one writer at a time:
\* not while this connection's BEGIN IMMEDIATE transaction is open.
ExternalCommit ==
    /\ ~InMemory
    /\ txn = NoTxn
    /\ newest < MaxContent
    /\ newest' = newest + 1
    /\ committed' = newest'
    /\ file_version' = file_version + 1
    /\ UNCHANGED txn
    /\ settled' = newest'
    /\ external' = newest'
    /\ Observe
    /\ UNCHANGED <<conn, cache_lock, cache, data_version, pc, call, answer,
                   requests>>

-----------------------------------------------------------------------------
\* What the client's own threads do once a call is made.
Step(t) ==
    \/ Acquire(t)
    \/ ExecuteSucceeds(t) \/ ExecuteClears(t)
    \/ StatementFails(t)
    \/ RunQuery(t)
    \/ CheckDataVersion(t) \/ CheckFails(t)
    \/ LookupHit(t) \/ LookupMiss(t)
    \/ RunBytes(t)
    \/ StartInsert(t) \/ RejectInsert(t) \/ Evict(t) \/ FinishInsert(t)
    \/ Probe(t)

\* No call is under way: the program may stop here, and only here.
Quiescent ==
    /\ \A t \in Tasks : pc[t] = "idle"
    /\ UNCHANGED vars

Next ==
    \/ \E t \in Tasks, c \in Calls : Call(t, c)
    \/ \E t \in Tasks : Step(t)
    \/ ExternalCommit
    \/ Quiescent

Spec == Init /\ [][Next]_vars

\* A call under way is scheduled again as long as it can go on.  No fairness
\* is asked of the callers, of other processes, or of the mutexes.
FairSpec == Spec /\ \A t \in Tasks : WF_vars(Step(t))

-----------------------------------------------------------------------------
Labels == {"idle", "want_conn", "execute", "clear", "query", "check", "lookup",
           "bytes", "insert", "evict", "probe"}

\* The types of the variables.
TypeOK ==
    /\ committed \in Content /\ newest \in Content /\ settled \in Content
    /\ txn \in Content \cup {NoTxn}
    /\ file_version \in Nat /\ data_version \in Nat \cup {NoVersion}
    /\ conn \in Tasks \cup {Free} /\ cache_lock \in Tasks \cup {Free}
    /\ QC!TypeOK
    /\ pc \in [Tasks -> Labels]
    /\ call \in [Tasks -> Calls]
    /\ answer \in [Tasks -> Content \cup {NoAnswer}]
    /\ requests \in Nat
    /\ seen \in [Tasks -> SUBSET Content]
    /\ external \in Content /\ floor \in [Tasks -> Content]

\* Linearizability of reads: a query, a cached query or a probe answers a
\* content that was current at some moment of its own call.  A cache entry
\* from before a write that had returned would break it.
AnswersCurrent ==
    \A t \in Tasks :
        pc[t] = "idle" /\ answer[t] # NoAnswer => answer[t] \in seen[t]

\* The cache is never behind the database.  Between a write and the clear
\* that follows it, and while the data version recorded with the cache is not
\* the file's, nothing is claimed: those are the states in which no lookup
\* may trust an entry.
CacheCoherent ==
    (\A t \in Tasks : pc[t] # "clear") /\ (InMemory \/ data_version = file_version)
        => \A k \in DOMAIN map : map[k].content = Current

\* A statement that writes always executes: its result is never cached.
WritesNeverCached == DOMAIN map \subseteq Selects

\* Whatever failed or row-returning statements leave in the cache, a commit
\* of another process is never missed: an answer is at least as new as the
\* last such commit before the call.
ExternalCommitsSeen ==
    \A t \in Tasks :
        pc[t] = "idle" /\ answer[t] # NoAnswer => answer[t] >= floor[t]

\* The client uses the cache as QueryCache prescribes: one call at a time,
\* and never an insert of a key that is already there.
UsesCacheCorrectly == QC!Spec

\* Every call returns.
CallsReturn == \A t \in Tasks : pc[t] # "idle" ~> pc[t] = "idle"
=============================================================================
