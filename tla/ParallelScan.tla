---------------------------- MODULE ParallelScan ----------------------------
(***************************************************************************)
(* The parallel table scan of a SQLite client                              *)
(* (crates/powder-core/src/client.rs, try_parallel_scan): `SELECT columns  *)
(* FROM table` is split into rowid ranges, one per worker connection; any  *)
(* failure falls back to the serial scan on the caller's own connection.   *)
(* The pool of worker connections is filled by a background thread that    *)
(* Client::connect starts, while scans already take from it.               *)
(*                                                                         *)
(* One scan runs at a time, under the connection mutex of SqliteClient,    *)
(* which no statement of this client can run without: a scan's only        *)
(* competitors are other processes and the background thread.  A row is    *)
(* its rowid, a signed integer from -SignBit to SignBit - 1.               *)
(***************************************************************************)
EXTENDS Integers, Sequences, SequencesExt, FiniteSetsExt

CONSTANTS
    Settings,          \* where the database is and who uses it, see below
    SignBit,           \* the weight of a rowid's sign bit, 2^63 in the code
    Rowids,            \* rowids the table may hold
    Threads,           \* available_parallelism, at most 12
    ParallelMinSpan,   \* PARALLEL_MIN_SPAN
    MaxWrites,         \* bound: writes in all
    MaxScans,          \* bound: scans in all
    NoTxn, NoAnswer, Unread, Failed

MinRowid == -SignBit
MaxRowid == SignBit - 1

\* inMemory: a :memory: database on the memdb VFS, which no other process can
\* open.  ownTransactions: this client opens transactions.  externalWriters:
\* other processes write the database.
ASSUME ScanAssumption ==
    /\ Settings \subseteq [inMemory : BOOLEAN, ownTransactions : BOOLEAN,
                           externalWriters : BOOLEAN]
    /\ \A s \in Settings : s.inMemory => ~s.externalWriters
    /\ SignBit \in Nat \ {0}
    /\ Rowids \subseteq MinRowid..MaxRowid
    /\ Threads \in Nat
    /\ ParallelMinSpan \in Nat /\ ParallelMinSpan >= Threads
    /\ MaxWrites \in Nat /\ MaxScans \in Nat
    /\ \A rows \in SUBSET Rowids : rows \notin {NoTxn, Unread, Failed}

VARIABLES
    setting,     \* the setting the client lives in
    committed,   \* the committed rows
    txn,         \* the rows inside this client's transaction, or NoTxn
    writes,      \* writes so far
    scans,       \* scans so far
    pool,        \* idle worker connections
    prewarming,  \* connections the background thread has yet to open
    held,        \* worker connections of the scan under way
    opened,      \* history: worker connections ever opened
    pc,          \* where the scan is
    ends,        \* min(rowid) and max(rowid) as the scan read them
    chunks,      \* what each worker has returned
    answer,      \* what the last scan answered
    seen         \* history: the contents current during the last scan

vars == <<setting, committed, txn, writes, scans, pool, prewarming, held, opened, pc,
          ends, chunks, answer, seen>>
database == <<committed, txn, writes>>
workers == <<pool, held, opened>>

\* What the caller's own connection reads.
Current == IF txn = NoTxn THEN committed ELSE txn

Ascending(S) == CHOOSE s \in SetToSeqs(S) : \A i, j \in DOMAIN s : i < j => s[i] < s[j]

Init ==
    /\ setting \in Settings
    /\ committed \in SUBSET Rowids
    /\ txn = NoTxn
    /\ writes = 0 /\ scans = 0
    /\ pool = 0 /\ prewarming = Threads /\ held = 0 /\ opened = 0
    /\ pc = "idle"
    /\ ends = <<0, 0>>
    /\ chunks = <<>>
    /\ answer = NoAnswer
    /\ seen = {}

-----------------------------------------------------------------------------
\* Arithmetic on i64 as a release build does it: it wraps around.
Wrap(n) == ((n - MinRowid) % (2 * SignBit)) + MinRowid

\* i64::saturating_sub
SaturatingSub(a, b) == Min({MaxRowid, Max({MinRowid, a - b})})

\* The division of i64 truncates toward zero.
Quotient(a, n) == IF a >= 0 THEN a \div n ELSE -((-a) \div n)

\* Ranges whose last one stops where the equal steps stop.
BoundsEqualSteps(i, n, min, max) ==
    LET step == Quotient(Wrap(Wrap(max - min) + 1), n)
        lo(j) == Wrap(min + Wrap(step * j))
    IN  lo(i)..Wrap(lo(i + 1) - 1)

\* The rowid range of worker i out of n, counted from 0, over min..max.
Bounds(i, n, min, max) ==
    LET step == Quotient(Wrap(Wrap(max - min) + 1), n)
        lo(j) == Wrap(min + Wrap(step * j))
    IN  lo(i)..(IF i = n - 1 THEN max ELSE Wrap(lo(i + 1) - 1))

-----------------------------------------------------------------------------
\* This client writes, between scans: on its own or inside its transaction.
OwnWrite ==
    /\ pc = "idle"
    /\ writes < MaxWrites
    /\ writes' = writes + 1
    /\ \E rows \in SUBSET Rowids :
         IF txn = NoTxn THEN committed' = rows /\ UNCHANGED txn
         ELSE txn' = rows /\ UNCHANGED committed
    /\ UNCHANGED <<scans, workers, prewarming, pc, ends, chunks, answer, seen>>

\* BEGIN IMMEDIATE, COMMIT, ROLLBACK.
OwnBegin ==
    /\ pc = "idle"
    /\ setting.ownTransactions
    /\ txn = NoTxn
    /\ txn' = committed
    /\ UNCHANGED <<committed, writes, scans, workers, prewarming, pc, ends,
                   chunks, answer, seen>>

OwnEnd ==
    /\ pc = "idle"
    /\ txn # NoTxn
    /\ committed' \in {committed, txn}
    /\ txn' = NoTxn
    /\ UNCHANGED <<writes, scans, workers, prewarming, pc, ends, chunks,
                   answer, seen>>

\* Another process commits; SQLite admits one writer at a time.
ExternalWrite ==
    /\ setting.externalWriters
    /\ txn = NoTxn
    /\ writes < MaxWrites
    /\ writes' = writes + 1
    /\ committed' \in SUBSET Rowids
    /\ seen' = seen \cup {committed'}
    /\ UNCHANGED <<txn, scans, workers, prewarming, pc, ends, chunks, answer>>

\* The background thread opens a connection and pushes it into the pool, or
\* fails to and ends.
Prewarm ==
    /\ prewarming > 0
    /\ \/ /\ prewarming' = prewarming - 1
          /\ pool' = pool + 1
          /\ opened' = opened + 1
       \/ /\ prewarming' = 0
          /\ UNCHANGED <<pool, opened>>
    /\ UNCHANGED <<database, scans, held, pc, ends, chunks, answer, seen>>

-----------------------------------------------------------------------------
\* A query arrives; only a bare single-table SELECT on a rowid table without a
\* column named rowid can be split.
Query ==
    /\ pc = "idle"
    /\ scans < MaxScans
    /\ scans' = scans + 1
    /\ answer' = NoAnswer
    /\ seen' = {Current}
    /\ pc' \in {"endpoints", "serial"}
    /\ UNCHANGED <<database, workers, prewarming, ends, chunks>>

\* min(rowid) and max(rowid) on the caller's connection.  Too few threads, an
\* empty table or a short span: the scan is serial.
ReadEndpoints ==
    /\ pc = "endpoints"
    /\ IF /\ Threads >= 2
          /\ Current # {}
          /\ SaturatingSub(Max(Current), Min(Current)) >= ParallelMinSpan
         THEN pc' = "take" /\ ends' = <<Min(Current), Max(Current)>>
         ELSE pc' = "serial" /\ UNCHANGED ends
    /\ UNCHANGED <<database, scans, workers, prewarming, chunks, answer, seen>>

\* Up to one pooled connection per thread is taken.
TakePooled ==
    /\ pc = "take"
    /\ held' = Min({Threads, pool})
    /\ pool' = pool - held'
    /\ pc' = "open"
    /\ UNCHANGED <<database, scans, prewarming, opened, ends, chunks, answer, seen>>

\* One more is opened on demand.
OpenWorker ==
    /\ pc = "open"
    /\ held < Threads
    /\ held' = held + 1
    /\ opened' = opened + 1
    /\ UNCHANGED <<database, scans, pool, prewarming, pc, ends, chunks, answer, seen>>

\* A partition that drops a lone connection instead of pooling it again.
PartitionDrops ==
    /\ pc = "open"
    /\ IF held < 2
         THEN pc' = "serial" /\ held' = 0 /\ UNCHANGED chunks
         ELSE pc' = "scan" /\ chunks' = [i \in 1..held |-> Unread] /\ UNCHANGED held
    /\ UNCHANGED <<database, scans, pool, opened, prewarming, ends, answer, seen>>

\* There are enough, or opening failed: with fewer than two the scan is serial
\* and what was taken goes back.
Partition ==
    /\ pc = "open"
    /\ IF held < 2
         THEN pc' = "serial" /\ pool' = pool + held /\ held' = 0 /\ UNCHANGED chunks
         ELSE /\ pc' = "scan"
              /\ chunks' = [i \in 1..held |-> Unread]
              /\ UNCHANGED <<pool, held>>
    /\ UNCHANGED <<database, scans, opened, prewarming, ends, answer, seen>>

\* What worker i reads: its range of the committed rows, as of now.
ChunkOf(i) == committed \cap Bounds(i - 1, held, ends[1], ends[2])

\* Worker i runs its range query.  memdb refuses a reader while a write
\* transaction is open; on a file a lock or an I/O error may.
ScanChunk(i) ==
    /\ pc = "scan"
    /\ chunks[i] = Unread
    /\ \E result \in {ChunkOf(i), Failed} :
         /\ setting.inMemory /\ txn # NoTxn => result = Failed
         /\ chunks' = [chunks EXCEPT ![i] = result]
    /\ UNCHANGED <<database, scans, workers, prewarming, pc, ends, answer, seen>>

\* A collect that scans in parallel again after a failure.
CollectRetries ==
    /\ pc = "scan"
    /\ \A i \in DOMAIN chunks : chunks[i] # Unread
    /\ pool' = pool + held
    /\ held' = 0
    /\ chunks' = <<>>
    /\ IF \E i \in DOMAIN chunks : chunks[i] = Failed
         THEN pc' = "take" /\ UNCHANGED answer
         ELSE /\ pc' = "idle"
              /\ answer' = FlattenSeq([i \in DOMAIN chunks |-> Ascending(chunks[i])])
    /\ UNCHANGED <<database, scans, opened, prewarming, ends, seen>>

\* All workers are done: the connections go back, then the chunks are put
\* together in rowid order.  One failure makes the scan serial.
Collect ==
    /\ pc = "scan"
    /\ \A i \in DOMAIN chunks : chunks[i] # Unread
    /\ pool' = pool + held
    /\ held' = 0
    /\ chunks' = <<>>
    /\ IF \E i \in DOMAIN chunks : chunks[i] = Failed
         THEN pc' = "serial" /\ UNCHANGED answer
         ELSE /\ pc' = "idle"
              /\ answer' = FlattenSeq([i \in DOMAIN chunks |-> Ascending(chunks[i])])
    /\ UNCHANGED <<database, scans, opened, prewarming, ends, seen>>

\* The serial scan on the caller's own connection.
SerialScan ==
    /\ pc = "serial"
    /\ answer' = Ascending(Current)
    /\ pc' = "idle"
    /\ UNCHANGED <<database, scans, workers, prewarming, ends, chunks, seen>>

\* The statement on the caller's own connection fails: the query returns an
\* error, from the serial scan or from PRAGMA table_info.
QueryFails ==
    /\ pc \in {"endpoints", "serial"}
    /\ pc' = "idle"
    /\ UNCHANGED <<database, scans, workers, prewarming, ends, chunks, answer, seen>>

\* Nothing is under way.
Quiescent == pc = "idle" /\ UNCHANGED vars

ScanStep ==
    \/ ReadEndpoints \/ TakePooled \/ OpenWorker \/ Partition
    \/ \E i \in DOMAIN chunks : ScanChunk(i)
    \/ Collect \/ SerialScan \/ QueryFails

Next ==
    /\ \/ OwnWrite \/ OwnBegin \/ OwnEnd \/ ExternalWrite
       \/ Prewarm
       \/ Query \/ ScanStep
       \/ Quiescent
    /\ UNCHANGED setting

Spec == Init /\ [][Next]_vars

\* The caller's thread and the workers keep running.
FairSpec == Spec /\ WF_vars(ScanStep /\ UNCHANGED setting)

-----------------------------------------------------------------------------
\* The types of the variables.
TypeOK ==
    /\ setting \in Settings
    /\ committed \subseteq Rowids
    /\ txn = NoTxn \/ txn \subseteq Rowids
    /\ writes \in 0..MaxWrites /\ scans \in 0..MaxScans
    /\ pool \in Nat /\ held \in 0..Threads /\ opened \in Nat
    /\ prewarming \in 0..Threads
    /\ pc \in {"idle", "endpoints", "take", "open", "scan", "serial"}
    /\ ends \in (Rowids \cup {0}) \X (Rowids \cup {0})
    /\ \A i \in DOMAIN chunks :
         chunks[i] \in {Unread, Failed} \/ chunks[i] \subseteq Rowids
    /\ answer = NoAnswer \/ answer \in Seq(Rowids)
    /\ seen \subseteq SUBSET Rowids

\* "The parallel range-partitioned scan must be indistinguishable from the
\* serial scan": it answers, in rowid order and each once, the rows the
\* caller's connection could have read at one moment of the call.
IndistinguishableFromSerial ==
    pc = "idle" /\ answer # NoAnswer => \E rows \in seen : answer = Ascending(rows)

\* It is, in memory whatever happens, and on a file if nothing is committed
\* while the scan runs and this client opens no transactions.
SafeScanMatchesSerial ==
    \/ setting.inMemory
    \/ ~setting.ownTransactions /\ \E rows \in seen : seen = {rows}
    => IndistinguishableFromSerial

\* A connection is opened once and never lost: it is in the pool or with the
\* scan under way, on every fallback path.
ConnectionsConserved == opened = pool + held

\* However the background thread and the scans interleave, a client never
\* opens more than two connections per thread.
ConnectionsBounded == opened <= 2 * Threads

\* Worker connections neither leak nor pile up.
PoolSound == ConnectionsConserved /\ ConnectionsBounded

\* Every query returns, whatever fails: a scan that falls back is not tried
\* again in parallel.
QueriesReturn == pc # "idle" ~> pc = "idle"
=============================================================================
