# Powder ORM: a TLA+ model, its checks and its proofs

Powder is a database client in Rust (`crates/powder-core`) with bindings for Node, Python, Java,
Go, C#, C++ and Kotlin, a command line for schemas and migrations (`crates/powder-cli`) and a
small web studio. This directory holds TLA+ modules translated from its source, TLC
configurations that check them on small instances, and proofs that TLAPS checks for every value
of the constants. Paths below are relative to the repository.

## The system

| Component | Source | State | Operations | Who calls it |
|---|---|---|---|---|
| Result cache | `powder-core/src/client.rs` 58-180 | a map from (SQL, parameters) to encoded results, an eviction queue, a byte count | insert, clear, lookup | the SQLite client, under the cache mutex |
| SQLite client | `client.rs` 200-570 | one connection and one cache, each under a mutex; the last `data_version` | execute, query, query_bytes, probe_cache, with_conn | the bindings, the model engine |
| Parallel scan | `client.rs` 896-1052 | a pool of worker connections, filled by a background thread | split by rowid, run the workers, collect, fall back | query and query_bytes, under the connection mutex |
| Column builders | `client.rs` 664-792, 1054-1690 | per column: class, values, nulls, marks | push a cell, promote, merge, sort, encode side by side | serial and parallel scan |
| Transaction scopes | `powder-node/ts/index.ts`, `powder-python/…/__init__.py`, `bindings/go/powder.go`, `powder-java/…/Client.java`, `bindings/csharp/Powder/Client.cs`, `bindings/cpp/…/powder.hpp` | a depth counter per client; the server's savepoint stack | transaction(body) | user code |
| Model engine | `powder-core/src/orm.rs`, `powder-node/ts/orm.ts`, `powder-python/…/orm.py` | the statements of an operation under way | create, createMany, update, upsert, delete, find with include, paginate | user code |
| Buffer registry | `powder-ffi/src/lib.rs`, `powder-java/src/lib.rs`, `bindings/go/loader_unix.go` | handles; shared buffers by address; the last error of a thread | query, free | Go, C#, C++, Kotlin, Java |
| Migrations | `powder-cli/src/db.rs`, `dialect.rs` | the live schema, foreign-key enforcement, an open transaction | migrate, migrate --rebuild, validate, seed | command line, studio |
| Wire format | `powder-core/src/codec.rs`, `array.rs`, `batch.rs`, a reader per binding | a buffer | encode, encode_parts, decode | client, bindings |
| SQL scanning | `guard.rs`, `pg.rs`, `ms.rs`, `powder-cli/src/schema.rs` | a scanner's position and mode | reject stacked statements, translate placeholders | clients |
| Server back ends | `pg.rs`, `my.rs`, `ms.rs`, `ls.rs` | a driver's connection under a mutex | execute, query | client |
| Inspection | `inspect.rs`, `schema.rs` | none | catalogue queries | command line |
| Schema language, code generation, command line, studio, assistant | `powder-cli`, `powder-studio` | files, HTTP sessions | parsing, text generation, I/O | users |

What makes each correct, in a sentence (the properties that say so in brackets):

- *Result cache*: it accounts exactly for what it holds and stays within its limits (`TotalIsSum`,
  `WithinLimits`, `OrderAgreesWithMap`).
- *SQLite client*: an answer, cached or not, was the database's at some moment of its call
  (`AnswersCurrent`, `CacheCoherent`, `ExternalCommitsSeen`, `WritesNeverCached`); calls return
  (`CallsReturn`).
- *Parallel scan*: nobody can tell it from the serial one (`SafeScanMatchesSerial`), and its
  connections are neither lost nor too many (`PoolSound`).
- *Column builders*: ranges, however cut, make the column the whole would (`MergeMatchesSerialIfExact`,
  `DirectMatchesMerge`), sorted as SQLite sorts (`SortsLikeSqlite`), valid text (`FinishedIsUtf8UnlessSplit`).
- *Transaction scopes*: a scope that fails undoes its own work and no other (`ImplementsNesting`), the
  counter follows the server (`Lockstep`), the counter goes back and nothing stays open (`ScopesEndClean`).
- *Model engine*: an operation concerns the rows its object means (`MutationsHitTheirRows`,
  `ReadsAgree`), several statements have the effect of the one they stand for (`QuietIncludeIsJoin`,
  `CreateManyByChunks`, `PagesAreSlices`).
- *Buffer registry*: what a host holds is alive, what it frees is gone (`PointersStayValid`,
  `FreedAsOftenAsHandedOut`), what it is told is about its own call (`ErrorIsOwn`).
- *Migrations*: no row is lost and no half-built table seen (`ImplementsSafeMigration`), the report is
  true (`ResultIsTrue`, `DryRunTellsAll`), the connection is as before (`ConnectionRestored`). *Schema*:
  everyone derives the same relations (`RelationsAgree`).
- *Wire format*: bytes written once each (`WritesAreDisjoint`, `PartsMatchSerial`) and read back or
  refused (`RoundTrips`, `PrefixesAreRefused`).
- *SQL scanning*: text is cut where the server cuts it (`PlaceholdersAreReplaced`, `GuardIsExact`,
  `SlotsLineUp`).

Two mutexes carry the interaction of the first four: every statement of a client runs under the
connection mutex, the cache has its own, taken inside it or (by the probe) alone. The bindings
turn a call into one task each, so calls of one client interleave between statements and at every
mutex. Other processes commit to the same file at any time. The model engine sits on top: each of
its operations is a future that issues statements and awaits in between, where others write. The
buffer registry is where results leave Rust: the cache, the registry and the host share one
allocation. Migrations run in a process of their own against the same database, while the
application works on, and read the same `powder.schema.json` as the engine and the code generator.

What is hard in it, and what the properties are aimed at: a result read under one mutex and cached
under another; the window between a write and the clear that follows it; errors that return before
the clear; another process's commits; a depth counter read before an await and written back after
it; statements that fail halfway through a scope; workers that read at different moments; columns
whose type is decided range by range; arithmetic on rowids; a filter whose meaning depends on where
the renderer writes parentheses; several queries that together claim to be one join; batches cut
into chunks; a rebuild of a table that dies between DROP and RENAME; tasks that write one
uninitialized buffer through raw pointers; scanners that must see a literal exactly where the server
does; one address handed out several times. `PROJECT.json` lists each at its line.

## Modules

| Module | Models | Composes or refines |
|---|---|---|
| `QueryCache` | the bounded cache, one step per iteration of the eviction loop | |
| `SqliteClient` | tasks, the two mutexes, execute, query, query_bytes_shared, probe_cache, one database with transactions, faults and other processes | instantiates `QueryCache` on its own cache variables |
| `NestedTransactions` | what a transaction scope promises | |
| `Transaction` | the scopes of six bindings statement by statement over the savepoints of four back ends | implements `NestedTransactions` |
| `AdaptiveColumn` | one column, built by a serial and by a parallel scan of the same rows | |
| `ParallelScan` | the pool, the background thread, the rowid ranges, the workers, every fallback | |
| `OrmFilter` | `where` objects: what they render to, what the text means to the database, what they mean | |
| `OrmEngine` | the operations of the shared engine, one step per statement, other users in between | extends `OrmFilter` |
| `Schema` | foreign keys, dependency order, DDL per dialect, validate, the two derivations of relations | |
| `SafeMigration` | what a migration promises of the database everyone else sees | extends `Schema` |
| `Migrate` | migrate, migrate --rebuild and the dry run, one step per statement, with failures, crashes and the application | extends `Schema`, implements `SafeMigration` |
| `PcbCodec` | the column builders, the serial and the parallel encoder, the decoder | |
| `SqlText` | the three scanners and the lexical structure of the servers | |
| `ForeignBuffers` | the C and JNI interfaces: registry, boxes, the error slot of a thread | uses the cache as `QueryCache` leaves it: a buffer may go at any time |
| `QueryCacheProofs`, `SqliteClientProofs`, `ParallelScanProofs`, `TransactionProofs`, `ForeignBuffersProofs`, `MigrateProofs`, `PcbCodecProofs` | the theorems | each extends its module |
| `RecursionProofs` | induction up to a bound, recursive functions up to it, and what `FlattenSeq` is, in a form a proof can cite | |
| `MC…` | values for the constants | |

### How state and actions correspond to the code

**QueryCache.** `map`, `order` and `total_bytes` are the fields of `QueryCache`; `inserting` is the call of
`insert` under way. `StartInsert` is the entry of `insert` (which refuses a result above
`MAX_RESULT_BYTES`), `EvictOldest` one turn of its loop, `FinishInsert` the assignments after it,
`Clear` is `clear`. A key is a model value, a buffer its length (and, in `SqliteClient`, its content).
The real limits (32 entries, 128 MiB) are the constants `MaxEntries`, `MaxTotalBytes`,
`MaxResultBytes`.

**SqliteClient.** `pc[t]` is the place of a task in its call: `Acquire` takes the connection
(`with_conn`), `CheckDataVersion` is the comparison with `PRAGMA data_version`, `LookupHit` and
`LookupMiss` the lookup, `RunBytes` the statement, `StartInsert`…`FinishInsert` the cache's insert,
`Probe` the lock-free lookup, `ExecuteSucceeds` and `ExecuteClears` the two halves of `execute`.
A database content is a number that every write increases; a SELECT's answer is the content it
read. `file_version` is what `PRAGMA data_version` returns: commits of other connections move it,
this client's do not. `Faults` says what failing statements may leave behind: `partial_batch` (the
first statements of a script took effect) and `auto_rollback` (SQLite rolled back the transaction).
The variables named history (`seen`, `settled`, `external`, `floor`) record what was current during
a call and appear in no guard.

**Transaction.** `binding` is fixed at the start and selects what the six implementations do
differently: whether a failed COMMIT is rolled back (not in Python and Go), when the counter is
decremented (Python: before the statement), whether it is restored or decremented (C++), and what
follows a failed ROLLBACK TO (Go still issues RELEASE). `server` selects how the statements are
rewritten: `ms.rs` drops RELEASE (`Swallowed`), so savepoints of ended scopes stay on the stack and
a name may be there more than once (`Latest`); on PostgreSQL a failed statement makes the server
refuse all but a rollback (`aborted`), and a COMMIT rolls back; PostgreSQL and MySQL accept a COMMIT
outside a transaction (`Lenient`). `stack` is the server's transaction and savepoint stack; it is
external and modelled by what these statements do to it. `Faults[b]` says what may fail under binding
`b`. One fault is not a statement's: `escapes` lets control leave a scope past its handler. In Java a
body throws an `Error`, which `catch (Exception)` (`Client.java:88`) does not see while `finally` puts
the counter back (`ErrorEscapes`); in Go it calls `runtime.Goexit`, for which `recover` returns nil
(`Goexits`); in Python the task is cancelled while it awaits a statement of the scope (`Cancelled`).
Nothing is rolled back then, and the transaction stays open. `Recovers` says that this cannot happen
in the client at hand, nor a refused COMMIT in Python or Go: the handler rolls back after everything
that may fail. It is a hypothesis inside the properties, not a bound of the model.

`NestedTransactions` is what a scope promises. `phase` is how far the innermost one is: a body that
has returned may only `Commit` or be refused (`Refuse`), one that threw, or was refused, ends only by
`Rollback`, which restores what the database held when the scope began; `Abort`, `Break` and
`Discard` are what a server does to a transaction by itself. `Outcome` maps `pc` to it.

**AdaptiveColumn.** `NextRow` pushes a cell into the serial column and into the column of the last
range; `NextRange` starts the next range. `MergeCol` is `merge_col`, `Finish` is `finish`,
`Sortable`/`SortedValues` are `sort_built`, `DirectEncodable`/`DirectOrderable`/`DirectValues` are
`encode_chunks_direct`. Binary64 is exact up to the constant `Exact`, above which every second
integer is representable, ties to even. A string is a short sequence of bytes with one multi-byte
character, the decimal rendering of a number is one byte.

**ParallelScan.** `pc` follows `try_parallel_scan`: `ReadEndpoints`, `TakePooled`, `OpenWorker`,
`Partition`, `ScanChunk(i)`, `Collect`, `SerialScan`, with `QueryFails` for its error returns.
`Bounds` is the code's arithmetic on i64, which wraps around in a release build; `SignBit` is 2^63 in
the code. One scan runs at a time, because it holds the connection mutex; the other actors are the
background thread (`Prewarm`), other processes (`ExternalWrite`) and, between scans, this client's
own writes and transactions.

**OrmFilter, OrmEngine.** A `where` object is a record of conditions and of groups under AND, OR and
NOT. SQL text is kept as far as precedence goes, as a disjunction of conjunctions of factors:
`AndText` joins the last conjunction of one text with the first of the next, as writing AND between
them does, so a forgotten pair of parentheses changes the meaning as it would in SQL. `RenderGroup`
is `render_group`; `EvalText` is three-valued logic; `Meaning` is what the object means. The engine
keeps no state; `call` is what the future of an operation holds across its awaits. Operations of one
statement are one action (`Count`, `Delete`, `Update`, `Aggregate`, `GroupBy`, `FindJoined`);
createMany and find with includes are `CreateMany`, `InsertChunk`, `RejectChunk` and `Find`,
`LoadChunk`, `NextLevel`, `Attach`. `OthersWrite` is a commit of another user between two of them.
`start` is history: the database when the operation began.

**Schema, SafeMigration, Migrate.** A table's shape is what the catalogue reports: columns with type,
nullability and key position, and foreign keys. `CreateTable` and `AddColumn` are the dialects' DDL,
`ProblemsOf` is `check_table` with `check_fk_lists`. `pc` of `Migrate` follows `migrate_inner`
(`ReadTable`, `AddMissing`, `NextTable`) and `migrate_rebuild` (`CheckTable`, `CreateTmp`, `CopyRows`,
`DropOld`, `RenameTmp`, `Commit` or `CommitFails`, `Rollback`, `Restore`). `saved` is the committed
database while the tool's transaction is open, which is what the refinement mapping shows to
`SafeMigration`. `Crash` may come at any step: the server rolls back what was not committed.
Names of tables are strings; a column's spelling is a sequence of its parts, which is all the
derivation of relation names looks at.

**PcbCodec.** A buffer is a sequence of bytes, `Unset` an uninitialized one. `Encode` is `encode`;
`Layout` and `Filled` are the first pass of `encode_parts`, `Copies` the copies a column's task makes,
`Write(i)` one of them, in any order among the columns. `Decode` is `decode`, with "panic" for the
slice indexing that its length checks do not rule out. A number is its bit pattern, up to 2^24.

**SqlText.** A state is a text; each step types a character. `CodeOf` is the loop that all scanners
share, parameterised by the characters that open a literal; `Stacked`, `Replaced` and `Compile` are
the guard, `translate_placeholders` and `compile_named_sql`. The servers cut the text from the left
into literals, comments and single characters (`Begins`), independently of any scanner: a literal ends
at the first closer that is not doubled, SQLite's `[identifier]` at the first `]` of all. The properties
speak of the texts a server reads to their end (`Plain`: literals and comments are closed, comments
do not nest, no backtick but on SQLite, no `]` of its own there). Beyond that they except what the
scanners do not know, each by name:

- `PlaceholdersAreReplaced`: a bracketed identifier of SQL Server's that holds a quote, a `?`, a `;` or a
  comment, which `ms.rs` does not skip.
- `GuardIsExact`: a subscript of PostgreSQL's that holds one of these or another bracket.
  `guard.rs:75-88` takes every bracket for T-SQL's quote, so the guard and the server disagree about
  where such a subscript ends (`MCSqlText_subscript`). Subscripts of anything else are covered.
- `SlotsLineUp`: a named query with a `?` of its own, with a comment, or with `:` or `'` in a quoted
  identifier. `compile_named_sql` (`schema.rs:155-203`) knows neither comments nor double quotes
  (`MCSqlText_slots`).

**ForeignBuffers.** An allocation has a number that is never used again and an address that is, once
nothing refers to it. `registry` is `shared_bufs` (C) or `direct_bufs` (JNI): a list of references
per address. `Register` is the mutex section of `powder_query`, from which on the registry's is the only
reference a call has, `Wrap`/`WrapFails` the JNI call that may throw after it, `Free` and `Close` the host's. `slot[t]` is thread-local `LAST_ERROR`; the Go
loader pins a goroutine to its thread for a call and the read of its message (`Pinned`).

## Runs

| Run | Bounds | What it shows |
|---|---|---|
| `cache` | 4 keys, buffers of several lengths, 3 entries, 6 bytes | map, queue and byte count agree in every state, also inside the eviction loop; neither limit is exceeded |
| `sqlite_memory` | 2 tasks, 4 requests, 3 SELECTs (one above the per-result limit), 3 contents, cache of one entry or 3 bytes | answers were current during their call; the cache is never behind the database; it is used as `QueryCache` prescribes; every call returns |
| `sqlite_faults` | 2 tasks, 3 requests, a file, all faults, INSERT … RETURNING | whatever fails, no answer is older than another process's last commit, and no write's result is cached |
| `sqlite_partial_batch` | as `sqlite_memory`, scripts may fail halfway | **fails**, see below |
| `tx_scopes` | 1 caller, 3 nested scopes, 6 bindings, 4 back ends, each with the faults it survives and with all of them, at most 5 savepoints when a scope opens | when the outermost scope is over, the counter is 0, whatever failed or escaped. Where the handler rolls back after everything that may fail (`Recovers`): no transaction is open then, counter and savepoints are in lockstep, and the statements implement `NestedTransactions` |
| `column` | 4 rows of 9 kinds of cell, 3 ranges, some empty | sorting as SQLite, direct encoding equal to the merge (and in order unless an empty range hides a boundary), merge equal to the serial scan where numbers are exact, UTF-8 |
| `scan` | 4 rowids, 3 threads, 2 scans, 1 write; in memory with transactions of its own, or a file with commits of others | the answer is the serial scan's (on a file: if nothing is committed meanwhile); connections are conserved and bounded; queries return |
| `orm` | 2 users, up to 3 posts, 12 conditions in groups two levels deep, 6 batches, chunk sizes 0, 2 and 9, 7 variables a statement, 1 key an IN query, 1 write of others, two dialects | where objects select, change and delete exactly the rows they mean; the ways to read agree; createMany inserts whole chunks; includes are joins; pages are slices |
| `migrate` | 5 schemas on 4 dialects, every pair of 6 drifted shapes, 3 rows, 2 runs, failures, crashes, an application that inserts | success means that validate agrees; the dry run announced it; the connection is restored; the two derivations of relations agree; `SafeMigration` is implemented |
| `pcb` | 3 texts, numbers and empty texts in every cut of 3 rows, NULLs, Booleans, 8 and 9 rows, no row, no column | writes are disjoint and complete, equal to the serial encoder's, read back cell by cell; a prefix is refused |
| `sqltext` | every text of up to 6 of 10 characters, every named query of up to 6 of 7, double quotes in both | placeholders are found, stacked statements refused, slots line up, as the servers read the text, but for the exceptions above |
| `buffers` | 2 tasks, 2 threads, 2 addresses, 3 allocations, 4 calls, C and JNI | a host's pointers stay valid; references equal handouts; a message is about the caller's own call |

Why the bounds are enough. Two tasks are all that two mutexes can set against each other, and the
proofs below hold for any number. One cache entry makes every second insert evict, three bytes make
one insert evict by size. Three contents admit a write before, during and after a call. Three
nested scopes put a savepoint below, at and above the failing one. Three ranges are the least
with a range between two others, four rows the least in which a range has two rows and its
neighbours have some. Three threads give a first, a middle and a last range; a span of 4 over 3
workers leaves a remainder for the last one. Two users and three posts give a parent with several
children, one with none and a child with none; one key a query makes every include with two parents
take several queries; seven variables put a chunk boundary inside a batch of three rows of three
columns. Two tables with every pair of shapes are all a foreign key relates, and two runs are a run
and the one that goes on from where it was cut off. Nine rows need a second byte of validity, and
the cuts of three rows include an empty first and an empty middle part. Six characters hold two
literals or comments and what lies between them, or a literal, a separator and a second statement.
Two addresses and three allocations make one be given out again while the other is held.
Exploration is exhaustive within the bounds. Symmetry is used where the tasks, threads or addresses
are interchangeable and no liveness is checked (`sqlite_faults`, `buffers`).

Deadlock is checked in every run but the column one, whose scan ends. `Quiescent` in `SqliteClient`,
`ParallelScan` and `ForeignBuffers`, `Quiet` in `Migrate` and `Done` in `PcbCodec` and `SqlText` let
a system idle in which nothing is under way and the bounds are used up; a state in which a call is
under way and nothing can move is still a deadlock. Every module with a state of several parts has a type invariant
`TypeOK`; it is in the configuration of `cache`, where it says that the byte count does not go below zero, and
holds in the others when added to their INVARIANTS line.

**Fairness.** `SqliteClient`'s `FairSpec` gives each task weak fairness on its own steps: the
runtime polls a ready task and the operating system runs a thread that holds a mutex. Nothing is
assumed of the callers (they need not call) nor of std's mutex, which is not fair: the number of
calls is bounded, so a waiting task is overtaken finitely often. `ParallelScan`'s `FairSpec` gives
weak fairness to the steps of the scan under way: the caller's thread and rayon's workers run. The
background thread is not assumed to run. The other modules state no liveness: their operations are
sequences of statements without loops that wait.

### Disagreements found

`sqlite_partial_batch` is a run that TLC refutes, and a finding in `PROJECT.json` that quotes the text
it contradicts: `execute` returns the error of a script through `?` before it clears the cache, so
the statements before the failing one stay invisible to cached SELECTs.

The same modules show more with other constants or properties. Their configurations are kept beside
the runs; TLC refutes each (`tlc -config MCX_y.cfg MCX`):

| Configuration | What it shows |
|---|---|
| `MCSqliteClient_returning` | an INSERT … RETURNING through the query calls does not clear the cache |
| `MCTransaction_concurrent` | Node's `transaction` restores the depth it read before its await: two overlapping calls leave it at 1 with no transaction open, and every later transaction is a bare savepoint |
| `MCTransaction_open` | with `-continue`, one after the other: Python and Go leave the transaction open when COMMIT fails, Java when a body throws an `Error` (`Client.java:88`), Go at `runtime.Goexit`, Python when its task is cancelled; the counter is 0 again and the next `BEGIN IMMEDIATE` is refused |
| `MCAdaptiveColumn_gap` | the boundary check of `encode_chunks_direct` compares adjacent ranges and skips empty ones: `[5] [] [3]` passes as ascending |
| `MCAdaptiveColumn_floathop` | an integer above 2^53 in a column that also holds a real and a text is rendered differently by the two scans |
| `MCAdaptiveColumn_split` | two TEXT cells that are halves of one character pass the whole-buffer check and are finished as invalid UTF-8 |
| `MCParallelScan_owntxn` | on a file the workers do not see the caller's uncommitted writes |
| `MCParallelScan_torn` | two workers read two different commits of another process |
| `MCParallelScan_wide` | a span above 2^63 wraps around and rows are answered twice |
| `MCOrmEngine_unknown` | a condition with an unknown operator is skipped (`orm.rs:400`) and the statement runs on more rows than meant |
| `MCOrmEngine_having` | HAVING coerces its value to the type of the column, so a sum of booleans is compared with a boolean (`orm.rs:1113`) |
| `MCMigrate_pk` | a missing primary key column stops the run with "(use --rebuild)" (`dialect.rs:86`), also with --rebuild, whose additive pass comes first (`db.rs:803`) |
| `MCSqlText_slots` | a `?` that a named query brings of its own, or a `:name` in a comment or in a quoted identifier, shifts the slots of its parameters (`schema.rs:104-106`) |
| `MCSqlText_subscript` | on PostgreSQL the `]]` that ends a nested subscript is an escaped bracket to the guard, which does not see a `;` after it (`guard.rs:8-10`) |

## Proofs

| Module | Theorem | Statement |
|---|---|---|
| `QueryCacheProofs` | `TypeCorrect`, `OrderAgreesWithMapHolds`, `TotalIsSumHolds`, `WithinLimitsHolds` | the properties of run `cache`, for all keys, lengths and limits |
| `QueryCacheProofs` | `EvictsOldestFirstHolds` | no step removes an entry and keeps an older one (`EvictsOldestFirst`, which no run checks) |
| `SqliteClientProofs` | `UsesCacheCorrectlyHolds` | the client refines `QueryCache`, whatever fails |
| `SqliteClientProofs` | `AnswersCurrentHolds`, `CacheCoherentHolds` | if no write escapes the clear (`NoSilentWrites`), answers are current and the cache is coherent, in memory and on a file |
| `SqliteClientProofs` | `WritesNeverCachedHolds`, `ExternalCommitsSeenHolds` | whatever fails and whatever runs through the query calls, no write's result is cached and no answer misses another process's commit |
| `ParallelScanProofs` | `ConnectionsConservedHolds`, `ConnectionsBoundedHolds`, `PoolSoundHolds` | the pool, for any number of threads and scans, whatever fails; `PoolSound`, which run `scan` checks, is the two together |
| `ParallelScanProofs` | `RangesPartition` | if the span fits i64, every rowid is in exactly one worker's range |
| `ParallelScanProofs` | `SafeScanMatchesSerialHolds` | if the spans fit i64 (`SpansFit`): a calm parallel scan answers the rows of the serial scan, each once and in rowid order, for any table, any number of threads and scans, whatever fails |
| `ForeignBuffersProofs` | `TypeHolds`, `ErrorIsOwnHolds`, `FreedAsOftenAsHandedOutHolds`, `PointersStayValidHolds`, `OneBufferEachHolds` | the properties of run `buffers`, and that no two live buffers share an address, for any tasks, threads, addresses and calls |
| `TransactionProofs` | `LockstepHolds`, `ScopesEndCleanHolds`, `ImplementsNestingHolds` | the properties of run `tx_scopes`, the refinement of `NestedTransactions` among them, for one caller (`OneCaller`), any nesting, every binding, back end and set of faults; `Recovers` is a hypothesis in the properties themselves |
| `MigrateProofs` | `SoundHolds`, `ConnectionRestoredHolds`, `ImplementsSafeMigrationHolds`, `ResultIsTrueHolds`, `DryRunTellsAllHolds` | every parsed schema, every database, every dialect, any number of runs, failures and crashes: others see whole tables only, the connection is restored, the report is true, and the run does what the dry run said |
| `MigrateProofs` | `CreatedInSync`, `OrderFollows` | what CREATE TABLE makes is what validate accepts; a table comes after its parents unless they wait for one another |
| `MigrateProofs` | `RelationsAgreeHolds` | every parsed schema: engine and generator derive the same relations, each with a name of its own |
| `PcbCodecProofs` | `WritesAreDisjointHolds`, `PartsMatchSerialHolds` | every batch, every cut of its columns, every order of the tasks: no raw write meets another, and the joined buffer is, byte for byte, the serial encoder's |
| `PcbCodecProofs` | `LayoutsAgree` | the layout computed beforehand is the one that appending arrives at, and every buffer is on an 8-byte boundary |

The arguments.

*Cache.* "The byte count is the sum of the cached lengths" is stated with a witness, a function that
gives for each position of the eviction queue the sum of the lengths from there on: a sum defined by
recursion could not be reasoned about without induction over data. `IInv` is the conjunction of the
types, the agreement of map and queue, the limits, the existence of such suffix sums and that they
decrease, which says that the remaining sums still lie below the count after an eviction. None of
the properties is inductive alone: the loop's guard reads the byte count, the subtraction needs the
queue's head to be in the map, and the final insert needs both limits.

*Client.* `LockInv` says which program points hold which mutex, and that the key of a task between
its miss and its insert is not cached, which holds because only the holder of the connection
inserts. From it follows the refinement of `QueryCache`. `FreshInv` compares the cache with
`settled`, the content the finished calls left behind, and not with the current one: between a write
and its clear the two differ, and a probe may still answer the first. It says that what the cache
holds, when it may be trusted (in memory, or on a file whose data version has not moved), is
`settled`, and that the content under a lookup or an insert was seen during that call. The theorems
assume `NoSilentWrites` (no partial script, no automatic rollback, no RETURNING statement through a
query call): this is exactly what the refuted configurations drop.

*Commits of others.* `Outside` assumes none of that and is about age alone. Contents are numbered in
the order in which they are written, so "newer" is an order (`Ages`); `EntriesSeeOutside` says that
while the data version has not moved, what the cache holds and what is on its way into it is at least
as new as the last commit from outside, and that what a task may find once it has compared the
versions is at least as new as the last commit before its call. A stale entry that a failing script
leaves behind is stale with respect to this client's own writes only, which is why the property
survives the faults that refute `AnswersCurrent`.

*Foreign buffers.* `Handouts` is about addresses, because the code is: the registry is keyed by them
and a free names one. `OneBufferEach` says that live buffers have different addresses and that a
reference is kept under the address of its buffer; it makes popping any reference of an address the
right one. It is not inductive alone: that a buffer is alive when a host is to hold it needs `Backed`,
that a new handout makes the count larger by one needs that the number of a call occurs once
(`Tickets`), that a freed box is not held twice needs `BoxesOnce`, and the counts are of finite sets
(`Finite`). `ErrorIsOwn` has an invariant of its own, that the slot of a thread belongs to the one task
that has a call on it.

*Transaction scopes.* `Scopes` relates the open scopes, the counter and the server's stack at each
program point. The counter is a matter of the code alone (`Counted`) and holds whatever fails or
escapes. The stack is what the properties make depend on `Recovers`, and `Scopes` does so in the same
way: a refused COMMIT in Python or Go, an `Error` in Java, `Goexit`, a cancelled task each leave a
`BEGIN` or a savepoint on it that belongs to no scope. Its heart is `Layout`: the server no longer has the outermost l scopes (it gave up the
transaction they were in), each of the others finds a savepoint of its own name, these lie in the
order of nesting, and except on SQL Server there is nothing else on the stack. `LossExplained` allows
l > 0 only to a server that rolls back by itself, or between a refused COMMIT and its rollback. The
refinement maps the stack to the contents the scopes would go back to; under `Layout` the position of
a savepoint moves with pushes, rollbacks and releases as the mapping needs, also when SQL Server keeps
savepoints of ended scopes under the same names. The phases of `NestedTransactions` leave a scope that
threw no way out but `Rollback`, so the mapping must show that ROLLBACK TO has put back what the
scope began with before it ends. `ScopesEndClean` is the case of no scope open.

*Migrations.* `Sound` says that the committed database is whole (every table has rows, these have its
columns, no table of a rebuild is left over) and that the database inside the rebuild's transaction
is exactly what its statements so far make of it (`Halfway`). Then a COMMIT is one step of
`SafeMigration` and everything before it a stutter, whatever fails or dies in between. That a step
comes closer to the schema is `CreatedInSync`, by dialect, and its counterpart for ADD COLUMN, which
makes nothing that validate refuses and did not refuse before.

*Reports of migrations.* `Progress` says what the tables behind a pass have: their columns, in the
additive pass; agreement with `validate`, in a rebuild. At the end of a pass all tables are behind it,
because the order has each of them once. "No parent" needs the order itself: `Pass` and
`DependencyOrder` are recursive functions, of which `RecursionProofs` gives the induction (`UpTo` takes
a set where the library's induction takes a predicate), and `OrderFollows` shows that a table placed
before a parent is one of a set of tables that wait for one another.

*Dry run.* The plan and the run are two computations: the plan reads all tables at the start, the run
reads each when its turn comes, in a database that its own statements have changed meanwhile. `Announced`
says that there is a catalogue `c`, the one at the start, such that the tables from the one at hand on
are still as they are in `c` (`Untouched`), and that what was applied is what `TableSteps` of `c` says up
to that table and, if its columns have been read, `ColumnSteps` up to one of them (`UpToColumn`). The
plan is a recursive function over the order of the tables, and over the columns of each; `ColumnStepsRun`
and `TableStepsRun` give its equations by the induction of `RecursionProofs`, and that it only grows, so
that each part is a prefix of the whole. That the column a run adds next is the next that was said needs
that the names of columns are distinct and that what is added is told from what was read (`Lacking`,
`NextSaid`); that a table created does not change a later one needs that the order has each table once
(`OrderOnce`).

*Relations.* The engine lists the foreign keys of all tables with their owners and filters the list twice;
the generator goes through the tables and filters the keys of each. Both then claim names in the same
way, so it is enough that both claim for the same keys in the same order (`SameRelations`): picking from
sequences one behind the other is picking from each (`PickedFlatten`), of a table's keys the engine
picks as the generator does (`OwnPicked`, `OthersPicked`), and the one table whose own keys are picked
is the table itself, because names are distinct (`NamesTell`). That a name can be claimed at all is a
count: among one more candidates than there are names taken, all of different lengths, one is free
(`FreeName`). By induction over the claims no name is claimed twice, nor a column's (`ClaimsAreOwn`). The
invariant is only that the schema stays what was parsed.

*Wire format.* The two encoders have nothing in common but the columns: one appends and notes where it
is, the other computes all offsets first and lets tasks write, part by part, into memory that nobody
has initialized. The proof compares them byte by byte, from the bottom up. The community modules' folds
give nothing to a prover, so `InTurn` and `InPlace` first say what `FlattenSeq` is, element by element:
the k-th sequence is where the lengths before it end. Then: the numbers of the parts are those of the
column (`EightsOfParts`), so are the ends of texts if each part's are shifted by the characters before
it (`FoursOfParts`, `FoursConcat`), and so the copies of a task write the places of its column, each
once, with the column's bytes (`Writes`, `WritesBlocks`, `ColumnWrites`). `PutLinesUp` is the induction
over the columns: after n of them the appending encoder's end, padding included, is the other's
(`EncodersLineUp`), which makes the entries of the directory equal (`LayoutsAgree`) and the serial
buffer a list of buffers with zeros in between (`PutIsWhole`). The places of different columns are
apart because the ends only grow. The invariant, `CodecInv`, is then short: outside of the places of the
columns the buffer is already the serial encoder's, and a byte of a place is so too or a pending copy
of its column covers it (`Filling`). Neither property is inductive alone: that writes are disjoint says
nothing of which bytes they are, and that the result is right at the end nothing of the way there.

*Pool.* `PoolInv` adds to the two properties that a scan which must open connections of its own has
emptied the pool, so that what the pool may still receive is what the background thread has yet to
open; without it the bound is not inductive.

*Ranges.* The wrapping arithmetic is exact while its results fit (`WrapExact`, `BoundsExact`, which
also needs at least as many rowids as workers: with a step of 0 the first bound could wrap), and then
the partition follows from the division of the span.

*Scan.* `SafeScanMatchesSerial` speaks of the moment of the answer only, so `ScanInv` says what leads to it
as long as nobody has written since the scan began: the endpoints read are those of the table, the
ranges are computed from them, and the chunk of each worker that is through is `Ascending` of the rowids
in its range. `Ascending` of a finite set of numbers exists and is unique because each number has a
rank, the count of those not above it, which rises with the number and takes each value once
(`RankRises`, `RisingRank`, `RisingExists`, `AscendingIs`); that of a union whose parts lie one above the
other is the concatenation (`AscendingConcat`). That the ranges lie so, `RangesAscend`, and that they
leave nothing out, `RangesPartition`, is where `SpansFit` is needed; `ChunksAreTable` is the induction
over the workers. A scan that falls back answers what the serial one reads, at one moment.

Assumptions are the named ASSUMEs of the modules, evaluated by TLC in a passing run: limits are natural
numbers, the database variants are consistent, PARALLEL_MIN_SPAN is not below the number of threads.
`InstancesAssumption` of `Migrate` says what a parsed schema is (keys of a JSON object are distinct,
references resolve, a foreign key leads from a sequence of columns, every name has its spelling), that
rows have the columns of their table, and that no table is called
`__powder_rebuild_…` after one of the schema. The last the code does not check: it relies on the
prefix, and a table left there under that name, which CREATE TABLE IF NOT EXISTS would accept and the
copy would fill (`Merged`), is outside the theorems. `CodecAssumption` of `PcbCodec` says what
`RecordBatch::try_new` and the builders establish: the columns of a batch have the same number of rows,
and a column's cells are of its type or NULL. Four hypotheses are stated by the theorems and not by
the modules, whose runs also look at what happens without them:

- `NoSilentWrites`: above; `sqlite_partial_batch` and `MCSqliteClient_returning` show what follows without it.
- `OneCaller`: transactions of one client do not overlap; `MCTransaction_concurrent` overlaps two.
- `SpansFit`: no distance between two rowids, and one, is above the largest i64; `MCParallelScan_wide`
  shows what the wrapping arithmetic does to a table for which it is.
- `NoneIsNoDatabase`: the mark for "no transaction" is not itself a database. TLC's model value is not.

Only model-checked:

- Liveness (`CallsReturn`, `QueriesReturn`), which is out of the prover's reach.
- What the serial and the parallel `AdaptiveColumn` end up with, the scanners of `SqlText`, and that the
  decoder of `PcbCodec` gives back what was encoded and refuses every prefix (`RoundTrips`,
  `PrefixesAreRefused`): each is an induction over data of its own, and has not been carried out.
- `OrmFilter` and `OrmEngine`: text within text needs RECURSIVE operators, under which the prover has
  no SMT backend.

## Not modelled

- The recognition of SQL shapes (`split_simple_order_by`, `parse_parallel_shape`, `is_cache_safe`):
  string matching; the models take the outcome as given (a SELECT is cacheable or volatile, a query
  can be split or not).
- `cache_key`, which tags each parameter with its type: a statement of `SqliteClient` stands for a text with
  its parameters, and two of them never have one key. What `is_cache_safe` looks for anywhere in a
  text, comments and names included, is a class of statements (`Volatile`).
- A Python statement whose task was cancelled and which the blocking pool runs later than the next one
  of the client; an `Error` that Java throws inside `execute` itself.
- Collations: the engine sorts text bytewise; a column declared NOCASE is sorted differently by SQLite.
- Transaction control sent through the row-returning calls, which no binding does.
- Mutex poisoning: a panic under a mutex makes every later call return an error.
- The engines written in TypeScript and Python, with their upsert and paginate; `like`, which renders
  as the comparisons do.
- `seed`, which inserts the rows of a file; the parsing of `powder.schema.json`; defaults other than 0.
- The big-endian paths of the codec, offsets beyond 2^24 (and so the wrap of u32 at 4 GiB), the
  readers of the bindings. The branch for an empty buffer in `powder_query` is unreachable: a result
  has at least a header.
- Dollar quoting, backslash escapes and nested comments: lexical rules of one server each. What the
  scanners do with brackets and quoted identifiers they do not know is modelled but excepted by the
  properties, see `SqlText` above.
- The query builders of the bindings: string assembly without state beyond the builder. They join
  filters with AND and do not enclose them (`query.rs:140`), so a filter given as text with an OR in
  it changes what the others mean.
- Connecting to a server and converting its rows: a driver's calls under one mutex.
- Inspection: catalogue queries and their mapping to records, without state.
- Studio, assistant, scaffolding, code generation but for relations, argument handling: I/O and text.

## Plan

The modules of the plan are written, and of seven of them the safety properties are proved, but for those
listed above. What is left, in this order:

1. `PcbCodec`: `RoundTrips`, from `LayoutsAgree`: the decoder reads each buffer at the offset of its
   directory entry, and what a place holds is already proved.
2. `AdaptiveColumn`: that cutting rows into ranges does not change their class, a property of sets of
   classes, before anything about values.
3. `SqlText`: that a slot of `compile_named_sql` never exceeds the number of names seen.

A query recognised wrongly and a collation would need a model of SQLite's own grammar and column
declarations, and are left to tests.
