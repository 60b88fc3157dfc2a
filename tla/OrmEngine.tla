----------------------------- MODULE OrmEngine -----------------------------
(***************************************************************************)
(* The ORM engine every binding but TypeScript and Python shares           *)
(* (crates/powder-core/src/orm.rs): operations arrive as JSON objects and  *)
(* become SQL statements over one client, which other users of the         *)
(* database interleave with.  A statement is one step.                     *)
(*                                                                         *)
(* The schema is users(id) and posts(id, user_id -> users.id, live), which *)
(* derives the relations posts.user and users.posts.  The engine keeps no  *)
(* state between operations; while one is under way, `call` holds what its *)
(* future holds across its awaits.                                         *)
(***************************************************************************)
EXTENDS OrmFilter, TLC

CONSTANTS
    UserIds, PostIds,  \* bounds: the rows there may be
    Wheres,            \* the where objects operations carry
    Data,              \* the data objects updates carry
    Batches,           \* the rows arrays of create and createMany
    ChunkSizes,        \* the chunkSize keys of createMany
    MAX_VARS,          \* bound variables a statement may have
    CHUNK,             \* tuples per IN query of an include
    Flavors,           \* SQL dialects of the back end: "lite", "mssql"
    MaxWrites,         \* bound: writes of others during one operation
    None

ASSUME OrmAssumption ==
    /\ UserIds \subseteq Nat /\ PostIds \subseteq Nat
    /\ ChunkSizes \subseteq Nat /\ MAX_VARS \in Nat \ {0} /\ CHUNK \in Nat \ {0}
    /\ Flavors \subseteq {"lite", "mssql"} /\ MaxWrites \in Nat

VARIABLES
    users,   \* the ids of users
    posts,   \* posts: id -> [user_id, live]
    call,    \* the operation under way across awaits, or None
    bound,   \* bound variables of the last statement
    writes,  \* writes of others since the operation began
    start,   \* the database when the operation began: [users, posts]
    last     \* the last operation and what it answered, or None

EmptyWhere == [conds |-> <<>>, and |-> <<>>, or |-> <<>>, not |-> <<>>]

db == <<users, posts>>
vars == <<users, posts, call, bound, writes, start, last>>

Rows(us) == [user_id : us \cup {Null}, live : 0..1]
PostsOver(us) == UNION {[ids -> Rows(us)] : ids \in SUBSET PostIds}

Init ==
    /\ users \in SUBSET UserIds
    /\ posts \in PostsOver(users)
    /\ call = None
    /\ bound = 0
    /\ writes = 0
    /\ start = [users |-> users, posts |-> posts]
    /\ last = None

-----------------------------------------------------------------------------
\* The database.

PostOf(ps, i) == [id |-> i, user_id |-> ps[i].user_id, live |-> ps[i].live]
AllPosts(ps) == {PostOf(ps, i) : i \in DOMAIN ps}

\* A statement fails as a whole when it breaks a key.
KeysHold(us, ps) ==
    /\ \A i \in DOMAIN ps : ps[i].user_id \in us \cup {Null}
    /\ \A i \in DOMAIN ps : ps[i].live \in 0..1

\* Another user of the database commits while an operation is under way.
OthersWrite ==
    /\ call # None
    /\ writes < MaxWrites
    /\ writes' = writes + 1
    /\ \/ \E u \in UserIds \ users : users' = users \cup {u} /\ UNCHANGED posts
       \/ \E u \in users : users' = users \ {u} /\ KeysHold(users', posts) /\ UNCHANGED posts
       \/ \E i \in DOMAIN posts, u \in users \cup {Null} :
            posts' = [posts EXCEPT ![i].user_id = u] /\ UNCHANGED users
       \/ \E i \in DOMAIN posts :
            posts' = [j \in DOMAIN posts \ {i} |-> posts[j]] /\ UNCHANGED users
    /\ UNCHANGED <<call, bound, start, last>>

-----------------------------------------------------------------------------
\* Operations of one statement.  Each begins and ends in its step.

Begin ==
    /\ call = None /\ last = None
    /\ UNCHANGED <<writes, start>>

Answer(answer) == last' = answer

\* The rows of posts that the rendered where lets through.
Matching(w) == LET text == RenderGroup(w) IN {p \in AllPosts(posts) : Selects(text, p)}

\* Keys of `data` that are columns: relation names are skipped.
ColumnKeys(data) == DOMAIN data \ {"user"}

Count(w) ==
    /\ Begin
    /\ Answer([op |-> "count", where |-> w, ok |-> ~Refused(w),
               n |-> IF Refused(w) THEN 0 ELSE Cardinality(Matching(w))])
    /\ UNCHANGED <<db, call, bound>>

\* Runs with an empty where clause too.
DeleteUnguarded(w) ==
    /\ Begin
    /\ LET hit == {p.id : p \in Matching(w)}
           ok == ~Refused(w)
       IN /\ posts' = IF ok THEN [i \in DOMAIN posts \ hit |-> posts[i]] ELSE posts
          /\ Answer([op |-> "delete", where |-> w, ok |-> ok,
                     n |-> IF ok THEN Cardinality(hit) ELSE 0])
    /\ UNCHANGED <<users, call, bound>>

\* delete() requires a where clause that renders to something.
Delete(w) ==
    /\ Begin
    /\ LET ok == ~Refused(w) /\ RenderGroup(w) # <<>>
           hit == IF ok THEN {p.id : p \in Matching(w)} ELSE {}
       IN /\ posts' = [i \in DOMAIN posts \ hit |-> posts[i]]
          /\ Answer([op |-> "delete", where |-> w, ok |-> ok, n |-> Cardinality(hit)])
    /\ UNCHANGED <<users, call, bound>>

DeleteAll ==
    /\ Begin
    /\ posts' = [i \in {} |-> None]
    /\ Answer([op |-> "deleteAll", ok |-> TRUE, n |-> Cardinality(DOMAIN posts)])
    /\ UNCHANGED <<users, call, bound>>

\* Data without a column is answered 0, whatever the where; an unknown column
\* in either is refused.
Update(w, data) ==
    /\ Begin
    /\ LET keys == ColumnKeys(data)
           known == keys \subseteq DOMAIN ColumnType /\ ~Refused(w)
           hit == IF known /\ keys # {} THEN {p.id : p \in Matching(w)} ELSE {}
           Set(row) == [k \in DOMAIN row |->
                          IF k \in keys THEN Coerce(ColumnType[k], data[k]) ELSE row[k]]
           new == [i \in DOMAIN posts |-> IF i \in hit THEN Set(posts[i]) ELSE posts[i]]
           ok == keys = {} \/ (known /\ KeysHold(users, new))
       IN /\ posts' = IF ok THEN new ELSE posts
          /\ Answer([op |-> "update", where |-> w, data |-> data, ok |-> ok,
                     n |-> IF ok THEN Cardinality(hit) ELSE 0])
    /\ UNCHANGED <<users, call, bound>>

\* The sum over no rows is NULL.
SumOf(col, rows) ==
    IF rows = {} THEN Null ELSE FoldSet(LAMBDA p, s : p[col] + s, 0, rows)

\* aggregate(); of the functions, sum and max.
Aggregate(fn, col, w) ==
    /\ Begin
    /\ LET rows == Matching(w)
       IN Answer([op |-> "aggregate", where |-> w, fn |-> fn, col |-> col,
                  ok |-> ~Refused(w),
                  v |-> IF Refused(w) \/ rows = {} THEN Null
                        ELSE IF fn = "sum" THEN SumOf(col, rows)
                        ELSE Max({p[col] : p \in rows})])
    /\ UNCHANGED <<db, call, bound>>

\* What HAVING compares with: the value, coerced to the type of the column
\* under the aggregate, which sum keeps.
HavingArg(alias, v) ==
    CASE alias = "_count" -> v
      [] alias = "_sum_id" -> Coerce(ColumnType["id"], v)
      [] alias = "_sum_live" -> Coerce(ColumnType["live"], v)

AggregateOf(alias, rows) ==
    CASE alias = "_count" -> Cardinality(rows)
      [] alias = "_sum_id" -> SumOf("id", rows)
      [] alias = "_sum_live" -> SumOf("live", rows)

\* group_by() with one column and at most one HAVING condition.
GroupBy(by, w, having) ==
    /\ Begin
    /\ LET groups == {{p \in Matching(w) : p[by] = k} : k \in {p[by] : p \in Matching(w)}}
           Passes(g) == \A h \in ToSet(having) :
               Compares(h.op, AggregateOf(h.alias, g), HavingArg(h.alias, h.arg))
       IN Answer([op |-> "groupBy", by |-> by, where |-> w, having |-> having,
                  ok |-> ~Refused(w),
                  groups |-> IF Refused(w) THEN {}
                             ELSE {[key |-> (CHOOSE p \in g : TRUE)[by],
                                    _count |-> Cardinality(g), _sum_id |-> SumOf("id", g)] :
                                   g \in {h \in groups : Passes(h)}}])
    /\ UNCHANGED <<db, call, bound>>

-----------------------------------------------------------------------------
\* create and createMany.

\* Rows per INSERT.
ChunkSize(size, keys) == Min({Max({size, 1}), Max({MAX_VARS \div keys, 1})})

\* The shape is that of the first row.
CreateMany(rows, size) ==
    /\ Begin
    /\ LET keys == ColumnKeys(rows[1])
       IN IF keys # {} /\ keys \subseteq DOMAIN ColumnType
          THEN /\ call' = [op |-> "createMany", rows |-> rows, keys |-> keys, done |-> 0,
                           size |-> ChunkSize(size, Cardinality(keys)), affected |-> 0]
               /\ UNCHANGED last
          ELSE /\ Answer([op |-> "createMany", rows |-> rows, size |-> 0, ok |-> FALSE,
                          affected |-> 0])
               /\ UNCHANGED call
    /\ UNCHANGED <<db, bound>>

Chunk == SubSeq(call.rows, call.done + 1,
                Min({call.done + call.size, Len(call.rows)}))

Created(ok, affected) ==
    /\ Answer([op |-> "createMany", rows |-> call.rows, size |-> call.size, ok |-> ok,
               affected |-> affected])
    /\ call' = None

\* Only a column that row 0 does not have is noticed.
SubsetShape(row) == ColumnKeys(row) \subseteq call.keys

SameShape(row) == ColumnKeys(row) = call.keys

\* A row of the chunk whose columns are not those of row 0.
RejectChunk ==
    /\ call # None /\ call.op = "createMany"
    /\ \E r \in ToSet(Chunk) : ~SameShape(r)
    /\ Created(FALSE, 0)
    /\ UNCHANGED <<db, bound, writes, start>>

\* What the INSERT would leave; a column it does not name is NULL.
Inserted ==
    LET Value(row, k) == IF k \in ColumnKeys(row) THEN Coerce(ColumnType[k], row[k]) ELSE Null
        At(i) == CHOOSE r \in ToSet(Chunk) : r.id = i
    IN [i \in DOMAIN posts \cup {r.id : r \in ToSet(Chunk)} |->
          IF i \in DOMAIN posts THEN posts[i]
          ELSE [user_id |-> Value(At(i), "user_id"), live |-> Value(At(i), "live")]]

Insertable ==
    /\ \A m, n \in DOMAIN Chunk : Chunk[m].id = Chunk[n].id => m = n
    /\ \A r \in ToSet(Chunk) : r.id \notin DOMAIN posts
    /\ KeysHold(users, Inserted)

\* One INSERT of all rows of the chunk, which is refused or takes effect.
InsertChunk ==
    /\ call # None /\ call.op = "createMany"
    /\ \A r \in ToSet(Chunk) : SameShape(r)
    /\ bound' = Len(Chunk) * Cardinality(call.keys)
    /\ IF Insertable
       THEN LET done == call.done + Len(Chunk)
                affected == call.affected + Len(Chunk)
            IN /\ posts' = Inserted
               /\ IF done = Len(call.rows)
                  THEN Created(TRUE, affected)
                  ELSE /\ call' = [call EXCEPT !.done = done, !.affected = affected]
                       /\ UNCHANGED last
       ELSE Created(FALSE, 0) /\ UNCHANGED posts
    /\ UNCHANGED <<users, writes, start>>

-----------------------------------------------------------------------------
\* findMany and findFirst.

\* LIMIT applied before OFFSET.
WindowsLimitFirst(rows, tail) ==
    LET Skip == IF tail.offset = None THEN 0 ELSE tail.offset
        After(s) == SubSeq(s, Skip + 1, Len(s))
        Limited(s) == IF tail.limit = None THEN s ELSE SubSeq(s, 1, Min({tail.limit, Len(s)}))
        Orders == IF tail.ordered
                  THEN {SetToSortSeq(rows, LAMBDA p, q : p.id < q.id)}
                  ELSE SetToSeqs(rows)
    IN {ToSet(After(Limited(s))) : s \in Orders}

\* compile_tail: the rows a statement returns of those that match, by id if
\* orderBy is given, in any order if not; or a refusal.
Windows(rows, tail) ==
    LET Skip == IF tail.offset = None THEN 0 ELSE tail.offset
        After(s) == SubSeq(s, Skip + 1, Len(s))
        Limited(s) == IF tail.limit = None THEN s ELSE SubSeq(s, 1, Min({tail.limit, Len(s)}))
        Orders == IF tail.ordered
                  THEN {SetToSortSeq(rows, LAMBDA p, q : p.id < q.id)}
                  ELSE SetToSeqs(rows)
    IN {ToSet(Limited(After(s))) : s \in Orders}

\* SQL Server wants orderBy for an offset; elsewhere OFFSET without LIMIT is a
\* syntax error.
TailAccepted(tail, flavor) ==
    tail.offset = None \/ IF flavor = "mssql" THEN tail.ordered ELSE tail.limit # None

\* Relations: the table they lead to, the local key and the foreign key.
Target(rel) == IF rel = "user" THEN "users" ELSE "posts"
LocalKey(rel, row) == IF rel = "user" THEN row.user_id ELSE row.id
ForeignKey(rel, row) == IF rel = "user" THEN row.id ELSE row.user_id

TableRows(us, ps, table) ==
    IF table = "users" THEN {[id |-> u] : u \in us} ELSE AllPosts(ps)

\* The distinct keys an include still has to load, none of them null.
Keys(rel, rows) == {LocalKey(rel, r) : r \in rows} \ {Null}

\* The target rows of one row.
Related(rel, row, targets) ==
    {t \in targets : LocalKey(rel, row) # Null /\ ForeignKey(rel, t) = LocalKey(rel, row)}

\* The rows with their relations attached, along a path of nested includes
\* over the rows loaded at each level.
RECURSIVE Attached(_, _)
Attached(path, levels) ==
    IF path = <<>> THEN {[row |-> r] : r \in levels[1]}
    ELSE {[row |-> r, related |->
             {a \in Attached(Tail(path), Tail(levels)) :
                a.row \in Related(Head(path), r, levels[2])}] : r \in levels[1]}

\* The first read; without an include it is the only one.
Find(table, path, w, tail, flavor) ==
    /\ Begin
    /\ LET op == [op |-> "find", table |-> table, where |-> w, path |-> path, tail |-> tail]
           source == IF table = "posts" THEN Matching(w) ELSE TableRows(users, posts, "users")
       IN IF Refused(w) \/ ~TailAccepted(tail, flavor)
          THEN Answer(op @@ [ok |-> FALSE, rows |-> {}]) /\ UNCHANGED call
          ELSE \E rows \in Windows(source, tail) :
                 IF path = <<>>
                 THEN Answer(op @@ [ok |-> TRUE, rows |-> {[row |-> r] : r \in rows}])
                      /\ UNCHANGED call
                 ELSE /\ call' = op @@ [levels |-> <<rows>>, loaded |-> {},
                                        left |-> Keys(path[1], rows)]
                      /\ UNCHANGED last
    /\ UNCHANGED <<db, bound>>

Depth == Len(call.levels)

\* The first chunk only.
LoadOneChunk ==
    /\ call # None /\ call.op = "find" /\ call.left # {}
    /\ \E keys \in kSubset(Min({CHUNK, Cardinality(call.left)}), call.left) :
         LET rel == call.path[Depth]
             found == {t \in TableRows(users, posts, Target(rel)) : ForeignKey(rel, t) \in keys}
         IN call' = [call EXCEPT !.loaded = @ \cup found, !.left = {}]
    /\ bound' = Min({CHUNK, Cardinality(call.left)})
    /\ UNCHANGED <<db, writes, start, last>>

\* One IN query for the next CHUNK keys.
LoadChunk ==
    /\ call # None /\ call.op = "find" /\ call.left # {}
    /\ \E keys \in kSubset(Min({CHUNK, Cardinality(call.left)}), call.left) :
         LET rel == call.path[Depth]
             found == {t \in TableRows(users, posts, Target(rel)) : ForeignKey(rel, t) \in keys}
         IN call' = [call EXCEPT !.loaded = @ \cup found, !.left = @ \ keys]
    /\ bound' = Min({CHUNK, Cardinality(call.left)})
    /\ UNCHANGED <<db, writes, start, last>>

\* A level is loaded; a nested include goes on from its rows, if there are any.
NextLevel ==
    /\ call # None /\ call.op = "find" /\ call.left = {}
    /\ Depth < Len(call.path) /\ call.loaded # {}
    /\ call' = [call EXCEPT !.levels = Append(@, call.loaded), !.loaded = {},
                            !.left = Keys(call.path[Depth + 1], call.loaded)]
    /\ UNCHANGED <<db, bound, writes, start, last>>

\* All levels are loaded: the relations are attached and the rows returned.
Attach ==
    /\ call # None /\ call.op = "find" /\ call.left = {}
    /\ Depth >= Len(call.path) \/ call.loaded = {}
    /\ LET levels == Append(call.levels, call.loaded)
           path == SubSeq(call.path, 1, Depth)
       IN Answer([op |-> "find", table |-> call.table, where |-> call.where,
                  path |-> call.path, tail |-> call.tail, ok |-> TRUE,
                  rows |-> Attached(path, levels)])
    /\ call' = None
    /\ UNCHANGED <<db, bound, writes, start>>

\* join: { user: true }, one LEFT JOIN; a miss leaves the relation null.
Joined(us, ps) ==
    {[row |-> p, related |-> Related("user", p, TableRows(us, ps, "users"))] : p \in AllPosts(ps)}

\* A join of a hasMany relation is refused.
FindJoined(rel) ==
    /\ Begin
    /\ Answer([op |-> "join", ok |-> rel = "user",
               rows |-> IF rel = "user" THEN Joined(users, posts) ELSE {}])
    /\ UNCHANGED <<db, call, bound>>

-----------------------------------------------------------------------------
\* The answer has been returned; the engine keeps nothing of the operation.
Return ==
    /\ last # None
    /\ last' = None /\ bound' = 0 /\ writes' = 0
    /\ start' = [users |-> users, posts |-> posts]
    /\ UNCHANGED <<db, call>>

\* The instance's tails: what orderBy, limit and offset may be.
Tails == [ordered : BOOLEAN, limit : {None, 1}, offset : {None, 1}]
NoTail == [ordered |-> FALSE, limit |-> None, offset |-> None]
FirstTail == [ordered |-> FALSE, limit |-> 1, offset |-> None]

Paths == {<<"posts", <<>>>>, <<"posts", <<"user">>>>, <<"posts", <<"user", "posts">>>>,
          <<"users", <<"posts">>>>, <<"users", <<"posts", "user">>>>}

Havings == {<<>>} \cup
    {<<[alias |-> a, op |-> o, arg |-> v]>> :
       a \in {"_count", "_sum_id", "_sum_live"}, o \in {"gte", "eq"}, v \in 1..2}

\* execute: the operations that answer a count.
Execute ==
    \/ \E w \in Wheres : Count(w) \/ Delete(w) \/ \E d \in Data : Update(w, d)
    \/ DeleteAll
    \/ \E rows \in Batches, size \in ChunkSizes : CreateMany(rows, size)
    \/ RejectChunk \/ InsertChunk

\* find_json: the operations that answer rows.
FindJson ==
    \/ \E w \in Wheres :
         \/ Aggregate("sum", "id", w)
         \/ \E by \in {"user_id", "live"} : GroupBy(by, w, <<>>)
         \/ Find("posts", <<>>, w, FirstTail, "lite")
    \/ Aggregate("max", "id", EmptyWhere)
    \/ \E by \in {"user_id", "live"}, h \in Havings : GroupBy(by, EmptyWhere, h)
    \/ \E p \in Paths : Find(p[1], p[2], EmptyWhere, NoTail, "lite")
    \/ \E t \in Tails, f \in Flavors : Find("posts", <<"user">>, EmptyWhere, t, f)
    \/ LoadChunk \/ NextLevel \/ Attach
    \/ \E rel \in {"user", "posts"} : FindJoined(rel)

Next == Execute \/ FindJson \/ OthersWrite \/ Return

Spec == Init /\ [][Next]_vars

-----------------------------------------------------------------------------
\* The types of the variables.
TypeOK ==
    /\ users \subseteq UserIds
    /\ posts \in PostsOver(users)
    /\ bound \in Nat /\ writes \in 0..MaxWrites
    /\ start.users \subseteq UserIds /\ start.posts \in PostsOver(start.users)
    /\ call # None => last = None

\* The rows a where object means: all of them if it says nothing.
Meant(w, ps) == {p \in AllPosts(ps) : Says(w) => Meaning(w, p) = 2}

\* An operation that was answered, and not refused.
Answered(ops) == last # None /\ last.op \in ops /\ last.ok

\* update and delete change the rows their where object means and no others,
\* and say how many; delete never runs without a condition, and an operation
\* that is refused changes nothing.
MutationsHitTheirRows ==
    [][last' # None /\ last'.op \in {"update", "delete"} /\ <<last, posts>>' # <<last, posts>> =>
        LET hit == {p.id : p \in Meant(last'.where, posts)}
        IN IF ~last'.ok \/ (last'.op = "update" /\ ColumnKeys(last'.data) = {})
           THEN posts' = posts /\ last'.n = 0
           ELSE IF last'.op = "delete"
           THEN /\ Says(last'.where) /\ last'.n = Cardinality(hit)
                /\ posts' = [i \in DOMAIN posts \ hit |-> posts[i]]
           ELSE LET cols == DOMAIN last'.data \cap {"user_id", "live"}
                IN /\ last'.n = Cardinality(hit)
                   /\ posts' = [i \in DOMAIN posts |->
                        IF i \in hit
                        THEN [k \in DOMAIN posts[i] |->
                                IF k \in cols THEN last'.data[k] ELSE posts[i][k]]
                        ELSE posts[i]]]_vars

Total(S) == FoldSet(LAMBDA g, n : g + n, 0, S)

\* groupBy returns exactly the groups whose aggregates satisfy HAVING as the
\* caller wrote it.
HavingHolds(g, h) == Compares(h.op, AggregateOf(h.alias, g), h.arg)
HavingAsWritten ==
    Answered({"groupBy"}) =>
      LET rows == Meant(last.where, posts)
          Of(k) == {p \in rows : p[last.by] = k}
      IN {g.key : g \in last.groups} =
           {k \in {p[last.by] : p \in rows} : \A h \in ToSet(last.having) : HavingHolds(Of(k), h)}

\* The four ways to read agree on one where object: count counts, aggregate and
\* groupBy add up, and findFirst finds among, the rows it means; groupBy keeps
\* the groups that satisfy HAVING as written, except for a sum of booleans.
ReadsAgree ==
    Answered({"count", "aggregate", "groupBy", "find"}) /\ writes = 0 =>
      LET rows == Meant(last.where, posts)
          ids == {p.id : p \in rows}
      IN CASE last.op = "count" -> last.n = Cardinality(rows)
           [] last.op = "aggregate" ->
                last.v = IF rows = {} THEN Null
                         ELSE IF last.fn = "sum" THEN Total(ids) ELSE Max(ids)
           [] last.op = "groupBy" ->
                /\ (\A h \in ToSet(last.having) : h.alias # "_sum_live") => HavingAsWritten
                /\ last.having = <<>> =>
                     /\ MapThenSumSet(LAMBDA g : g._count, last.groups) = Cardinality(rows)
                     /\ MapThenSumSet(LAMBDA g : g._sum_id, last.groups) = Total(ids)
           [] last.op = "find" ->
                last.table = "posts" /\ last.tail = FirstTail =>
                  /\ {r.row : r \in last.rows} \subseteq rows
                  /\ Cardinality(last.rows) = Min({1, Cardinality(rows)})

\* createMany inserts whole chunks, from the first row on: all of them exactly
\* if it succeeds, which it does only for rows of one shape, and nothing if it
\* fails on rows that fit in one chunk; and no statement binds more variables
\* than SQLite takes ("Stay safely under SQLite's default bound-variable
\* ceiling", orm.rs:609-613).
CreateManyByChunks ==
    /\ bound <= MAX_VARS
    /\ last # None /\ last.op = "createMany" /\ writes = 0 =>
      LET k == Cardinality(DOMAIN posts) - Cardinality(DOMAIN start.posts)
          n == Len(last.rows)
          made == {last.rows[i] : i \in 1..k}
      IN /\ k \in 0..n
         /\ \A i \in DOMAIN start.posts : i \in DOMAIN posts /\ posts[i] = start.posts[i]
         /\ \A r \in made : r.id \in DOMAIN posts \ DOMAIN start.posts
         /\ last.ok <=> k = n
         /\ last.affected = IF last.ok THEN n ELSE 0
         /\ last.ok => \A r \in made : ColumnKeys(r) = ColumnKeys(last.rows[1])
         /\ k = n \/ (IF last.size = 0 THEN k = 0 ELSE k % last.size = 0)

\* The rows a relation leads to, according to the join.
Partners(rel, row) ==
    LET joined == Joined(start.users, start.posts)
    IN IF rel = "user" THEN UNION {j.related : j \in {k \in joined : k.row = row}}
       ELSE {j.row : j \in {k \in joined : row \in k.related}}

RECURSIVE Expected(_, _)
Expected(path, row) ==
    IF path = <<>> THEN [row |-> row]
    ELSE [row |-> row,
          related |-> {Expected(Tail(path), t) : t \in Partners(Head(path), row)}]

\* An include, however many queries it takes, attaches what one join would have,
\* at every level, unless others wrote in between; also to a page of the rows.
QuietIncludeIsJoin ==
    Answered({"find"}) /\ writes = 0 =>
        \A r \in last.rows : r = Expected(last.path, r.row)

\* A page holds as many rows as were asked for and are there and, when they are
\* ordered, exactly those, on either dialect.
PagesAreSlices ==
    Answered({"find"}) /\ writes = 0 =>
      LET all == IF last.table = "posts" THEN Meant(last.where, posts)
                 ELSE TableRows(users, posts, "users")
          first == IF last.tail.offset = None THEN 0 ELSE last.tail.offset
          count == IF last.tail.limit = None THEN Cardinality(all) ELSE last.tail.limit
          Rank(r) == Cardinality({p \in all : p.id < r.id})
          page == {r \in all : Rank(r) \in first..(first + count - 1)}
          got == {r.row : r \in last.rows}
      IN /\ got \subseteq all /\ Cardinality(got) = Cardinality(page)
         /\ last.tail.ordered => got = page

\* An operator the engine does not know is refused, as in the Python ORM.
RECURSIVE KnownOperators(_)
KnownOperators(g) ==
    /\ \A c \in ToSet(g.conds) : c.op \in OPS
    /\ \A s \in ToSet(g.and) \cup ToSet(g.not) \cup UNION {ToSet(l) : l \in ToSet(g.or)} :
         KnownOperators(s)
UnknownOperatorsRefused ==
    Answered({"update", "delete", "count"}) => KnownOperators(last.where)
=============================================================================
