------------------------------ MODULE Migrate ------------------------------
(***************************************************************************)
(* powder migrate, migrate --rebuild and validate (crates/powder-cli/src/  *)
(* db.rs) against a live database.  Statements of the additive pass commit *)
(* one by one; the rebuild of a table is a transaction.  The process may   *)
(* die at any point and be run again; the application inserts rows         *)
(* meanwhile.  Every statement is a step.                                  *)
(*                                                                         *)
(* `catalog` maps a table's name to its shape [cols, fks], `rows` to its   *)
(* rows: row -> column -> value.  Both are what the migrating connection   *)
(* sees; while its transaction is open, `saved` is what everyone else      *)
(* sees, and what a rollback restores.                                     *)
(***************************************************************************)
EXTENDS Schema

CONSTANTS
    Instances,   \* per instance: [dialect, schema, catalog, rows]
    RowIds,      \* bound: the rows there may be
    Faults,      \* whether the statements of a rebuild may fail
    MaxRuns,     \* bound: runs of the tool
    Null, None

\* How a run may end.
Results == {"ok", "primary key", "duplicate column", "reference on rows", "key on text",
            "no parent", "sqlite only", "keys collide", "null refused",
            "statement failed", "busy", "crash"}

ASSUME MigrateAssumption ==
    /\ Faults \in BOOLEAN /\ MaxRuns \in Nat
    /\ Null \notin Nat /\ None \notin Results
    /\ \A i \in Instances : ReferencesResolve(i.schema)

\* The table a rebuild fills before it takes the place of `t`.
Tmp(t) == "__powder_rebuild_" \o t

\* The schema has been parsed: its tables and columns were the keys of JSON
\* objects, and every name has its spelling.  No table, of the schema or of the
\* database, has the name of a rebuild's.  The rows of a table have its columns.
ASSUME InstancesAssumption ==
    \A i \in Instances :
        /\ i.dialect \in Dialects
        /\ i.schema \in Seq(ToSet(i.schema)) /\ IsInjective(Names(i.schema))
        /\ \A t \in ToSet(i.schema) :
             /\ t.columns \in Seq(ToSet(t.columns)) /\ IsInjective(Names(t.columns))
             /\ t.keys \in Seq(ToSet(t.keys))
             /\ \A k \in ToSet(t.keys) : k.from \in Seq(ToSet(k.from))
             /\ Spelling[t.name] \in Seq(STRING)
             /\ \A c \in ToSet(t.columns) :
                  /\ c.type \in {"int", "float", "text", "bool"} /\ c.nullable \in BOOLEAN /\ c.pk \in BOOLEAN
                  /\ Spelling[c.name] \in Seq(STRING)
             /\ Tmp(t.name) \notin ToSet(Names(i.schema)) \cup DOMAIN i.catalog
        /\ DOMAIN i.rows = DOMAIN i.catalog
        /\ \A n \in DOMAIN i.catalog :
             /\ i.catalog[n].cols \in Seq(ToSet(i.catalog[n].cols))
             /\ i.catalog[n].fks \in Seq(ToSet(i.catalog[n].fks))
             /\ \A r \in DOMAIN i.rows[n] : DOMAIN i.rows[n][r] = Columns(i.catalog[n])

VARIABLES
    dialect, schema,  \* the back end, and powder.schema.json
    catalog, rows,    \* the database as the connection sees it
    saved,            \* the committed database during a transaction, or None
    foreignKeys,      \* PRAGMA foreign_keys of the connection
    pc,               \* where the run is
    rebuild,          \* whether it was given --rebuild
    todo,             \* the tables left, in order
    existing,         \* the shape of the table as it was read, or None
    plan,             \* what --dry-run said at the start of the run
    applied,          \* the additive steps of the run so far
    result,           \* how it ended, or None
    runs              \* runs so far

vars == <<dialect, schema, catalog, rows, saved, foreignKeys, pc, rebuild, todo,
          existing, plan, applied, result, runs>>
database == <<catalog, rows>>
run == <<foreignKeys, pc, rebuild, todo, existing, plan, applied, result, runs>>

Init ==
    \E i \in Instances :
        /\ dialect = i.dialect /\ schema = i.schema
        /\ catalog = i.catalog /\ rows = i.rows
        /\ saved = None /\ foreignKeys = TRUE
        /\ pc = "done" /\ rebuild = FALSE /\ todo = <<>> /\ existing = None
        /\ plan = <<>> /\ applied = <<>> /\ result = None /\ runs = 0

Shape(t) == IF t \in DOMAIN catalog THEN catalog[t] ELSE None

\* What every other connection sees.
Committed == IF saved = None THEN [catalog |-> catalog, rows |-> rows] ELSE saved

-----------------------------------------------------------------------------
\* The database.

Default == 0

\* The tables a new shape refers to are there; SQLite does not ask.
ParentsThere(fks, name) ==
    dialect = "sqlite"
    \/ \A fk \in ToSet(fks) : fk.table \in DOMAIN catalog \cup {name}

\* What makes ADD COLUMN fail: a column of the name; rows that would all refer
\* to a default no parent has; a key on MySQL's bare TEXT.
AddFails(t, col) ==
    IF col.name \in Columns(catalog[t]) THEN "duplicate column"
    ELSE IF col.ref = <<>> THEN None
    ELSE IF dialect = "mysql" /\ col.type = "text" THEN "key on text"
    ELSE IF ~col.nullable /\ rows[t] # <<>> /\ foreignKeys THEN "reference on rows"
    ELSE IF ~ParentsThere(<<[table |-> col.ref[1]]>>, t) THEN "no parent"
    ELSE None

Without(f, x) == [y \in DOMAIN f \ {x} |-> f[y]]
With(f, x, v) == [y \in DOMAIN f \cup {x} |-> IF y = x THEN v ELSE f[y]]
Merged(f, g) == [y \in DOMAIN f \cup DOMAIN g |-> IF y \in DOMAIN f THEN f[y] ELSE g[y]]

-----------------------------------------------------------------------------
\* The additive pass.

\* The dry run goes by the tables alone.
PlanTables(tables) ==
    LET order == SelectSeq(DependencyOrder(schema), LAMBDA t : t.name \notin DOMAIN tables)
    IN [i \in DOMAIN order |-> <<"create", order[i].name>>]

GaveUp(steps) == steps # <<>> /\ Last(steps)[1] = "give up"

\* The steps so far, after each of a table's columns.
ColumnSteps(table, shape, steps) ==
    LET g[j \in 0..Len(table.columns)] ==
          IF j = 0 THEN steps
          ELSE LET col == table.columns[j]
               IN IF col.name \in Columns(shape) \/ GaveUp(g[j - 1]) THEN g[j - 1]
                  ELSE Append(g[j - 1], <<IF col.pk THEN "give up" ELSE "add", table.name, col.name>>)
    IN g

\* The steps so far, after each of the tables.
TableSteps(order, tables) ==
    LET f[i \in 0..Len(order)] ==
          IF i = 0 THEN <<>>
          ELSE LET t == order[i]
               IN IF GaveUp(f[i - 1]) THEN f[i - 1]
                  ELSE IF t.name \notin DOMAIN tables THEN Append(f[i - 1], <<"create", t.name>>)
                  ELSE ColumnSteps(t, tables[t.name], f[i - 1])[Len(t.columns)]
    IN f

\* migrate_plan: what the pass would do, up to where it would give up.
Plan(tables) ==
    LET order == DependencyOrder(schema)
    IN TableSteps(order, tables)[Len(order)]

\* powder migrate opens a connection and starts.
Start(r) ==
    /\ pc = "done"
    /\ runs < MaxRuns
    /\ runs' = runs + 1
    /\ IF saved = None THEN UNCHANGED <<database, saved>>
       ELSE /\ catalog' = saved.catalog /\ rows' = saved.rows  \* the last connection is gone
            /\ saved' = None
    /\ foreignKeys' = TRUE
    /\ pc' = "additive" /\ rebuild' = r /\ todo' = DependencyOrder(schema)
    /\ existing' = None /\ applied' = <<>> /\ result' = None
    /\ plan' = Plan(Committed.catalog)
    /\ UNCHANGED <<dialect, schema>>

Finish(r) == pc' = "done" /\ result' = r

\* The columns of the next table are read; if there are none it is created.
ReadTable ==
    /\ pc = "additive" /\ existing = None /\ todo # <<>>
    /\ IF todo[1].name \in DOMAIN catalog
       THEN /\ existing' = catalog[todo[1].name]
            /\ UNCHANGED <<database, pc, todo, applied, result>>
       ELSE LET shape == CreateTable(dialect, todo[1])
            IN IF ParentsThere(shape.fks, todo[1].name)
               THEN /\ catalog' = With(catalog, todo[1].name, shape)
                    /\ rows' = With(rows, todo[1].name, <<>>)
                    /\ applied' = Append(applied, <<"create", todo[1].name>>)
                    /\ todo' = Tail(todo)
                    /\ UNCHANGED <<existing, pc, result>>
               ELSE Finish("no parent") /\ UNCHANGED <<database, existing, applied, todo>>
    /\ UNCHANGED <<dialect, schema, saved, foreignKeys, rebuild, plan, runs>>

\* The columns the table lacks, by what was read of it, not by what was added.
Lacking ==
    LET t == todo[1]
    IN Filtered(t.columns, {i \in DOMAIN t.columns :
                              /\ t.columns[i].name \notin Columns(existing)
                              /\ <<"add", t.name, t.columns[i].name>> \notin ToSet(applied)})

\* One missing column is added, or the run gives up.
AddMissing ==
    /\ pc = "additive" /\ existing # None /\ Lacking # <<>>
    /\ LET t == todo[1].name
           col == Lacking[1]
           failed == IF col.pk THEN "primary key" ELSE AddFails(t, col)
       IN IF failed # None
          THEN /\ applied' = IF col.pk THEN Append(applied, <<"give up", t, col.name>>) ELSE applied
               /\ Finish(failed) /\ UNCHANGED database
          ELSE /\ catalog' = [catalog EXCEPT ![t] = AddColumn(dialect, @, col)]
               /\ rows' = [rows EXCEPT ![t] =
                    [r \in DOMAIN @ |-> With(@[r], col.name, IF col.nullable THEN Null ELSE Default)]]
               /\ applied' = Append(applied, <<"add", t, col.name>>)
               /\ UNCHANGED <<pc, result>>
    /\ UNCHANGED <<dialect, schema, saved, foreignKeys, rebuild, todo, existing, plan,
                   runs>>

NextTable ==
    /\ pc = "additive" /\ existing # None /\ Lacking = <<>>
    /\ todo' = Tail(todo) /\ existing' = None
    /\ UNCHANGED <<dialect, schema, database, saved, foreignKeys, pc, rebuild, plan,
                   applied, result, runs>>

\* The end of migrate; --rebuild is for SQLite alone and goes on from here,
\* with foreign keys off.
AdditiveDone ==
    /\ pc = "additive" /\ todo = <<>>
    /\ IF rebuild /\ dialect = "sqlite"
       THEN /\ pc' = "rebuild" /\ todo' = DependencyOrder(schema)
            /\ foreignKeys' = FALSE
            /\ UNCHANGED result
       ELSE /\ Finish(IF rebuild THEN "sqlite only" ELSE "ok")
            /\ UNCHANGED <<todo, foreignKeys>>
    /\ UNCHANGED <<dialect, schema, database, saved, rebuild, existing, plan, applied,
                   runs>>

-----------------------------------------------------------------------------
\* The rebuild of one table.

Table == todo[1]
Rebuilding(at) == pc = at /\ UNCHANGED <<dialect, schema, rebuild, plan, applied, runs>>

\* A table that is in sync is passed over.
CheckTable ==
    /\ Rebuilding("rebuild") /\ todo # <<>>
    /\ LET shape == Shape(Table.name)
       IN IF ProblemsOf(dialect, Table, shape) = {}
          THEN todo' = Tail(todo) /\ UNCHANGED <<pc, existing>>
          ELSE existing' = shape /\ pc' = "begin" /\ UNCHANGED todo
    /\ UNCHANGED <<database, saved, foreignKeys, result>>

\* BEGIN, and CREATE TABLE IF NOT EXISTS of the new shape under another name.
CreateTmp ==
    /\ Rebuilding("begin")
    /\ saved' = [catalog |-> catalog, rows |-> rows]
    /\ LET tmp == Tmp(Table.name)
       IN IF tmp \in DOMAIN catalog THEN UNCHANGED database
          ELSE /\ catalog' = With(catalog, tmp, CreateTable(dialect, Table))
               /\ rows' = With(rows, tmp, <<>>)
    /\ pc' = "copy"
    /\ UNCHANGED <<foreignKeys, todo, existing, result>>

\* The arms of the match the other way round.
CopiedSwapped(col, row) ==
    IF col.name \notin Columns(existing) THEN Default
    ELSE IF col.nullable /\ row[col.name] = Null THEN Default
    ELSE row[col.name]

\* A column the table had is copied, what must not be NULL with a default.
Copied(col, row) ==
    IF col.name \notin Columns(existing) THEN Default
    ELSE IF ~col.nullable /\ row[col.name] = Null THEN Default
    ELSE row[col.name]

CopyOf(old) ==
    [r \in DOMAIN old |-> [n \in ToSet(Names(Table.columns)) |->
       Copied(CHOOSE c \in Named(Table.columns, n) : TRUE, old[r])]]

\* What the new table's constraints say: two rows with one primary key, or a
\* NULL where none may be.
KeysCollide(new) ==
    LET pk == PrimaryKey(Table)
    IN pk # <<>> /\ \E r, s \in DOMAIN new :
         r # s /\ \A i \in DOMAIN pk : new[r][pk[i].name] = new[s][pk[i].name]
NullRefused(new) ==
    \E r \in DOMAIN new, c \in ToSet(Table.columns) : NotNullSql(Table, c) /\ new[r][c.name] = Null

\* INSERT INTO tmp SELECT ... FROM the table.
CopyRows ==
    /\ Rebuilding("copy")
    /\ LET new == CopyOf(rows[Table.name])
       IN IF KeysCollide(new) \/ NullRefused(new)
          THEN /\ pc' = "rollback" /\ UNCHANGED rows
               /\ result' = IF KeysCollide(new) THEN "keys collide" ELSE "null refused"
          ELSE /\ rows' = [rows EXCEPT ![Tmp(Table.name)] = Merged(new, @)]
               /\ pc' = "drop" /\ UNCHANGED result
    /\ UNCHANGED <<catalog, saved, foreignKeys, todo, existing>>

DropOld ==
    /\ Rebuilding("drop")
    /\ catalog' = Without(catalog, Table.name) /\ rows' = Without(rows, Table.name)
    /\ pc' = "rename"
    /\ UNCHANGED <<saved, foreignKeys, todo, existing, result>>

RenameTmp ==
    /\ Rebuilding("rename")
    /\ LET tmp == Tmp(Table.name)
       IN /\ catalog' = With(Without(catalog, tmp), Table.name, catalog[tmp])
          /\ rows' = With(Without(rows, tmp), Table.name, rows[tmp])
    /\ pc' = "commit"
    /\ UNCHANGED <<saved, foreignKeys, todo, existing, result>>

Commit ==
    /\ Rebuilding("commit")
    /\ saved' = None
    /\ todo' = Tail(todo) /\ existing' = None /\ pc' = "rebuild"
    /\ UNCHANGED <<database, foreignKeys, result>>

\* COMMIT fails on a reader; the error returns with the transaction open.
CommitFails ==
    /\ Rebuilding("commit")
    /\ Faults
    /\ pc' = "restore" /\ result' = "busy"
    /\ UNCHANGED <<database, saved, foreignKeys, todo, existing>>

\* A statement between BEGIN and COMMIT fails: a lock, a full disk, a view on
\* the table that RENAME finds broken.
StepFails ==
    /\ pc \in {"begin", "copy", "drop", "rename"} /\ Rebuilding(pc)
    /\ Faults
    /\ saved' = [catalog |-> Committed.catalog, rows |-> Committed.rows]
    /\ pc' = "rollback" /\ result' = "statement failed"
    /\ UNCHANGED <<database, foreignKeys, todo, existing>>

\* A step failed.
Rollback ==
    /\ Rebuilding("rollback")
    /\ catalog' = saved.catalog /\ rows' = saved.rows /\ saved' = None
    /\ pc' = "restore"
    /\ UNCHANGED <<foreignKeys, todo, existing, result>>

RebuildDone ==
    /\ Rebuilding("rebuild") /\ todo = <<>>
    /\ pc' = "restore" /\ result' = "ok"
    /\ UNCHANGED <<database, saved, foreignKeys, todo, existing>>

\* Only on the way out that succeeded.
RestoreIfOk ==
    /\ Rebuilding("restore")
    /\ foreignKeys' = (result = "ok")
    /\ pc' = "done"
    /\ UNCHANGED <<database, saved, todo, existing, result>>

\* PRAGMA foreign_keys = ON, on every way out; inside a transaction it does
\* nothing.
Restore ==
    /\ Rebuilding("restore")
    /\ foreignKeys' = (saved = None)
    /\ pc' = "done"
    /\ UNCHANGED <<database, saved, todo, existing, result>>

-----------------------------------------------------------------------------
\* The process dies: an open transaction is rolled back.
Crash ==
    /\ pc # "done"
    /\ IF saved = None THEN UNCHANGED database
       ELSE catalog' = saved.catalog /\ rows' = saved.rows
    /\ saved' = None /\ foreignKeys' = TRUE
    /\ pc' = "done" /\ result' = "crash"
    /\ UNCHANGED <<dialect, schema, rebuild, todo, existing, plan, applied, runs>>

\* The application, which knows the table as it is, inserts a row.
AppInserts ==
    /\ saved = None
    /\ \E t \in {x.name : x \in ToSet(schema)} \cap DOMAIN catalog,
          r \in RowIds \ UNION {DOMAIN rows[x] : x \in DOMAIN rows} :
         LET IsKey(c) == \E fk \in ToSet(catalog[t].fks) : c.name \in ToSet(fk.from)
             Value(c) == IF IsKey(c) /\ ~c.notnull THEN Null ELSE r
             row == [n \in Columns(catalog[t]) |->
                       Value(CHOOSE c \in Named(catalog[t].cols, n) : TRUE)]
         IN /\ \A c \in ToSet(catalog[t].cols) : ~(IsKey(c) /\ c.notnull)
            /\ rows' = [rows EXCEPT ![t] = With(@, r, row)]
    /\ UNCHANGED <<dialect, schema, catalog, saved, run>>

Quiet == pc = "done" /\ runs = MaxRuns /\ UNCHANGED vars

Migrating ==
    \/ \E r \in BOOLEAN : Start(r)
    \/ ReadTable \/ AddMissing \/ NextTable \/ AdditiveDone
    \/ CheckTable \/ CreateTmp \/ CopyRows \/ DropOld \/ RenameTmp
    \/ Commit \/ CommitFails \/ StepFails \/ Rollback \/ RebuildDone \/ Restore

Next == Migrating \/ Crash \/ AppInserts \/ Quiet

Spec == Init /\ [][Next]_vars

-----------------------------------------------------------------------------
\* The type invariant: every table has rows for exactly its columns, a run is
\* somewhere, a table has been read only while its columns are added or it is
\* rebuilt, and a transaction is open exactly inside a rebuild or after a
\* COMMIT that failed (migrate_inner and migrate_rebuild, db.rs).
TypeOK ==
    /\ dialect \in Dialects
    /\ DOMAIN rows = DOMAIN catalog
    /\ \A t \in DOMAIN rows : \A r \in DOMAIN rows[t] :
         r \in RowIds /\ DOMAIN rows[t][r] = Columns(catalog[t])
    /\ foreignKeys \in BOOLEAN /\ rebuild \in BOOLEAN /\ runs \in 0..MaxRuns
    /\ pc \in {"done", "additive", "rebuild", "begin", "copy", "drop", "rename", "commit",
               "rollback", "restore"}
    /\ result \in Results \cup {None}
    /\ pc \in {"copy", "drop", "rename", "commit", "rollback"} => saved # None /\ existing # None
    /\ saved # None => pc \in {"copy", "drop", "rename", "commit", "rollback"} \/ result = "busy"
    /\ ~foreignKeys => rebuild /\ (pc # "additive") /\ (pc = "done" => result = "busy")

\* Some tables wait for one another, or for one that is not in the schema:
\* whatever the order, the first of them lacks a parent.
Cyclic ==
    \E S \in (SUBSET ToSet(schema)) \ {{}} :
        \A t \in S : ~(Parents(t) \subseteq {u.name : u \in ToSet(schema) \ S})

\* What a run reports is so.  After a success, --rebuild has left nothing for
\* validate to find, and a plain run no table and no column missing, though
\* migrate and validate have separate ideas of the shape; a server refuses a
\* table or column whose parent is not there yet only when no order of the
\* tables would do (migrate_rebuild, validate, db.rs; tables_in_dependency_order,
\* schema.rs).
ResultIsTrue ==
    /\ pc = "done" /\ result = "ok" =>
         LET left == Validate(dialect, schema, catalog)
         IN IF rebuild THEN left = {} ELSE \A p \in left : p[2][1] \notin {"table", "missing"}
    /\ result = "no parent" => Cyclic

\* What a run has done is what --dry-run said at its start it would do, as far
\* as it came, though the dry run reads every table before any is changed and
\* the application works on meanwhile; a run that succeeds has done all of it
\* (migrate_plan and migrate share migrate_inner, db.rs:762-795).
DryRunTellsAll ==
    /\ IsPrefix(applied, plan)
    /\ pc = "rebuild" \/ (pc = "done" /\ result = "ok") => applied = plan

\* However a run ends, the connection checks foreign keys again and no
\* transaction is open, except after a COMMIT that failed, which leaves both
\* (migrate_rebuild, db.rs:815-889).
ConnectionRestored ==
    pc = "done" /\ result # "busy" => foreignKeys /\ saved = None

\* The code generator and the ORM engine derive relations from the schema
\* separately; for every table they agree on each name and what it stands
\* for, no two relations share a name, and none hides a column
\* (relations_of, codegen.rs:35-92; OrmSchema::parse, orm.rs:209-262).
RelationsAgree ==
    \A t \in ToSet(schema) :
        LET relations == EngineRelations(schema, t)
        IN /\ relations = CodegenRelations(schema, t)
           /\ IsInjective(Names(relations))
           /\ ToSet(Names(relations)) \cap {Spelling[n] : n \in ToSet(Names(t.columns))} = {}

\* Seen from every other connection, a migration, interrupted or not, goes
\* from shape to shape one whole table at a time, never away from the schema
\* and never losing a row or a value the schema keeps ("Data in surviving
\* columns is preserved", db.rs:797-800).
Public == INSTANCE SafeMigration WITH catalog <- Committed.catalog, rows <- Committed.rows
ImplementsSafeMigration == Public!Spec

\* "cannot add primary key column ... to an existing table (use --rebuild)"
\* (dialect.rs:86): a run with --rebuild does not stop for that reason.
RebuildTakesPrimaryKeys == pc = "done" /\ rebuild => result # "primary key"
=============================================================================
