------------------------------- MODULE Schema -------------------------------
(***************************************************************************)
(* powder.schema.json as the tools read it (crates/powder-cli/src/         *)
(* schema.rs, dialect.rs, codegen.rs) and as the ORM engine reads it       *)
(* (crates/powder-core/src/orm.rs): foreign keys, the order of the tables, *)
(* the DDL of each dialect, and the relations derived from foreign keys.   *)
(*                                                                         *)
(* A schema is a sequence of tables [name, columns, keys]; a column is     *)
(* [name, type, nullable, pk, ref] with ref = <<>> or <<table, column>>;   *)
(* a key, like every foreign key, is [from, table, to].                    *)
(***************************************************************************)
EXTENDS Naturals, Sequences, SequencesExt, FiniteSets, Functions

\* What a name is made of as far as relation names go: <<"user", "_id">> is
\* user_id, <<"user", "_">> is user_, <<"user">> is user.
CONSTANT Spelling

\* The elements at the places of `keep`, in order.
Filtered(seq, keep) ==
    LET f[i \in 0..Len(seq)] ==
          IF i = 0 THEN <<>> ELSE IF i \in keep THEN Append(f[i - 1], seq[i]) ELSE f[i - 1]
    IN f[Len(seq)]

\* The column's own reference first, then the table-level keys.
ForeignKeys(table) ==
    LET refs == Filtered(table.columns, {i \in DOMAIN table.columns : table.columns[i].ref # <<>>})
    IN [i \in DOMAIN refs |-> [from |-> <<refs[i].name>>, table |-> refs[i].ref[1],
                               to |-> <<refs[i].ref[2]>>]] \o table.keys

PrimaryKey(table) ==
    Filtered(table.columns, {i \in DOMAIN table.columns : table.columns[i].pk})

Names(seq) == [i \in DOMAIN seq |-> seq[i].name]
Named(seq, n) == {x \in ToSet(seq) : x.name = n}

\* check_references: every foreign key leads to columns of the same type.
ReferencesResolve(schema) ==
    \A t \in ToSet(schema) : \A fk \in ToSet(ForeignKeys(t)) :
        /\ Len(fk.from) = Len(fk.to) /\ fk.from # <<>>
        /\ \E target \in Named(schema, fk.table) : \A i \in DOMAIN fk.from :
             \E c \in Named(t.columns, fk.from[i]), d \in Named(target.columns, fk.to[i]) :
               c.type = d.type

Parents(table) == {fk.table : fk \in ToSet(ForeignKeys(table))} \ {table.name}

\* One pass over the tables not yet placed: each whose parents are placed by
\* then is.
Pass(schema, placed) ==
    LET f[i \in 0..Len(schema)] ==
          IF i = 0 THEN placed
          ELSE LET acc == f[i - 1]
                   t == schema[i]
               IN IF t \notin ToSet(acc) /\ Parents(t) \subseteq ToSet(Names(acc))
                  THEN Append(acc, t) ELSE acc
    IN f[Len(schema)]

\* The tables as they were declared.
DeclarationOrder(schema) == schema

\* Passes until none places a table; the rest, in a cycle, as declared.
DependencyOrder(schema) ==
    LET f[n \in 0..Len(schema)] == IF n = 0 THEN <<>> ELSE Pass(schema, f[n - 1])
        placed == f[Len(schema)]
    IN placed \o Filtered(schema, {i \in DOMAIN schema : schema[i] \notin ToSet(placed)})

-----------------------------------------------------------------------------
\* The dialects' DDL.

Dialects == {"sqlite", "postgres", "mysql", "mssql"}

TypeSql(dialect, type) ==
    CASE dialect = "sqlite" ->
           [int |-> "INTEGER", float |-> "REAL", text |-> "TEXT", bool |-> "INTEGER"][type]
      [] dialect = "postgres" ->
           [int |-> "BIGINT", float |-> "DOUBLE PRECISION", text |-> "TEXT", bool |-> "BOOLEAN"][type]
      [] dialect = "mysql" ->
           [int |-> "BIGINT", float |-> "DOUBLE", text |-> "TEXT", bool |-> "TINYINT(1)"][type]
      [] dialect = "mssql" ->
           [int |-> "BIGINT", float |-> "FLOAT", text |-> "NVARCHAR(400)", bool |-> "BIT"][type]

\* MySQL cannot index bare TEXT: key members become VARCHAR.
ColumnSql(dialect, table, col) ==
    IF dialect = "mysql" /\ col.type = "text"
       /\ (col.pk \/ \E fk \in ToSet(ForeignKeys(table)) : col.name \in ToSet(fk.from))
    THEN "VARCHAR(255)"
    ELSE TypeSql(dialect, col.type)

\* What the catalogue of the database reports, normalized for the comparison.
Normalized(dialect, sql) ==
    IF dialect = "mysql" /\ sql = "VARCHAR(255)" THEN "TEXT" ELSE sql

\* The position of a column in the primary key, 0 if it has none.
KeyPosition(table, col) ==
    LET pk == Names(PrimaryKey(table))
    IN IF col.name \in ToSet(pk) THEN CHOOSE i \in DOMAIN pk : pk[i] = col.name ELSE 0

\* NOT NULL is written unless the column is the whole primary key, inline.
NotNullSql(table, col) ==
    ~(col.pk /\ Len(PrimaryKey(table)) = 1) /\ ~col.nullable

\* create_table: columns as the catalogue will report them, and foreign keys.
CreateTable(dialect, table) ==
    [cols |-> [i \in DOMAIN table.columns |->
                 LET c == table.columns[i]
                 IN [name |-> c.name, type |-> ColumnSql(dialect, table, c),
                     notnull |-> NotNullSql(table, c), pk |-> KeyPosition(table, c)]],
     fks |-> ForeignKeys(table)]

\* add_column, of a column that is not part of the primary key.
AddColumn(dialect, shape, col) ==
    [cols |-> Append(shape.cols, [name |-> col.name, type |-> TypeSql(dialect, col.type),
                                  notnull |-> ~col.nullable, pk |-> 0]),
     fks |-> shape.fks \o (IF col.ref = <<>> THEN <<>>
                           ELSE <<[from |-> <<col.name>>, table |-> col.ref[1],
                                   to |-> <<col.ref[2]>>]>>)]

-----------------------------------------------------------------------------
\* validate.

Columns(shape) == ToSet(Names(shape.cols))

\* check_fk_lists: a key of the database that names no columns leads to the
\* primary key.
KeyMatches(fk, db) ==
    fk.from = db.from /\ fk.table = db.table /\ (ToSet(db.to) = {""} \/ fk.to = db.to)

\* check_table and check_fk_lists: what is wrong with the table's shape.
ProblemsOf(dialect, table, shape) ==
    LET Db(c) == Named(shape.cols, c.name)
        Wrong(kind, Is(_, _)) == {<<kind, c.name>> : c \in {c \in ToSet(table.columns) :
                                    \E d \in Db(c) : Is(c, d)}}
        Lost(kind, fks, others, Match(_, _)) ==
            {<<kind, fk.from>> : fk \in {fk \in ToSet(fks) : ~\E o \in ToSet(others) : Match(fk, o)}}
    IN {<<"missing", c.name>> : c \in {c \in ToSet(table.columns) : Db(c) = {}}}
       \cup {<<"extra", n>> : n \in Columns(shape) \ ToSet(Names(table.columns))}
       \cup Wrong("type", LAMBDA c, d : Normalized(dialect, d.type) # TypeSql(dialect, c.type))
       \cup Wrong("key", LAMBDA c, d : d.pk # KeyPosition(table, c))
       \cup Wrong("null", LAMBDA c, d : ~c.pk /\ d.notnull = c.nullable)
       \cup Lost("fk", ForeignKeys(table), shape.fks, KeyMatches)
       \cup Lost("extra fk", shape.fks, ForeignKeys(table), LAMBDA db, fk : KeyMatches(fk, db))

\* An empty result means the two are in sync.
Validate(dialect, schema, catalog) ==
    UNION {IF t.name \in DOMAIN catalog
           THEN {<<t.name, p>> : p \in ProblemsOf(dialect, t, catalog[t.name])}
           ELSE {<<t.name, <<"table", "">>>>} : t \in ToSet(schema)}

-----------------------------------------------------------------------------
\* Relations.

\* The name of a belongsTo relation before it is claimed.
BaseName(fk) ==
    LET s == Spelling[fk.from[1]]
    IN IF Len(fk.from) = 1 /\ Len(s) = 2 /\ s[2] = "_id" THEN <<s[1]>>
       ELSE Spelling[fk.table]

\* Columns not looked at.
ClaimedAmongRelations(base, table, used) ==
    LET Padded(k) == base \o [i \in 1..k |-> "_"]
    IN Padded(CHOOSE k \in 0..Cardinality(used) :
                Padded(k) \notin used /\ \A j \in 0..(k - 1) : Padded(j) \in used)

\* The name with the underscores it needs to be neither used nor a column.
Claimed(base, table, used) ==
    LET Padded(k) == base \o [i \in 1..k |-> "_"]
        Taken == used \cup {Spelling[c.name] : c \in ToSet(table.columns)}
    IN Padded(CHOOSE k \in 0..Cardinality(Taken) :
                /\ Padded(k) \notin Taken
                /\ \A j \in 0..(k - 1) : Padded(j) \in Taken)

Claim(relations, table, relation) ==
    Append(relations,
           [relation EXCEPT !.name = Claimed(@, table, {r.name : r \in ToSet(relations)})])

BelongsTo(fk) == [name |-> BaseName(fk), kind |-> "belongsTo", local |-> fk.from,
                  foreign |-> fk.to, target |-> fk.table]
HasMany(owner, fk) == [name |-> Spelling[owner], kind |-> "hasMany", local |-> fk.to,
                       foreign |-> fk.from, target |-> owner]

\* Relations claim their names one after the other.
Claims(table, relations) ==
    LET f[i \in 0..Len(relations)] ==
          IF i = 0 THEN <<>> ELSE Claim(f[i - 1], table, relations[i])
    IN f[Len(relations)]

\* OrmSchema::parse: all foreign keys in one list with their owners.
Owned(table) == LET fks == ForeignKeys(table)
                IN [j \in DOMAIN fks |-> [owner |-> table.name, fk |-> fks[j]]]
EngineRelations(schema, table) ==
    LET all == FlattenSeq([i \in DOMAIN schema |-> Owned(schema[i])])
        own == Filtered(all, {k \in DOMAIN all : all[k].owner = table.name})
        others == Filtered(all, {k \in DOMAIN all : all[k].owner # table.name
                                                     /\ all[k].fk.table = table.name})
    IN Claims(table, [k \in DOMAIN own |-> BelongsTo(own[k].fk)]
                     \o [k \in DOMAIN others |-> HasMany(others[k].owner, others[k].fk)])

\* relations_of: the foreign keys of the table, then those of each other table.
Referring(other, table) ==
    LET fks == ForeignKeys(other)
        to == Filtered(fks, {k \in DOMAIN fks : fks[k].table = table.name})
    IN IF other.name = table.name THEN <<>>
       ELSE [k \in DOMAIN to |-> HasMany(other.name, to[k])]
CodegenRelations(schema, table) ==
    LET own == ForeignKeys(table)
    IN Claims(table, [k \in DOMAIN own |-> BelongsTo(own[k])]
                     \o FlattenSeq([i \in DOMAIN schema |-> Referring(schema[i], table)]))
=============================================================================
