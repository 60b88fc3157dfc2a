----------------------------- MODULE MCMigrate -----------------------------
\* Two or three tables, up to three rows, every dialect: databases that are
\* empty, lack a column, a key or a reference, or have a column too many, of
\* another type or nullability.
EXTENDS Migrate, TLC

MCSpelling == [users |-> <<"users">>, orders |-> <<"orders">>, notes |-> <<"notes">>,
               id |-> <<"id">>, name |-> <<"name">>, user_id |-> <<"user", "_id">>,
               user |-> <<"user">>, boss_id |-> <<"boss", "_id">>, boss |-> <<"boss">>]

Col(n, ty, null, pk, ref) == [name |-> n, type |-> ty, nullable |-> null, pk |-> pk, ref |-> ref]
Id == Col("id", "int", FALSE, TRUE, <<>>)
Table2(n, cols, keys) == [name |-> n, columns |-> cols, keys |-> keys]

Users == Table2("users", <<Id, Col("name", "text", FALSE, FALSE, <<>>)>>, <<>>)
Orders(null) ==
    Table2("orders", <<Id, Col("user_id", "int", null, FALSE, <<"users", "id">>)>>, <<>>)
\* A reference by text.
Tagged == Table2("orders", <<Id, Col("name", "text", TRUE, FALSE, <<"users", "name">>)>>, <<>>)
\* A composite primary key and a composite foreign key to it, a column of
\* the name a relation would have, and references in a circle.
Pairs == Table2("users", <<Col("id", "int", FALSE, TRUE, <<>>), Col("name", "text", FALSE, TRUE, <<>>)>>, <<>>)
Notes == Table2("notes", <<Id, Col("user_id", "int", TRUE, FALSE, <<"users", "id">>),
                           Col("user", "text", TRUE, FALSE, <<>>),
                           Col("name", "text", TRUE, FALSE, <<>>)>>,
                <<[from |-> <<"user_id", "name">>, table |-> "users", to |-> <<"id", "name">>]>>)
Staff == Table2("users", <<Id, Col("boss_id", "int", TRUE, FALSE, <<"users", "id">>),
                           Col("user_id", "int", TRUE, FALSE, <<"orders", "id">>)>>, <<>>)

Schemas == {<<Orders(FALSE), Users>>, <<Orders(TRUE), Users>>, <<Notes, Pairs>>, <<Tagged, Users>>,
            <<Staff, Orders(TRUE)>>}

\* Old shapes of the tables, as the catalogue reports them.
DbCol(n, ty, notnull, pk) == [name |-> n, type |-> ty, notnull |-> notnull, pk |-> pk]
Bare(d, n) == [cols |-> <<DbCol(n, TypeSql(d, "int"), FALSE, 0)>>, fks |-> <<>>]
OldShapes(d, t) ==
    LET now == CreateTable(d, t)
        last == Len(now.cols)
    IN {now,
        [now EXCEPT !.cols = SubSeq(@, 1, last - 1),                        \* lacks a column
                    !.fks = SelectSeq(@, LAMBDA f : now.cols[last].name \notin ToSet(f.from))],
        [now EXCEPT !.cols[1].pk = 0],                                      \* no key, or half of one
        [now EXCEPT !.cols[last].notnull = ~@],                             \* nullability
        [now EXCEPT !.cols[last].type = TypeSql(d, "bool"), !.fks = <<>>],  \* type, references
        [now EXCEPT !.cols = SubSeq(@, 2, last) \o Bare(d, "boss").cols,    \* a key, one too many
                    !.fks = [i \in DOMAIN @ |-> [@[i] EXCEPT !.to = [j \in DOMAIN @ |-> ""]]]]}

\* The old rows hold their own number, or NULL where they may.
RowsOf(shape, ids) ==
    [r \in ids |-> [n \in Columns(shape) |->
       LET c == CHOOSE c \in Named(shape.cols, n) : TRUE
       IN IF c.notnull \/ c.pk # 0 THEN r ELSE Null]]

MCInstances ==
    UNION {UNION {LET t1 == s[1]  t2 == s[2] IN
      {[dialect |-> d, schema |-> s, catalog |-> <<>>, rows |-> <<>>]}
      \cup {[dialect |-> d, schema |-> s, catalog |-> t1.name :> a, rows |-> t1.name :> RowsOf(a, {1, 2})]
              : a \in OldShapes(d, t1)}
      \cup {[dialect |-> d, schema |-> s, catalog |-> t1.name :> a @@ t2.name :> b,
             rows |-> t1.name :> RowsOf(a, {1}) @@ t2.name :> RowsOf(b, {2})]
              : a \in OldShapes(d, t1), b \in OldShapes(d, t2)}
      : s \in Schemas} : d \in Dialects}
=============================================================================
