--------------------------- MODULE SafeMigration ---------------------------
(***************************************************************************)
(* What powder migrate promises of the database everyone else sees:        *)
(* it goes from the shape it has towards powder.schema.json one table at a *)
(* time, each change whole; no change makes a table differ from the schema *)
(* where it agreed before; no row is lost, and a row keeps the values of   *)
(* the columns the schema keeps, NULL where the schema wants a value being *)
(* the one exception.  This holds whether or not the tool is interrupted.  *)
(***************************************************************************)
EXTENDS Schema

CONSTANT Null

VARIABLES dialect, schema, catalog, rows

Init == DOMAIN rows = DOMAIN catalog

Others(f, t) == [x \in DOMAIN f \ {t} |-> f[x]]

\* The same rows, with the same values where the schema keeps the column.
RowsKept(t, old, new) ==
    /\ DOMAIN new = DOMAIN old
    /\ \A r \in DOMAIN old, c \in ToSet(t.columns) :
         c.name \in DOMAIN old[r] =>
           \/ new[r][c.name] = old[r][c.name]
           \/ ~c.nullable /\ old[r][c.name] = Null /\ new[r][c.name] # Null

Create(t) ==
    /\ t.name \notin DOMAIN catalog
    /\ t.name \in DOMAIN catalog' /\ ProblemsOf(dialect, t, catalog'[t.name]) = {}
    /\ rows'[t.name] = <<>>

Improve(t) ==
    /\ t.name \in DOMAIN catalog \cap DOMAIN catalog'
    /\ ProblemsOf(dialect, t, catalog'[t.name]) \subseteq ProblemsOf(dialect, t, catalog[t.name])
    /\ RowsKept(t, rows[t.name], rows'[t.name])

\* One table changes, or is there afterwards.
Migrate ==
    \E t \in ToSet(schema) :
        /\ Create(t) \/ Improve(t)
        /\ Others(catalog', t.name) = Others(catalog, t.name)
        /\ Others(rows', t.name) = Others(rows, t.name)
        /\ UNCHANGED <<dialect, schema>>

\* The application: rows come, none goes or changes.
Insert ==
    /\ DOMAIN rows' = DOMAIN rows
    /\ \A t \in DOMAIN rows : \A r \in DOMAIN rows[t] : r \in DOMAIN rows'[t] /\ rows'[t][r] = rows[t][r]
    /\ UNCHANGED <<dialect, schema, catalog>>

Next == Migrate \/ Insert

Spec == Init /\ [][Next]_<<dialect, schema, catalog, rows>>
=============================================================================
