----------------------------- MODULE OrmFilter -----------------------------
(***************************************************************************)
(* The `where` objects of the ORM engine (crates/powder-core/src/orm.rs):  *)
(* how a group is rendered to SQL, and what the rendered text means to the *)
(* database, as against what the group means.                              *)
(*                                                                         *)
(* A condition is [col, op, args]; a bare value is `eq`.  A group is       *)
(* [conds, and, or, not]: conditions, groups under AND and under NOT, and  *)
(* under OR either nothing, <<>>, or the list given, <<groups>>.           *)
(*                                                                         *)
(* SQL text is kept as far as precedence goes: a disjunction of            *)
(* conjunctions of factors, <<<<factor, ...>>, ...>>.  Writing AND between *)
(* two texts joins the last conjunction of the one and the first of the    *)
(* other; parentheses and NOT make a text one factor.                      *)
(***************************************************************************)
EXTENDS Integers, Sequences, SequencesExt, FiniteSetsExt

CONSTANT Null

\* The columns of the table under query and their declared types.
ColumnType == [id |-> "int", user_id |-> "int", live |-> "bool"]

\* The operators; `like`, rendered as the comparisons are, is left out.
OPS == {"eq", "ne", "gt", "gte", "lt", "lte", "in"}

\* A bool column binds true and false, 1 and 0 to SQLite.
Coerce(type, v) ==
    IF type = "bool" /\ v # Null THEN (IF v = 0 THEN 0 ELSE 1) ELSE v

-----------------------------------------------------------------------------
\* What the database does: logic in three values, false = 0, unknown = 1,
\* true = 2, so that AND is the least, OR the greatest and NOT x is 2 - x.

Truth(b) == IF b THEN 2 ELSE 0

Compares(op, a, b) ==
    \/ op = "eq" /\ a = b
    \/ op = "ne" /\ a # b
    \/ op = "gt" /\ a > b
    \/ op = "gte" /\ a >= b
    \/ op = "lt" /\ a < b
    \/ op = "lte" /\ a <= b

Compared(op, a, b) ==
    IF a = Null \/ b = Null THEN 1 ELSE Truth(Compares(op, a, b))

RECURSIVE EvalText(_, _)

EvalFactor(f, row) ==
    CASE f.kind = "never"   -> 0
      [] f.kind = "isnull"  -> Truth(row[f.col] = Null)
      [] f.kind = "notnull" -> Truth(row[f.col] # Null)
      [] f.kind = "compare" -> Compared(f.op, row[f.col], f.args[1])
      [] f.kind = "in"      -> Max({Compared("eq", row[f.col], a) : a \in ToSet(f.args)})
      [] f.kind = "parens"  -> EvalText(f.text, row)
      [] f.kind = "not"     -> 2 - EvalText(f.text, row)

EvalText(text, row) ==
    Max({Min({EvalFactor(f, row) : f \in ToSet(c)}) : c \in ToSet(text)})

-----------------------------------------------------------------------------
\* render_group.

AndText(s, t) == Front(s) \o <<Last(s) \o Head(t)>> \o Tail(t)

JoinAnd(parts) ==
    IF parts = <<>> THEN <<>> ELSE FoldLeft(AndText, Head(parts), Tail(parts))

JoinOr(parts) == FlattenSeq(parts)

\* The whole text as one factor: (text), NOT (text).
Enclosed(kind, text) == <<<<[kind |-> kind, text |-> text]>>>>
Parens(text) == Enclosed("parens", text)
Not(text) == Enclosed("not", text)
Never == <<<<[kind |-> "never"]>>>>

\* One condition of a column; an operator that is not in OPS is passed over.
RenderCond(c) ==
    LET args == [i \in DOMAIN c.args |-> Coerce(ColumnType[c.col], c.args[i])]
        Factor(kind) == <<<<[kind |-> kind, col |-> c.col, op |-> c.op, args |-> args]>>>>
    IN CASE c.op \notin OPS -> <<>>
         [] c.op = "in" /\ c.args = <<>> -> Never
         [] c.op = "in" /\ c.args # <<>> -> Factor("in")
         [] c.op = "ne" /\ c.args = <<Null>> -> Factor("notnull")
         [] c.op = "eq" /\ c.args = <<Null>> -> Factor("isnull")
         [] OTHER -> Factor("compare")

IsRendered(text) == text # <<>>

RECURSIVE RenderGroup(_)

\* The groups of a list, those that render to nothing left out.
RenderAll(groups) ==
    SelectSeq([i \in DOMAIN groups |-> RenderGroup(groups[i])], IsRendered)

\* The alternatives not enclosed as a whole.
RenderOrBare(list) ==
    LET subs == RenderAll(list)
    IN IF list = <<>> THEN <<Never>>
       ELSE IF subs = <<>> THEN <<>>
       ELSE <<JoinOr([i \in DOMAIN subs |-> Parens(subs[i])])>>

RenderOr(list) ==
    LET subs == RenderAll(list)
    IN IF list = <<>> THEN <<Never>>
       ELSE IF subs = <<>> THEN <<>>
       ELSE <<Parens(JoinOr([i \in DOMAIN subs |-> Parens(subs[i])]))>>

RenderGroup(g) ==
    LET Each(F(_), texts) == [i \in DOMAIN texts |-> F(texts[i])]
    IN JoinAnd(SelectSeq([i \in DOMAIN g.conds |-> RenderCond(g.conds[i])], IsRendered)
               \o Each(Parens, RenderAll(g.and))
               \o (IF g.or = <<>> THEN <<>> ELSE RenderOr(g.or[1]))
               \o Each(Not, RenderAll(g.not)))

\* A column the table does not have, at any depth, is refused.
RECURSIVE Refused(_)
Refused(g) ==
    \/ \E c \in ToSet(g.conds) : c.col \notin DOMAIN ColumnType
    \/ \E s \in ToSet(g.and) \cup ToSet(g.not) \cup UNION {ToSet(l) : l \in ToSet(g.or)} :
         Refused(s)

\* Whether the WHERE clause of a statement lets a row through.
Selects(text, row) == text = <<>> \/ EvalText(text, row) = 2

-----------------------------------------------------------------------------
\* What a group means, read off the group itself.

CondMeaning(c, row) ==
    LET v == row[c.col]
        Arg(i) == Coerce(ColumnType[c.col], c.args[i])
    IN CASE c.op = "in" -> Max({0} \cup {Compared("eq", v, Arg(i)) : i \in DOMAIN c.args})
         [] c.op = "eq" /\ Arg(1) = Null -> Truth(v = Null)
         [] c.op = "ne" /\ Arg(1) = Null -> Truth(v # Null)
         [] OTHER -> Compared(c.op, v, Arg(1))

\* Whether a group says anything: "an empty group renders nothing".
RECURSIVE Says(_)
Says(g) ==
    \/ \E c \in ToSet(g.conds) : c.op \in OPS
    \/ \E s \in ToSet(g.and) \cup ToSet(g.not) : Says(s)
    \/ \E list \in ToSet(g.or) : list = <<>> \/ \E s \in ToSet(list) : Says(s)

\* All its conditions, all groups under AND, one under OR and none under NOT,
\* among those that say anything.
RECURSIVE Meaning(_, _)
Meaning(g, row) ==
    LET Of(groups) == {Meaning(s, row) : s \in {t \in ToSet(groups) : Says(t)}}
    IN Min({2}
           \cup {CondMeaning(c, row) : c \in {d \in ToSet(g.conds) : d.op \in OPS}}
           \cup Of(g.and)
           \cup {2 - m : m \in Of(g.not)}
           \cup {Max({0} \cup Of(list)) : list \in
                   {l \in ToSet(g.or) : l = <<>> \/ \E s \in ToSet(l) : Says(s)}})
=============================================================================
