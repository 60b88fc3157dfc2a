------------------------------ MODULE SqlText ------------------------------
(***************************************************************************)
(* The scanners that read SQL byte by byte on its way to a server:         *)
(*   has_stacked_statements  crates/powder-core/src/guard.rs               *)
(*   translate_placeholders  crates/powder-core/src/pg.rs, ms.rs           *)
(*   compile_named_sql       crates/powder-cli/src/schema.rs               *)
(* against what the servers themselves take for literals, comments,        *)
(* placeholders and statements.  Every text over a small alphabet is       *)
(* written, a character a step.                                            *)
(***************************************************************************)
EXTENDS Naturals, Sequences, SequencesExt, FiniteSets, TLC

CONSTANTS
    Alphabet,  \* characters of plain SQL
    Named,     \* characters of a named query
    Letters,   \* those that make identifiers
    Declared,  \* the parameters a named query declares, sequences of letters
    MaxLength  \* bound: characters of a text

NewLine == "\n"
Backtick == "backtick"
Space == {" ", NewLine}

ASSUME TextAssumption ==
    /\ Letters \cap {"'", "\"", Backtick, "[", "]", "-", "/", "*", "?", ":", ";", " ", NewLine} = {}
    /\ Declared \subseteq Seq(Letters) \ {<<>>}
    /\ MaxLength \in Nat

VARIABLES
    text,  \* the SQL so far
    named  \* whether it is a named query's

vars == <<text, named>>

At(s, i) == IF i \in DOMAIN s THEN s[i] ELSE ""

-----------------------------------------------------------------------------
\* The scanners.  Before each character a scanner is in code, in a comment, or
\* in a literal named by the character that closes it; `skip` says that the
\* character is the second of a pair and looked at no more.

Code == [in |-> "code", skip |-> FALSE]
Closer(c) == IF c = "[" THEN "]" ELSE c

\* The star of /* is looked at again.
OpensReread(openers, c, next) ==
    CASE c = "-" /\ next = "-" -> [in |-> "line", skip |-> FALSE]
      [] c = "/" /\ next = "*" -> [in |-> "block", skip |-> FALSE]
      [] c \in openers -> [in |-> Closer(c), skip |-> FALSE]
      [] OTHER -> Code

\* A comment or a literal begins.
Opens(openers, c, next) ==
    CASE c = "-" /\ next = "-" -> [in |-> "line", skip |-> FALSE]
      [] c = "/" /\ next = "*" -> [in |-> "block", skip |-> TRUE]
      [] c \in openers -> [in |-> Closer(c), skip |-> FALSE]
      [] OTHER -> Code

After(openers, state, c, next) ==
    CASE state.skip -> [state EXCEPT !.skip = FALSE]
      [] ~state.skip /\ state.in = "code" -> Opens(openers, c, next)
      [] ~state.skip /\ state.in = "line" -> IF c = NewLine THEN Code ELSE state
      [] ~state.skip /\ state.in = "block" ->
           IF c = "*" /\ next = "/" THEN [in |-> "code", skip |-> TRUE] ELSE state
      [] OTHER ->
           IF c # state.in THEN state
           ELSE IF next = state.in THEN [state EXCEPT !.skip = TRUE] ELSE Code

\* The positions the scanner's loop takes for code: not in a literal or a
\* comment and not the opening of a comment.
CodeOf(openers, s) ==
    LET before[i \in 1..(Len(s) + 1)] ==
          IF i = 1 THEN Code ELSE After(openers, before[i - 1], s[i - 1], At(s, i))
    IN {i \in DOMAIN s : before[i] = Code
                         /\ Opens({}, s[i], At(s, i + 1)) = Code}

\* Brackets are not taken for quotes.
StackedNear(s) ==
    LET code == CodeOf({"'", "\"", Backtick}, s)
    IN \E i, j \in code : i < j /\ s[i] = ";" /\ s[j] \notin Space

\* has_stacked_statements.
Stacked(s) ==
    LET code == CodeOf({"'", "\"", Backtick, "["}, s)
    IN \E i \in code : s[i] = ";" /\ \E j \in code : i < j /\ s[j] \notin Space

\* translate_placeholders: where it writes $1, $2, ..., in that order.
Replaced(s) == {i \in CodeOf({"'", "\""}, s) : s[i] = "?"}

\* compile_named_sql: [out, order, slots]: the text, the parameter of each
\* slot and where in the text the slot is.
Begun == [out |-> <<>>, order |-> <<>>, slots |-> <<>>, in |-> "code"]

Copy(acc, c) == [acc EXCEPT !.out = Append(@, c)]

\* The second colon of a cast is code.
CompiledNoCast(acc, c, next) ==
    CASE c = "'" -> [Copy(acc, c) EXCEPT !.in = "literal"]
      [] c = ":" /\ next \in Letters ->
           [Copy(acc, "?") EXCEPT !.order = Append(@, <<>>), !.in = "name",
                                  !.slots = Append(@, Len(acc.out) + 1)]
      [] OTHER -> [Copy(acc, c) EXCEPT !.in = "code"]

\* A character of the code.
Compiled(acc, c, next) ==
    CASE c = "'" -> [Copy(acc, c) EXCEPT !.in = "literal"]
      [] c = ":" /\ next = ":" -> [Copy(acc, c) EXCEPT !.in = "cast"]
      [] c = ":" /\ next \in Letters ->
           [Copy(acc, "?") EXCEPT !.order = Append(@, <<>>), !.in = "name",
                                  !.slots = Append(@, Len(acc.out) + 1)]
      [] OTHER -> [Copy(acc, c) EXCEPT !.in = "code"]

CompiledAt(acc, c, next) ==
    CASE acc.in = "literal" -> [Copy(acc, c) EXCEPT !.in = IF c = "'" THEN "code" ELSE @]
      [] acc.in = "cast" -> [Copy(acc, c) EXCEPT !.in = "code"]
      [] acc.in = "name" /\ c \in Letters ->
           [acc EXCEPT !.order[Len(acc.order)] = Append(@, c)]
      [] OTHER -> Compiled(acc, c, next)

Compile(s) ==
    LET done[i \in 0..Len(s)] ==
          IF i = 0 THEN Begun ELSE CompiledAt(done[i - 1], s[i], At(s, i + 1))
    IN done[Len(s)]

\* Every placeholder is declared and every parameter used.
Accepted(s) == ToSet(Compile(s).order) = Declared

-----------------------------------------------------------------------------
\* What the servers read (external): the text is cut from the left into
\* literals, comments and single characters.

Quotes(server) ==
    CASE server = "sqlite" -> {"'", "\"", Backtick, "["}
      [] server = "postgres" -> {"'", "\""}
      [] server = "mssql" -> {"'", "\"", "["}

Least(S, default) == IF S = {} THEN default ELSE CHOOSE i \in S : \A j \in S : i <= j

\* The literal that begins at i ends at the first closer that is not one of a
\* pair, SQLite's brackets at the very first; the end of the text and one more
\* if there is none.
LiteralEnd(server, s, i) ==
    LET close == Closer(s[i])
        Closers(e) == Cardinality({k \in (i + 1)..e : s[k] = close})
    IN Least({e \in (i + 1)..Len(s) :
                /\ s[e] = close
                /\ \/ server = "sqlite" /\ close = "]"
                   \/ Closers(e) % 2 = 1 /\ At(s, e + 1) # close},
             Len(s) + 1)

\* The last character of what begins at i.
EndOf(server, s, i) ==
    CASE s[i] \in Quotes(server) -> LiteralEnd(server, s, i)
      [] s[i] = "-" /\ At(s, i + 1) = "-" ->
           Least({e \in i..Len(s) : At(s, e + 1) = NewLine}, Len(s))
      [] s[i] = "/" /\ At(s, i + 1) = "*" ->
           Least({e \in (i + 3)..Len(s) : s[e - 1] = "*" /\ s[e] = "/"}, Len(s) + 1)
      [] OTHER -> i

Begins(server, s) ==
    LET Cut(acc, i) ==
          IF i <= acc.last THEN acc
          ELSE [begins |-> acc.begins \cup {i}, last |-> EndOf(server, s, i)]
    IN FoldLeft(Cut, [begins |-> {}, last |-> 0], [i \in DOMAIN s |-> i]).begins

IsComment(s, i) == Opens({}, s[i], At(s, i + 1)) # Code

Placeholders(server, s) == {i \in Begins(server, s) : s[i] = "?"}

\* Whether the ";" at i has anything but comments before, and after it.
Separators(server, s) == {i \in Begins(server, s) : s[i] = ";"}
Words(server, s) ==
    {i \in Begins(server, s) : s[i] \notin Space \cup {";"} /\ ~IsComment(s, i)}
SecondStatement(server, s) ==
    LET words == Words(server, s)
    IN \E i \in Separators(server, s) : (\E v \in words : v < i) /\ (\E w \in words : i < w)

\* The texts the server reads to their end by these rules: it ends every
\* literal and comment, no comment nests, and it finds no character that
\* begins nothing on it.
Plain(server, s) ==
    /\ server # "sqlite" => Backtick \notin ToSet(s)
    /\ \A i \in Begins(server, s) :
         /\ server = "sqlite" => s[i] # "]"
         /\ EndOf(server, s, i) <= Len(s)
         /\ s[i] = "/" /\ At(s, i + 1) = "*" =>
              ~\E k \in (i + 1)..EndOf(server, s, i) : s[k] = "/" /\ At(s, k + 1) = "*"

\* Every bracket the server finds closes, and what is between the two would be
\* the same in code as in a literal.
BracketsAreIndifferent(server, s) ==
    \A i \in Begins(server, s) : s[i] = "[" =>
        LET end == Least({e \in (i + 1)..Len(s) : s[e] = "]"}, Len(s) + 1)
        IN /\ end <= Len(s) /\ At(s, end + 1) # "]"
           /\ \A k \in (i + 1)..(end - 1) :
                s[k] \notin {"'", "\"", Backtick, "[", ";", "?"} /\ ~IsComment(s, k)

-----------------------------------------------------------------------------
Init == text = <<>> /\ named \in BOOLEAN

Type(c) ==
    /\ Len(text) < MaxLength
    /\ text' = Append(text, c)
    /\ UNCHANGED named

Done == Len(text) = MaxLength /\ UNCHANGED vars

Next ==
    \/ Done
    \/ ~named /\ \E c \in Alphabet : Type(c)
    \/ named /\ \E c \in Named : Type(c)

Spec == Init /\ [][Next]_vars

-----------------------------------------------------------------------------
\* On PostgreSQL and SQL Server every placeholder the server would see is
\* rewritten, and nothing else, whatever literals and comments are around it
\* (translate_placeholders, pg.rs and ms.rs).  Except where a bracketed
\* identifier of SQL Server's, which the scanner does not know, holds anything
\* a scanner looks at.
PlaceholdersAreReplaced ==
    \A server \in {"postgres", "mssql"} :
        Plain(server, text) /\ (server = "mssql" => BracketsAreIndifferent(server, text)) =>
            Replaced(text) = Placeholders(server, text)

\* The guard refuses a text if there is a second statement on the server, and
\* else only if a ";" follows another (has_stacked_statements, guard.rs).
\* Except on PostgreSQL, whose brackets are subscripts and which the scanner
\* takes for quotes there, too (guard.rs:75-88): a subscript that holds anything
\* a scanner looks at may hide a ";" from it.
GuardIsExact ==
    \A server \in {"sqlite", "postgres", "mssql"} :
        Plain(server, text) /\ (server = "postgres" => BracketsAreIndifferent(server, text)) =>
            /\ SecondStatement(server, text) => Stacked(text)
            /\ Stacked(text) =>
                 \/ SecondStatement(server, text)
                 \/ Cardinality(Separators(server, text)) > 1
                 \/ \A w \in Words(server, text) : \E i \in Separators(server, text) : i < w

\* No quoted identifier of the text has a ":" or a "'" in it.
IdentifiersAreSimple(s) ==
    \A i \in Begins("postgres", s) : s[i] = "\"" =>
        \A k \in i..LiteralEnd("postgres", s, i) : At(s, k) \notin {":", "'"}

\* A named query that is accepted, once compiled and rewritten for the server,
\* has a slot exactly where a :name stood, in order; "::" is no placeholder and a
\* literal is left alone (compile_named_sql then translate_placeholders).  Except
\* for a query that brings a "?" of its own or a comment, and for one with a ":"
\* or a "'" in a quoted identifier: the compiler knows neither comments nor double
\* quotes (schema.rs:155-203).
SlotsLineUp ==
    LET compiled == Compile(text)
        Colons(i) == Cardinality({j \in 1..i : \A k \in j..i : text[k] = ":"})
        names == {i \in Begins("postgres", text) :
                    text[i] = ":" /\ At(text, i + 1) \in Letters /\ Colons(i) % 2 = 1}
    IN named /\ Plain("postgres", text) /\ Placeholders("postgres", text) = {}
       /\ (\A i \in Begins("postgres", text) : ~IsComment(text, i))
       /\ IdentifiersAreSimple(text) =>
         /\ Len(compiled.order) = Cardinality(names)
         /\ Accepted(text) =>
              ToSet(compiled.slots) = Replaced(compiled.out)

\* "`param_order` records which declared parameter feeds each positional
\* slot" (schema.rs:104-106), whatever else the query holds.
SlotsAlwaysLineUp ==
    named /\ Plain("postgres", text) /\ Accepted(text) =>
        ToSet(Compile(text).slots) = Placeholders("postgres", Compile(text).out)

\* "`Client` rejects a second statement in every call that is not an explicit
\* no-parameter batch" (guard.rs:8-10), also where PostgreSQL's statements have
\* subscripts, closed before a ";".
SecondStatementIsSeen ==
    LET begins == Begins("postgres", text)
        Count(c, i) == Cardinality({k \in begins : k < i /\ text[k] = c})
        subscripts == \A i \in begins :
                         /\ Count("]", i) <= Count("[", i)
                         /\ text[i] = ";" => Count("]", i) = Count("[", i)
    IN Plain("postgres", text) /\ SecondStatement("postgres", text) /\ subscripts =>
         Stacked(text)
=============================================================================
