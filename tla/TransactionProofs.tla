------------------------- MODULE TransactionProofs -------------------------
(***************************************************************************)
(* What the transaction scopes of the bindings keep true, for one caller   *)
(* and any nesting, any contents, any back end and any faults.             *)
(*                                                                         *)
(* The argument is about the shape of the server's stack (Layout).  The    *)
(* server no longer has the outermost L of the scopes that have begun: it  *)
(* gave up the transaction they were in.  Each of the others finds a       *)
(* savepoint of its own name, the outermost one at the bottom of the stack *)
(* and each further in above the one around it.  Except on SQL Server,     *)
(* which keeps the savepoints of ended scopes, there is nothing else on it.*)
(***************************************************************************)
EXTENDS Transaction, FiniteSetTheorems, SequenceTheorems, WellFoundedInduction, TLAPS

\* The only assumption: the calls of one client do not overlap.
OneCaller == \E c : Callers = {c}

Me == Caller
Phase == pc[Me]
Open == Len(scopes[Me])

\* How many of its scopes have begun and not ended.
Begun == Open - (IF Phase \in {"begin", "return", "throw"} THEN 1 ELSE 0)

\* Latest, as an operator of the stack it looks at.
Position(s, d) == Max({0} \cup {i \in DOMAIN s : s[i].name = d})

\* The stack s of server sv holds all but the outermost l of b scopes.
Layout(s, l, b, sv) ==
    /\ l \in 0..b
    /\ (s = <<>>) <=> (l = b)
    /\ \A d \in 0..(b - 1) : (Position(s, d) = 0) <=> (d < l)
    /\ \A d, e \in l..(b - 1) : d < e => Position(s, d) < Position(s, e)
    /\ l < b => Position(s, l) = 1
    /\ sv = "mssql" /\ l < b => l = 0
    /\ sv # "mssql" => /\ Len(s) = b - l
                       /\ \A d \in l..(b - 1) : Position(s, d) = (d - l) + 1

\* What the outermost u scopes go back to.
Kept(s, u) ==
    [i \in 1..u |-> IF Position(s, i - 1) = 0 THEN Gone ELSE s[Position(s, i - 1)].before]

\* Scopes are only lost to a server that rolls back by itself, or when the
\* COMMIT of the outermost one was refused and its rollback comes next.
LossExplained(l) ==
    \/ "auto_rollback" \in faults /\ server # "postgres"
    \/ l = 0
    \/ l = 1 /\ Begun = 1 /\ Phase = "undo"

\* Each open scope read the number of scopes around it, and the counter is
\* that of the innermost scope, or of the one around it until its body starts.
Counted ==
    /\ \A i \in 1..Open : scopes[Me][i] = i - 1
    /\ txDepth = Open - (IF \/ Phase \in {"begin", "begun"}
                            \/ binding = "python" /\ Phase \notin {"body", "begin", "begun"}
                         THEN 1 ELSE 0)
    /\ Phase # "body" => Open >= 1
    /\ Phase = "drop" => Open >= 2

Stacked == \E l \in 0..Begun : Layout(stack, l, Begun, server) /\ LossExplained(l)

\* A failed transaction is about to be rolled back.
Failing == aborted => "statement_fails" \in faults /\ Phase # "drop"

\* The counter is right whatever fails; the stack is, too, where the handler of
\* the binding rolls back after everything that may fail.
Scopes == TypeOK /\ Counted /\ (Recovers => Stacked /\ Failing)

-----------------------------------------------------------------------------
(***************************************************************************)
(* The greatest element of a bounded set of numbers.                       *)
(***************************************************************************)
\* The order of the numbers is well founded.
LEMMA LessThan ==
    \E R : IsWellFoundedOn(R, Nat) /\ \A x, y \in Nat : <<y, x>> \in R <=> y < x
<1>1. \A x, y \in Nat : <<y, x>> \in OpToRel(<, Nat) <=> y < x
  BY DEF OpToRel
<1>2. WITNESS OpToRel(<, Nat)
<1>3. QED
  BY NatLessThanWellFounded, <1>1, Zenon

\* A set of numbers has a least one.
LEMMA MinExists ==
    ASSUME NEW T, T \subseteq Nat, T # {}
    PROVE  \E x \in T : \A y \in T : x <= y
<1>1. PICK R : /\ IsWellFoundedOn(R, Nat)
               /\ \A x, y \in Nat : <<y, x>> \in R <=> y < x
  BY LessThan
<1>2. PICK x \in T : \A y \in T : ~ (<<y, x>> \in R)
  BY <1>1, WFMin, Zenon
<1>3. \A y \in T : x <= y
  <2> TAKE y \in T
  <2>1. x \in Nat /\ y \in Nat /\ <<y, x>> \notin R
    BY <1>2
  <2>2. ~ (y < x)
    BY <2>1, <1>1, Zenon
  <2>3. QED
    BY <2>1, <2>2
<1>4. QED
  BY <1>3

\* A set of numbers up to n has a greatest one.
LEMMA MaxFacts ==
    ASSUME NEW n \in Nat, NEW T, T \subseteq 0..n, T # {}
    PROVE  Max(T) \in T /\ \A y \in T : y <= Max(T)
<1> DEFINE U == {u \in 0..n : n - u \in T}
<1>1. U \subseteq Nat /\ U # {}
  <2>1. PICK y \in T : TRUE
    OBVIOUS
  <2>2. n - y \in U
    <3>1. n - y \in 0..n /\ n - (n - y) = y
      BY <2>1
    <3>2. QED
      BY <3>1
  <2>3. U \subseteq Nat
    OBVIOUS
  <2>4. QED
    BY <2>2, <2>3, Zenon
<1>2. PICK x \in U : \A y \in U : x <= y
  <2> HIDE DEF U
  <2>1. QED
    BY <1>1, MinExists
<1>3. \A y \in T : y <= n - x
  <2> TAKE y \in T
  <2>1. n - y \in 0..n /\ n - (n - y) = y
    OBVIOUS
  <2>2. x <= n - y /\ x \in Nat
    BY <2>1, <1>2
  <2>3. QED
    BY <2>1, <2>2
<1>4. n - x \in T
  BY <1>2
<1>5. \A y \in T : y \in Int
  OBVIOUS
<1>6. \E m \in T : \A y \in T : m >= y
  <2> WITNESS n - x \in T
  <2>1. QED
    BY <1>2, <1>3, <1>5
<1>7. Max(T) \in T /\ \A y \in T : Max(T) >= y
  BY <1>6 DEF Max
<1>8. QED
  BY <1>5, <1>7

-----------------------------------------------------------------------------
(***************************************************************************)
(* Where a name stands on a stack.                                         *)
(***************************************************************************)
Entries == [name : Nat, before : Nat]

\* The latest savepoint of a name, by its position.
LEMMA PositionFacts ==
    ASSUME NEW s \in Seq(Entries), NEW d
    PROVE  /\ Position(s, d) \in 0..Len(s)
           /\ Position(s, d) > 0 => s[Position(s, d)].name = d
           /\ \A i \in 1..Len(s) : s[i].name = d => i <= Position(s, d)
<1> DEFINE T == {0} \cup {i \in DOMAIN s : s[i].name = d}
<1>1. Len(s) \in Nat /\ DOMAIN s = 1..Len(s)
  BY LenProperties
<1>2. T \subseteq 0..Len(s) /\ T # {}
  BY <1>1
<1>3. Max(T) \in T /\ \A y \in T : y <= Max(T)
  <2> HIDE DEF T
  <2>1. QED
    BY <1>1, <1>2, MaxFacts
<1>4. Position(s, d) = Max(T)
  BY DEF Position
<1>5. \A i \in 1..Len(s) : s[i].name = d => i \in T
  BY <1>1
<1>6. Max(T) > 0 => s[Max(T)].name = d
  BY <1>1, <1>3
<1>7. QED
  <2> HIDE DEF T
  <2>1. QED
    BY <1>2, <1>3, <1>4, <1>5, <1>6

\* Only that position is the latest.
LEMMA PositionIs ==
    ASSUME NEW s \in Seq(Entries), NEW d, NEW p \in 0..Len(s),
           p > 0 => s[p].name = d,
           \A i \in 1..Len(s) : s[i].name = d => i <= p
    PROVE  Position(s, d) = p
<1>1. Len(s) \in Nat
  BY LenProperties
<1>2. PICK q : q = Position(s, d)
  OBVIOUS
<1>3. /\ q \in 0..Len(s)
      /\ q > 0 => s[q].name = d
      /\ \A i \in 1..Len(s) : s[i].name = d => i <= q
  BY <1>2, PositionFacts
<1>4. q <= p
  BY <1>1, <1>3
<1>5. p <= q
  BY <1>1, <1>3
<1>6. QED
  BY <1>1, <1>2, <1>3, <1>4, <1>5

\* There is none on an empty stack.
LEMMA PositionEmpty ==
    ASSUME NEW d
    PROVE  Position(<<>>, d) = 0
<1>1. PICK s \in Seq(Entries) : s = <<>> /\ Len(s) = 0
  BY EmptySeq
<1>2. \A i \in 1..Len(s) : FALSE
  BY <1>1
<1>3. 0 \in 0..Len(s) /\ ~ (0 > 0)
  BY <1>1
<1>4. Position(s, d) = 0
  BY <1>2, <1>3, PositionIs
<1>5. QED
  BY <1>1, <1>4

\* The latest after a push.
LEMMA PositionPush ==
    ASSUME NEW s \in Seq(Entries), NEW e \in Entries, NEW d
    PROVE  Position(Append(s, e), d) =
               IF e.name = d THEN Len(s) + 1 ELSE Position(s, d)
<1> DEFINE t == Append(s, e)
<1>1. Len(s) \in Nat
  BY LenProperties
<1>2. /\ t \in Seq(Entries) /\ Len(t) = Len(s) + 1
      /\ \A i \in 1..Len(s) : t[i] = s[i]
      /\ t[Len(s) + 1] = e
  BY AppendProperties
<1> HIDE DEF t
<1>3. CASE e.name = d
  <2>1. Position(t, d) = Len(s) + 1
    BY <1>1, <1>2, <1>3, PositionIs
  <2>2. QED
    BY <2>1, <1>3 DEF t
<1>4. CASE e.name # d
  <2>1. PICK q : q = Position(s, d)
    OBVIOUS
  <2>2. /\ q \in 0..Len(s)
        /\ q > 0 => s[q].name = d
        /\ \A i \in 1..Len(s) : s[i].name = d => i <= q
    BY <2>1, PositionFacts
  <2>3. q > 0 => t[q].name = d
    BY <1>1, <1>2, <2>2
  <2>4. ASSUME NEW i \in 1..Len(t), t[i].name = d
        PROVE  i <= q
    <3>1. i # Len(s) + 1
      BY <1>2, <1>4, <2>4
    <3>2. i \in 1..Len(s)
      BY <3>1, <1>1, <1>2
    <3>3. QED
      BY <3>2, <2>2, <2>4, <1>2
  <2>5. q \in 0..Len(t)
    BY <1>1, <1>2, <2>2
  <2>6. Position(t, d) = q
    BY <1>2, <2>3, <2>4, <2>5, PositionIs
  <2>7. QED
    BY <2>1, <2>6, <1>4 DEF t
<1>5. QED
  BY <1>3, <1>4

\* The first p entries of a stack.
LEMMA CutFacts ==
    ASSUME NEW S, NEW s \in Seq(S), NEW p \in 0..Len(s)
    PROVE  /\ SubSeq(s, 1, p) \in Seq(S)
           /\ Len(SubSeq(s, 1, p)) = p
           /\ \A i \in 1..p : SubSeq(s, 1, p)[i] = s[i]
<1>1. Len(s) \in Nat /\ 1 \in Int /\ p \in Int /\ p >= 0
  BY LenProperties
<1>2. \A i \in 1..p : s[i] \in S
  BY <1>1, ElementOfSeq
<1>3. /\ SubSeq(s, 1, p) \in Seq(S)
      /\ Len(SubSeq(s, 1, p)) = IF 1 <= p THEN p - 1 + 1 ELSE 0
      /\ \A i \in 1..p - 1 + 1 : SubSeq(s, 1, p)[i] = s[1 + i - 1]
  BY <1>1, <1>2, SubSeqProperties
<1>4. QED
  BY <1>1, <1>3

\* The latest after the stack is cut above it.
LEMMA PositionCut ==
    ASSUME NEW s \in Seq(Entries), NEW p \in 0..Len(s), NEW d,
           Position(s, d) <= p
    PROVE  Position(SubSeq(s, 1, p), d) = Position(s, d)
<1>1. PICK t : t = SubSeq(s, 1, p)
  OBVIOUS
<1>2. /\ t \in Seq(Entries) /\ Len(t) = p
      /\ \A i \in 1..p : t[i] = s[i]
  BY <1>1, CutFacts
<1>3. Len(s) \in Nat
  BY LenProperties
<1>4. PICK q : q = Position(s, d)
  OBVIOUS
<1>5. /\ q \in 0..Len(s) /\ q <= p
      /\ q > 0 => s[q].name = d
      /\ \A i \in 1..Len(s) : s[i].name = d => i <= q
  BY <1>4, PositionFacts
<1>6. /\ q \in 0..Len(t)
      /\ q > 0 => t[q].name = d
      /\ \A i \in 1..Len(t) : t[i].name = d => i <= q
  BY <1>2, <1>3, <1>5
<1>7. Position(t, d) = q
  BY <1>2, <1>6, PositionIs
<1>8. QED
  BY <1>1, <1>4, <1>7

-----------------------------------------------------------------------------
(***************************************************************************)
(* The layout of the stack: what the statements do to it.                  *)
(***************************************************************************)
\* What Layout says of the scopes that are left.
LEMMA LayoutFacts ==
    ASSUME NEW s \in Seq(Entries), NEW sv, NEW b \in Nat, NEW l, Layout(s, l, b, sv)
    PROVE  /\ l \in Nat /\ l <= b
           /\ \A d \in l..(b - 1) : Position(s, d) \in 1..Len(s)
           /\ \A d \in 0..(b - 1) : d < l => Position(s, d) = 0
           /\ l < b => s # <<>>
           /\ l = b => s = <<>>
<1>1. \A d : Position(s, d) \in 0..Len(s)
  BY PositionFacts
<1>2. Len(s) \in Nat
  BY LenProperties
<1>3. l \in Nat /\ l <= b
  BY DEF Layout
<1>4. \A d \in l..(b - 1) : Position(s, d) \in 1..Len(s)
  BY <1>1, <1>2, <1>3 DEF Layout
<1>5. QED
  BY <1>3, <1>4 DEF Layout

\* Without a transaction every scope is lost.
LEMMA LayoutEmpty ==
    ASSUME NEW b \in Nat, NEW sv
    PROVE  Layout(<<>>, b, b, sv)
<1>1. Len(<<>>) = 0
  BY EmptySeq
<1>2. \A d : Position(<<>>, d) = 0
  BY PositionEmpty
<1>3. QED
  BY <1>1, <1>2 DEF Layout

\* BEGIN or SAVEPOINT.
LEMMA LayoutPush ==
    ASSUME NEW s \in Seq(Entries), NEW sv, NEW b \in Nat, NEW l, Layout(s, l, b, sv),
           NEW e \in Entries, e.name = b,
           s # <<>> \/ b = 0 \/ sv # "mssql"
    PROVE  Layout(Append(s, e), l, b + 1, sv)
<1>1. PICK t : t = Append(s, e)
  OBVIOUS
<1>2. Len(s) \in Nat /\ t # <<>> /\ Len(t) = Len(s) + 1
  BY <1>1, LenProperties, AppendProperties
<1>3. \A d : Position(t, d) = IF b = d THEN Len(s) + 1 ELSE Position(s, d)
  BY <1>1, PositionPush
<1>4. \A d : Position(s, d) \in 0..Len(s)
  BY PositionFacts
<1>5. l \in 0..b
  BY DEF Layout
<1>6. s = <<>> => Len(s) = 0
  BY EmptySeq
<1>7. \A d \in 0..b : (Position(t, d) = 0) <=> (d < l)
  BY <1>2, <1>3, <1>5 DEF Layout
<1>8. \A d, g \in l..b : d < g => Position(t, d) < Position(t, g)
  <2> TAKE d, g \in l..b
  <2> HAVE d < g
  <2>1. Position(t, d) = Position(s, d) /\ d \in l..(b - 1)
    BY <1>3, <1>5
  <2>2. CASE g = b
    BY <2>1, <2>2, <1>2, <1>3, <1>4
  <2>3. CASE g # b
    <3>1. g \in l..(b - 1) /\ Position(t, g) = Position(s, g)
      BY <2>3, <1>3, <1>5
    <3>2. QED
      BY <2>1, <3>1 DEF Layout
  <2>4. QED
    BY <2>2, <2>3
<1>9. Position(t, l) = 1
  <2>1. CASE l = b
    BY <2>1, <1>3, <1>6 DEF Layout
  <2>2. CASE l # b
    BY <2>2, <1>3, <1>5 DEF Layout
  <2>3. QED
    BY <2>1, <2>2
<1>10. sv = "mssql" => l = 0
  BY <1>5 DEF Layout
<1>11. ASSUME sv # "mssql"
       PROVE  /\ Len(t) = (b + 1) - l
              /\ \A d \in l..b : Position(t, d) = (d - l) + 1
  <2>1. Len(s) = b - l /\ \A d \in l..(b - 1) : Position(s, d) = (d - l) + 1
    BY <1>11 DEF Layout
  <2>2. QED
    BY <2>1, <1>2, <1>3, <1>5
<1>12. (b + 1) - 1 = b /\ l \in 0..(b + 1) /\ l # b + 1
  BY <1>5
<1>13. Layout(t, l, b + 1, sv)
  BY <1>2, <1>7, <1>8, <1>9, <1>10, <1>11, <1>12 DEF Layout
<1>14. QED
  BY <1>1, <1>13

\* The stack is cut above an entry at or above those of the first b2 scopes.
LEMMA LayoutCut ==
    ASSUME NEW s \in Seq(Entries), NEW sv, NEW b \in Nat, NEW l, Layout(s, l, b, sv),
           NEW b2 \in 0..b, l < b2,
           NEW p \in 0..Len(s), Position(s, b2 - 1) <= p,
           sv # "mssql" => p = b2 - l
    PROVE  Layout(SubSeq(s, 1, p), l, b2, sv)
<1>1. PICK t : t = SubSeq(s, 1, p)
  OBVIOUS
<1>2. Len(s) \in Nat /\ Len(t) = p /\ l \in Nat
  BY <1>1, LenProperties, CutFacts, LayoutFacts
<1>3. \A d \in l..(b - 1) : Position(s, d) \in 1..Len(s)
  BY LayoutFacts
<1>4. b2 - 1 \in l..(b - 1) /\ p >= 1
  BY <1>2, <1>3
<1>5. \A d \in l..(b2 - 1) : Position(s, d) <= p
  <2> TAKE d \in l..(b2 - 1)
  <2>1. CASE d = b2 - 1
    BY <2>1
  <2>2. CASE d # b2 - 1
    <3>1. d \in l..(b - 1) /\ d < b2 - 1
      BY <2>2, <1>2
    <3>2. Position(s, d) < Position(s, b2 - 1)
      BY <3>1, <1>4 DEF Layout
    <3>3. QED
      BY <3>1, <3>2, <1>3, <1>4
  <2>3. QED
    BY <2>1, <2>2
<1>6. \A d \in 0..(b2 - 1) : Position(s, d) <= p
  <2> TAKE d \in 0..(b2 - 1)
  <2>1. d \in 0..(b - 1)
    OBVIOUS
  <2>2. d < l => Position(s, d) = 0
    BY <2>1, LayoutFacts
  <2>3. QED
    BY <2>2, <1>2, <1>5
<1>7. \A d \in 0..(b2 - 1) : Position(t, d) = Position(s, d)
  BY <1>1, <1>6, PositionCut
<1>8. t # <<>>
  BY <1>2, <1>4, EmptySeq
<1>9. \A d \in 0..(b2 - 1) : (Position(t, d) = 0) <=> (d < l)
  BY <1>7 DEF Layout
<1>10. \A d, g \in l..(b2 - 1) : d < g => Position(t, d) < Position(t, g)
  <2> TAKE d, g \in l..(b2 - 1)
  <2> HAVE d < g
  <2>1. d \in 0..(b2 - 1) /\ g \in 0..(b2 - 1)
    BY <1>2
  <2>2. d \in l..(b - 1) /\ g \in l..(b - 1)
    BY <1>2
  <2>3. Position(s, d) < Position(s, g)
    BY <2>2 DEF Layout
  <2>4. QED
    BY <2>1, <2>3, <1>7
<1>11. Position(t, l) = 1
  <2>1. l \in 0..(b2 - 1) /\ l < b
    BY <1>2
  <2>2. QED
    BY <2>1, <1>7 DEF Layout
<1>12. sv = "mssql" => l = 0
  BY <1>2 DEF Layout
<1>13. ASSUME sv # "mssql"
       PROVE  Len(t) = b2 - l /\ \A d \in l..(b2 - 1) : Position(t, d) = (d - l) + 1
  <2>1. \A d \in l..(b - 1) : Position(s, d) = (d - l) + 1
    BY <1>13 DEF Layout
  <2>2. QED
    BY <2>1, <1>2, <1>7, <1>13
<1>14. l \in 0..b2 /\ l # b2
  BY <1>2
<1>15. Layout(t, l, b2, sv)
  BY <1>8, <1>9, <1>10, <1>11, <1>12, <1>13, <1>14 DEF Layout
<1>16. QED
  BY <1>1, <1>15

\* What Layout says is in step with one l only.
LEMMA LayoutUnique ==
    ASSUME NEW s, NEW sv, NEW b \in Nat, NEW l, NEW m,
           Layout(s, l, b, sv), Layout(s, m, b, sv)
    PROVE  l = m
<1>1. l \in 0..b /\ m \in 0..b
  BY DEF Layout
<1>2. \A d \in 0..(b - 1) : (d < l) <=> (d < m)
  BY DEF Layout
<1>3. QED
  BY <1>1, <1>2

-----------------------------------------------------------------------------
(***************************************************************************)
(* What the scopes go back to.                                             *)
(***************************************************************************)
\* What is kept for the scopes is a sequence, one entry for each.
LEMMA KeptType ==
    ASSUME NEW s \in Seq(Entries), NEW u \in Nat
    PROVE  /\ Kept(s, u) \in Seq(Int)
           /\ Len(Kept(s, u)) = u /\ DOMAIN Kept(s, u) = 1..u
           /\ \A i \in 1..u : Kept(s, u)[i] = IF Position(s, i - 1) = 0 THEN Gone
                                             ELSE s[Position(s, i - 1)].before
<1>1. \A i \in 1..u : (IF Position(s, i - 1) = 0 THEN Gone
                       ELSE s[Position(s, i - 1)].before) \in Int
  <2> TAKE i \in 1..u
  <2>1. Position(s, i - 1) \in 0..Len(s) /\ Len(s) \in Nat
    BY PositionFacts, LenProperties
  <2>2. ASSUME Position(s, i - 1) # 0
        PROVE  s[Position(s, i - 1)].before \in Int
    <3>1. Position(s, i - 1) \in 1..Len(s)
      BY <2>1, <2>2
    <3>2. s[Position(s, i - 1)] \in Entries
      BY <3>1, ElementOfSeq
    <3>3. QED
      BY <3>2 DEF Entries
  <2>3. QED
    BY <2>2 DEF Gone
<1>2. PICK k : k = Kept(s, u)
  OBVIOUS
<1>3. /\ k \in [1..u -> Int]
      /\ \A i \in 1..u : k[i] = IF Position(s, i - 1) = 0 THEN Gone
                                ELSE s[Position(s, i - 1)].before
  BY <1>1, <1>2 DEF Kept
<1>4. k \in Seq(Int) /\ Len(k) = u /\ DOMAIN k = 1..u
  BY <1>3, SeqDef
<1>5. QED
  BY <1>2, <1>3, <1>4

\* Two stacks on which the scopes find the same entries.
LEMMA KeptSame ==
    ASSUME NEW s, NEW t, NEW u \in Int,
           \A d \in 0..(u - 1) :
               /\ Position(s, d) = 0 <=> Position(t, d) = 0
               /\ Position(s, d) # 0 => s[Position(s, d)] = t[Position(t, d)]
    PROVE  Kept(s, u) = Kept(t, u)
<1>1. \A i \in 1..u :
          (IF Position(s, i - 1) = 0 THEN Gone ELSE s[Position(s, i - 1)].before)
        = (IF Position(t, i - 1) = 0 THEN Gone ELSE t[Position(t, i - 1)].before)
  <2> TAKE i \in 1..u
  <2>1. i - 1 \in 0..(u - 1)
    OBVIOUS
  <2>2. QED
    BY <2>1
<1>2. QED
  BY <1>1, Zenon DEF Kept

\* Without a transaction nothing is left to go back to.
LEMMA KeptEmpty ==
    ASSUME NEW u
    PROVE  Kept(<<>>, u) = [i \in 1..u |-> Gone]
<1>1. \A d : Position(<<>>, d) = 0
  BY PositionEmpty
<1>2. QED
  BY <1>1 DEF Kept

\* No scope, nothing to go back to.
LEMMA KeptNone ==
    ASSUME NEW s \in Seq(Entries)
    PROVE  Kept(s, 0) = <<>>
<1>1. 0 \in Nat
  OBVIOUS
<1>2. Kept(s, 0) \in Seq(Int) /\ Len(Kept(s, 0)) = 0
  BY <1>1, KeptType
<1>3. QED
  BY <1>2, EmptySeq

\* A sequence that is k with one element more.
LEMMA OneMore ==
    ASSUME NEW n \in Nat, NEW k \in Seq(Int), Len(k) = n,
           NEW m \in Seq(Int), Len(m) = n + 1,
           \A i \in 1..n : m[i] = k[i]
    PROVE  m = Append(k, m[n + 1]) /\ Front(m) = k /\ Last(m) = m[n + 1] /\ m # <<>>
<1>1. n + 1 \in 1..Len(m)
  OBVIOUS
<1>2. PICK x : x = m[n + 1]
  OBVIOUS
<1>3. x \in Int
  BY <1>1, <1>2, ElementOfSeq
<1>4. PICK a : a = Append(k, x)
  OBVIOUS
<1>5. /\ a \in Seq(Int) /\ Len(a) = n + 1
      /\ \A i \in 1..n : a[i] = k[i]
      /\ a[n + 1] = x
  BY <1>3, <1>4, AppendProperties
<1>6. \A i \in 1..Len(m) : m[i] = a[i]
  <2> TAKE i \in 1..Len(m)
  <2>1. i \in 1..n \/ i = n + 1
    OBVIOUS
  <2>2. QED
    BY <2>1, <1>2, <1>5
<1>7. m = a
  BY <1>5, <1>6, SeqEqual
<1>8. Len(m) - 1 = n /\ n \in 0..Len(m)
  OBVIOUS
<1>9. /\ SubSeq(m, 1, n) \in Seq(Int)
      /\ Len(SubSeq(m, 1, n)) = n
      /\ \A i \in 1..n : SubSeq(m, 1, n)[i] = m[i]
  BY <1>8, CutFacts
<1>10. SubSeq(m, 1, n) = k
  BY <1>9, SeqEqual
<1>11. Front(m) = k
  BY <1>8, <1>10 DEF Front
<1>12. m # <<>>
  BY EmptySeq
<1>13. Last(m) = m[n + 1]
  BY DEF Last
<1>14. m = Append(k, m[n + 1])
  BY ONLY <1>2, <1>4, <1>7, Zenon
<1>15. QED
  BY ONLY <1>11, <1>12, <1>13, <1>14, Zenon

\* A scope begins.
LEMMA KeptPush ==
    ASSUME NEW s \in Seq(Entries), NEW u \in Nat, NEW e \in Entries, e.name = u
    PROVE  Kept(Append(s, e), u + 1) = Append(Kept(s, u), e.before)
<1>1. PICK t : t = Append(s, e)
  OBVIOUS
<1>2. Len(s) \in Nat
  BY LenProperties
<1>3. /\ t \in Seq(Entries) /\ Len(t) = Len(s) + 1
      /\ \A i \in 1..Len(s) : t[i] = s[i]
      /\ t[Len(s) + 1] = e
  BY <1>1, AppendProperties
<1>4. \A d : Position(t, d) = IF u = d THEN Len(s) + 1 ELSE Position(s, d)
  BY <1>1, PositionPush
<1>5. PICK v \in Nat : v = u + 1
  OBVIOUS
<1>6. PICK m : m = Kept(t, v)
  OBVIOUS
<1>7. /\ m \in Seq(Int) /\ Len(m) = v
      /\ \A i \in 1..v : m[i] = IF Position(t, i - 1) = 0 THEN Gone
                                ELSE t[Position(t, i - 1)].before
  BY <1>3, <1>6, KeptType
<1>8. PICK k : k = Kept(s, u)
  OBVIOUS
<1>9. /\ k \in Seq(Int) /\ Len(k) = u
      /\ \A i \in 1..u : k[i] = IF Position(s, i - 1) = 0 THEN Gone
                                ELSE s[Position(s, i - 1)].before
  BY <1>8, KeptType
<1>10. \A i \in 1..u : m[i] = k[i]
  <2> TAKE i \in 1..u
  <2>1. i \in 1..v /\ Position(t, i - 1) = Position(s, i - 1)
    BY <1>4, <1>5
  <2>2. Position(s, i - 1) \in 0..Len(s)
    BY PositionFacts
  <2>3. CASE Position(s, i - 1) = 0
    BY <2>1, <2>3, <1>7, <1>9
  <2>4. CASE Position(s, i - 1) # 0
    <3>1. t[Position(s, i - 1)] = s[Position(s, i - 1)]
      BY <2>2, <2>4, <1>2, <1>3
    <3>2. QED
      BY <2>1, <2>4, <3>1, <1>7, <1>9
  <2>5. QED
    BY <2>3, <2>4
<1>11. m[u + 1] = e.before
  <2>1. u + 1 \in 1..v /\ (u + 1) - 1 = u
    BY <1>5
  <2>2. Position(t, (u + 1) - 1) = Len(s) + 1 /\ Len(s) + 1 # 0
    BY <2>1, <1>2, <1>4
  <2>3. QED
    BY <2>1, <2>2, <1>3, <1>7
<1>12. m = Append(k, m[u + 1])
  BY <1>5, <1>7, <1>9, <1>10, OneMore
<1>13. QED
  BY <1>1, <1>5, <1>6, <1>8, <1>11, <1>12

\* The innermost scope and those around it.
LEMMA KeptEnds ==
    ASSUME NEW s \in Seq(Entries), NEW u \in Nat, u >= 1
    PROVE  /\ Kept(s, u) # <<>>
           /\ Kept(s, u) = Append(Kept(s, u - 1), Last(Kept(s, u)))
           /\ Front(Kept(s, u)) = Kept(s, u - 1)
           /\ Last(Kept(s, u)) = IF Position(s, u - 1) = 0 THEN Gone
                                 ELSE s[Position(s, u - 1)].before
<1>1. PICK n \in Nat : n = u - 1
  OBVIOUS
<1>2. PICK m : m = Kept(s, u)
  OBVIOUS
<1>3. /\ m \in Seq(Int) /\ Len(m) = u
      /\ \A i \in 1..u : m[i] = IF Position(s, i - 1) = 0 THEN Gone
                                ELSE s[Position(s, i - 1)].before
  BY <1>2, KeptType
<1>4. PICK k : k = Kept(s, n)
  OBVIOUS
<1>5. /\ k \in Seq(Int) /\ Len(k) = n
      /\ \A i \in 1..n : k[i] = IF Position(s, i - 1) = 0 THEN Gone
                                ELSE s[Position(s, i - 1)].before
  BY <1>4, KeptType
<1>6. u = n + 1 /\ n + 1 \in 1..u /\ (n + 1) - 1 = n /\ \A i \in 1..n : i \in 1..u
  BY <1>1
<1>7. \A i \in 1..n : m[i] = k[i]
  BY <1>3, <1>5, <1>6
<1>8. m = Append(k, m[n + 1]) /\ Front(m) = k /\ Last(m) = m[n + 1] /\ m # <<>>
  <2>1. n \in Nat /\ m \in Seq(Int) /\ k \in Seq(Int) /\ Len(k) = n /\ Len(m) = n + 1
    BY <1>3, <1>5, <1>6
  <2>2. QED
    BY ONLY <2>1, <1>7, OneMore
<1>9. m[n + 1] = IF Position(s, n) = 0 THEN Gone ELSE s[Position(s, n)].before
  BY <1>3, <1>6
<1>10. QED
  BY <1>1, <1>2, <1>4, <1>8, <1>9

-----------------------------------------------------------------------------
(***************************************************************************)
(* The one caller and its scopes.                                          *)
(***************************************************************************)
\* The one caller there is.
LEMMA OnlyMe ==
    ASSUME OneCaller
    PROVE  Callers = {Me}
BY DEF OneCaller, Me, Caller

Phases == {"body", "begin", "begun", "commit", "undo", "drop", "return", "throw"}

\* What the scopes and the phase say of one another.
LEMMA StateFacts ==
    ASSUME Callers = {Me}, TypeOK, Counted
    PROVE  /\ stack \in Seq(Entries) /\ Len(stack) \in Nat
           /\ scopes[Me] \in Seq(Nat)
           /\ Open \in Nat /\ Phase \in Phases /\ Begun \in Nat
           /\ newest \in Nat /\ content \in 0..newest
           /\ Phase # "body" => Open >= 1 /\ Depth(Me) = Open - 1
           /\ Undoable(Me) = Open - (IF Phase \in {"begin", "return", "throw", "drop"} THEN 1 ELSE 0)
<1>1. scopes[Me] \in Seq(Nat) /\ Phase \in Phases
  BY DEF TypeOK, Phase, Phases
<1>2. Open \in Nat
  BY <1>1, LenProperties DEF Open
<1>3. newest \in Nat /\ content \in 0..newest
  BY TransactionAssumption DEF TypeOK
<1>4. [name : Nat, before : 0..newest] \subseteq Entries
  BY <1>3 DEF Entries
<1>5. stack \in Seq(Entries)
  BY <1>4, SeqMonotonic DEF TypeOK
<1>6. Phase # "body" => Open >= 1 /\ Depth(Me) = Open - 1
  <2> SUFFICES ASSUME Phase # "body" PROVE Open >= 1 /\ Depth(Me) = Open - 1
    OBVIOUS
  <2>1. Open >= 1
    BY DEF Counted
  <2>2. Open \in 1..Open
    BY <2>1, <1>2
  <2>3. scopes[Me][Open] = Open - 1
    BY <2>2 DEF Counted
  <2>4. QED
    BY <2>1, <2>3 DEF Depth, Last, Open
<1>7. Begun \in Nat
  BY <1>2, <1>6 DEF Begun
<1>8. Undoable(Me) = Open - (IF Phase \in {"begin", "return", "throw", "drop"} THEN 1 ELSE 0)
  BY DEF Undoable, Open, Phase
<1>9. QED
  BY <1>1, <1>2, <1>3, <1>5, <1>6, <1>7, <1>8, LenProperties

\* A scope is added or the innermost one removed.
LEMMA ScopeAdded ==
    ASSUME NEW s \in Seq(Nat), NEW e \in Nat, NEW t, t = Append(s, e)
    PROVE  /\ t \in Seq(Nat) /\ Len(t) = Len(s) + 1
           /\ \A i \in 1..Len(s) : t[i] = s[i]
           /\ t[Len(s) + 1] = e
BY AppendProperties

\* The scopes without the innermost.
LEMMA ScopeRemoved ==
    ASSUME NEW s \in Seq(Nat), Len(s) >= 1, NEW t, t = Front(s)
    PROVE  /\ t \in Seq(Nat) /\ Len(t) = Len(s) - 1
           /\ \A i \in 1..(Len(s) - 1) : t[i] = s[i]
<1>1. Len(s) \in Nat
  BY LenProperties
<1>2. PICK p : p = Len(s) - 1 /\ p \in 0..Len(s)
  BY <1>1
<1>3. t = SubSeq(s, 1, p)
  BY <1>2 DEF Front
<1>4. QED
  BY <1>2, <1>3, CutFacts

\* What Enter does to the scopes, and what BeginFails and Leave do.
LEMMA ScopeEntered ==
    ASSUME Callers = {Me}, TypeOK, Counted,
           scopes' = [scopes EXCEPT ![Me] = Append(@, txDepth)]
    PROVE  /\ scopes' \in [Callers -> Seq(Nat)]
           /\ Open' = Open + 1
           /\ \A i \in 1..Open : scopes'[Me][i] = scopes[Me][i]
           /\ scopes'[Me][Open + 1] = txDepth
<1>1. scopes \in [Callers -> Seq(Nat)] /\ txDepth \in Nat
  BY DEF TypeOK
<1>2. PICK t : t = Append(scopes[Me], txDepth)
  OBVIOUS
<1>3. /\ t \in Seq(Nat) /\ Len(t) = Len(scopes[Me]) + 1
      /\ \A i \in 1..Len(scopes[Me]) : t[i] = scopes[Me][i]
      /\ t[Len(scopes[Me]) + 1] = txDepth
  BY <1>1, <1>2, ScopeAdded
<1>4. scopes' = [scopes EXCEPT ![Me] = t]
  BY <1>2
<1>5. scopes'[Me] = t
  BY <1>1, <1>4
<1>6. scopes' \in [Callers -> Seq(Nat)]
  BY <1>1, <1>3, <1>4
<1>7. QED
  BY <1>3, <1>5, <1>6 DEF Open

\* Leaving a scope takes it off the scopes.
LEMMA ScopeLeft ==
    ASSUME Callers = {Me}, TypeOK, Counted, Phase # "body",
           scopes' = [scopes EXCEPT ![Me] = Front(@)]
    PROVE  /\ scopes' \in [Callers -> Seq(Nat)]
           /\ Open' = Open - 1
           /\ \A i \in 1..(Open - 1) : scopes'[Me][i] = scopes[Me][i]
<1>1. scopes \in [Callers -> Seq(Nat)] /\ Len(scopes[Me]) >= 1
  BY DEF TypeOK, Counted, Open
<1>2. PICK t : t = Front(scopes[Me])
  OBVIOUS
<1>3. /\ t \in Seq(Nat) /\ Len(t) = Len(scopes[Me]) - 1
      /\ \A i \in 1..(Len(scopes[Me]) - 1) : t[i] = scopes[Me][i]
  BY <1>1, <1>2, ScopeRemoved
<1>4. scopes' = [scopes EXCEPT ![Me] = t]
  BY <1>2
<1>5. scopes'[Me] = t
  BY <1>1, <1>4
<1>6. scopes' \in [Callers -> Seq(Nat)]
  BY <1>1, <1>3, <1>4
<1>7. QED
  BY <1>3, <1>5, <1>6 DEF Open

\* The actions of the one caller.
Steps ==
    \/ Write(Me) \/ WriteRollsBack(Me) \/ WriteAborts(Me)
    \/ Enter(Me)
    \/ \E l \in {"commit", "undo"} : BodyEnds(Me, l)
    \/ ErrorEscapes(Me) \/ Goexits(Me) \/ Cancelled(Me)
    \/ Step(Me)

\* Every step is one of the one caller.
LEMMA OnlyMySteps ==
    ASSUME Callers = {Me}, Next
    PROVE  Steps /\ UNCHANGED <<binding, server, faults>>
<1>1. PICK c \in Callers :
          \/ Write(c) \/ WriteRollsBack(c) \/ WriteAborts(c)
          \/ Enter(c)
          \/ \E l \in {"commit", "undo"} : BodyEnds(c, l)
          \/ ErrorEscapes(c) \/ Goexits(c) \/ Cancelled(c)
          \/ Step(c)
  BY DEF Next
<1>2. c = Me
  OBVIOUS
<1>3. QED
  BY <1>1, <1>2 DEF Steps, Next

\* A step to phase p that leaves the scopes alone.
LEMMA WentTo ==
    ASSUME Callers = {Me}, TypeOK, NEW p, Goto(Me, p)
    PROVE  Phase' = p
BY DEF TypeOK, Goto, Phase

\* The counter and the scopes, step by step.
LEMMA CountedStep ==
    ASSUME Callers = {Me}, TypeOK, Counted, Steps, UNCHANGED <<binding, server, faults>>
    PROVE  Counted' /\ scopes' \in [Callers -> Seq(Nat)]
<1> DEFINE Same == UNCHANGED scopes
<1>1. Open \in Nat /\ scopes \in [Callers -> Seq(Nat)] /\ Phase = pc[Me]
  BY StateFacts DEF TypeOK, Phase
<1>2. Phase # "body" => Open >= 1 /\ Depth(Me) = Open - 1
  BY StateFacts
<1>3. ASSUME Same
      PROVE  Open' = Open /\ scopes' \in [Callers -> Seq(Nat)]
             /\ \A i \in 1..Open' : scopes'[Me][i] = i - 1
  BY <1>1, <1>3 DEF Open, Counted
<1>4. ASSUME UNCHANGED <<scopes, txDepth, pc>>
      PROVE  Counted'
  <2>1. Phase' = Phase
    BY <1>4 DEF Phase
  <2>2. QED
    BY <1>3, <1>4, <2>1 DEF Counted
<1>5. CASE Write(Me) \/ WriteRollsBack(Me) \/ WriteAborts(Me)
  <2>1. UNCHANGED <<scopes, txDepth, pc>>
    BY <1>5 DEF Write, WriteRollsBack, WriteAborts
  <2>2. QED
    BY <2>1, <1>3, <1>4
<1>6. CASE Enter(Me)
  <2>1. Phase = "body" /\ Phase' = "begin" /\ txDepth' = txDepth
    BY <1>1, <1>6, WentTo DEF Enter
  <2>2. txDepth = Open
    BY <2>1, <1>1 DEF Counted
  <2>3. /\ scopes' \in [Callers -> Seq(Nat)]
        /\ Open' = Open + 1
        /\ \A i \in 1..Open : scopes'[Me][i] = scopes[Me][i]
        /\ scopes'[Me][Open + 1] = txDepth
    BY <1>6, ScopeEntered DEF Enter
  <2>4. \A i \in 1..Open' : scopes'[Me][i] = i - 1
    <3> TAKE i \in 1..Open'
    <3>1. CASE i = Open + 1
      BY <3>1, <1>1, <2>2, <2>3
    <3>2. CASE i # Open + 1
      <4>1. i \in 1..Open
        BY <3>2, <1>1, <2>3
      <4>2. QED
        BY <4>1, <2>3 DEF Counted
    <3>3. QED
      BY <3>1, <3>2
  <2>5. QED
    BY <1>1, <2>1, <2>2, <2>3, <2>4 DEF Counted
<1>7. CASE BeginSucceeds(Me)
  <2>1. Phase = "begin" /\ Phase' = "begun" /\ txDepth' = txDepth /\ Same
    BY <1>1, <1>7, WentTo DEF BeginSucceeds
  <2>2. QED
    BY <1>1, <1>2, <1>3, <2>1 DEF Counted
<1>8. CASE BeginFails(Me)
  <2>1. Phase = "begin" /\ Phase' = "body" /\ txDepth' = txDepth
    BY <1>1, <1>8, WentTo DEF BeginFails
  <2>2. /\ scopes' \in [Callers -> Seq(Nat)]
        /\ Open' = Open - 1
        /\ \A i \in 1..(Open - 1) : scopes'[Me][i] = scopes[Me][i]
    BY <1>8, <2>1, ScopeLeft DEF BeginFails
  <2>3. QED
    BY <1>1, <1>2, <2>1, <2>2 DEF Counted
<1>9. CASE BodyStarts(Me)
  <2>1. Phase = "begun" /\ Phase' = "body" /\ Same
    BY <1>1, <1>9, WentTo DEF BodyStarts
  <2>2. txDepth' = Open
    BY <1>1, <1>2, <1>9, <2>1 DEF BodyStarts, Counted
  <2>3. QED
    BY <1>1, <1>3, <2>1, <2>2 DEF Counted
<1>10. CASE \E l \in {"commit", "undo"} : BodyEnds(Me, l)
  <2>1. PICK l \in {"commit", "undo"} : BodyEnds(Me, l)
    BY <1>10
  <2>2. Phase = "body" /\ Phase' = l /\ Same
    BY <1>1, <2>1, WentTo DEF BodyEnds
  <2>3. Open >= 1
    <3>1. scopes[Me] # <<>> /\ scopes[Me] \in Seq(Nat)
      BY <1>1, <2>1 DEF BodyEnds
    <3>2. QED
      BY <3>1, EmptySeq DEF Open
  <2>4. txDepth' = IF binding = "python" THEN txDepth - 1 ELSE txDepth
    BY <2>1 DEF BodyEnds
  <2>5. txDepth = Open
    BY <1>1, <2>2 DEF Counted
  <2>6. QED
    BY <1>1, <1>3, <2>2, <2>3, <2>4, <2>5 DEF Counted
<1>11. ASSUME NEW p \in {"commit", "undo", "drop"}, NEW q \in {"undo", "drop", "return", "throw"},
              Phase = p, Goto(Me, q), UNCHANGED <<scopes, txDepth>>, q = "drop" => Open >= 2
       PROVE  Counted' /\ scopes' \in [Callers -> Seq(Nat)]
  <2>1. Phase' = q
    BY <1>11, WentTo
  <2>2. QED
    BY <1>1, <1>2, <1>3, <1>11, <2>1 DEF Counted
<1>12. Phase = "undo" /\ Depth(Me) # 0 => Open >= 2
  BY <1>1, <1>2
<1>13. Phase = "undo" /\ Depth(Me) > 0 => Open >= 2
  BY <1>1, <1>2
<1>14. CASE CommitSucceeds(Me) \/ Drop(Me)
  <2>1. /\ Phase = "commit" \/ Phase = "drop"
        /\ Goto(Me, "return") \/ Goto(Me, "throw")
        /\ UNCHANGED <<scopes, txDepth>>
    BY <1>1, <1>14 DEF CommitSucceeds, Drop
  <2>2. QED
    BY <2>1, <1>11
<1>15. CASE CommitFails(Me)
  <2>1. /\ Phase = "commit"
        /\ Goto(Me, "undo") \/ Goto(Me, "throw")
        /\ UNCHANGED <<scopes, txDepth>>
    BY <1>1, <1>15 DEF CommitFails
  <2>2. QED
    BY <2>1, <1>11
<1>16. CASE Undo(Me)
  <2>1. /\ Phase = "undo"
        /\ Goto(Me, "throw") \/ (Goto(Me, "drop") /\ Depth(Me) # 0)
        /\ UNCHANGED <<scopes, txDepth>>
    BY <1>1, <1>16 DEF Undo
  <2>2. QED
    BY <2>1, <1>11, <1>12
<1>17. CASE UndoFails(Me)
  <2>1. /\ Phase = "undo" \/ Phase = "drop"
        /\ \/ Goto(Me, "throw")
           \/ Goto(Me, "drop") /\ Phase = "undo" /\ Depth(Me) > 0
        /\ UNCHANGED <<scopes, txDepth>>
    BY <1>1, <1>17 DEF UndoFails
  <2>2. QED
    BY <2>1, <1>11, <1>13
<1>18. CASE Leave(Me)
  <2>1. Phase \in {"return", "throw"} /\ Phase' = "body"
    BY <1>1, <1>18, WentTo DEF Leave
  <2>2. /\ scopes' \in [Callers -> Seq(Nat)]
        /\ Open' = Open - 1
        /\ \A i \in 1..(Open - 1) : scopes'[Me][i] = scopes[Me][i]
    BY <1>18, <2>1, ScopeLeft DEF Leave
  <2>3. txDepth = Open - (IF binding = "python" THEN 1 ELSE 0)
    BY <2>1 DEF Counted
  <2>4. txDepth' = Open - 1
    <3>1. Depth(Me) = Open - 1
      BY <1>2, <2>1
    <3>2. CASE binding = "python"
      BY <3>2, <1>18, <2>3 DEF Leave
    <3>3. CASE binding = "cpp"
      <4>1. txDepth = Open
        BY <3>3, <1>1, <2>3
      <4>2. binding # "python"
        BY <3>3
      <4>3. txDepth' = txDepth - 1
        BY <3>3, <4>2, <1>18, Zenon DEF Leave
      <4>4. QED
        BY <4>1, <4>3
    <3>4. CASE binding # "python" /\ binding # "cpp"
      <4>1. txDepth' = Depth(Me)
        BY <3>4, <1>18, Zenon DEF Leave
      <4>2. QED
        BY <3>1, <4>1
    <3>5. QED
      BY <3>2, <3>3, <3>4
  <2>5. QED
    BY <1>1, <1>2, <2>1, <2>2, <2>4 DEF Counted
<1>19. CASE ErrorEscapes(Me)
  <2>1. Phase = "body" /\ Phase' = "throw" /\ Same /\ txDepth' = txDepth
    BY <1>1, <1>19, WentTo DEF ErrorEscapes
  <2>2. Open >= 1
    <3>1. scopes[Me] # <<>> /\ scopes[Me] \in Seq(Nat)
      BY <1>1, <1>19 DEF ErrorEscapes
    <3>2. QED
      BY <3>1, EmptySeq DEF Open
  <2>3. binding' = "java" /\ txDepth = Open
    BY <1>1, <1>19, <2>1 DEF ErrorEscapes, Counted
  <2>4. QED
    BY <1>1, <1>3, <2>1, <2>2, <2>3 DEF Counted
<1>20. CASE Goexits(Me)
  <2>1. Phase = "body" /\ Phase' = "body" /\ scopes[Me] # <<>>
    BY <1>1, <1>20 DEF Goexits, Phase
  <2>2. scopes' \in [Callers -> Seq(Nat)] /\ scopes'[Me] = <<>>
    BY <1>1, <1>20, EmptySeq DEF Goexits
  <2>3. Open' = 0
    BY <2>2, EmptySeq DEF Open
  <2>4. txDepth' = 0
    <3>1. scopes[Me] \in Seq(Nat)
      BY <1>1
    <3>2. Open >= 1
      BY <2>1, <3>1, EmptySeq DEF Open
    <3>3. scopes[Me][1] = 0
      BY <3>2, <1>1 DEF Counted
    <3>4. QED
      BY <3>1, <3>3, <2>1, <1>20 DEF Goexits
  <2>5. \A i \in 1..Open' : FALSE
    BY <2>3
  <2>6. PICK o \in Nat : o = Open' /\ o = 0 /\ o - 0 = txDepth'
    BY <2>3, <2>4
  <2>7. txDepth' = Open' - 0
    BY <2>6
  <2>8. Counted'
    BY <2>1, <2>5, <2>7 DEF Counted
  <2>9. QED
    BY <2>2, <2>8
<1>21. CASE Cancelled(Me)
  <2>1. binding = "python" /\ txDepth' = txDepth
    BY <1>21 DEF Cancelled
  <2>2. CASE Phase \in {"begin", "begun"}
    <3>1. Phase' = "body"
      BY <1>1, <1>21, <2>2, WentTo DEF Cancelled
    <3>2. /\ scopes' \in [Callers -> Seq(Nat)]
          /\ Open' = Open - 1
          /\ \A i \in 1..(Open - 1) : scopes'[Me][i] = scopes[Me][i]
      BY <1>1, <1>21, <2>2, ScopeLeft DEF Cancelled
    <3>3. QED
      BY <1>1, <1>2, <2>1, <2>2, <3>1, <3>2 DEF Counted
  <2>3. CASE Phase \notin {"begin", "begun"}
    <3>1. Phase \in {"commit", "undo", "drop"} /\ Goto(Me, "throw") /\ Same
      BY <1>1, <1>21, <2>3 DEF Cancelled
    <3>2. QED
      BY <2>1, <3>1, <1>11
  <2>4. QED
    BY <2>2, <2>3
<1>22. QED
  BY <1>5, <1>6, <1>7, <1>8, <1>9, <1>10, <1>14, <1>15, <1>16, <1>17, <1>18, <1>19, <1>20,
     <1>21 DEF Steps, Step

-----------------------------------------------------------------------------
(***************************************************************************)
(* The statements of the innermost of b scopes.                            *)
(***************************************************************************)
\* What they find: their own entry, or no transaction at all.
LEMMA TargetFacts ==
    ASSUME stack \in Seq(Entries), NEW b \in Nat, b >= 1, NEW l,
           Layout(stack, l, b, server)
    PROVE  /\ Target(b - 1) = Position(stack, b - 1)
           /\ l < b => Target(b - 1) \in 1..Len(stack) /\ stack # <<>>
           /\ l = b => Target(b - 1) = 0 /\ stack = <<>>
           /\ l < b \/ l = b
<1>1. /\ l \in Nat /\ l <= b
      /\ \A d \in l..(b - 1) : Position(stack, d) \in 1..Len(stack)
      /\ \A d \in 0..(b - 1) : d < l => Position(stack, d) = 0
      /\ l < b => stack # <<>>
      /\ l = b => stack = <<>>
  BY LayoutFacts
<1>2. Latest(b - 1) = Position(stack, b - 1)
  BY DEF Latest, Position
<1>3. l < b => Position(stack, b - 1) \in 1..Len(stack)
  BY <1>1
<1>4. l = b => Position(stack, b - 1) = 0
  BY <1>1
<1>5. Target(b - 1) = Position(stack, b - 1)
  <2>1. CASE b - 1 > 0
    BY <2>1, <1>2 DEF Target
  <2>2. CASE b - 1 = 0 /\ l = b
    BY <2>2, <1>1, <1>4 DEF Target
  <2>3. CASE b - 1 = 0 /\ l < b
    <3>1. l = 0 /\ b = 1
      BY <2>3, <1>1
    <3>2. Position(stack, 0) = 1
      BY <3>1 DEF Layout
    <3>3. QED
      BY <3>1, <3>2, <2>3, <1>1 DEF Target
  <2>4. QED
    BY <2>1, <2>2, <2>3, <1>1
<1>6. QED
  BY <1>1, <1>3, <1>4, <1>5

\* The end of the whole transaction.
LEMMA UndoneAll ==
    ASSUME Undone(0)
    PROVE  /\ stack' = <<>> /\ aborted' = FALSE
           /\ stack = <<>> => content' = content
           /\ stack # <<>> => content' = stack[1].before
<1>1. Target(0) = IF stack = <<>> THEN 0 ELSE 1
  BY DEF Target
<1>2. SubSeq(stack, 1, 0) = <<>>
  BY SubSeqEmpty
<1>3. QED
  BY <1>1, <1>2 DEF Undone

\* Cutting a stack above what some scopes go back to leaves that alone.
LEMMA KeptCut ==
    ASSUME NEW s \in Seq(Entries), NEW u \in Int, NEW p \in 0..Len(s),
           \A d \in 0..(u - 1) : Position(s, d) <= p
    PROVE  Kept(SubSeq(s, 1, p), u) = Kept(s, u)
<1>1. PICK t : t = SubSeq(s, 1, p)
  OBVIOUS
<1>2. \A i \in 1..p : t[i] = s[i]
  BY <1>1, CutFacts
<1>3. Len(s) \in Nat
  BY LenProperties
<1>4. ASSUME NEW d \in 0..(u - 1)
      PROVE  /\ Position(s, d) = 0 <=> Position(t, d) = 0
             /\ Position(s, d) # 0 => s[Position(s, d)] = t[Position(t, d)]
  <2>1. Position(s, d) <= p /\ Position(s, d) \in 0..Len(s)
    BY PositionFacts
  <2>2. Position(t, d) = Position(s, d)
    BY <2>1, <1>1, PositionCut
  <2>3. QED
    BY <2>1, <2>2, <1>2, <1>3
<1>5. Kept(s, u) = Kept(t, u)
  BY <1>4, KeptSame
<1>6. QED
  BY <1>1, <1>5

\* The entry of the innermost scope is above all others.
LEMMA Topmost ==
    ASSUME NEW s \in Seq(Entries), NEW sv, NEW b \in Nat, NEW l, Layout(s, l, b, sv), l < b
    PROVE  /\ Position(s, b - 1) \in 1..Len(s)
           /\ \A d \in l..(b - 2) : Position(s, d) \in 1..(Position(s, b - 1) - 1)
<1>1. l \in Nat /\ \A d \in l..(b - 1) : Position(s, d) \in 1..Len(s)
  BY LayoutFacts
<1>2. b - 1 \in l..(b - 1) /\ Len(s) \in Nat
  BY <1>1, LenProperties
<1>3. \A d \in l..(b - 2) : Position(s, d) \in 1..(Position(s, b - 1) - 1)
  <2> TAKE d \in l..(b - 2)
  <2>1. d \in l..(b - 1) /\ d < b - 1
    BY <1>1
  <2>2. Position(s, d) < Position(s, b - 1)
    BY <2>1, <1>2 DEF Layout
  <2>3. QED
    BY <2>1, <2>2, <1>1, <1>2
<1>4. QED
  BY <1>1, <1>2, <1>3

\* ROLLBACK TO: the entry stays, what is above it goes.
LEMMA AfterUndo ==
    ASSUME NEW s \in Seq(Entries), NEW sv, NEW b \in Nat, NEW l, Layout(s, l, b, sv), l < b,
           NEW t, t = SubSeq(s, 1, Position(s, b - 1))
    PROVE  Layout(t, l, b, sv)
<1>1. PICK p : p = Position(s, b - 1)
  OBVIOUS
<1>2. l \in Nat /\ Len(s) \in Nat
  BY LayoutFacts, LenProperties
<1>3. p \in 1..Len(s)
  BY <1>1, Topmost
<1>4. sv # "mssql" => p = b - l
  <2>1. b - 1 \in l..(b - 1)
    BY <1>2
  <2>2. sv # "mssql" => p = ((b - 1) - l) + 1
    BY <2>1, <1>1 DEF Layout
  <2>3. QED
    BY <2>2, <1>2
<1>5. p \in 0..Len(s) /\ b \in 0..b /\ Position(s, b - 1) <= p
  BY <1>1, <1>2, <1>3
<1>6. QED
  BY <1>1, <1>4, <1>5, LayoutCut

\* Undoing a scope keeps what is kept for those around it.
LEMMA KeptUndo ==
    ASSUME NEW s \in Seq(Entries), NEW sv, NEW b \in Nat, NEW l, Layout(s, l, b, sv), l < b,
           NEW u, u = b - 1, NEW p, p = Position(s, u)
    PROVE  Kept(SubSeq(s, 1, p), u) = Kept(s, u)
<1>1. /\ l \in Nat /\ Len(s) \in Nat
      /\ \A d \in 0..(b - 1) : d < l => Position(s, d) = 0
  BY LayoutFacts, LenProperties
<1>2. p \in 1..Len(s) /\ \A d \in l..(b - 2) : Position(s, d) \in 1..(p - 1)
  BY Topmost
<1>3. \A d \in 0..(u - 1) : Position(s, d) <= p
  <2> TAKE d \in 0..(u - 1)
  <2>1. d \in 0..(b - 1) /\ (d < l \/ d \in l..(b - 2))
    BY <1>1
  <2>2. QED
    BY <2>1, <1>1, <1>2
<1>4. p \in 0..Len(s) /\ u \in Int
  BY <1>1, <1>2
<1>5. QED
  BY <1>3, <1>4, KeptCut

\* RELEASE and COMMIT: the entry goes, too, unless the server keeps it.
LEMMA AfterRelease ==
    ASSUME NEW s \in Seq(Entries), NEW sv, NEW b \in Nat, NEW l, Layout(s, l, b, sv), l < b,
           NEW t,
           \/ sv # "mssql" /\ t = SubSeq(s, 1, Position(s, b - 1) - 1)
           \/ sv = "mssql" /\ b >= 2 /\ t = s
    PROVE  /\ Layout(t, l, b - 1, sv)
           /\ Kept(t, b - 1) = Kept(s, b - 1)
<1>1. l \in Nat /\ Len(s) \in Nat /\ b - 1 \in Nat
  <2>1. l \in Nat /\ Len(s) \in Nat
    BY LayoutFacts, LenProperties
  <2>2. QED
    BY <2>1
<1>2. /\ Position(s, b - 1) \in 1..Len(s)
      /\ \A d \in l..(b - 2) : Position(s, d) \in 1..(Position(s, b - 1) - 1)
  BY Topmost
<1>3. CASE sv # "mssql"
  <2>1. PICK p : p = Position(s, b - 1) - 1
    OBVIOUS
  <2>2. p \in 0..Len(s) /\ t = SubSeq(s, 1, p)
    BY <1>1, <1>2, <1>3, <2>1
  <2>3. p = (b - 1) - l
    <3>1. b - 1 \in l..(b - 1)
      BY <1>1
    <3>2. Position(s, b - 1) = ((b - 1) - l) + 1
      BY <3>1, <1>3 DEF Layout
    <3>3. QED
      BY <3>2, <2>1, <1>1
  <2>4. PICK u \in Nat : u = b - 1
    BY <1>1
  <2>5. Kept(t, u) = Kept(s, u)
    <3>1. \A d \in 0..(u - 1) : Position(s, d) <= p
      <4> TAKE d \in 0..(u - 1)
      <4>1. d \in 0..(b - 1) /\ (d < l \/ d \in l..(b - 2))
        BY <2>4, <1>1
      <4>2. d < l => Position(s, d) = 0
        BY <4>1, LayoutFacts
      <4>3. d \in l..(b - 2) => Position(s, d) <= p
        BY <2>1, <2>2, <1>1, <1>2
      <4>4. QED
        BY <4>1, <4>2, <4>3, <2>2, <1>1
    <3>2. u \in Int
      OBVIOUS
    <3>3. QED
      BY <3>1, <3>2, <2>2, KeptCut
  <2>6. CASE l = u
    <3>1. t = <<>>
      <4>1. p = 0
        BY <2>3, <2>4, <2>6
      <4>2. QED
        BY <4>1, <2>2, SubSeqEmpty
    <3>2. Layout(t, l, u, sv)
      BY <3>1, <2>6, LayoutEmpty
    <3>3. QED
      BY <3>2, <2>4, <2>5
  <2>7. CASE l < u
    <3>1. Position(s, u - 1) <= p
      <4>1. u - 1 \in l..(b - 2)
        BY <2>4, <2>7, <1>1
      <4>2. QED
        BY <4>1, <1>1, <1>2, <2>1
    <3>2. u \in 0..b /\ p = u - l
      BY <2>3, <2>4
    <3>3. Layout(t, l, u, sv)
      BY <3>1, <3>2, <2>2, <2>7, LayoutCut
    <3>4. QED
      BY <3>3, <2>4, <2>5
  <2>8. QED
    BY <2>4, <2>6, <2>7, <1>1
<1>4. CASE sv = "mssql"
  <2>1. b >= 2 /\ t = s /\ l = 0
    BY <1>4 DEF Layout
  <2>2. PICK u \in Nat : u = b - 1
    BY <1>1
  <2>3. PICK p : p = Len(s)
    OBVIOUS
  <2>4. Position(s, u - 1) <= p
    <3>1. u - 1 \in l..(b - 2)
      BY <2>1, <2>2
    <3>2. QED
      BY <3>1, <2>3, <1>1, <1>2
  <2>5. SubSeq(s, 1, p) = t
    BY <2>1, <2>3, SubSeqFull
  <2>6. u \in 0..b /\ l < u /\ p \in 0..Len(s)
    BY <2>1, <2>2, <2>3, <1>1
  <2>7. Layout(SubSeq(s, 1, p), l, u, sv)
    BY <2>4, <2>6, <1>4, LayoutCut
  <2>8. QED
    BY <2>1, <2>2, <2>5, <2>7
<1>5. QED
  BY <1>3, <1>4

-----------------------------------------------------------------------------
(***************************************************************************)
(* Every step leads from one layout to another, and is one of nested       *)
(* transactions or none of theirs.                                         *)
(***************************************************************************)
\* What Transaction calls the saved contents are those of the stack.
SavedKept == Saved = Kept(stack, Undoable(Me))

\* The step maps to one of NestedTransactions, or to a stutter.
Nests == SavedKept /\ SavedKept' => NT!Next \/ UNCHANGED NT!vars

\* The step leaves the stack laid out for the scopes that are left.
Lays == \E m \in Nat : Layout(stack', m, Begun', server) /\ LossExplained(m)'

\* Where such a step starts from.
Setting(l) ==
    /\ Callers = {Me} /\ Recovers
    /\ TypeOK /\ Counted /\ Failing /\ Layout(stack, l, Begun, server) /\ LossExplained(l)
    /\ UNCHANGED <<binding, server, faults>>
    /\ TypeOK' /\ Counted'

\* How NestedTransactions calls the phases.
OutcomeOf(p, o) ==
    /\ p \in {"body", "begin", "begun"} => o = "running"
    /\ p = "commit" => o = "returned"
    /\ p = "undo" => o = "threw"
    /\ p = "return" => o = "succeeded"
    /\ p \in {"drop", "throw"} => o = "failed"

\* The facts of a setting, before and after its step.
LEMMA SettingFacts ==
    ASSUME NEW l, Setting(l)
    PROVE  /\ stack \in Seq(Entries) /\ Len(stack) \in Nat
           /\ Open \in Nat /\ Phase \in Phases /\ Begun \in Nat
           /\ l \in Nat /\ l <= Begun
           /\ content \in 0..MaxContent /\ content' \in 0..MaxContent
           /\ Phase # "body" => Open >= 1 /\ Depth(Me) = Open - 1
           /\ Begun = Open - (IF Phase \in {"begin", "return", "throw"} THEN 1 ELSE 0)
           /\ Undoable(Me) =
                  Open - (IF Phase \in {"begin", "return", "throw", "drop"} THEN 1 ELSE 0)
           /\ Begun' = Open' - (IF Phase' \in {"begin", "return", "throw"} THEN 1 ELSE 0)
           /\ Undoable(Me)' =
                  Open' - (IF Phase' \in {"begin", "return", "throw", "drop"} THEN 1 ELSE 0)
<1>1. Callers = {Me} /\ TypeOK /\ Counted /\ Layout(stack, l, Begun, server) /\ TypeOK'
  BY DEF Setting
<1>2. content \in 0..MaxContent
  BY <1>1, TransactionAssumption DEF TypeOK
<1>3. content' \in 0..MaxContent
  <2>1. newest' \in 0..MaxContent /\ content' \in 0..newest'
    BY <1>1 DEF TypeOK
  <2>2. QED
    BY <2>1, TransactionAssumption
<1>4. /\ stack \in Seq(Entries) /\ Len(stack) \in Nat
      /\ Open \in Nat /\ Phase \in Phases /\ Begun \in Nat
      /\ Phase # "body" => Open >= 1 /\ Depth(Me) = Open - 1
      /\ Undoable(Me) = Open - (IF Phase \in {"begin", "return", "throw", "drop"} THEN 1 ELSE 0)
  BY <1>1, StateFacts
<1>5. l \in Nat /\ l <= Begun
  BY <1>1, <1>4, LayoutFacts
<1>6. Begun' = Open' - (IF Phase' \in {"begin", "return", "throw"} THEN 1 ELSE 0)
  BY DEF Begun
<1>7. Undoable(Me)' = Open' - (IF Phase' \in {"begin", "return", "throw", "drop"} THEN 1 ELSE 0)
  BY DEF Undoable, Open, Phase
<1>8. QED
  BY <1>2, <1>3, <1>4, <1>5, <1>6, <1>7 DEF Begun

\* The phases, as NestedTransactions calls them, before and after the step.
LEMMA Outcomes ==
    ASSUME NEW l, Setting(l)
    PROVE  OutcomeOf(Phase, Outcome) /\ OutcomeOf(Phase', Outcome')
<1>1. Phase = pc[Caller] /\ Phase' = pc'[Caller]
  BY DEF Phase, Me
<1>2. OutcomeOf(Phase, Outcome)
  BY <1>1 DEF OutcomeOf, Outcome
<1>3. OutcomeOf(Phase', Outcome')
  BY <1>1 DEF OutcomeOf, Outcome
<1>4. QED
  BY <1>2, <1>3

\* What a step of nested transactions may not change, and what is failed.
LEMMA Unchanging ==
    ASSUME NEW l, Setting(l)
    PROVE  /\ binding' = binding /\ server' = server /\ faults' = faults
           /\ ("auto_rollback" \in faults /\ server # "postgres")'
                = ("auto_rollback" \in faults /\ server # "postgres")
           /\ ("statement_fails" \in faults /\ server = "postgres")'
                = ("statement_fails" \in faults /\ server = "postgres")
           /\ aborted \in BOOLEAN /\ aborted' \in BOOLEAN
           /\ aborted => server = "postgres" /\ stack # <<>> /\ "statement_fails" \in faults
                         /\ Phase # "drop"
           /\ aborted' => stack' # <<>>
BY DEF Setting, TypeOK, Failing

\* A step that leaves the stack and what counts of the scopes alone.
LEMMA NothingMoves ==
    ASSUME NEW l, Setting(l), stack' = stack,
           Begun' = Begun, Undoable(Me)' = Undoable(Me),
           Phase # "undo"
    PROVE  Lays /\ (SavedKept /\ SavedKept' => Saved' = Saved)
<1>1. l \in Nat
  BY SettingFacts
<1>2. Layout(stack', l, Begun', server) /\ LossExplained(l) /\ faults' = faults /\ server' = server
  BY DEF Setting
<1>3. LossExplained(l)'
  BY <1>2 DEF LossExplained
<1>4. SavedKept /\ SavedKept' => Saved' = Saved
  BY DEF SavedKept
<1>5. QED
  BY <1>1, <1>2, <1>3, <1>4 DEF Lays

\* The innermost scope ends without a transaction to end.
LEMMA EndsLost ==
    ASSUME NEW l, Setting(l), Phase \in {"commit", "undo", "drop"},
           Phase' = "throw" \/ (Phase = "commit" /\ Phase' = "return"),
           Open' = Open, stack = <<>>, stack' = <<>>, content' = content
    PROVE  Lays /\ Nests
<1>1. /\ Open \in Nat /\ Begun \in Nat /\ Begun = Open /\ Open >= 1
      /\ Begun' = Open - 1 /\ Undoable(Me)' = Open - 1
      /\ Undoable(Me) = IF Phase = "drop" THEN Open - 1 ELSE Open
      /\ l \in Nat /\ l <= Begun
      /\ stack \in Seq(Entries)
  BY SettingFacts
<1>2. /\ Layout(stack, l, Begun, server) /\ LossExplained(l) /\ Counted
      /\ faults' = faults /\ server' = server
  BY DEF Setting
<1>3. l = Begun
  BY <1>1, <1>2 DEF Layout
<1>4. PICK m \in Nat : m = Begun - 1 /\ Begun' = m
  <2>1. Begun - 1 \in Nat /\ Begun' = Begun - 1
    BY <1>1
  <2>2. QED
    BY <2>1
<1>5. Layout(stack', m, Begun', server)
  BY <1>4, LayoutEmpty
<1>6. LossExplained(m)'
  <2>1. Phase = "drop" => Open >= 2
    BY <1>2 DEF Counted
  <2>2. ("auto_rollback" \in faults /\ server # "postgres") \/ m = 0
    BY <1>1, <1>2, <1>3, <1>4, <2>1 DEF LossExplained
  <2>3. QED
    BY <1>2, <2>2 DEF LossExplained
<1>7. ASSUME SavedKept, SavedKept'
      PROVE  NT!Next \/ UNCHANGED NT!vars
  <2>1. ~aborted /\ ~aborted' /\ aborted = FALSE /\ aborted' = FALSE
    BY Unchanging
  <2>2. CASE Phase = "drop"
    <3>1. Phase' = "throw" /\ Saved' = Saved
      BY <2>2, <1>1, <1>7 DEF SavedKept
    <3>2. Outcome' = Outcome
      BY <2>2, <3>1, Outcomes DEF OutcomeOf
    <3>3. UNCHANGED NT!vars
      BY <2>1, <3>1, <3>2, Unchanging DEF NT!vars
    <3>4. QED
      BY <3>3
  <2>3. CASE Phase # "drop"
    <3>1. Saved = Kept(stack, Open) /\ Saved' = Kept(stack, Open - 1)
      BY <2>3, <1>1, <1>7 DEF SavedKept
    <3>2. Position(stack, Open - 1) = 0
      BY PositionEmpty
    <3>3. Front(Saved) = Saved' /\ Last(Saved) = Gone
      BY <3>1, <3>2, <1>1, KeptEnds
    <3>4. NT!Front(Saved) = Saved' /\ NT!Last(Saved) = Gone
      BY <3>3 DEF NT!Front, NT!Last, Front, Last
    <3>5. CASE Phase' = "return"
      <4>1. Outcome = "returned" /\ Outcome' = "succeeded"
        BY <3>5, Outcomes DEF OutcomeOf
      <4>2. NT!Commit
        BY <2>1, <3>4, <4>1 DEF NT!Commit
      <4>3. QED
        BY <4>2, Unchanging DEF NT!Next
    <3>6. CASE Phase' = "throw"
      <4>1. Outcome \in {"returned", "threw"} /\ Outcome' = "failed"
        BY <3>6, <2>3, Outcomes DEF OutcomeOf
      <4>2. NT!Rollback
        BY <2>1, <3>4, <4>1 DEF NT!Rollback
      <4>3. QED
        BY <4>2, Unchanging DEF NT!Next
    <3>7. QED
      BY <3>5, <3>6
  <2>4. QED
    BY <2>2, <2>3
<1>8. Nests
  BY <1>7 DEF Nests
<1>9. QED
  BY <1>4, <1>5, <1>6, <1>8 DEF Lays

\* BEGIN or SAVEPOINT succeeds.
LEMMA BeginAdvances ==
    ASSUME NEW l, Setting(l), BeginSucceeds(Me)
    PROVE  Lays /\ Nests
<1>1. /\ stack \in Seq(Entries) /\ Open \in Nat /\ Begun \in Nat
      /\ l \in Nat /\ l <= Begun /\ content \in 0..MaxContent
  BY SettingFacts
<1>2. /\ Callers = {Me} /\ TypeOK /\ Layout(stack, l, Begun, server)
      /\ LossExplained(l) /\ faults' = faults /\ server' = server
  BY DEF Setting
<1>3. Phase = "begin" /\ Phase' = "begun" /\ Open' = Open
  BY <1>2, WentTo DEF BeginSucceeds, Phase, Open
<1>4. PICK b \in Nat : b = Begun
  BY <1>1
<1>5. /\ Depth(Me) = b /\ Undoable(Me) = b
      /\ Begun' = b + 1 /\ Undoable(Me)' = b + 1
  BY <1>1, <1>3, <1>4, SettingFacts
<1>6. /\ b = 0 => stack = <<>>
      /\ b > 0 => stack # <<>> \/ server # "mssql"
      /\ content' = content /\ ~aborted /\ aborted' = aborted
      /\ IF server = "mysql" /\ b > 0 /\ stack = <<>> THEN stack' = stack
         ELSE stack' = Append(stack, [name |-> b, before |-> content])
  BY <1>4, <1>5 DEF BeginSucceeds, BeginAllowed, Opened
<1>7. Outcome = "running" /\ Outcome' = "running"
  BY <1>3, Outcomes DEF OutcomeOf
<1>8. CASE server = "mysql" /\ b > 0 /\ stack = <<>>
  <2>1. PICK m \in Nat : m = b + 1
    OBVIOUS
  <2>2. stack' = <<>> /\ l = b
    BY <1>2, <1>4, <1>6, <1>8 DEF Layout
  <2>3. Layout(stack', m, Begun', server)
    BY <1>5, <2>1, <2>2, LayoutEmpty
  <2>4. LossExplained(m)'
    BY <1>2, <1>3, <1>8, <2>2 DEF LossExplained
  <2>5. ASSUME SavedKept, SavedKept'
        PROVE  NT!Next
    <3>1. Saved = Kept(stack, b) /\ Saved' = Kept(stack, m) /\ m - 1 = b
      BY <2>1, <2>2, <2>5, <1>5, <1>8 DEF SavedKept
    <3>2. Saved # <<>> /\ Last(Saved) = Gone
      <4>1. Position(stack, b - 1) = 0 /\ b >= 1
        BY <1>8, PositionEmpty
      <4>2. QED
        BY <3>1, <4>1, <1>1, KeptEnds
    <3>3. Saved' = Append(Saved, Gone)
      <4>1. Position(stack, m - 1) = 0 /\ m >= 1
        BY <1>8, <2>1, PositionEmpty
      <4>2. /\ Kept(stack, m) = Append(Kept(stack, m - 1), Last(Kept(stack, m)))
            /\ Last(Kept(stack, m)) = Gone
        BY <4>1, <1>1, KeptEnds
      <4>3. Kept(stack, m) = Append(Kept(stack, b), Gone)
        BY <4>2, <3>1
      <4>4. QED
        BY <4>3, <3>1
    <3>4. NT!Last(Saved) = Gone
      BY <3>2 DEF NT!Last, Last
    <3>5. NT!Begin
      BY <1>6, <1>7, <3>2, <3>3, <3>4 DEF NT!Begin
    <3>6. QED
      BY <3>5, Unchanging DEF NT!Next
  <2>6. QED
    BY <2>3, <2>4, <2>5 DEF Lays, Nests
<1>9. CASE ~ (server = "mysql" /\ b > 0 /\ stack = <<>>)
  <2>1. PICK e : e = [name |-> b, before |-> content]
    OBVIOUS
  <2>2. e \in Entries /\ e.name = b /\ e.before = content
    BY <1>1, <2>1, TransactionAssumption DEF Entries
  <2>3. stack' = Append(stack, e)
    BY <1>6, <1>9, <2>1
  <2>4. stack # <<>> \/ b = 0 \/ server # "mssql"
    BY <1>6
  <2>5. Layout(stack', l, Begun', server)
    BY <1>1, <1>2, <1>4, <1>5, <2>2, <2>3, <2>4, LayoutPush
  <2>6. LossExplained(l)'
    BY <1>2, <1>3 DEF LossExplained
  <2>7. ASSUME SavedKept, SavedKept'
        PROVE  NT!Next
    <3>1. Saved = Kept(stack, b) /\ Saved' = Kept(Append(stack, e), b + 1)
      BY <2>3, <2>7, <1>5 DEF SavedKept
    <3>2. Kept(Append(stack, e), b + 1) = Append(Kept(stack, b), e.before)
      BY <1>1, <2>2, KeptPush
    <3>3. Saved' = Append(Saved, content)
      BY <3>1, <3>2, <2>2
    <3>4. NT!Begin
      BY <1>6, <1>7, <3>3 DEF NT!Begin
    <3>5. QED
      BY <3>4, Unchanging DEF NT!Next
  <2>8. QED
    BY <1>1, <2>5, <2>6, <2>7 DEF Lays, Nests
<1>10. QED
  BY <1>8, <1>9

\* The server gives up the transaction during a statement of user code.
LEMMA WriteRollsBackAdvances ==
    ASSUME NEW l, Setting(l), WriteRollsBack(Me)
    PROVE  Lays /\ Nests
<1>1. /\ stack \in Seq(Entries) /\ Open \in Nat /\ Begun \in Nat
      /\ l \in Nat /\ l <= Begun
  BY SettingFacts
<1>2. Layout(stack, l, Begun, server) /\ faults' = faults /\ server' = server
  BY DEF Setting
<1>3. Phase = "body" /\ Phase' = "body" /\ Open' = Open
  BY DEF WriteRollsBack, Phase, Open
<1>4. PICK b \in Nat : b = Begun
  BY <1>1
<1>5. Undoable(Me) = b /\ Begun' = b /\ Undoable(Me)' = b
  BY <1>1, <1>3, <1>4, SettingFacts
<1>6. stack' = <<>> /\ content' = stack[1].before /\ l < b /\ aborted' = FALSE
  <2>1. stack # <<>> /\ Undone(0)
    BY DEF WriteRollsBack
  <2>2. QED
    BY <2>1, <1>1, <1>2, <1>4, UndoneAll DEF Layout
<1>7. Layout(stack', b, Begun', server)
  BY <1>5, <1>6, LayoutEmpty
<1>8. "auto_rollback" \in faults /\ server # "postgres" /\ LossExplained(b)'
  BY <1>2 DEF WriteRollsBack, LossExplained
<1>9. Position(stack, l) = 1 /\ \A d \in 0..(b - 1) : d < l => Position(stack, d) = 0
  BY <1>1, <1>2, <1>4, <1>6 DEF Layout
<1>10. ASSUME SavedKept, SavedKept'
       PROVE  NT!Next
  <2>1. Saved = Kept(stack, b) /\ Saved' = Kept(<<>>, b)
    BY <1>5, <1>6, <1>10 DEF SavedKept
  <2>2. /\ DOMAIN Saved = 1..b
        /\ \A i \in 1..b : Saved[i] = IF Position(stack, i - 1) = 0 THEN Gone
                                     ELSE stack[Position(stack, i - 1)].before
    BY <2>1, <1>1, KeptType
  <2>3. Saved' = [i \in DOMAIN Saved |-> Gone]
    BY <2>1, <2>2, KeptEmpty
  <2>4. stack[1].before \in Nat
    <3>1. 1 \in 1..Len(stack)
      <4>1. stack # <<>>
        BY DEF WriteRollsBack
      <4>2. QED
        BY <4>1, <1>1, EmptySeq, LenProperties
    <3>2. stack[1] \in Entries
      BY <3>1, <1>1, ElementOfSeq
    <3>3. QED
      BY <3>2 DEF Entries
  <2>5. l + 1 \in 1..b /\ (l + 1) - 1 = l
    BY <1>1, <1>6
  <2>6. Saved[l + 1] = stack[1].before
    BY <2>2, <2>5, <1>9
  <2>7. Saved[l + 1] # Gone /\ content' = Saved[l + 1]
    BY <2>4, <2>6, <1>6 DEF Gone
  <2>8. \A j \in 1..((l + 1) - 1) : Saved[j] = Gone
    <3> TAKE j \in 1..((l + 1) - 1)
    <3>1. j \in 1..b /\ j - 1 \in 0..(b - 1) /\ j - 1 < l
      BY <2>5, <1>1
    <3>2. QED
      BY <3>1, <2>2, <1>9
  <2>9. \E i \in DOMAIN Saved :
            /\ Saved[i] # Gone /\ \A j \in 1..(i - 1) : Saved[j] = Gone
            /\ content' = Saved[i]
    BY <2>2, <2>5, <2>7, <2>8
  <2>10. Outcome = "running" /\ Outcome' = "running"
    BY <1>3, Outcomes DEF OutcomeOf
  <2>11. aborted' = aborted
    BY <1>6, <1>8, Unchanging
  <2>12. NT!Abort
    BY <1>8, <2>3, <2>9, <2>10, <2>11 DEF NT!Abort
  <2>13. QED
    BY <2>12, Unchanging DEF NT!Next
<1>11. QED
  BY <1>7, <1>8, <1>10 DEF Lays, Nests

\* The only scope left ends with a rollback of the transaction: its own, or
\* the one that the COMMIT of a failed transaction is.
LEMMA EndsUndone ==
    ASSUME NEW l, Setting(l),
           \/ Phase = "undo" /\ Phase' = "throw"
           \/ Phase = "commit" /\ Phase' = "return" /\ aborted,
           Open' = Open, Open = 1, stack # <<>>, Undone(0)
    PROVE  Lays /\ Nests
<1>1. /\ stack \in Seq(Entries) /\ l \in Nat /\ l <= Begun
      /\ Begun = 1 /\ Undoable(Me) = 1 /\ Begun' = 0 /\ Undoable(Me)' = 0
  BY SettingFacts
<1>2. Layout(stack, l, Begun, server)
  BY DEF Setting
<1>3. l = 0
  BY <1>1, <1>2 DEF Layout
<1>4. stack' = <<>> /\ content' = stack[1].before /\ aborted' = FALSE
  BY UndoneAll
<1>5. Layout(stack', 0, Begun', server)
  BY <1>1, <1>4, LayoutEmpty
<1>6. LossExplained(0)'
  BY DEF LossExplained
<1>7. Position(stack, 0) = 1
  BY <1>1, <1>2, <1>3 DEF Layout
<1>8. ASSUME SavedKept, SavedKept'
      PROVE  NT!Next
  <2>1. Saved = Kept(stack, 1) /\ Saved' = Kept(stack', 0)
    BY <1>1, <1>8 DEF SavedKept
  <2>2. stack' \in Seq(Entries)
    BY <1>4, EmptySeq
  <2>3. Saved' = <<>> /\ Kept(stack, 1 - 1) = <<>>
    BY <2>1, <2>2, <1>1, KeptNone
  <2>4. Front(Saved) = Saved' /\ Last(Saved) = content'
    <3>1. PICK u \in Nat : u = 1 /\ u >= 1 /\ u - 1 = 0
      OBVIOUS
    <3>2. /\ Front(Kept(stack, u)) = Kept(stack, u - 1)
          /\ Last(Kept(stack, u)) = IF Position(stack, u - 1) = 0 THEN Gone
                                    ELSE stack[Position(stack, u - 1)].before
      BY <3>1, <1>1, KeptEnds
    <3>3. Position(stack, u - 1) = 1 /\ Kept(stack, u - 1) = <<>>
      BY <3>1, <2>3, <1>7
    <3>4. QED
      BY <3>1, <3>2, <3>3, <2>1, <2>3, <1>4
  <2>5. Len(Saved) = 1 /\ Saved[1] = content'
    <3>1. Len(Saved) = 1
      BY <2>1, <1>1, KeptType
    <3>2. QED
      BY <3>1, <2>4 DEF Last
  <2>6. content' # Gone
    <3>1. content' \in 0..MaxContent /\ MaxContent \in Nat
      BY SettingFacts, TransactionAssumption
    <3>2. QED
      BY <3>1 DEF Gone
  <2>7. CASE Phase = "undo"
    <3>1. Outcome = "threw" /\ Outcome' = "failed"
      BY <2>7, Outcomes DEF OutcomeOf
    <3>2. NT!Front(Saved) = Saved' /\ NT!Last(Saved) = content'
      BY <2>4 DEF NT!Front, NT!Last, Front, Last
    <3>3. NT!Rollback
      BY <1>4, <2>6, <3>1, <3>2 DEF NT!Rollback
    <3>4. QED
      BY <3>3, Unchanging DEF NT!Next
  <2>8. CASE Phase = "commit"
    <3>1. Outcome = "returned" /\ Outcome' = "succeeded" /\ aborted
      BY <2>8, Outcomes DEF OutcomeOf
    <3>2. NT!Discard
      BY <1>4, <2>3, <2>5, <3>1 DEF NT!Discard
    <3>3. QED
      BY <3>2, Unchanging DEF NT!Next
  <2>9. QED
    BY <2>7, <2>8
<1>9. QED
  BY <1>5, <1>6, <1>8 DEF Lays, Nests

\* RELEASE or COMMIT finds the entry of the innermost scope, or no transaction.
LEMMA ReleaseFacts ==
    ASSUME NEW l, Setting(l), Phase \in {"commit", "drop"}, ~aborted, Released(Depth(Me))
    PROVE  /\ content' = content /\ aborted' = aborted
           /\ stack = <<>> => stack' = <<>>
           /\ stack # <<>> => /\ l < Begun
                              /\ Layout(stack', l, Begun - 1, server)
                              /\ Kept(stack', Begun - 1) = Kept(stack, Begun - 1)
<1>1. /\ stack \in Seq(Entries) /\ Open \in Nat /\ Begun \in Nat /\ Begun = Open
      /\ l \in Nat /\ l <= Begun /\ Open >= 1 /\ Depth(Me) = Open - 1
  BY SettingFacts
<1>2. Layout(stack, l, Begun, server)
  BY DEF Setting
<1>3. PICK b \in Nat : b = Begun /\ b >= 1 /\ Depth(Me) = b - 1
  BY <1>1
<1>4. /\ Target(b - 1) = Position(stack, b - 1)
      /\ l < b => Target(b - 1) \in 1..Len(stack) /\ stack # <<>>
      /\ l = b => Target(b - 1) = 0 /\ stack = <<>>
  BY <1>1, <1>2, <1>3, TargetFacts
<1>5. /\ content' = content /\ aborted' = aborted
      /\ stack' = IF server = "mssql" /\ b - 1 > 0 THEN stack
                  ELSE SubSeq(stack, 1, Target(b - 1) - 1)
  BY <1>3 DEF Released, Swallowed
<1>6. ASSUME stack = <<>>
      PROVE  stack' = <<>>
  <2>1. Target(b - 1) = 0
    BY <1>1, <1>3, <1>4, <1>6
  <2>2. SubSeq(stack, 1, 0 - 1) = <<>>
    BY SubSeqEmpty
  <2>3. QED
    BY <2>1, <2>2, <1>5, <1>6
<1>7. ASSUME stack # <<>>
      PROVE  /\ l < b
             /\ Layout(stack', l, b - 1, server)
             /\ Kept(stack', b - 1) = Kept(stack, b - 1)
  <2>1. l < b
    BY <1>1, <1>3, <1>4, <1>7
  <2>2. CASE b - 1 > 0 \/ server # "mssql"
    <3>1. \/ server # "mssql" /\ stack' = SubSeq(stack, 1, Position(stack, b - 1) - 1)
          \/ server = "mssql" /\ b >= 2 /\ stack' = stack
      <4>1. CASE server = "mssql"
        <5>1. b - 1 > 0 /\ b >= 2
          BY <2>2, <4>1, <1>3
        <5>2. stack' = stack
          BY <4>1, <5>1, <1>5
        <5>3. QED
          BY <4>1, <5>1, <5>2
      <4>2. CASE server # "mssql"
        <5>1. stack' = SubSeq(stack, 1, Target(b - 1) - 1)
          BY <4>2, <1>5
        <5>2. QED
          BY <4>2, <5>1, <1>4
      <4>3. QED
        BY <4>1, <4>2
    <3>2. QED
      BY <2>1, <3>1, <1>1, <1>2, <1>3, AfterRelease
  <2>3. CASE b - 1 = 0
    <3>1. l = 0 /\ b = 1 /\ b - 1 = 0
      BY <2>1, <2>3, <1>1
    <3>2. Target(b - 1) = 1
      BY <3>1, <1>2, <1>3, <1>4 DEF Layout
    <3>3. SubSeq(stack, 1, 1 - 1) = <<>>
      BY SubSeqEmpty
    <3>4. stack' = <<>>
      BY <3>1, <3>2, <3>3, <1>5
    <3>5. Layout(stack', 0, 0, server)
      BY <3>4, LayoutEmpty
    <3>6. Kept(stack', 0) = <<>> /\ Kept(stack, 0) = <<>>
      BY <3>4, <1>1, EmptySeq, KeptNone
    <3>7. QED
      BY <2>1, <3>1, <3>5, <3>6
  <2>4. QED
    BY <2>2, <2>3, <1>3
<1>8. QED
  BY <1>3, <1>5, <1>6, <1>7

\* COMMIT or RELEASE succeeds.
LEMMA CommitAdvances ==
    ASSUME NEW l, Setting(l), CommitSucceeds(Me)
    PROVE  Lays /\ Nests
<1>1. /\ Callers = {Me} /\ TypeOK /\ Layout(stack, l, Begun, server)
      /\ LossExplained(l) /\ faults' = faults /\ server' = server
  BY DEF Setting
<1>2. Phase = "commit" /\ Phase' = "return" /\ Open' = Open
  BY <1>1, WentTo DEF CommitSucceeds, Phase, Open
<1>3. /\ stack \in Seq(Entries) /\ Open \in Nat /\ Begun \in Nat
      /\ l \in Nat /\ l <= Begun /\ Open >= 1 /\ Depth(Me) = Open - 1
      /\ Begun = Open /\ Undoable(Me) = Open /\ Begun' = Open - 1 /\ Undoable(Me)' = Open - 1
  BY <1>2, SettingFacts
<1>4. Released(Depth(Me)) /\ CommitAllowed(Depth(Me))
  BY DEF CommitSucceeds
<1>5. CASE aborted
  <2>1. server = "postgres" /\ stack # <<>>
    BY <1>1, <1>5 DEF TypeOK
  <2>2. Depth(Me) = 0
    BY <2>1, <1>3, <1>4, <1>5 DEF CommitAllowed, Swallowed
  <2>3. Undone(0)
    BY <1>4, <1>5 DEF Released
  <2>4. Open = 1
    BY <2>2, <1>3
  <2>5. QED
    BY <2>1, <2>3, <2>4, <1>2, <1>5, EndsUndone
<1>6. CASE ~aborted /\ stack = <<>>
  <2>1. stack' = <<>> /\ content' = content
    BY <1>2, <1>4, <1>6, ReleaseFacts
  <2>2. QED
    BY <2>1, <1>2, <1>6, EndsLost
<1>7. CASE ~aborted /\ stack # <<>>
  <2>1. PICK b \in Nat : b = Begun /\ b >= 1
    BY <1>3
  <2>2. /\ content' = content /\ aborted' = aborted /\ l < b
        /\ Layout(stack', l, b - 1, server)
        /\ Kept(stack', b - 1) = Kept(stack, b - 1)
    BY <2>1, <1>2, <1>4, <1>7, ReleaseFacts
  <2>3. LossExplained(l)'
    BY <1>1, <1>2 DEF LossExplained
  <2>4. b = Undoable(Me) /\ b - 1 = Begun' /\ b - 1 = Undoable(Me)'
    BY <2>1, <1>3
  <2>5. ASSUME SavedKept, SavedKept'
        PROVE  NT!Next
    <3>1. Saved = Kept(stack, b) /\ Saved' = Kept(stack', b - 1)
      BY <2>4, <2>5 DEF SavedKept
    <3>2. Front(Saved) = Saved'
      BY <3>1, <2>1, <2>2, <1>3, KeptEnds
    <3>3. NT!Front(Saved) = Saved'
      BY <3>2 DEF NT!Front, Front
    <3>4. Outcome = "returned" /\ Outcome' = "succeeded"
      BY <1>2, Outcomes DEF OutcomeOf
    <3>5. NT!Commit
      BY <2>2, <3>3, <3>4, <1>7 DEF NT!Commit
    <3>6. QED
      BY <3>5, Unchanging DEF NT!Next
  <2>6. QED
    BY <2>2, <2>3, <2>4, <2>5, <1>3 DEF Lays, Nests
<1>8. QED
  BY <1>5, <1>6, <1>7

\* RELEASE after ROLLBACK TO.
LEMMA DropAdvances ==
    ASSUME NEW l, Setting(l), Drop(Me)
    PROVE  Lays /\ Nests
<1>1. /\ Callers = {Me} /\ TypeOK /\ Failing /\ Layout(stack, l, Begun, server)
      /\ LossExplained(l) /\ faults' = faults /\ server' = server
  BY DEF Setting
<1>2. Phase = "drop" /\ Phase' = "throw" /\ Open' = Open
  BY <1>1, WentTo DEF Drop, Phase, Open
<1>3. /\ Open \in Nat /\ Begun \in Nat /\ l \in Nat
      /\ Begun = Open /\ Undoable(Me) = Open - 1
      /\ Begun' = Open - 1 /\ Undoable(Me)' = Open - 1
  BY <1>2, SettingFacts
<1>4. ~aborted /\ Released(Depth(Me))
  BY <1>1, <1>2 DEF Failing, Drop
<1>5. CASE stack = <<>>
  <2>1. stack' = <<>> /\ content' = content
    BY <1>2, <1>4, <1>5, ReleaseFacts
  <2>2. QED
    BY <2>1, <1>2, <1>5, EndsLost
<1>6. CASE stack # <<>>
  <2>1. PICK b \in Nat : b = Begun
    BY <1>3
  <2>2. /\ content' = content /\ aborted' = aborted
        /\ Layout(stack', l, b - 1, server)
        /\ Kept(stack', b - 1) = Kept(stack, b - 1)
    BY <2>1, <1>2, <1>4, <1>6, ReleaseFacts
  <2>3. b - 1 = Undoable(Me) /\ b - 1 = Begun' /\ b - 1 = Undoable(Me)'
    BY <2>1, <1>3
  <2>4. LossExplained(l)'
    BY <1>1, <1>2 DEF LossExplained
  <2>5. ASSUME SavedKept, SavedKept'
        PROVE  UNCHANGED NT!vars
    <3>1. Saved' = Saved
      BY <2>2, <2>3, <2>5 DEF SavedKept
    <3>2. Outcome' = Outcome
      BY <1>2, Outcomes DEF OutcomeOf
    <3>3. QED
      BY <2>2, <3>1, <3>2, Unchanging DEF NT!vars
  <2>6. QED
    BY <2>2, <2>3, <2>4, <2>5, <1>3 DEF Lays, Nests
<1>7. QED
  BY <1>5, <1>6

\* A statement of the innermost scope that is refused found no transaction,
\* or one that has failed.
LEMMA Refused ==
    ASSUME NEW l, Setting(l), Phase \in {"commit", "undo", "drop"},
           \/ ~ UndoAllowed(Depth(Me))
           \/ ~ CommitAllowed(Depth(Me)) /\ ~aborted
    PROVE  stack = <<>> /\ l = Begun
<1>1. /\ stack \in Seq(Entries) /\ Open \in Nat /\ Begun \in Nat /\ Begun = Open
      /\ l \in Nat /\ l <= Begun /\ Open >= 1 /\ Depth(Me) = Open - 1
  BY SettingFacts
<1>2. Layout(stack, l, Begun, server)
  BY DEF Setting
<1>3. PICK b \in Nat : b = Begun /\ b >= 1 /\ Depth(Me) = b - 1
  BY <1>1
<1>4. /\ l < b => Target(b - 1) \in 1..Len(stack)
      /\ l = b => stack = <<>>
      /\ l < b \/ l = b
  BY <1>1, <1>2, <1>3, TargetFacts
<1>5. ~ (Target(b - 1) > 0)
  BY <1>3 DEF UndoAllowed, CommitAllowed
<1>6. QED
  BY <1>1, <1>3, <1>4, <1>5

\* python and go do not meet what they would not recover from.
LEMMA NotSurvived ==
    ASSUME Recovers, ~ RollsBackFailedCommit
    PROVE  "commit_fails" \notin faults /\ "statement_fails" \notin faults
BY DEF Recovers, RollsBackFailedCommit

\* It fails.
LEMMA CommitFailsAdvances ==
    ASSUME NEW l, Setting(l), CommitFails(Me)
    PROVE  Lays /\ Nests
<1>1. /\ Callers = {Me} /\ Recovers /\ TypeOK /\ Failing
      /\ Layout(stack, l, Begun, server)
      /\ LossExplained(l) /\ faults' = faults /\ server' = server
  BY DEF Setting
<1>2. /\ Phase = "commit" /\ Open' = Open
      /\ Phase' = IF RollsBackFailedCommit THEN "undo" ELSE "throw"
  BY <1>1, WentTo DEF CommitFails, Phase, Open
<1>3. /\ stack \in Seq(Entries) /\ Open \in Nat /\ Begun \in Nat
      /\ l \in Nat /\ l <= Begun /\ Open >= 1 /\ Depth(Me) = Open - 1
      /\ Begun = Open /\ Undoable(Me) = Open
  BY <1>2, SettingFacts
<1>4. CASE CommitAllowed(Depth(Me)) /\ server = "postgres"
  <2>1. /\ "commit_fails" \in faults /\ Target(Depth(Me)) = 1 /\ ~aborted
        /\ Undone(0)
    BY <1>4 DEF CommitFails, CommitRefused
  <2>2. Phase' = "undo"
    BY <2>1, <1>1, <1>2, NotSurvived
  <2>3. PICK b \in Nat : b = Open /\ b >= 1 /\ b - 1 = Depth(Me)
    BY <1>3
  <2>4. b = Begun /\ b = Undoable(Me) /\ b = Begun' /\ b = Undoable(Me)'
    BY <2>2, <2>3, <1>2, <1>3, SettingFacts
  <2>5. Position(stack, b - 1) = 1 /\ stack # <<>> /\ l < b
    BY <2>1, <2>3, <2>4, <1>1, <1>3, TargetFacts
  <2>6. l = b - 1
    <3>1. b - 1 \in l..(b - 1)
      BY <2>5, <1>3
    <3>2. Position(stack, b - 1) = ((b - 1) - l) + 1
      BY <3>1, <2>4, <1>1, <1>4 DEF Layout
    <3>3. QED
      BY <3>2, <2>5, <1>3
  <2>7. b = 1
    BY <2>6, <1>1, <1>2, <1>4 DEF LossExplained
  <2>8. stack' = <<>> /\ content' = stack[1].before /\ aborted' = FALSE
    BY <2>1, <2>5, UndoneAll
  <2>9. Layout(stack', b, Begun', server)
    BY <2>4, <2>8, LayoutEmpty
  <2>10. LossExplained(b)'
    BY <2>2, <2>4, <2>7 DEF LossExplained
  <2>11. ASSUME SavedKept, SavedKept'
         PROVE  NT!Next
    <3>1. Saved = Kept(stack, 1) /\ Saved' = Kept(<<>>, 1)
      BY <2>4, <2>7, <2>8, <2>11 DEF SavedKept
    <3>2. Len(Saved) = 1 /\ Saved[1] = stack[1].before
      <4>1. PICK u \in Nat : u = b /\ u = Undoable(Me)
        BY <2>3, <2>4
      <4>2. /\ Len(Saved) = u /\ u \in 1..u
            /\ \A i \in 1..u : Saved[i] = IF Position(stack, i - 1) = 0 THEN Gone
                                         ELSE stack[Position(stack, i - 1)].before
        <5>1. Saved = Kept(stack, u)
          BY <4>1, <2>11 DEF SavedKept
        <5>2. /\ Len(Kept(stack, u)) = u
              /\ \A i \in 1..u : Kept(stack, u)[i] =
                     IF Position(stack, i - 1) = 0 THEN Gone
                     ELSE stack[Position(stack, i - 1)].before
          BY <1>3, KeptType
        <5>3. u \in 1..u
          BY <4>1, <2>3
        <5>4. QED
          BY <5>1, <5>2, <5>3
      <4>3. u = 1 /\ Position(stack, u - 1) = 1
        BY <4>1, <2>5, <2>7
      <4>4. QED
        BY <4>2, <4>3
    <3>3. Saved' = <<Gone>>
      <4>1. Saved' = [i \in 1..1 |-> Gone]
        BY <3>1, KeptEmpty
      <4>2. QED
        BY <4>1
    <3>4. Outcome = "returned" /\ Outcome' = "threw"
      BY <2>2, <1>2, Outcomes DEF OutcomeOf
    <3>5. aborted' = aborted
      BY <2>1, <2>8, Unchanging
    <3>6. NT!Refuse
      BY <2>8, <3>2, <3>3, <3>4, <3>5 DEF NT!Refuse
    <3>7. QED
      BY <3>6, Unchanging DEF NT!Next
  <2>12. QED
    BY <2>9, <2>10, <2>11 DEF Lays, Nests
<1>5. CASE ~ (CommitAllowed(Depth(Me)) /\ server = "postgres")
  <2>1. UNCHANGED <<content, stack, aborted>>
    BY <1>5 DEF CommitFails
  <2>2. CASE RollsBackFailedCommit
    <3>1. Begun' = Begun /\ Undoable(Me)' = Undoable(Me)
      BY <2>2, <1>2, <1>3, SettingFacts
    <3>2. Lays /\ (SavedKept /\ SavedKept' => Saved' = Saved)
      BY <2>1, <3>1, <1>2, NothingMoves
    <3>3. Outcome = "returned" /\ Outcome' = "threw"
      BY <2>2, <1>2, Outcomes DEF OutcomeOf
    <3>4. SavedKept /\ SavedKept' => NT!Refuse
      BY <2>1, <3>2, <3>3 DEF NT!Refuse
    <3>5. QED
      BY <3>2, <3>4, Unchanging DEF Nests, NT!Next
  <2>3. CASE ~ RollsBackFailedCommit
    <3>1. "commit_fails" \notin faults /\ "statement_fails" \notin faults
      BY <2>3, <1>1, NotSurvived
    <3>2. ~aborted /\ ~ CommitAllowed(Depth(Me))
      BY <3>1, <1>1 DEF Failing, CommitFails, CommitRefused
    <3>3. stack = <<>>
      BY <3>2, <1>2, Refused
    <3>4. QED
      BY <2>1, <2>3, <3>3, <1>2, EndsLost
  <2>4. QED
    BY <2>2, <2>3
<1>6. QED
  BY <1>4, <1>5

\* ROLLBACK or ROLLBACK TO.
LEMMA UndoAdvances ==
    ASSUME NEW l, Setting(l), Undo(Me)
    PROVE  Lays /\ Nests
<1>1. /\ Callers = {Me} /\ TypeOK /\ Layout(stack, l, Begun, server)
      /\ LossExplained(l) /\ faults' = faults /\ server' = server
  BY DEF Setting
<1>2. /\ Phase = "undo" /\ Open' = Open
      /\ Phase' = IF Depth(Me) = 0 THEN "throw" ELSE "drop"
  BY <1>1, WentTo DEF Undo, Phase, Open
<1>3. /\ stack \in Seq(Entries) /\ Open \in Nat /\ Begun \in Nat
      /\ l \in Nat /\ l <= Begun /\ Open >= 1 /\ Depth(Me) = Open - 1
      /\ Begun = Open /\ Undoable(Me) = Open
  BY <1>2, SettingFacts
<1>4. UndoAllowed(Depth(Me)) /\ Undone(Depth(Me))
  BY DEF Undo
<1>5. CASE Depth(Me) = 0
  <2>1. Undone(0) /\ Phase' = "throw" /\ Open = 1
    BY <1>2, <1>3, <1>4, <1>5
  <2>2. CASE stack = <<>>
    <3>1. stack' = <<>> /\ content' = content
      BY <2>1, <2>2, UndoneAll
    <3>2. QED
      BY <2>1, <2>2, <3>1, <1>2, EndsLost
  <2>3. CASE stack # <<>>
    BY <2>1, <2>3, <1>2, EndsUndone
  <2>4. QED
    BY <2>2, <2>3
<1>6. CASE Depth(Me) # 0
  <2>1. PICK b \in Nat : b = Open /\ b >= 2 /\ b - 1 = Depth(Me)
    BY <1>3, <1>6
  <2>2. b = Begun /\ b = Undoable(Me) /\ b = Begun' /\ b - 1 = Undoable(Me)'
    BY <2>1, <1>2, <1>3, <1>6, SettingFacts
  <2>3. /\ Target(b - 1) = Position(stack, b - 1)
        /\ l = b => Target(b - 1) = 0 /\ stack = <<>>
        /\ l < b => stack # <<>>
        /\ l < b \/ l = b
    BY <2>1, <2>2, <1>1, <1>3, TargetFacts
  <2>4. Target(b - 1) > 0 /\ l < b /\ stack # <<>>
    BY <2>1, <2>3, <1>4, <1>6 DEF UndoAllowed
  <2>5. /\ content' = stack[Position(stack, b - 1)].before
        /\ stack' = SubSeq(stack, 1, Position(stack, b - 1))
        /\ aborted' = FALSE
    BY <2>1, <2>3, <2>4, <1>4, <1>6 DEF Undone
  <2>6. Layout(stack', l, b, server) /\ Kept(stack', b - 1) = Kept(stack, b - 1)
    <3>1. Layout(stack, l, b, server)
      BY <2>2, <1>1
    <3>2. stack \in Seq(Entries) /\ b \in Nat /\ l < b
      BY <2>1, <2>4, <1>3
    <3>3. PICK p : p = Position(stack, b - 1)
      OBVIOUS
    <3>4. stack' = SubSeq(stack, 1, p)
      BY <3>3, <2>5
    <3>5. Layout(SubSeq(stack, 1, p), l, b, server)
      BY <3>1, <3>2, <3>3, AfterUndo
    <3>6. PICK u : u = b - 1
      OBVIOUS
    <3>7. p = Position(stack, u)
      BY <3>3, <3>6
    <3>8. Kept(SubSeq(stack, 1, p), u) = Kept(stack, u)
      BY <3>1, <3>2, <3>6, <3>7, KeptUndo
    <3>9. QED
      BY <3>4, <3>5, <3>6, <3>8
  <2>7. LossExplained(l)'
    BY <2>1, <2>2, <1>1 DEF LossExplained
  <2>8. ASSUME SavedKept, SavedKept'
        PROVE  NT!Next
    <3>1. Saved = Kept(stack, b) /\ Saved' = Kept(stack, b - 1)
      BY <2>2, <2>6, <2>8 DEF SavedKept
    <3>2. Front(Saved) = Saved' /\ Last(Saved) = content'
      <4>1. /\ Front(Kept(stack, b)) = Kept(stack, b - 1)
            /\ Last(Kept(stack, b)) = IF Position(stack, b - 1) = 0 THEN Gone
                                      ELSE stack[Position(stack, b - 1)].before
        BY <2>1, <1>3, KeptEnds
      <4>2. Position(stack, b - 1) # 0
        BY <2>3, <2>4
      <4>3. QED
        BY <3>1, <4>1, <4>2, <2>5
    <3>3. content' # Gone
      <4>1. content' \in 0..MaxContent /\ MaxContent \in Nat
        BY SettingFacts, TransactionAssumption
      <4>2. QED
        BY <4>1 DEF Gone
    <3>4. NT!Front(Saved) = Saved' /\ NT!Last(Saved) = content'
      BY <3>2 DEF NT!Front, NT!Last, Front, Last
    <3>5. Outcome = "threw" /\ Outcome' = "failed"
      BY <1>2, <1>6, Outcomes DEF OutcomeOf
    <3>6. NT!Rollback
      BY <2>5, <3>3, <3>4, <3>5 DEF NT!Rollback
    <3>7. QED
      BY <3>6, Unchanging DEF NT!Next
  <2>9. QED
    BY <2>2, <2>6, <2>7, <2>8, <1>3 DEF Lays, Nests
<1>7. QED
  BY <1>5, <1>6

\* Either of the two fails.
LEMMA UndoFailsAdvances ==
    ASSUME NEW l, Setting(l), UndoFails(Me)
    PROVE  Lays /\ Nests
<1>1. /\ Callers = {Me} /\ TypeOK /\ Failing /\ LossExplained(l)
      /\ faults' = faults /\ server' = server
  BY DEF Setting
<1>2. /\ \/ Phase = "undo" /\ ~ UndoAllowed(Depth(Me))
         \/ Phase = "drop" /\ ~ CommitAllowed(Depth(Me))
      /\ Open' = Open /\ stack' = stack /\ content' = content
      /\ Phase' = IF binding = "go" /\ Phase = "undo" /\ Depth(Me) > 0
                  THEN "drop" ELSE "throw"
  BY <1>1, WentTo DEF UndoFails, Phase, Open
<1>3. /\ Open \in Nat /\ Begun \in Nat /\ stack \in Seq(Entries)
      /\ l \in Nat /\ Open >= 1 /\ Depth(Me) = Open - 1 /\ Begun = Open
  BY <1>2, SettingFacts
<1>4. stack = <<>> /\ l = Begun
  <2>1. Phase = "drop" => ~aborted
    BY <1>1 DEF Failing
  <2>2. QED
    BY <2>1, <1>2, Refused
<1>5. CASE Phase' = "throw"
  BY <1>2, <1>4, <1>5, EndsLost
<1>6. CASE Phase' = "drop"
  <2>1. Phase = "undo" /\ Open >= 2
    BY <1>2, <1>3, <1>6
  <2>2. Begun' = Open /\ Undoable(Me) = Open /\ Undoable(Me)' = Open - 1
    BY <2>1, <1>2, <1>3, <1>6, SettingFacts
  <2>3. Layout(stack', l, Begun', server)
    BY <2>2, <1>2, <1>3, <1>4, LayoutEmpty
  <2>4. LossExplained(l)'
    BY <2>1, <1>1, <1>3, <1>4 DEF LossExplained
  <2>5. ASSUME SavedKept, SavedKept'
        PROVE  NT!Next
    <3>1. Saved = Kept(stack, Open) /\ Saved' = Kept(stack, Open - 1)
      BY <2>2, <2>5, <1>2 DEF SavedKept
    <3>2. Position(stack, Open - 1) = 0
      BY <1>4, PositionEmpty
    <3>3. Front(Saved) = Saved' /\ Last(Saved) = Gone
      BY <3>1, <3>2, <1>3, KeptEnds
    <3>4. NT!Front(Saved) = Saved' /\ NT!Last(Saved) = Gone
      BY <3>3 DEF NT!Front, NT!Last, Front, Last
    <3>5. Outcome = "threw" /\ Outcome' = "failed"
      BY <2>1, <1>6, Outcomes DEF OutcomeOf
    <3>6. aborted' = FALSE
      BY <1>2, <1>4, Unchanging
    <3>7. NT!Rollback
      BY <1>2, <3>4, <3>5, <3>6 DEF NT!Rollback
    <3>8. QED
      BY <3>7, Unchanging DEF NT!Next
  <2>6. QED
    BY <2>3, <2>4, <2>5, <1>3 DEF Lays, Nests
<1>7. QED
  BY <1>2, <1>5, <1>6

\* Every step leaves the stack laid out for the scopes that are left, and is a
\* step of nested transactions.
LEMMA Advance ==
    ASSUME NEW l, Setting(l), Steps
    PROVE  Lays /\ Nests
<1>1. Callers = {Me} /\ TypeOK /\ Counted /\ Recovers /\ Phase = pc[Me]
  BY DEF Setting, Phase
<1>2. /\ Open \in Nat
      /\ Begun = Open - (IF Phase \in {"begin", "return", "throw"} THEN 1 ELSE 0)
      /\ Undoable(Me) = Open - (IF Phase \in {"begin", "return", "throw", "drop"} THEN 1 ELSE 0)
      /\ Begun' = Open' - (IF Phase' \in {"begin", "return", "throw"} THEN 1 ELSE 0)
      /\ Undoable(Me)' = Open' - (IF Phase' \in {"begin", "return", "throw", "drop"} THEN 1 ELSE 0)
  BY SettingFacts
<1>3. ASSUME stack' = stack, Phase # "undo",
             Begun' = Begun, Undoable(Me)' = Undoable(Me)
      PROVE  Lays /\ (SavedKept /\ SavedKept' => Saved' = Saved)
  BY <1>3, NothingMoves
<1>4. ASSUME Lays, SavedKept /\ SavedKept' => Saved' = Saved,
             Outcome' = Outcome, content' = content, aborted' = aborted
      PROVE  Lays /\ Nests
  BY <1>4, Unchanging DEF Nests, NT!vars
<1>5. CASE Write(Me) \/ WriteAborts(Me)
  <2>1. Phase = "body" /\ Phase' = "body" /\ Open' = Open /\ stack' = stack
    BY <1>5 DEF Write, WriteAborts, Phase, Open
  <2>2. Lays /\ (SavedKept /\ SavedKept' => Saved' = Saved)
    BY <2>1, <1>2, <1>3
  <2>3. Outcome = "running" /\ Outcome' = "running" /\ content' \in 0..MaxContent
    BY <2>1, Outcomes, SettingFacts DEF OutcomeOf
  <2>4. CASE Write(Me)
    <3>1. SavedKept /\ SavedKept' => NT!Write
      BY <2>2, <2>3, <2>4 DEF NT!Write, Write
    <3>2. QED
      BY <2>2, <3>1, Unchanging DEF Nests, NT!Next
  <2>5. CASE WriteAborts(Me)
    <3>1. /\ server = "postgres" /\ "statement_fails" \in faults /\ stack # <<>>
          /\ aborted' = TRUE /\ content' = content
      BY <2>5 DEF WriteAborts
    <3>2. ASSUME SavedKept, SavedKept'
          PROVE  NT!Break
      <4>1. Layout(stack, l, Begun, server) /\ l \in Nat /\ l <= Begun
        BY SettingFacts DEF Setting
      <4>2. Open >= 1 /\ Undoable(Me) = Open
        BY <2>1, <3>1, <4>1, <1>2 DEF Layout
      <4>3. Saved # <<>>
        BY <3>2, <4>2, KeptEnds, SettingFacts DEF SavedKept
      <4>4. Saved' = Saved
        BY <2>2, <3>2
      <4>5. QED
        BY <2>3, <3>1, <4>3, <4>4 DEF NT!Break
    <3>3. QED
      BY <2>2, <3>2, Unchanging DEF Nests, NT!Next
  <2>6. QED
    BY <2>4, <2>5, <1>5
<1>6. CASE Enter(Me)
  <2>1. Phase = "body" /\ Phase' = "begin" /\ UNCHANGED <<stack, content, aborted>>
    BY <1>1, <1>6, WentTo DEF Enter
  <2>2. Open' = Open + 1
    BY <1>1, <1>6, ScopeEntered DEF Enter
  <2>3. Outcome' = Outcome
    BY <2>1, Outcomes DEF OutcomeOf
  <2>4. QED
    BY <2>1, <2>2, <2>3, <1>2, <1>3, <1>4
<1>7. CASE BeginFails(Me)
  <2>1. Phase = "begin" /\ Phase' = "body" /\ UNCHANGED <<stack, content, aborted>>
    BY <1>1, <1>7, WentTo DEF BeginFails
  <2>2. Open' = Open - 1
    BY <2>1, <1>1, <1>7, ScopeLeft DEF BeginFails
  <2>3. Outcome' = Outcome
    BY <2>1, Outcomes DEF OutcomeOf
  <2>4. QED
    BY <2>1, <2>2, <2>3, <1>2, <1>3, <1>4
<1>8. CASE BodyStarts(Me)
  <2>1. Phase = "begun" /\ Phase' = "body" /\ Open' = Open /\ UNCHANGED <<stack, content, aborted>>
    BY <1>1, <1>8, WentTo DEF BodyStarts, Open
  <2>2. Outcome' = Outcome
    BY <2>1, Outcomes DEF OutcomeOf
  <2>3. QED
    BY <2>1, <2>2, <1>2, <1>3, <1>4
<1>9. CASE \E p \in {"commit", "undo"} : BodyEnds(Me, p)
  <2>1. PICK p \in {"commit", "undo"} : BodyEnds(Me, p)
    BY <1>9
  <2>2. /\ Phase = "body" /\ Phase' = p /\ Open' = Open
        /\ UNCHANGED <<stack, content, aborted>> /\ scopes[Me] # <<>>
    BY <2>1, <1>1, WentTo DEF BodyEnds, Open
  <2>3. Lays /\ (SavedKept /\ SavedKept' => Saved' = Saved)
    BY <2>2, <1>2, <1>3
  <2>4. ASSUME SavedKept, SavedKept'
        PROVE  NT!BodyEnds
    <3>1. Outcome = "running" /\ Outcome' \in {"returned", "threw"}
      BY <2>2, Outcomes DEF OutcomeOf
    <3>2. Open >= 1 /\ Undoable(Me) = Open
      <4>1. scopes[Me] \in Seq(Nat)
        BY <1>1, StateFacts
      <4>2. Open # 0
        BY <2>2, <4>1, EmptySeq DEF Open
      <4>3. QED
        BY <4>2, <2>2, <1>2
    <3>3. Saved # <<>>
      BY <2>4, <3>2, KeptEnds, SettingFacts DEF SavedKept
    <3>4. Saved' = Saved
      BY <2>3, <2>4
    <3>5. QED
      BY <2>2, <3>1, <3>3, <3>4 DEF NT!BodyEnds
  <2>5. QED
    BY <2>3, <2>4, Unchanging DEF Nests, NT!Next
<1>10. CASE Leave(Me)
  <2>1. Phase \in {"return", "throw"} /\ Phase' = "body" /\ UNCHANGED <<stack, content, aborted>>
    BY <1>1, <1>10, WentTo DEF Leave
  <2>2. Open' = Open - 1
    BY <2>1, <1>1, <1>10, ScopeLeft DEF Leave
  <2>3. Lays /\ (SavedKept /\ SavedKept' => Saved' = Saved)
    BY <2>1, <2>2, <1>2, <1>3
  <2>4. Outcome \in {"succeeded", "failed"} /\ Outcome' = "running"
    BY <2>1, Outcomes DEF OutcomeOf
  <2>5. SavedKept /\ SavedKept' => NT!End
    BY <2>1, <2>3, <2>4 DEF NT!End
  <2>6. QED
    BY <2>3, <2>5, Unchanging DEF Nests, NT!Next
<1>11. ~ ErrorEscapes(Me) /\ ~ Goexits(Me) /\ ~ Cancelled(Me)
  BY <1>1 DEF Recovers, ErrorEscapes, Goexits, Cancelled
<1>12. QED
  BY <1>5, <1>6, <1>7, <1>8, <1>9, <1>10, <1>11, BeginAdvances, WriteRollsBackAdvances,
     CommitAdvances, CommitFailsAdvances, UndoAdvances, DropAdvances, UndoFailsAdvances
     DEF Steps, Step

-----------------------------------------------------------------------------
(***************************************************************************)
(* The types.                                                              *)
(***************************************************************************)
\* What the server's answers do to the content and the stack.
Answered ==
    /\ content' \in 0..newest
    /\ stack' \in Seq([name : Nat, before : 0..newest])
    /\ aborted' \in BOOLEAN /\ (aborted' => aborted /\ stack' = stack)

\* An answer that changes nothing.
LEMMA AnsweredSame ==
    ASSUME TypeOK, UNCHANGED <<content, stack, aborted>>
    PROVE  Answered
BY DEF TypeOK, Answered

\* What a savepoint name leads to is on the stack.
LEMMA TargetType ==
    ASSUME stack \in Seq(Entries), NEW d \in Nat
    PROVE  Target(d) \in 0..Len(stack)
<1>1. Latest(d) = Position(stack, d)
  BY DEF Latest, Position
<1>2. Position(stack, d) \in 0..Len(stack)
  BY PositionFacts
<1>3. Len(stack) \in Nat /\ (stack # <<>> => Len(stack) >= 1)
  BY LenProperties, EmptySeq
<1>4. QED
  BY <1>1, <1>2, <1>3 DEF Target

\* An answer that undoes.
LEMMA AnsweredUndone ==
    ASSUME TypeOK, stack \in Seq(Entries), NEW d \in Nat, Undone(d),
           stack = <<>> \/ Target(d) > 0
    PROVE  Answered
<1> DEFINE S == [name : Nat, before : 0..newest]
<1>1. stack \in Seq(S) /\ content \in 0..newest /\ Len(stack) \in Nat
  BY LenProperties DEF TypeOK
<1>2. Target(d) \in 0..Len(stack)
  BY TargetType
<1>3. content' \in 0..newest
  <2>1. CASE stack = <<>>
    BY <2>1, <1>1 DEF Undone
  <2>2. CASE stack # <<>>
    <3>1. Target(d) \in 1..Len(stack)
      BY <2>2, <1>1, <1>2
    <3>2. stack[Target(d)] \in S
      BY <3>1, <1>1, ElementOfSeq
    <3>3. QED
      BY <2>2, <3>2 DEF Undone
  <2>3. QED
    BY <2>1, <2>2
<1>4. PICK p : p = IF d = 0 THEN 0 ELSE Target(d)
  OBVIOUS
<1>5. p \in 0..Len(stack) /\ stack' = SubSeq(stack, 1, p)
  BY <1>1, <1>2, <1>4 DEF Undone
<1>6. stack' \in Seq(S)
  <2> HIDE DEF S
  <2>1. QED
    BY <1>1, <1>5, CutFacts
<1>7. QED
  BY <1>3, <1>6 DEF Undone, Answered

\* An answer that releases.
LEMMA AnsweredReleased ==
    ASSUME TypeOK, stack \in Seq(Entries), NEW d \in Nat, Released(d)
    PROVE  Answered
<1> DEFINE S == [name : Nat, before : 0..newest]
<1>1. CASE aborted
  <2>1. Undone(0) /\ stack # <<>>
    BY <1>1 DEF Released, TypeOK
  <2>2. Target(0) > 0
    BY <2>1 DEF Target
  <2>3. QED
    BY <2>1, <2>2, AnsweredUndone
<1>2. CASE ~aborted
  <2>1. /\ content' = content /\ aborted' = aborted
        /\ stack' = IF Swallowed(d) THEN stack ELSE SubSeq(stack, 1, Target(d) - 1)
    BY <1>2 DEF Released
  <2>2. stack \in Seq(S) /\ content \in 0..newest /\ Len(stack) \in Nat
    BY LenProperties DEF TypeOK
  <2>3. PICK p : p = Target(d) - 1
    OBVIOUS
  <2>4. SubSeq(stack, 1, p) \in Seq(S)
    <3> HIDE DEF S
    <3>1. Target(d) \in 0..Len(stack)
      BY TargetType
    <3>2. CASE p \in 0..Len(stack)
      BY <3>2, <2>2, CutFacts
    <3>3. CASE p < 1 /\ p \in Int
      <4>1. SubSeq(stack, 1, p) = <<>>
        BY <3>3, SubSeqEmpty
      <4>2. QED
        BY <4>1, EmptySeq
    <3>4. QED
      BY <3>1, <3>2, <3>3, <2>2, <2>3
  <2>5. stack' \in Seq(S)
    BY <2>1, <2>2, <2>3, <2>4
  <2>6. aborted' = FALSE
    BY <2>1, <1>2 DEF TypeOK
  <2>7. QED
    BY <2>1, <2>2, <2>5, <2>6 DEF Answered
<1>3. QED
  BY <1>1, <1>2

\* An answer that rolls everything back.
LEMMA AnsweredRolledBack ==
    ASSUME TypeOK, stack \in Seq(Entries), Undone(0)
    PROVE  Answered
<1>1. stack = <<>> \/ Target(0) > 0
  BY DEF Target
<1>2. QED
  BY <1>1, AnsweredUndone

\* An answer of the server to anything but a write.
LEMMA Answers ==
    ASSUME Callers = {Me}, TypeOK, Counted, Steps, ~ Write(Me), ~ WriteAborts(Me)
    PROVE  Answered /\ newest' = newest
<1>1. stack \in Seq(Entries) /\ (Phase # "body" => Depth(Me) \in Nat) /\ Phase = pc[Me]
  BY StateFacts DEF Phase
<1>2. CASE WriteRollsBack(Me)
  BY <1>1, <1>2, AnsweredRolledBack DEF WriteRollsBack
<1>3. CASE BeginSucceeds(Me)
  <2>1. Depth(Me) \in Nat
    BY <1>1, <1>3 DEF BeginSucceeds
  <2>2. PICK e : e = [name |-> Depth(Me), before |-> content]
    OBVIOUS
  <2>3. /\ content' = content /\ newest' = newest /\ aborted' = aborted /\ ~aborted
        /\ stack' = stack \/ stack' = Append(stack, e)
    BY <1>3, <2>2 DEF BeginSucceeds, BeginAllowed, Opened
  <2>4. /\ stack \in Seq([name : Nat, before : 0..newest])
        /\ content \in 0..newest /\ aborted \in BOOLEAN
    BY DEF TypeOK
  <2>5. e \in [name : Nat, before : 0..newest]
    BY <2>1, <2>2, <2>4
  <2>6. Append(stack, e) \in Seq([name : Nat, before : 0..newest])
    BY <2>4, <2>5, AppendProperties
  <2>7. QED
    BY <2>3, <2>4, <2>6 DEF Answered
<1>4. CASE CommitSucceeds(Me) \/ Drop(Me)
  <2>1. Released(Depth(Me)) /\ Phase # "body" /\ newest' = newest
    BY <1>1, <1>4 DEF CommitSucceeds, Drop
  <2>2. QED
    BY <2>1, <1>1, AnsweredReleased
<1>5. CASE CommitFails(Me)
  <2>1. newest' = newest /\ (Undone(0) \/ UNCHANGED <<content, stack, aborted>>)
    BY <1>5 DEF CommitFails
  <2>2. QED
    BY <2>1, <1>1, AnsweredRolledBack, AnsweredSame
<1>6. CASE Undo(Me)
  <2>1. /\ Depth(Me) \in Nat /\ newest' = newest
        /\ Undone(Depth(Me)) /\ UndoAllowed(Depth(Me))
    BY <1>1, <1>6 DEF Undo
  <2>2. CASE Depth(Me) = 0
    BY <2>1, <2>2, <1>1, AnsweredRolledBack
  <2>3. CASE Depth(Me) # 0
    <3>1. Target(Depth(Me)) > 0
      BY <2>1, <2>3 DEF UndoAllowed
    <3>2. QED
      BY <2>1, <3>1, <1>1, AnsweredUndone
  <2>4. QED
    BY <2>2, <2>3
<1>7. CASE \/ Enter(Me) \/ BeginFails(Me) \/ BodyStarts(Me) \/ UndoFails(Me) \/ Leave(Me)
           \/ \E p \in {"commit", "undo"} : BodyEnds(Me, p)
  <2>1. UNCHANGED <<content, stack, aborted, newest>>
    BY <1>7 DEF Enter, BeginFails, BodyStarts, UndoFails, Leave, BodyEnds
  <2>2. QED
    BY <2>1, AnsweredSame
<1>8. CASE ErrorEscapes(Me) \/ Goexits(Me) \/ Cancelled(Me)
  <2>1. UNCHANGED <<content, stack, aborted, newest>>
    BY <1>8 DEF ErrorEscapes, Goexits, Cancelled
  <2>2. QED
    BY <2>1, AnsweredSame
<1>9. QED
  BY <1>2, <1>3, <1>4, <1>5, <1>6, <1>7, <1>8 DEF Steps, Step

\* A step leads from phase to phase.
LEMMA PhaseType ==
    ASSUME pc \in [Callers -> Phases], Steps
    PROVE  pc' \in [Callers -> Phases]
<1>1. ASSUME NEW p \in Phases, Goto(Me, p)
      PROVE  pc' \in [Callers -> Phases]
  BY <1>1 DEF Goto
<1>2. CASE Write(Me) \/ WriteRollsBack(Me) \/ WriteAborts(Me)
  BY <1>2 DEF Write, WriteRollsBack, WriteAborts
<1>3. CASE \E p \in {"commit", "undo"} : BodyEnds(Me, p)
  BY <1>1, <1>3 DEF BodyEnds, Phases
<1>4. CASE Enter(Me) \/ BeginSucceeds(Me) \/ BeginFails(Me) \/ BodyStarts(Me) \/ Leave(Me)
  BY <1>1, <1>4 DEF Enter, BeginSucceeds, BeginFails, BodyStarts, Leave, Phases
<1>5. CASE CommitSucceeds(Me) \/ Drop(Me)
  BY <1>1, <1>5 DEF CommitSucceeds, Drop, Phases
<1>6. CASE CommitFails(Me)
  <2>1. Goto(Me, "undo") \/ Goto(Me, "throw")
    BY <1>6 DEF CommitFails
  <2>2. QED
    BY <1>1, <2>1 DEF Phases
<1>7. CASE Undo(Me) \/ UndoFails(Me)
  <2>1. Goto(Me, "drop") \/ Goto(Me, "throw")
    BY <1>7 DEF Undo, UndoFails
  <2>2. QED
    BY <1>1, <2>1 DEF Phases
<1>8. CASE ErrorEscapes(Me) \/ Cancelled(Me)
  <2>1. Goto(Me, "body") \/ Goto(Me, "throw")
    BY <1>8 DEF ErrorEscapes, Cancelled
  <2>2. QED
    BY <1>1, <2>1 DEF Phases
<1>9. CASE Goexits(Me)
  BY <1>9 DEF Goexits
<1>10. QED
  BY <1>2, <1>3, <1>4, <1>5, <1>6, <1>7, <1>8, <1>9 DEF Steps, Step

\* A step keeps the types.
LEMMA TypesStep ==
    ASSUME Callers = {Me}, TypeOK, Counted, Steps, UNCHANGED <<binding, server, faults>>
    PROVE  TypeOK'
<1>1. Counted' /\ scopes' \in [Callers -> Seq(Nat)]
  BY CountedStep
<1>2. pc \in [Callers -> Phases]
  BY DEF TypeOK, Phases
<1>3. pc' \in [Callers -> Phases]
  BY <1>2, PhaseType
<1>4. txDepth' \in Nat
  <2>1. Open' \in Nat
    <3>1. scopes'[Me] \in Seq(Nat)
      BY <1>1
    <3>2. QED
      BY <3>1, LenProperties DEF Open
  <2>2. Phase' # "body" => Open' >= 1
    BY <1>1 DEF Counted
  <2>3. /\ txDepth' = Open' \/ txDepth' = Open' - 1
        /\ Phase' = "body" => txDepth' = Open'
    <3>1. txDepth' = Open' - (IF \/ Phase' \in {"begin", "begun"}
                                 \/ /\ binding' = "python"
                                    /\ Phase' \notin {"body", "begin", "begun"}
                              THEN 1 ELSE 0)
      BY <1>1 DEF Counted
    <3>2. PICK o \in Nat : o = Open'
      BY <2>1
    <3>3. o - 0 = o
      OBVIOUS
    <3>4. QED
      BY <3>1, <3>2, <3>3
  <2>4. QED
    BY <2>1, <2>2, <2>3
<1>5. /\ newest \in 0..MaxContent /\ newest \in Nat /\ content \in 0..newest
      /\ stack \in Seq([name : Nat, before : 0..newest]) /\ stack \in Seq(Entries)
      /\ aborted \in BOOLEAN /\ (aborted => server = "postgres" /\ stack # <<>>)
      /\ MaxContent \in Nat
  BY StateFacts, TransactionAssumption DEF TypeOK
<1>6. /\ newest' \in 0..MaxContent /\ content' \in 0..newest'
      /\ stack' \in Seq([name : Nat, before : 0..newest'])
      /\ aborted' \in BOOLEAN /\ (aborted' => server = "postgres" /\ stack' # <<>>)
  <2>1. CASE Write(Me)
    <3>1. /\ newest < MaxContent /\ newest' = newest + 1 /\ content' = newest'
          /\ stack' = stack /\ aborted' = aborted
      BY <2>1 DEF Write
    <3>2. newest' \in 0..MaxContent /\ content' \in 0..newest'
      BY <1>5, <3>1
    <3>3. [name : Nat, before : 0..newest] \subseteq [name : Nat, before : 0..newest']
      BY <1>5, <3>1
    <3>4. stack' \in Seq([name : Nat, before : 0..newest'])
      <4>1. PICK S, T : /\ S = [name : Nat, before : 0..newest]
                        /\ T = [name : Nat, before : 0..newest']
        OBVIOUS
      <4>2. stack' \in Seq(S) /\ S \subseteq T
        BY <4>1, <1>5, <3>1, <3>3
      <4>3. stack' \in Seq(T)
        BY <4>2, SeqMonotonic
      <4>4. QED
        BY <4>1, <4>3
    <3>5. QED
      BY <1>5, <3>1, <3>2, <3>4
  <2>2. CASE WriteAborts(Me)
    <3>1. /\ server = "postgres" /\ stack # <<>> /\ aborted' = TRUE
          /\ UNCHANGED <<content, newest, stack>>
      BY <2>2 DEF WriteAborts
    <3>2. QED
      BY <1>5, <3>1
  <2>3. CASE ~ Write(Me) /\ ~ WriteAborts(Me)
    <3>1. Answered /\ newest' = newest
      BY <2>3, Answers
    <3>2. QED
      BY <1>5, <3>1 DEF Answered
  <2>4. QED
    BY <2>1, <2>2, <2>3
<1>7. QED
  BY <1>1, <1>3, <1>4, <1>6 DEF TypeOK, Phases

-----------------------------------------------------------------------------
(***************************************************************************)
(* The invariant.                                                          *)
(***************************************************************************)
\* At first there is no scope and nothing on the stack.
LEMMA ScopesInit ==
    ASSUME Callers = {Me}, Init
    PROVE  Scopes
<1>1. /\ Phase = "body" /\ scopes[Me] = <<>> /\ txDepth = 0
      /\ stack = <<>> /\ aborted = FALSE
  BY DEF Init, Phase
<1>2. Open = 0 /\ Begun = 0
  BY <1>1, EmptySeq DEF Open, Begun
<1>3. TypeOK
  <2>1. /\ <<>> \in Seq(Nat)
        /\ <<>> \in Seq([name : Nat, before : 0..newest])
    BY EmptySeq
  <2>2. 0 \in 0..MaxContent /\ 0 \in 0..0
    BY TransactionAssumption
  <2>3. QED
    BY <2>1, <2>2 DEF Init, TypeOK
<1>4. Counted
  <2>1. \A i \in 1..Open : FALSE
    BY <1>2
  <2>2. Phase = "body" /\ txDepth = 0 /\ Open = 0 /\ 0 - 0 = 0
    BY <1>1, <1>2
  <2>3. QED
    BY <2>1, <2>2 DEF Counted
<1>5. Stacked
  <2>1. Layout(stack, 0, Begun, server)
    BY <1>1, <1>2, LayoutEmpty
  <2>2. 0 \in 0..Begun
    BY <1>2
  <2>3. QED
    BY <2>1, <2>2 DEF Stacked, LossExplained
<1>6. Failing
  BY <1>1 DEF Failing
<1>7. QED
  BY <1>3, <1>4, <1>5, <1>6 DEF Scopes

\* A rollback clears a failed transaction, and only a statement fails it.
LEMMA FailingStep ==
    ASSUME NEW l, Setting(l), Steps
    PROVE  Failing'
<1>1. Callers = {Me} /\ TypeOK /\ Failing /\ Counted /\ faults' = faults /\ Phase = pc[Me]
  BY DEF Setting, Phase
<1>2. CASE WriteAborts(Me)
  BY <1>1, <1>2 DEF WriteAborts, Failing, Phase
<1>3. CASE Write(Me)
  BY <1>1, <1>3 DEF Write, Failing, Phase
<1>4. ASSUME ~ Write(Me), ~ WriteAborts(Me)
      PROVE  aborted' => aborted /\ stack' = stack
  BY <1>1, <1>4, Answers DEF Answered
<1>5. CASE Undo(Me)
  BY <1>5 DEF Undo, Undone, Failing
<1>6. CASE UndoFails(Me)
  <2>1. /\ (Phase = "undo" /\ ~ UndoAllowed(Depth(Me))) \/ Phase = "drop"
        /\ aborted' = aborted
    BY <1>1, <1>6 DEF UndoFails
  <2>2. Phase = "undo" => stack = <<>>
    BY <2>1, Refused
  <2>3. ~aborted
    BY <2>1, <2>2, <1>1 DEF Failing, TypeOK
  <2>4. QED
    BY <2>1, <2>3 DEF Failing
<1>7. ASSUME Phase' # "drop", aborted' => aborted
      PROVE  Failing'
  BY <1>1, <1>7 DEF Failing
<1>8. CASE \/ WriteRollsBack(Me) \/ Enter(Me) \/ BeginSucceeds(Me) \/ BeginFails(Me)
           \/ BodyStarts(Me) \/ CommitSucceeds(Me) \/ CommitFails(Me) \/ Drop(Me) \/ Leave(Me)
           \/ \E p \in {"commit", "undo"} : BodyEnds(Me, p)
  <2>1. Phase' # "drop"
    <3>1. CASE WriteRollsBack(Me)
      BY <3>1 DEF WriteRollsBack, Phase
    <3>2. CASE \E p \in {"commit", "undo"} : BodyEnds(Me, p)
      BY <3>2, <1>1, WentTo DEF BodyEnds
    <3>3. CASE CommitFails(Me)
      BY <3>3, <1>1, WentTo DEF CommitFails
    <3>4. CASE \/ Enter(Me) \/ BeginSucceeds(Me) \/ BeginFails(Me) \/ BodyStarts(Me)
               \/ CommitSucceeds(Me) \/ Drop(Me) \/ Leave(Me)
      <4>1. \E p \in {"begin", "begun", "body", "return", "throw"} : Goto(Me, p)
        BY <3>4 DEF Enter, BeginSucceeds, BeginFails, BodyStarts, CommitSucceeds, Drop, Leave
      <4>2. QED
        BY <4>1, <1>1, WentTo
    <3>5. QED
      BY <1>8, <3>1, <3>2, <3>3, <3>4
  <2>2. ~ Write(Me) /\ ~ WriteAborts(Me) => (aborted' => aborted)
    BY <1>4
  <2>3. QED
    BY <2>1, <2>2, <1>2, <1>3, <1>7
<1>9. ~ ErrorEscapes(Me) /\ ~ Goexits(Me) /\ ~ Cancelled(Me)
  BY DEF Setting, Recovers, ErrorEscapes, Goexits, Cancelled
<1>10. QED
  BY <1>2, <1>3, <1>5, <1>6, <1>8, <1>9 DEF Steps, Step

\* What a step does where the handler rolls back after everything.
LEMMA RecoveringStep ==
    ASSUME Callers = {Me}, Recovers, Scopes, TypeOK', Counted', Steps,
           UNCHANGED <<binding, server, faults>>
    PROVE  Lays /\ Nests /\ Failing'
<1>1. PICK l \in 0..Begun : Layout(stack, l, Begun, server) /\ LossExplained(l)
  BY DEF Scopes, Stacked
<1>2. Setting(l)
  BY <1>1 DEF Setting, Scopes
<1>3. QED
  BY <1>2, Advance, FailingStep

\* Every step keeps the invariant.
LEMMA ScopesStep ==
    ASSUME Callers = {Me}, Scopes, Next
    PROVE  Scopes'
<1>1. Steps /\ UNCHANGED <<binding, server, faults>>
  BY OnlyMySteps
<1>2. TypeOK' /\ Counted'
  BY <1>1, TypesStep, CountedStep DEF Scopes
<1>3. Recovers' = Recovers
  BY <1>1 DEF Recovers
<1>4. ASSUME Recovers
      PROVE  Stacked' /\ Failing'
  <2>1. Lays /\ Failing'
    BY <1>1, <1>2, <1>4, RecoveringStep
  <2>2. PICK m \in Nat : Layout(stack', m, Begun', server) /\ LossExplained(m)'
    BY <2>1 DEF Lays
  <2>3. m \in 0..Begun'
    BY <2>2 DEF Layout
  <2>4. server' = server
    BY <1>1
  <2>5. Stacked'
    BY <2>2, <2>3, <2>4 DEF Stacked
  <2>6. QED
    BY <2>1, <2>5
<1>5. QED
  BY <1>2, <1>3, <1>4 DEF Scopes

\* So does a step that changes nothing.
LEMMA ScopesStutter ==
    ASSUME Scopes, UNCHANGED vars
    PROVE  Scopes'
<1>1. UNCHANGED <<Phase, Open, Begun>>
  BY DEF vars, Phase, Open, Begun
<1>2. TypeOK'
  BY DEF Scopes, TypeOK, vars
<1>3. Counted' /\ Recovers' = Recovers /\ (Failing => Failing')
  BY <1>1 DEF Scopes, Counted, Recovers, Failing, vars
<1>4. Stacked => Stacked'
  BY <1>1 DEF Stacked, LossExplained, vars
<1>5. QED
  BY <1>2, <1>3, <1>4 DEF Scopes

\* Scopes is an invariant of the specification.
LEMMA ScopesHolds ==
    ASSUME OneCaller
    PROVE  Spec => []Scopes
<1>1. Callers = {Me}
  BY OnlyMe
<1>2. Init => Scopes
  BY <1>1, ScopesInit
<1>3. Scopes /\ [Next]_vars => Scopes'
  <2>1. Scopes /\ Next => Scopes'
    BY <1>1, ScopesStep
  <2>2. Scopes /\ UNCHANGED vars => Scopes'
    BY ScopesStutter
  <2>3. QED
    BY <2>1, <2>2
<1>4. QED
  BY <1>2, <1>3, PTL DEF Spec

-----------------------------------------------------------------------------
(***************************************************************************)
(* The theorems.                                                           *)
(***************************************************************************)
\* "The depth counter and SQLite's savepoint stack stay in lockstep": where the
\* handler of the binding rolls back after everything that may fail, user code
\* finds the counter, the open scopes and the server's stack equally deep, and on
\* SQL Server a savepoint of its own for each scope, unless the server itself
\* ended the transaction.
THEOREM LockstepHolds ==
    ASSUME OneCaller
    PROVE  Spec => []Lockstep
<1>1. Callers = {Me}
  BY OnlyMe
<1>2. Scopes => Lockstep
  <2> SUFFICES ASSUME Scopes, Recovers, "auto_rollback" \notin faults, Phase = "body"
               PROVE  /\ txDepth = Len(scopes[Me])
                      /\ IF server = "mssql"
                           THEN \A d \in ToSet(scopes[Me]) : Latest(d) > 0
                         ELSE Len(stack) = Len(scopes[Me])
    BY <1>1 DEF Lockstep, Phase
  <2>1. TypeOK /\ Counted
    BY DEF Scopes
  <2>2. /\ stack \in Seq(Entries) /\ Len(stack) \in Nat
        /\ Open \in Nat /\ scopes[Me] \in Seq(Nat)
    BY <2>1, <1>1, StateFacts
  <2>3. Begun = Open /\ Open = Len(scopes[Me])
    BY <2>2 DEF Begun, Open
  <2>4. Layout(stack, 0, Open, server)
    <3>1. PICK l \in 0..Begun : Layout(stack, l, Begun, server) /\ LossExplained(l)
      BY DEF Scopes, Stacked
    <3>2. l = 0
      BY <3>1 DEF LossExplained
    <3>3. QED
      BY <3>1, <3>2, <2>3
  <2>5. txDepth = Open
    BY <2>1, <2>2 DEF Counted
  <2>6. ASSUME server # "mssql"
        PROVE  Len(stack) = Open
    BY <2>2, <2>4, <2>6 DEF Layout
  <2>7. ASSUME NEW d \in ToSet(scopes[Me])
        PROVE  Latest(d) > 0
    <3>1. PICK i \in 1..Open : d = scopes[Me][i]
      BY <2>2, <2>3, LenProperties DEF ToSet
    <3>2. d = i - 1 /\ d \in 0..(Open - 1)
      BY <3>1, <2>1, <2>2 DEF Counted
    <3>3. Position(stack, d) \in 1..Len(stack)
      BY <3>2, <2>2, <2>4, LayoutFacts
    <3>4. Latest(d) = Position(stack, d)
      BY DEF Latest, Position
    <3>5. QED
      BY <3>3, <3>4, <2>2
  <2>8. QED
    BY <2>3, <2>5, <2>6, <2>7
<1>3. QED
  BY <1>2, ScopesHolds, PTL

\* A client on which every scope has ended counts as before the first, whatever
\* failed or got past a handler, and no transaction is open where the handler of
\* the binding rolls back after everything that may fail.
THEOREM ScopesEndCleanHolds ==
    ASSUME OneCaller
    PROVE  Spec => []ScopesEndClean
<1>1. Callers = {Me}
  BY OnlyMe
<1>2. Scopes => ScopesEndClean
  <2> SUFFICES ASSUME Scopes, AllOutside
               PROVE  txDepth = 0 /\ (Recovers => stack = <<>>)
    BY DEF ScopesEndClean, NothingLeftOpen, DepthReturns
  <2>1. Open = 0 /\ Open \in Nat /\ Counted
    BY <1>1, EmptySeq DEF AllOutside, Open, Scopes
  <2>2. Phase = "body"
    <3>1. Phase # "body" => Open >= 1
      BY <2>1 DEF Counted
    <3>2. QED
      BY <2>1, <3>1
  <2>3. txDepth = 0 /\ Begun = 0
    <3>1. txDepth = Open
      <4>1. Open \in Nat /\ Counted
        BY <2>1
      <4>2. QED
        BY <4>1, <2>2 DEF Counted
    <3>2. Begun = Open
      <4>1. Open \in Nat
        BY <2>1
      <4>2. QED
        BY <4>1, <2>2 DEF Begun
    <3>3. QED
      BY <2>1, <3>1, <3>2
  <2>4. ASSUME Recovers
        PROVE  stack = <<>>
    <3>1. PICK l \in 0..Begun : Layout(stack, l, Begun, server)
      BY <2>4 DEF Scopes, Stacked
    <3>2. l = Begun
      BY <2>3, <3>1
    <3>3. QED
      BY <3>1, <3>2 DEF Layout
  <2>5. QED
    BY <2>3, <2>4
<1>3. QED
  BY <1>2, ScopesHolds, PTL

\* What the scopes go back to is what is on the stack.
LEMMA SavedIsKept ==
    ASSUME Callers = {Me}, TypeOK, Counted
    PROVE  SavedKept
<1>1. /\ Open \in Nat /\ Phase \in Phases
      /\ Undoable(Me) = Open - (IF Phase \in {"begin", "return", "throw", "drop"} THEN 1 ELSE 0)
      /\ Phase # "body" => Open >= 1
  BY StateFacts
<1>2. PICK u \in Nat : u = Undoable(Me) /\ u <= Open
  BY <1>1
<1>3. \A i \in 1..u : Latest(scopes[Me][i]) = Position(stack, i - 1)
  <2> TAKE i \in 1..u
  <2>1. i \in 1..Open
    BY <1>1, <1>2
  <2>2. scopes[Me][i] = i - 1
    BY <2>1 DEF Counted
  <2>3. QED
    BY <2>2 DEF Latest, Position
<1>4. Saved = [i \in 1..u |-> IF Latest(scopes[Me][i]) = 0 THEN Gone
                              ELSE stack[Latest(scopes[Me][i])].before]
  BY <1>2 DEF Saved, Me
<1>5. Saved = [i \in 1..u |-> IF Position(stack, i - 1) = 0 THEN Gone
                              ELSE stack[Position(stack, i - 1)].before]
  BY <1>3, <1>4
<1>6. QED
  BY <1>2, <1>5 DEF SavedKept, Kept

\* The first state, a step and a stuttering step, seen as NestedTransactions.
LEMMA NestingInit ==
    ASSUME Callers = {Me}, Init
    PROVE  NT!Init
<1>1. TypeOK /\ Counted
  BY ScopesInit DEF Scopes
<1>2. /\ Open = 0 /\ Phase = "body" /\ pc[Caller] = "body"
      /\ stack = <<>> /\ aborted = FALSE /\ content = 0
  BY EmptySeq DEF Init, Open, Phase, Me
<1>3. Undoable(Me) = 0
  <2>1. PICK o \in Nat : o = Open /\ o - 0 = 0
    BY <1>2
  <2>2. Undoable(Me) = o - 0
    BY <1>2, <2>1 DEF Undoable, Open, Phase
  <2>3. QED
    BY <2>1, <2>2
<1>4. Saved = <<>>
  <2>1. Saved = Kept(stack, Undoable(Me))
    BY <1>1, SavedIsKept DEF SavedKept
  <2>2. Saved = Kept(stack, 0)
    BY <1>3, <2>1
  <2>3. stack \in Seq(Entries)
    BY <1>1, StateFacts
  <2>4. QED
    BY <2>2, <2>3, KeptNone
<1>5. Outcome = "running"
  BY <1>2 DEF Outcome
<1>6. content \in 0..MaxContent
  BY <1>2, TransactionAssumption
<1>7. QED
  BY <1>2, <1>4, <1>5, <1>6 DEF NT!Init

\* Every step is one of nested transactions, or none of theirs.
LEMMA NestingStep ==
    ASSUME Callers = {Me}, Recovers, Scopes, Scopes', SavedKept', Next
    PROVE  NT!Next \/ UNCHANGED NT!vars
<1>1. Steps /\ UNCHANGED <<binding, server, faults>>
  BY OnlyMySteps
<1>2. TypeOK' /\ Counted'
  BY DEF Scopes
<1>3. Nests
  BY <1>1, <1>2, RecoveringStep
<1>4. SavedKept
  BY SavedIsKept DEF Scopes
<1>5. QED
  BY <1>3, <1>4 DEF Nests

\* Nothing is none of theirs.
LEMMA NestingStutter ==
    ASSUME UNCHANGED vars
    PROVE  UNCHANGED NT!vars
<1>1. UNCHANGED <<Saved, Outcome, content, aborted, faults, server>>
  BY DEF vars, Saved, Outcome, Undoable, Latest
<1>2. QED
  BY <1>1 DEF NT!vars

\* Where the handler of the binding rolls back after everything that may fail,
\* scopes nest: a scope that threw, or whose commit was refused, ends only when its
\* own work is undone and no other, one that succeeds has returned and hands its
\* work to the scope around it, and all of the work goes at once only if the server
\* itself rolled it back.
THEOREM ImplementsNestingHolds ==
    ASSUME OneCaller
    PROVE  Spec => ImplementsNesting
<1>1. Callers = {Me}
  BY OnlyMe
<1>2. Init => NT!Init
  BY <1>1, NestingInit
<1>3. Scopes => SavedKept
  BY <1>1, SavedIsKept DEF Scopes
<1>4. Scopes /\ Scopes' /\ SavedKept' /\ [Next]_vars => [Recovers => NT!Next]_(NT!vars)
  BY <1>1, NestingStep, NestingStutter
<1>5. QED
  BY <1>2, <1>3, <1>4, ScopesHolds, PTL DEF Spec, ImplementsNesting
=============================================================================
