---------------------------- MODULE Transaction ----------------------------
(***************************************************************************)
(* The transaction scopes of the language bindings over the one connection *)
(* of a client: the outermost scope issues BEGIN IMMEDIATE and COMMIT or   *)
(* ROLLBACK, a nested one SAVEPOINT powder_sp_<depth> and RELEASE or       *)
(* ROLLBACK TO, and the client's depth counter tells which it is.          *)
(*   node    crates/powder-node/ts/index.ts            Client.transaction  *)
(*   python  crates/powder-python/python/powder/__init__.py   Transaction  *)
(*   go      bindings/go/powder.go                     Client.Transaction  *)
(*   java    crates/powder-java/java/com/powder/Client.java                *)
(*   csharp  bindings/csharp/Powder/Client.cs                              *)
(*   cpp     bindings/cpp/include/powder.hpp                               *)
(*                                                                         *)
(* Each SQL statement is one step, as SqliteClient's connection mutex makes *)
(* it; the steps of concurrent callers interleave between statements.      *)
(* The statements are SQLite's; the other back ends rewrite them (pg.rs,   *)
(* my.rs, ms.rs under crates/powder-core/src).  The servers' savepoints    *)
(* are external: they are modelled by what these statements do to them.    *)
(***************************************************************************)
EXTENDS Integers, Sequences, SequencesExt, FiniteSetsExt

CONSTANTS
    Callers,     \* concurrent users of one client
    Bindings,    \* the bindings the client may be one of
    Servers,     \* the back ends it may be connected to
    Faults,      \* per binding: which statements may fail together, see below
    MaxContent,  \* bound: contents the database goes through
    MaxNesting,  \* bound: scopes a caller nests
    MaxStack     \* bound: savepoints when a scope opens; SQL Server keeps those
                 \* of the scopes that have ended

\* "begin_fails": another process holds the write lock.  "commit_fails": a
\* deferred foreign key or a busy reader; SQLite leaves the transaction open.
\* "auto_rollback": a failing write (full disk, OR ROLLBACK, a deadlock) makes
\* the server roll back the whole transaction.  "statement_fails": PostgreSQL
\* refuses everything but a rollback after a statement that failed.  "escapes":
\* control leaves a scope past its handler, see below.  Callers overlap on
\* SQLite only.
ASSUME TransactionAssumption ==
    /\ Bindings \subseteq {"node", "python", "go", "java", "csharp", "cpp"}
    /\ Faults \in [Bindings -> SUBSET SUBSET
                    {"begin_fails", "commit_fails", "auto_rollback",
                     "statement_fails", "escapes"}]
    /\ Servers \subseteq {"sqlite", "postgres", "mysql", "mssql"}
    /\ Cardinality(Callers) = 1 \/ Servers = {"sqlite"}
    /\ MaxContent \in Nat
    /\ MaxNesting \in Nat /\ MaxStack \in Nat

VARIABLES
    binding, \* the binding the client is one of
    server,  \* the back end
    faults,  \* what may fail, fixed from the start
    txDepth, \* the client's depth counter
    pc,      \* per caller: where it is in its innermost scope
    scopes,  \* per caller: the depth each of its open scopes read, outermost first
    content, \* the content the connection sees
    newest,  \* the newest content ever made
    stack,   \* the server: the open BEGIN (name 0) and savepoints, each with
             \* the content to return to; empty in autocommit mode
    aborted  \* PostgreSQL: whether a statement of the transaction failed

vars == <<binding, server, faults, txDepth, pc, scopes, content, newest, stack, aborted>>

Init ==
    /\ binding \in Bindings
    /\ server \in Servers
    /\ faults \in Faults[binding]
    /\ txDepth = 0
    /\ pc = [c \in Callers |-> "body"]
    /\ scopes = [c \in Callers |-> <<>>]
    /\ content = 0 /\ newest = 0
    /\ stack = <<>> /\ aborted = FALSE

-----------------------------------------------------------------------------
\* The server.  A transaction of depth 0 is BEGIN IMMEDIATE, COMMIT and
\* ROLLBACK; one of depth d > 0 is the savepoint powder_sp_<d>.

\* The position of the statement's target on the stack, 0 if it has none: the
\* outermost entry for COMMIT and ROLLBACK, else the latest of that name.
Latest(d) == Max({0} \cup {i \in DOMAIN stack : stack[i].name = d})
Target(d) == IF d > 0 THEN Latest(d) ELSE IF stack = <<>> THEN 0 ELSE 1

\* COMMIT and ROLLBACK outside a transaction are warnings, not errors.
Lenient == server \in {"postgres", "mysql"}

\* BEGIN is refused inside a transaction (the others never get one there);
\* SAVEPOINT outside one starts one on SQLite, does nothing on MySQL and is
\* refused by the others.
BeginAllowed(d) ==
    /\ ~aborted
    /\ IF d = 0 THEN stack = <<>> ELSE stack # <<>> \/ server \in {"sqlite", "mysql"}

Opened(d) ==
    /\ IF server = "mysql" /\ d > 0 /\ stack = <<>> THEN UNCHANGED stack
       ELSE stack' = Append(stack, [name |-> d, before |-> content])
    /\ UNCHANGED aborted

\* normalize_tx: T-SQL has no RELEASE, the statement is not sent at all.
Swallowed(d) == server = "mssql" /\ d > 0

CommitAllowed(d) ==
    \/ Swallowed(d)
    \/ d = 0 /\ Lenient
    \/ Target(d) > 0 /\ (d > 0 => ~aborted)

\* ROLLBACK ends the transaction, ROLLBACK TO leaves the savepoint active.
Undone(d) ==
    /\ content' = IF stack = <<>> THEN content ELSE stack[Target(d)].before
    /\ stack' = SubSeq(stack, 1, IF d = 0 THEN 0 ELSE Target(d))
    /\ aborted' = FALSE

\* COMMIT and RELEASE: the target and everything above it is gone.  The COMMIT
\* of a transaction in which a statement failed is a ROLLBACK.
Released(d) ==
    IF aborted THEN Undone(0)
    ELSE /\ stack' = IF Swallowed(d) THEN stack ELSE SubSeq(stack, 1, Target(d) - 1)
         /\ UNCHANGED <<content, aborted>>

\* What is refused is the commit of the whole transaction; PostgreSQL rolls
\* it back.
CommitRefused(d) ==
    /\ "commit_fails" \in faults /\ server \in {"sqlite", "postgres"}
    /\ Target(d) = 1 /\ ~aborted

UndoAllowed(d) == Target(d) > 0 \/ (d = 0 /\ Lenient)

-----------------------------------------------------------------------------
Goto(c, l) == pc' = [pc EXCEPT ![c] = l]

Depth(c) == Last(scopes[c])

\* The bindings whose handler rolls back when COMMIT or RELEASE fails; in the
\* other two the failed COMMIT is the scope's last statement.
NeverRollsBackFailedCommit == FALSE
RollsBackFailedCommit == binding \notin {"python", "go"}

\* A statement of user code writes, inside the open transaction or not.
Write(c) ==
    /\ pc[c] = "body"
    /\ ~aborted
    /\ newest < MaxContent
    /\ newest' = newest + 1
    /\ content' = newest'
    /\ UNCHANGED <<txDepth, pc, scopes, stack, aborted>>

\* A statement of user code fails and takes the transaction with it.  User
\* code may catch the error and go on, or throw.
WriteRollsBack(c) ==
    /\ "auto_rollback" \in faults /\ server # "postgres"
    /\ pc[c] = "body"
    /\ stack # <<>>
    /\ Undone(0)
    /\ UNCHANGED <<txDepth, pc, scopes, newest>>

\* One fails on PostgreSQL; user code may catch the error and go on.
WriteAborts(c) ==
    /\ "statement_fails" \in faults /\ server = "postgres"
    /\ pc[c] = "body"
    /\ stack # <<>> /\ ~aborted
    /\ aborted' = TRUE
    /\ UNCHANGED <<txDepth, pc, scopes, content, newest, stack>>

\* transaction() is called: it reads the depth and picks its first statement.
Enter(c) ==
    /\ pc[c] = "body"
    /\ Len(scopes[c]) < MaxNesting /\ (Len(stack) < MaxStack \/ aborted)
    /\ scopes' = [scopes EXCEPT ![c] = Append(@, txDepth)]
    /\ Goto(c, "begin")
    /\ UNCHANGED <<txDepth, content, newest, stack, aborted>>

\* BEGIN IMMEDIATE or SAVEPOINT succeeds.
BeginSucceeds(c) ==
    /\ pc[c] = "begin"
    /\ BeginAllowed(Depth(c))
    /\ Opened(Depth(c))
    /\ Goto(c, "begun")
    /\ UNCHANGED <<txDepth, scopes, content, newest>>

\* It fails: the call throws into the body around it, the counter untouched.
BeginFails(c) ==
    /\ pc[c] = "begin"
    /\ ~BeginAllowed(Depth(c)) \/ (Depth(c) = 0 /\ "begin_fails" \in faults)
    /\ scopes' = [scopes EXCEPT ![c] = Front(@)]
    /\ Goto(c, "body")
    /\ UNCHANGED <<txDepth, content, newest, stack, aborted>>

\* The counter is set from the depth that was read, and the body starts; C++
\* increments it instead.
BodyStarts(c) ==
    /\ pc[c] = "begun"
    /\ txDepth' = IF binding = "cpp" THEN txDepth + 1 ELSE Depth(c) + 1
    /\ Goto(c, "body")
    /\ UNCHANGED <<scopes, content, newest, stack, aborted>>

\* The body ends, by returning (l = "commit") or by throwing (l = "undo").
\* Python decrements the counter before it issues the statement.
BodyEnds(c, l) ==
    /\ pc[c] = "body"
    /\ scopes[c] # <<>>
    /\ Goto(c, l)
    /\ txDepth' = IF binding = "python" THEN txDepth - 1 ELSE txDepth
    /\ UNCHANGED <<scopes, content, newest, stack, aborted>>

\* A body of Java throws an Error: catch (Exception) does not see it, finally
\* does, and no statement is issued.
ErrorEscapes(c) ==
    /\ "escapes" \in faults /\ binding = "java"
    /\ pc[c] = "body" /\ scopes[c] # <<>>
    /\ Goto(c, "throw")
    /\ UNCHANGED <<txDepth, scopes, content, newest, stack, aborted>>

\* A body of Go calls runtime.Goexit: recover returns nil, so all that happens
\* is that the deferred functions of all its scopes put the counter back.
Goexits(c) ==
    /\ "escapes" \in faults /\ binding = "go"
    /\ pc[c] = "body" /\ scopes[c] # <<>>
    /\ scopes' = [scopes EXCEPT ![c] = <<>>]
    /\ txDepth' = Head(scopes[c])
    /\ UNCHANGED <<pc, content, newest, stack, aborted>>

\* A Python task is cancelled while it awaits a statement of the scope, which
\* has run, or never does: __aenter__ is left with the counter untouched and
\* __aexit__ is not called, or __aexit__ is left, the counter decremented.
Cancelled(c) ==
    /\ "escapes" \in faults /\ binding = "python"
    /\ \/ /\ pc[c] \in {"begin", "begun"}
          /\ scopes' = [scopes EXCEPT ![c] = Front(@)]
          /\ Goto(c, "body")
       \/ /\ pc[c] \in {"commit", "undo", "drop"}
          /\ UNCHANGED scopes
          /\ Goto(c, "throw")
    /\ UNCHANGED <<txDepth, content, newest, stack, aborted>>

\* COMMIT or RELEASE succeeds.
CommitSucceeds(c) ==
    /\ pc[c] = "commit"
    /\ CommitAllowed(Depth(c))
    /\ Released(Depth(c))
    /\ Goto(c, "return")
    /\ UNCHANGED <<txDepth, scopes, newest>>

\* It fails: there is nothing to commit or release, or what it does is the
\* commit of the whole transaction, and that is refused.
CommitFails(c) ==
    /\ pc[c] = "commit"
    /\ ~CommitAllowed(Depth(c)) \/ CommitRefused(Depth(c))
    /\ IF CommitAllowed(Depth(c)) /\ server = "postgres" THEN Undone(0)
       ELSE UNCHANGED <<content, stack, aborted>>
    /\ Goto(c, IF RollsBackFailedCommit THEN "undo" ELSE "throw")
    /\ UNCHANGED <<txDepth, scopes, newest>>

\* A rollback that leaves the savepoint on the stack.
UndoWithoutRelease(c) ==
    /\ pc[c] = "undo"
    /\ UndoAllowed(Depth(c))
    /\ Undone(Depth(c))
    /\ Goto(c, "throw")
    /\ UNCHANGED <<txDepth, scopes, newest>>

\* A nested rollback that undoes the whole transaction.
UndoEverything(c) ==
    /\ pc[c] = "undo"
    /\ UndoAllowed(Depth(c))
    /\ Undone(0)
    /\ Goto(c, "throw")
    /\ UNCHANGED <<txDepth, scopes, newest>>

\* ROLLBACK or ROLLBACK TO; a savepoint is released next.
Undo(c) ==
    /\ pc[c] = "undo"
    /\ UndoAllowed(Depth(c))
    /\ Undone(Depth(c))
    /\ Goto(c, IF Depth(c) = 0 THEN "throw" ELSE "drop")
    /\ UNCHANGED <<txDepth, scopes, newest>>

\* RELEASE after ROLLBACK TO.
Drop(c) ==
    /\ pc[c] = "drop"
    /\ CommitAllowed(Depth(c))
    /\ Released(Depth(c))
    /\ Goto(c, "throw")
    /\ UNCHANGED <<txDepth, scopes, newest>>

\* Either of the two fails, which is swallowed; Go, which ignores each error
\* by itself, still issues the RELEASE.
UndoFails(c) ==
    /\ \/ pc[c] = "undo" /\ ~UndoAllowed(Depth(c))
       \/ pc[c] = "drop" /\ ~CommitAllowed(Depth(c))
    /\ Goto(c, IF binding = "go" /\ pc[c] = "undo" /\ Depth(c) > 0
                 THEN "drop" ELSE "throw")
    /\ UNCHANGED <<txDepth, scopes, content, newest, stack, aborted>>

\* The call returns or throws into the body around it; the counter goes back
\* to the depth that was read (C++ decrements it, Python already has).
Leave(c) ==
    /\ pc[c] \in {"return", "throw"}
    /\ scopes' = [scopes EXCEPT ![c] = Front(@)]
    /\ txDepth' = CASE binding = "python" -> txDepth
                    [] binding = "cpp" -> txDepth - 1
                    [] OTHER -> Depth(c)
    /\ Goto(c, "body")
    /\ UNCHANGED <<content, newest, stack, aborted>>

Step(c) ==
    \/ BeginSucceeds(c) \/ BeginFails(c) \/ BodyStarts(c)
    \/ CommitSucceeds(c) \/ CommitFails(c)
    \/ Undo(c) \/ Drop(c) \/ UndoFails(c)
    \/ Leave(c)

Next ==
    /\ \E c \in Callers :
           \/ Write(c) \/ WriteRollsBack(c) \/ WriteAborts(c)
           \/ Enter(c)
           \/ \E l \in {"commit", "undo"} : BodyEnds(c, l)
           \/ ErrorEscapes(c) \/ Goexits(c) \/ Cancelled(c)
           \/ Step(c)
    /\ UNCHANGED <<binding, server, faults>>

Spec == Init /\ [][Next]_vars

-----------------------------------------------------------------------------
\* The types of the variables.
TypeOK ==
    /\ binding \in Bindings
    /\ server \in Servers
    /\ faults \in Faults[binding]
    /\ txDepth \in Nat
    /\ pc \in [Callers -> {"body", "begin", "begun", "commit", "undo", "drop",
                           "return", "throw"}]
    /\ scopes \in [Callers -> Seq(Nat)]
    /\ newest \in 0..MaxContent /\ content \in 0..newest
    /\ stack \in Seq([name : Nat, before : 0..newest])
    /\ aborted \in BOOLEAN /\ (aborted => server = "postgres" /\ stack # <<>>)

\* The binding's handler rolls back after everything that may fail: the two
\* that never roll back a failed COMMIT do not meet one, nor a RELEASE refused
\* because a statement failed, and nothing gets past the handler of the three
\* it is possible with.
Recovers ==
    /\ binding \in {"python", "go"} =>
           "commit_fails" \notin faults /\ "statement_fails" \notin faults
    /\ binding \in {"java", "python", "go"} => "escapes" \notin faults

\* No scope is open.
AllOutside == \A c \in Callers : scopes[c] = <<>>

\* How many of the open scopes can still be undone on their own: not one that
\* has not begun yet, has ended, or is about to release its undone savepoint.
Undoable(c) ==
    Len(scopes[c]) - (IF pc[c] \in {"begin", "return", "throw", "drop"} THEN 1 ELSE 0)

\* With one caller, "the depth counter and SQLite's savepoint stack stay in
\* lockstep": while user code runs, the counter, the caller's open scopes and
\* the server's stack are equally deep, so the next scope issues the right
\* statement.  It takes a handler that rolls back after everything that may
\* fail, and a server that does not end the transaction itself.  On SQL Server,
\* which never releases a savepoint, each scope finds one of its own all the
\* same.
Lockstep ==
    Recovers /\ "auto_rollback" \notin faults => \A c \in Callers : pc[c] = "body" =>
        /\ txDepth = Len(scopes[c])
        /\ IF server = "mssql" THEN \A d \in ToSet(scopes[c]) : Latest(d) > 0
           ELSE Len(stack) = Len(scopes[c])

\* A scope that has returned or thrown leaves no transaction open: the next
\* BEGIN IMMEDIATE is not refused and the next statement is committed.
NothingLeftOpen == AllOutside => stack = <<>>

\* The counter is 0 when no scope is open: the next scope is an outermost one
\* and issues BEGIN IMMEDIATE.
DepthReturns == AllOutside => txDepth = 0

\* With one caller, a client on which every scope has ended counts as before
\* the first, whatever failed or got past a handler.  No transaction is left
\* open if the handler rolls back after everything that may fail: not where a
\* COMMIT fails in Python or Go, an Error leaves a body in Java, Goexit one in
\* Go, or a Python task is cancelled within a statement of the scope.
ScopesEndClean == DepthReturns /\ (Recovers => NothingLeftOpen)

-----------------------------------------------------------------------------
\* The scopes of the one caller, as nested transactions.
Caller == CHOOSE c \in Callers : TRUE

\* Where a scope goes back to whose BEGIN or savepoint the server no longer has.
Gone == -1

\* What the open scopes go back to.
Saved ==
    [i \in 1..Undoable(Caller) |->
        LET at == Latest(scopes[Caller][i])
        IN  IF at = 0 THEN Gone ELSE stack[at].before]

\* How far the innermost one is.
Outcome ==
    CASE pc[Caller] = "commit" -> "returned"
      [] pc[Caller] = "undo" -> "threw"
      [] pc[Caller] = "return" -> "succeeded"
      [] pc[Caller] \in {"drop", "throw"} -> "failed"
      [] OTHER -> "running"

NT == INSTANCE NestedTransactions WITH
        Contents <- 0..MaxContent, saved <- Saved, phase <- Outcome, broken <- aborted,
        aborts <- "auto_rollback" \in faults /\ server # "postgres",
        breaks <- "statement_fails" \in faults /\ server = "postgres"

\* With one caller whose binding rolls back after everything that may fail,
\* scopes nest: a scope that threw, or whose COMMIT was refused, ends only when
\* the statements issued have undone its work, and they keep that of the scopes
\* around it; one that succeeds has returned and keeps its own.  All of the work
\* goes at once only if the server itself rolled it back.
ImplementsNesting == NT!Init /\ [][Recovers => NT!Next]_(NT!vars)
=============================================================================
