------------------------- MODULE NestedTransactions -------------------------
(***************************************************************************)
(* What the transaction scope of every language binding promises: scopes   *)
(* nest; a scope whose body throws, or whose commit is refused, has its own *)
(* work undone, and nothing else, before it ends; a scope whose body       *)
(* returns hands its work to the scope around it; and the work is          *)
(* committed when no scope is left.                                        *)
(***************************************************************************)
EXTENDS Naturals, Sequences, SequencesExt

CONSTANTS
    Contents, \* what the database may hold
    Gone      \* what a scope goes back to whose transaction was given up

VARIABLES
    content, \* what the database holds, as the client sees it
    saved,   \* the content each open scope began with, outermost first
    phase,   \* how far the innermost scope is: "running", "returned", "threw",
             \* or just over: "succeeded", "failed"
    broken,  \* whether the database refuses everything but a rollback
    aborts,  \* whether the database may give up a transaction by itself
    breaks   \* whether it may break off one until it is rolled back

vars == <<content, saved, phase, broken, aborts, breaks>>

Init ==
    /\ content \in Contents /\ saved = <<>>
    /\ phase = "running" /\ broken = FALSE
    /\ aborts \in BOOLEAN /\ breaks \in BOOLEAN

-----------------------------------------------------------------------------
\* A scope opens.  Where the transaction around it is gone it may be no scope
\* of the database at all.
Begin ==
    /\ phase = "running" /\ ~broken
    /\ \/ saved' = Append(saved, content)
       \/ saved # <<>> /\ Last(saved) = Gone /\ saved' = Append(saved, Gone)
    /\ UNCHANGED <<content, phase, broken>>

\* A statement of the innermost scope, or one outside every scope, writes.
Write ==
    /\ phase = "running" /\ ~broken
    /\ content' \in Contents
    /\ UNCHANGED <<saved, phase, broken>>

\* The body of the innermost scope returns or throws.
BodyEnds ==
    /\ phase = "running" /\ saved # <<>>
    /\ phase' \in {"returned", "threw"}
    /\ UNCHANGED <<content, saved, broken>>

\* Only a scope that returned can succeed: its work is handed on.
Commit ==
    /\ phase = "returned" /\ ~broken
    /\ phase' = "succeeded"
    /\ saved' = Front(saved)
    /\ UNCHANGED <<content, broken>>

\* Its commit is refused: it goes on like one that threw.  With the commit of
\* the outermost scope the database may already have undone the work.
Refuse ==
    /\ phase = "returned"
    /\ phase' = "threw"
    /\ \/ UNCHANGED <<content, saved>>
       \/ Len(saved) = 1 /\ saved' = <<Gone>> /\ content' = saved[1]
    /\ UNCHANGED broken

\* A scope fails, at the latest when it threw: its work is gone, and no other.
Rollback ==
    /\ phase \in {"returned", "threw"}
    /\ phase' = "failed"
    /\ saved' = Front(saved)
    /\ content' = IF Last(saved) = Gone THEN content ELSE Last(saved)
    /\ broken' = FALSE

\* The code around the scope goes on.
End ==
    /\ phase \in {"succeeded", "failed"}
    /\ phase' = "running"
    /\ UNCHANGED <<content, saved, broken>>

-----------------------------------------------------------------------------
\* The database gives up the transaction: the work of every scope is gone.
Abort ==
    /\ aborts /\ phase = "running"
    /\ \E i \in DOMAIN saved :
           /\ saved[i] # Gone /\ \A j \in 1..(i - 1) : saved[j] = Gone
           /\ content' = saved[i]
    /\ saved' = [i \in DOMAIN saved |-> Gone]
    /\ UNCHANGED <<phase, broken>>

\* It refuses all further statements of the transaction.
Break ==
    /\ breaks /\ phase = "running" /\ saved # <<>>
    /\ broken' = TRUE
    /\ UNCHANGED <<content, saved, phase>>

\* To commit such a transaction is to roll it back, which is no error.
Discard ==
    /\ broken /\ phase = "returned" /\ Len(saved) = 1
    /\ phase' = "succeeded"
    /\ saved' = <<>> /\ content' = saved[1]
    /\ broken' = FALSE

Next ==
    /\ \/ Begin \/ Write \/ BodyEnds
       \/ Commit \/ Refuse \/ Rollback \/ End
       \/ Abort \/ Break \/ Discard
    /\ UNCHANGED <<aborts, breaks>>

Spec == Init /\ [][Next]_vars
=============================================================================
