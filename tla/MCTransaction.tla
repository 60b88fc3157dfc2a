--------------------------- MODULE MCTransaction ---------------------------
(* Instances of Transaction for TLC.                                       *)
EXTENDS Transaction

\* The bindings that never roll a failed COMMIT back, all of them, those under
\* which a transaction may stay open, and one whose transaction() calls may
\* overlap.
MCNotRollingBack == {"python", "go"}
MCAllBindings == MCNotRollingBack \cup {"node", "java", "csharp", "cpp"}
MCLeaving == MCNotRollingBack \cup {"java"}
MCNode == {"node"}

MCAllServers == {"sqlite", "postgres", "mysql", "mssql"}
MCSqlite == {"sqlite"}

\* What may fail that the binding recovers from, with and without the server
\* rolling the transaction back by itself, and everything.
MCAllFaults ==
    [b \in MCAllBindings |->
        LET survived == {"begin_fails"}
                        \cup (IF b \in MCNotRollingBack THEN {} ELSE {"commit_fails", "statement_fails"})
        IN  {survived, survived \cup {"auto_rollback"},
             {"begin_fails", "commit_fails", "auto_rollback", "statement_fails", "escapes"}}]

MCLeavingFaults ==
    [b \in MCLeaving |->
        IF b = "java" THEN {{"escapes"}} ELSE {{"commit_fails"}, {"escapes"}}]
MCNoFaults == [b \in MCNode |-> {{}}]
=============================================================================
