--------------------------- MODULE MCSqliteClient ---------------------------
(***************************************************************************)
(* Small instances of SqliteClient: two callers, two SELECTs that compete  *)
(* for the single cache entry, a volatile SELECT and, where a run admits   *)
(* it, an INSERT ... RETURNING.                                            *)
(***************************************************************************)
EXTENDS SqliteClient

CONSTANTS t1, t2, q1, q2, q3, rnd, ins

MCTasks == {t1, t2}
MCSelects == {q1, q2}
MCThreeSelects == {q1, q2, q3}
MCVolatile == {rnd}
MCReturning == {ins}
MCNone == {}
MCPartialBatch == {"partial_batch"}
MCAllFaults == {"partial_batch", "auto_rollback"}
TaskSymmetry == Permutations(MCTasks)
MCSize == [s \in Cacheable |-> IF s = q2 THEN 2 ELSE 1]
\* The same, and the result of q3 is above the per-result limit.
MCLargeSize == [s \in Cacheable |-> CASE s = q3 -> 3 [] s = q2 -> 2 [] OTHER -> 1]
=============================================================================
