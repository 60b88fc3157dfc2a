--------------------------- MODULE MCQueryCache ----------------------------
(***************************************************************************)
(* A small instance of QueryCache.  A buffer is its own length, so that    *)
(* both limits bind: three small buffers reach the entry limit, a large    *)
(* one next to a small one reaches the byte limit and evicts several, and  *)
(* the largest is above the per-result limit.                              *)
(***************************************************************************)
EXTENDS QueryCache

CONSTANTS k1, k2, k3, k4

MCKeys == {k1, k2, k3, k4}
MCBuffers == {0, 1, 2, 4, 5, 7}
MCLength == [b \in MCBuffers |-> b]
=============================================================================
