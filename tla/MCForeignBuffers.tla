-------------------------- MODULE MCForeignBuffers --------------------------
(* Instances of ForeignBuffers for TLC: two tasks on two threads, two        *)
(* addresses, so that a freed one is given out again.                        *)
EXTENDS ForeignBuffers

MCSymmetry == Permutations(Tasks) \cup Permutations(Threads)
              \cup Permutations(Addresses)
=============================================================================
