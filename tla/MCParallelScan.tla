--------------------------- MODULE MCParallelScan ---------------------------
(* Instances of ParallelScan for TLC: a span of 3 is worth splitting, over   *)
(* two or three threads.                                                     *)
EXTENDS ParallelScan

MCSetting(m, o, x) ==
    [inMemory |-> m, ownTransactions |-> o, externalWriters |-> x]

MCMemory == MCSetting(TRUE, TRUE, FALSE)
MCShared == MCSetting(FALSE, FALSE, TRUE)
MCSafe == {MCMemory, MCShared}
MCMemoryOnly == {MCMemory}
MCSharedOnly == {MCShared}
MCOwnOnly == {MCSetting(FALSE, TRUE, FALSE)}

MCRowids == {-2, 0, 1, 3}
MCFewRowids == {0, 1, 3}
MCExtremes == {MinRowid, 0, MaxRowid}
=============================================================================
