------------------------- MODULE MCAdaptiveColumn -------------------------
(* Instances of AdaptiveColumn for TLC: Exact is 4, so 5 is the least       *)
(* integer that a conversion to binary64 changes.                           *)
EXTENDS AdaptiveColumn

MCInts == {2, 3}
MCBigInts == {2, 5}
MCReals == {1}
\* A text that reads like a number, one of two characters, a whole two-byte
\* character and one that is cut off.
MCTexts == {<<1>>, <<110, 112>>, <<Lead, Continuation>>, <<Lead>>}
MCBlobs == {<<Continuation>>}
MCSplitTexts == {<<Lead>>, <<Continuation>>}
MCNone == {}
=============================================================================
