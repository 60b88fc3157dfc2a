CONSTANTS
    Ints <- MCInts
    Reals <- MCNone
    Texts <- MCSplitTexts
    Blobs <- MCNone
    Exact = 4
    EmptyRanges = FALSE
    MaxRows = 2
    MaxRanges = 2
SPECIFICATION Spec
CHECK_DEADLOCK FALSE
INVARIANT FinishedIsUtf8
