CONSTANTS
    Ints <- MCBigInts
    Reals <- MCReals
    Texts <- MCTexts
    Blobs <- MCBlobs
    Exact = 4
    EmptyRanges = TRUE
    MaxRows = 4
    MaxRanges = 3
SPECIFICATION Spec
CHECK_DEADLOCK FALSE
INVARIANTS SortsLikeSqlite DirectMatchesMerge MergeMatchesSerialIfExact FinishedIsUtf8UnlessSplit
