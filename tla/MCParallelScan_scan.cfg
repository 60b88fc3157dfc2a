CONSTANTS
    Settings <- MCSafe
    SignBit = 8
    Rowids <- MCRowids
    Threads = 3
    ParallelMinSpan = 3
    MaxWrites = 1
    MaxScans = 2
    NoTxn = NoTxn
    NoAnswer = NoAnswer
    Unread = Unread
    Failed = Failed
SPECIFICATION FairSpec
INVARIANTS SafeScanMatchesSerial PoolSound
PROPERTY QueriesReturn
