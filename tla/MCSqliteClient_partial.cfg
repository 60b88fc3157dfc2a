CONSTANTS
    t1 = t1
    t2 = t2
    q1 = q1
    q2 = q2
    q3 = q3
    rnd = rnd
    ins = ins
    Tasks <- MCTasks
    Selects <- MCSelects
    Volatile <- MCVolatile
    Returning <- MCNone
    Size <- MCSize
    InMemory = TRUE
    Faults <- MCPartialBatch
    MaxEntries = 1
    MaxTotalBytes = 3
    MaxResultBytes = 2
    MaxContent = 3
    MaxRequests = 4
    NoInsert = NoInsert
    Free = Free
    NoSql = NoSql
    NoTxn = NoTxn
    NoVersion = NoVersion
    NoAnswer = NoAnswer
SPECIFICATION Spec
INVARIANTS
    AnswersCurrent
