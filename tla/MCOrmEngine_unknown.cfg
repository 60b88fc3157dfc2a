CONSTANTS
    UserIds = {1, 2}
    PostIds = {1, 2, 3}
    Wheres <- MCWheres
    Data <- MCData
    Batches <- MCBatches
    ChunkSizes = {0, 2, 9}
    MAX_VARS = 7
    CHUNK = 1
    Flavors = {"lite", "mssql"}
    MaxWrites = 1
    Null = Null
    None = None
SPECIFICATION Spec
INVARIANT UnknownOperatorsRefused
