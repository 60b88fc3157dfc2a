SPECIFICATION Spec
CONSTANTS
    Spelling <- MCSpelling
    Instances <- MCInstances
    RowIds = {1, 2, 3}
    Faults = TRUE
    MaxRuns = 2
    Null = Null
    None = None
INVARIANT RebuildTakesPrimaryKeys
