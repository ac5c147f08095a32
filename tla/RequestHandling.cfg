CONSTANTS
    r1 = r1
    r2 = r2
    c1 = c1
    c2 = c2
    Requests = {r1, r2}
    MaxOperations = 2
    Connections = {c1, c2}
    NoConnection = NoConnection
    ColumnType <- MCColumnType
    Workloads <- MCWorkloads
SPECIFICATION FairSpec
INVARIANTS
    ErrorMeansUndone
    AllOrNothing
    DataMeansApplied
    CompactionIsTransparent
PROPERTIES
    AtomicallyExecuted
    Answered
    SpawnedTasksFinish
CHECK_DEADLOCK FALSE
