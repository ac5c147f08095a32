CONSTANTS
    Null = 0
    Models = {"A", "B", "C"}
    MaxId = 3
    Ids = {1}
    Schemas <- ReorderedSchemas
    Databases <- AllDatabases
    Requests <- ReorderedRequests
SPECIFICATION Spec
INVARIANT OldChildIsReplaced
CHECK_DEADLOCK FALSE
