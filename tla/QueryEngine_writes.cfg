CONSTANTS
    Null = 0
    Models = {"A", "B"}
    MaxId = 4
    Ids = {1, 2}
    Schemas <- SingleSchemas
    Databases <- AllDatabases
    Requests <- OneRelationRequests
SPECIFICATION Spec
INVARIANTS
    RelationsHold
    EffectIsExact
    AnswerIsExact
    RejectedForCause
