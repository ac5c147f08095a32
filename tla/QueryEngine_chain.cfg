CONSTANTS
    Null = 0
    Models = {"A", "B", "C"}
    MaxId = 3
    Ids = {1}
    Schemas <- TwoRelationSchemas
    Databases <- AllDatabases
    Requests <- TwoRelationRequests
SPECIFICATION Spec
INVARIANTS
    TranslationIsComplete
    NoInternalError
    EffectIsExact
