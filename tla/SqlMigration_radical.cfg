SPECIFICATION Spec
CHECK_DEADLOCK FALSE
CONSTANTS
    NameOrder <- MCNameOrder
    PlainNames <- MCPlainNames
    Families <- MCPostgresOnly
    Datamodels <- MCUnrelatedModels
    MaxMigrations = 1
    MaxInserts = 1
    MaxFaults = 0
INVARIANTS
    DroppedTablesAreWarned
