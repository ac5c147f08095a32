SPECIFICATION Spec
CHECK_DEADLOCK FALSE
CONSTANTS
    NameOrder <- MCNameOrder
    PlainNames <- MCPlainNames
    Families <- MCFamilies
    Datamodels <- MCDatamodels
    MaxMigrations = 2
    MaxInserts = 1
    MaxFaults = 1
INVARIANTS
    NoStatementRejected
    SchemaReached
    NoUnwarnedLoss
    RollbackRestores
