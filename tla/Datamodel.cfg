SPECIFICATION Spec
CHECK_DEADLOCK FALSE
CONSTANTS
    NameOrder <- MCNameOrder
    PlainNames <- MCPlainNames
    Instants <- MCInstants
    Providers <- MCProviders
    Files <- MCFiles
    Databases <- MCDatabases
    MaxOperations = 2
INVARIANTS
    NoPanic
    EnginesAgree
    OrderDoesNotMatter
    ValidIsCreatable
    IntrospectedIsAccepted
    IntrospectionIsFaithful
PROPERTIES
    FormatKeepsMeaning
    RenderKeepsMeaning
