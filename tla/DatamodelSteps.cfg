CONSTANT Histories <- AllHistories
SPECIFICATION Spec
INVARIANTS
    NothingIsLeft
    ReplayReachesTarget
    RefusedOnlyForKnownCause
PROPERTIES
    StoredIsReadable
