SPECIFICATION Spec
CONSTANTS
    Engines = {e1, e2}
    Names = {"m1"}
    WatchNames = {}
    Models = {a, b}
    Commands = {"apply", "unapply"}
    ClientSteps <- CreateAll
    Events = {"crash"}
    MaxRevision = 2
SYMMETRY Symmetry
INVARIANTS SuccessIsComplete ProgressLagsByAtMostOne
PROPERTIES PhasesOnlyAdvance
