SPECIFICATION Spec
CONSTANTS
    Engines = {e1}
    Names = {"m1", "w1"}
    WatchNames = {"w1"}
    Models = {a}
    Commands = {"infer", "apply", "unapply", "reset"}
    ClientSteps <- AllSteps
    Events = {"crash", "drift"}
    MaxRevision = 3
INVARIANTS IdleEngineHasTable DuplicatesOnlyLeavingWatch PlanIsHonoured
PROPERTIES SuccessMatchesDatabase
