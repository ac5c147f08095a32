SPECIFICATION FairSpec
CONSTANTS
    Engines = {e1, e2}
    Names = {"m1"}
    WatchNames = {}
    Models = {a}
    Commands = {"infer", "assume", "apply", "unapply", "reset"}
    ClientSteps <- AllSteps
    Events = {}
    MaxRevision = 1
PROPERTIES CommandsReturn
