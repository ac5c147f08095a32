SPECIFICATION Spec
CONSTANTS
    Engines = {e1}
    Names = {"m1", "m2"}
    WatchNames = {}
    Models = {a, b}
    Commands = {"apply", "unapply"}
    ClientSteps <- AllSteps
    Events = {"crash", "query", "data"}
    MaxRevision = 2
SYMMETRY ModelSymmetry
INVARIANTS InSync
PROPERTIES NoSilentDataLoss
