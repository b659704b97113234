SPECIFICATION FairSpec
CONSTANTS
    Instances = {a, b}
    Ids = {i1, i2}
    NoId = NoId
    DeleteOpts = {"force"}
    MaxRetries = 1
    MaxDepTries = 2
    MaxPolls = 2
    Faults = {"error", "lost", "crash"}
    Serial = TRUE
    Edits = {"delete", "strip", "arrive", "leave"}
    DepStates = {"ready", "no_crd"}
PROPERTIES CreateNeverAdopts ForeignUntouched HandlerReturns
CHECK_DEADLOCK FALSE
