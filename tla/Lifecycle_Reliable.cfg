SPECIFICATION Spec
CONSTANTS
    Instances = {a, b}
    Ids = {i1, i2}
    NoId = NoId
    DeleteOpts = {"plain"}
    MaxRetries = 1
    MaxDepTries = 2
    MaxPolls = 2
    Faults = {"lost"}
    Serial = FALSE
    Edits = {"delete", "finalize", "arrive", "leave"}
    DepStates = {"ready", "no_crd"}
INVARIANTS TypeOK NothingAbandoned
CHECK_DEADLOCK FALSE
