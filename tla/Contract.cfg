SPECIFICATION Spec
CONSTANTS
    Instances = {a, b}
    Ids = {i1, i2, i3}
    NoId = NoId
    Absent = Absent
    DeleteOpts = {"plain", "protected"}
    MaxRetries = 1
    MaxDepTries = 2
    MaxPolls = 2
    Faults = {}
    Serial = TRUE
    Edits = {"delete", "strip", "finalize", "arrive", "leave"}
    DepStates = {"ready", "no_crd", "no_ns", "no_kind"}
PROPERTIES KeepsContract
CHECK_DEADLOCK FALSE
