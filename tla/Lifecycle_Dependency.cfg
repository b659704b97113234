SPECIFICATION Spec
CONSTANTS
    Instances = {a, b}
    Ids = {i1, i2}
    NoId = NoId
    DeleteOpts = {"plain", "protected"}
    MaxRetries = 1
    MaxDepTries = 1
    MaxPolls = 1
    Faults = {"error", "auth"}
    Serial = FALSE
    Edits = {"strip", "arrive", "leave"}
    DepStates = {"no_ns", "no_crd", "no_kind"}
SYMMETRY Symmetry
PROPERTIES ProtectedStays DropJustified
CHECK_DEADLOCK FALSE
