SPECIFICATION Spec
CONSTANTS
    Instances = {a, b}
    Ids = {i1, i2, i3}
    NoId = NoId
    DeleteOpts = {"force"}
    MaxRetries = 1
    MaxDepTries = 1
    MaxPolls = 1
    Faults = {"error", "lost", "crash"}
    Serial = FALSE
    Edits = {"create", "delete", "strip"}
    DepStates = {"ready"}
SYMMETRY Symmetry
INVARIANTS Accounted AccountedInv PendingForcesDiff
PROPERTIES IdStable
CHECK_DEADLOCK FALSE
