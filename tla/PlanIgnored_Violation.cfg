SPECIFICATION Spec
SYMMETRY Symmetry
CONSTANTS
    Fields = {f, g}
    Values = {v1, v2}
    Us = us
    Updaters = {kubectl}
    Appliers = {gitops}
    None = None
    Faults = {}
    MaxEdits = 2
PROPERTIES ConsistentResult
CHECK_DEADLOCK FALSE
