SPECIFICATION Spec
SYMMETRY Symmetry
CONSTANTS
    Fields = {f, g}
    Values = {v1, v2}
    Us = us
    Updaters = {kubectl}
    Appliers = {gitops}
    None = None
    Faults = {"auth", "get", "blind"}
    MaxEdits = 2
INVARIANTS TypeOK Converges NoSilentDrift
PROPERTIES PlanKept IgnoredUntouched OnlyConfiguredTaken NoSilentTakeover
CHECK_DEADLOCK FALSE
