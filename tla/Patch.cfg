SPECIFICATION Spec
SYMMETRY Symmetry
CONSTANTS
    f = f
    g = g
    v1 = v1
    v2 = v2
    Patches = {p}
    Ids = {i1, i2}
    Fields = {f, g}
    Hidden = {g}
    Values = {v1, v2}
    Bodies <- SomeBodies
    Kinds = {"ssa", "raw"}
    Others = {kubectl}
    None = None
    Temp = Temp
    Faults = {"get", "apply", "lost", "blind"}
    MaxEdits = 3
INVARIANTS TypeOK DriftCorrected OwnFieldsRecorded Converges KeptContentHarmless OwnersKnown
PROPERTIES PlanKept
CHECK_DEADLOCK FALSE
