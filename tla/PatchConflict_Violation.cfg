SPECIFICATION Spec
SYMMETRY Symmetry
CONSTANTS
    f = f
    g = g
    v1 = v1
    v2 = v2
    Patches = {p, q}
    Ids = {i1, i2}
    Fields = {f, g}
    Hidden = {g}
    Values = {v1, v2}
    Bodies <- SomeBodies
    Kinds = {"ssa", "raw"}
    Others = {kubectl}
    None = None
    Temp = Temp
    Faults = {}
    MaxEdits = 0
PROPERTIES ConflictRefused
CHECK_DEADLOCK FALSE
