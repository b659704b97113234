SPECIFICATION FairSpec
CONSTANTS
    MaxVersions = 3
    Failures = {"watch", "get"}
    Modes = {"field", "value", "condition"}
    WatchInText = TRUE
    Timeout = 1
INVARIANTS WaitInv NoVersionSkipped SuccessJustified TimeoutHonest
PROPERTIES WaitEnds GoroutineEnds
CHECK_DEADLOCK FALSE
