SPECIFICATION FairSpec
CONSTANTS
    conn = conn
    bad = bad
    k1 = k1
    k2 = k2
    h1 = h1
    h2 = h2
    Handlers = {h1, h2}
    Conns = {conn, bad}
    Keys = {k1, k2}
    KeysOf <- TheKeysOf
    BadConns = {bad}
    None = None
    MaxRetries = 1
    TotalTimeout = 2
    Backoff <- TheBackoff
    MaxDelay = 1
    Longest = 2
    RequestTimes = {0, 2}
    Ops = {"Apply", "Patch", "Discover"}
    OpsOf <- TheOpsOf
    Errors = {"network", "server", "missing", "refused"}
    Warnings = {w}
    Silent = {h2}
INVARIANTS TypeOK MapGuarded OneClient RequestsBounded DurationBounded CancelPrompt WarningsHeard
PROPERTIES HandlerReturns
