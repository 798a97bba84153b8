SPECIFICATION Spec
CONSTANTS
    Actions = {a1}
    Tries = {i1, i2}
    Capabilities = {k1}
    Payloads = {p1, p2}
    None = None
    Float <- Exact
    MaxTTL = 2
    Grace = 1
    MaxLife = 2
    Ahead = 0
    Behind = 0
    MaxDelay = 0
    MaxPause = 0
    Reuses = TRUE
    MaxTime = 4
CHECK_DEADLOCK FALSE

INVARIANTS ExpiryRespected
