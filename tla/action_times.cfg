SPECIFICATION Spec
CONSTANTS
    Actions = {a1}
    Tries = {i1, i2}
    Capabilities = {k1}
    Payloads = {p1}
    None = None
    Float <- Exact
    MaxTTL = 2
    Grace = 1
    MaxLife = 5
    Ahead = 1
    Behind = 1
    MaxDelay = 1
    MaxPause = 1
    Reuses = FALSE
    MaxTime = 7
CHECK_DEADLOCK FALSE
SYMMETRY TrySymmetry
INVARIANTS ExpiryRespected UsableOnlyLate
