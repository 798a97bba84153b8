SPECIFICATION Spec
CONSTANTS
    Actions = {a1}
    Tries = {i1, i2}
    Capabilities = {k1, k2}
    Payloads = {p1, p2}
    None = None
    Float <- Exact
    MaxTTL = 1
    Grace = 0
    MaxLife = 1
    Ahead = 0
    Behind = 0
    MaxDelay = 0
    MaxPause = 0
    Reuses = FALSE
    MaxTime = 0
CHECK_DEADLOCK FALSE
SYMMETRY TrySymmetry
INVARIANTS RunsWhatWasApproved ProofOfApproved
 
