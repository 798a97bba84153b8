SPECIFICATION Spec
CONSTANTS
    Calls = {c1}
    ActionCalls = {}
    Copies = {k1, k2}
    Manifests = {m1}
    Names = {r1}
    ReleaseOf <- NameOf
    m1 = m1
    m2 = m2
    m3 = m3
    r1 = r1
    r2 = r2
    NoManifest = NoManifest
    Window = 2
    Retention = 3
    Resolution = 1
    Ahead = 0
    Behind = 0
    MaxPause = 0
    MaxTime = 4
    MaxLives = 2
CHECK_DEADLOCK FALSE
INVARIANTS ReplayFailsClosed
