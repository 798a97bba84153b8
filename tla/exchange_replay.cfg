SPECIFICATION Spec
CONSTANTS
    Calls = {c1}
    ActionCalls = {c1}
    Copies = {k1, k2}
    Manifests = {m1, m2, m3}
    Names = {r1, r2}
    ReleaseOf <- NameOf
    m1 = m1
    m2 = m2
    m3 = m3
    r1 = r1
    r2 = r2
    NoManifest = NoManifest
    Window = 4
    Retention = 6
    Resolution = 2
    Ahead = 1
    Behind = 1
    MaxPause = 1
    MaxTime = 7
    MaxLives = 2
CHECK_DEADLOCK FALSE
SYMMETRY CopySymmetry
INVARIANTS TypeOK AtMostOnce NonceRemembered PinnedRelease
PROPERTIES AdmissionTimely OnlyReplaysRefused ImplementsContract
