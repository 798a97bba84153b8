SPECIFICATION FairSpec
CONSTANTS
    Calls = {c1, c2}
    ActionCalls = {c1}
    Copies = {k1, k2}
    Manifests = {m1}
    Names = {r1, r2}
    ReleaseOf <- NameOf
    m1 = m1
    m2 = m2
    m3 = m3
    r1 = r1
    r2 = r2
    NoManifest = NoManifest
    Window = 0
    Retention = 0
    Resolution = 1
    Ahead = 0
    Behind = 0
    MaxPause = 0
    MaxTime = 1
    MaxLives = 1
CHECK_DEADLOCK FALSE
INVARIANTS SeenBounded AnswerBinding
PROPERTIES CopiesFinish
