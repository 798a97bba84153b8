SPECIFICATION Spec
CONSTANTS
    Absent = Absent
    Requests = {r1}
    Jobs = {j1, j2}
    Protocols = {"", "v1", "v2"}
    Legacy = ""
    Declared = "v1"
    Credentials <- MCCredentials
    LongestTTL = 4
    Minute = 2
    Tolerance = 1
    Ahead = 1
    Behind = 1
    MaxTime = 4
CHECK_DEADLOCK FALSE
SYMMETRY JobSymmetry
INVARIANTS EndsWithTask LifeBounded
PROPERTIES IssuedWhileFresh
