SPECIFICATION Spec
CONSTANTS
    Absent = Absent
    a = a
    b = b
    r1 = r1
    r2 = r2
    Volatile = {a}
    Requests = {r1, r2}
    Ids = {a, b}
    NoCursor = ""
    Cursors = {"next"}
    QuerySpace <- MCQuerySpace
    Configs <- MCConfigs
    Spellings <- MCSpellings
    MaxExponent = 2
    MaxPage = 2
    MaxAge = 2
    Tolerance = 1
    Ahead = 1
    Behind = 0
    MaxLength = 2
    Misdated <- MCMisdated
    LastAsk <- MCLastAsk
    MaxTime = 3
CHECK_DEADLOCK FALSE
INVARIANTS ExactlyClassified OwnAnswer StorageKeepsIdentity
PROPERTIES ReportedLately
