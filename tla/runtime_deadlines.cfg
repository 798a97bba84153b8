SPECIFICATION Spec
CONSTANTS
    Dispatches = {d1}
    MaxLease = 3
    DiscoveryAge = 3
    VerifyAge = 2
    Slack = 1
    Ahead = 2
    Behind = 1
    MaxPause = 1
    MaxTime = 8
CHECK_DEADLOCK FALSE
INVARIANTS LeaseRespected RequestStillFresh EvidenceCurrent CallBounded
