SPECIFICATION Spec
CONSTANTS
    w1 = w1
    w2 = w2
    k1 = k1
    k2 = k2
    one = one
    two = two
    Workers = {w1}
    Keepers = {k1}
    Upstream <- MCUpstream
    Attempts = 1
    MaxSyncs = 3
    Scenarios <- QuietScenario
CHECK_DEADLOCK FALSE
INVARIANT CurrentIsNoCandidate
