SPECIFICATION Spec
CONSTANTS
    w1 = w1
    w2 = w2
    k1 = k1
    k2 = k2
    one = one
    two = two
    Workers = {w1, w2}
    Keepers = {k1, k2}
    Upstream <- MCUpstream
    Attempts = 2
    MaxSyncs = 3
    Scenarios <- CaptureScenarios
SYMMETRY Alike
CHECK_DEADLOCK FALSE
INVARIANTS
    CapturesAreSound
    RevisionHasSnapshot
PROPERTIES
    ObservedInOrder
