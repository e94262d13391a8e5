SPECIFICATION AdmissionSpec
CONSTANTS
    w1 = w1
    w2 = w2
    w3 = w3
    p1 = p1
    p2 = p2
    p3 = p3
    e1 = e1
    e2 = e2
    c1 = c1
    MaxJobs = 2
    MaxAttempts = 2
    Workers = {w1, w2, w3}
    NoWorker = NoWorker
    Commands <- AllCommands
    NoCommand = NoCommand
    Profiles = {p1, p2, p3}
    NoProfile = NoProfile
    Endpoints = {e1, e2}
    Endpoint <- TwoEndpoints
    TaskLimit <- StrictestOne
    Calls = {c1}
    NoEndpoint = NoEndpoint
    NoTx = NoTx
    LeaseFor = 2
    RetryDelays <- OneDelay
    CallLease = 2
    LateCommit = TRUE
INVARIANT
    EndpointWithinLimit
