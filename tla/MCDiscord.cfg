SPECIFICATION MCSpec
CONSTANTS
    p1 = p1
    p2 = p2
    Processes = {p1, p2}
    Nobody = Nobody
    b1 = b1
    b2 = b2
    Bindings <- MCBindings
    Settings <- MCSettings
    MaxStimuli = 2
    MaxFaults = 1
    Messages = 2
    MaxTurns = 1
    RateRequests = 1
    MaxAttempts = 2
INVARIANTS LateMessages OneGateway ContextIsDelivered
PROPERTIES OperatorChangeStands EnabledServed
ACTION_CONSTRAINT Focus
CHECK_DEADLOCK FALSE
