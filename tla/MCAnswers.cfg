SPECIFICATION FairSpec
CONSTANTS
    k1 = k1
    k2 = k2
    t1 = t1
    r1 = r1
    KBs = {k1, k2}
    Configurations <- TwoConfigurations
    Tokens = {t1}
    Requests = {r1}
    MaxWiki = 2
    MaxChanges = 1
    MaxFaults = 1
    MaxToolCalls = 2
    ModelRetries = 1
    ReservationTTL = 2
    Margin = 1
    MaxSample = 5
CHECK_DEADLOCK FALSE
INVARIANTS
    PromptIsSound
    WikisAreRetained
    DeliveredIsGranted
    AnswerIsInScope
PROPERTIES
    ReservationsEnd
ACTION_CONSTRAINT Focus
