SPECIFICATION MCSpec
CONSTANTS
    w1 = w1
    w2 = w2
    s1 = s1
    base = base
    k1 = k1
    q1 = q1
    q2 = q2
    key1 = key1
    key2 = key2
    p1 = p1
    p2 = p2
    r1 = r1
    r2 = r2
    r3 = r3
    Workers = {w1, w2}
    Sources = {s1}
    KnowledgeBase = base
    Attempts = 2
    Grace = 1
    MaxJobs = 4
    MaxCommands = 3
    MaxFailures = 2
    Sites <- Websites
    Crawlers = {"builtin", "tinyfish", "json"}
    MaxPages = 3
    MaxDepth = 2
    Concurrency = 2
    MaxRedirects = 2
    MaxTotalBytes = 4
    MaxPageBytes = 2
    HeaderBytes = 1
    DiscoveredCap = 4
    MaxLinks = 2
    MaxCaptures_ = 2
    Requests = {q1, q2}
    Keys = {key1, key2}
    Streams = {w1}
    MaxEvents = 3
    MaxVersion = 2
    MaxFaults = 1
    Batch = 2
    Callers = {r1, r2, r3}
    Replicas = {p1, p2}
    TokenOf <- ConfiguredToken
    Connections = 2
    PasswordSlots = 1
    MaxSessions = 2
    Sessions = {r1, r2}
    Slots = {k1}
    Values = {1, 2}
    MaxModelRequests = 2
    MaxRetries = 1
ACTION_CONSTRAINT Focus
CHECK_DEADLOCK FALSE
INVARIANTS
    PurgeIsSafe
    CaptureIsSound
    CapsuleIsSound
    EventsAreSound
    AuthIsSound
PROPERTIES
    PurgeIsFinal
    WhatBeginsEnds
