SPECIFICATION MCSpec
CONSTANTS
    p1 = p1
    p2 = p2
    one = one
    two = two
    f = f
    g = g
    w1 = w1
    w2 = w2
    Processes = {p1, p2}
    Contents = {one, two}
    FilesOf <- FilesOfContent
    MaxOps = 3
    MaxFileFailures = 2
    MaxPowerLosses = 1
    ProviderWorkers = {w1, w2}
    Capabilities = {"tools"}
    Needed = {"tools"}
    DiscoveryAttempts = 2
    MaxCaptures = 2
    MaxEdits = 2
    MaxLosses = 1
    EventKinds <- Events
    MaxStream = 5
    Gitters = {"g1", "g2"}
    Commits <- CommitNames
    TreeOf <- CommitTrees
    Ancestors <- AncestorsOf
    References <- Selections
    Filters <- FilterChoices
    MaxFiles = 4
    MaxFileBytes = 1
    MaxTotalBytes = 3
    MaxRevisions = 2
    MaxAttempts = 3
    MaxPushes = 1
    MaxGitKills = 1
    Writers = {w1, w2}
    Slugs = {"a"}
    Texts = {"x", "y"}
    MaxKills = 1
    MaxLeases = 4
    Trees <- Captured
    Plans <- Proposals
    Submissions <- Citations
    ResultSizes = {1, 2}
    MaxCalls = 2
    MaxResultBytes = 2
    MaxTotalResultBytes = 2
    MaxFileLines = 1
    MaxSeeds = 2
    ValidationAttempts = 2
ACTION_CONSTRAINT Focus
CHECK_DEADLOCK FALSE
INVARIANTS
    SnapshotIsSound
    ArtifactsAreWhole
    SnapshotIsFaithful
    ProvidersAreSound
    AcceptedIsUnambiguous
    WikiCoversWebsite
PROPERTIES
    SnapshotHistory
    OperatorValueStands
