SPECIFICATION DocFairSpec
CONSTANTS
    s1 = s1
    MaxRuns = 2
    Attempts = 2
    Pages <- TwoPages
    Sources = {s1}
    MaxRev = 2
    Texts <- OneText
    MaxModels = 1
    MaxEdits = 2
    Changes <- ConfigurationChanges
ACTION_CONSTRAINT Focus
CHECK_DEADLOCK FALSE
INVARIANTS
    RunIsDriven
PROPERTIES
    UsesLifecycle
    RunsEnd
