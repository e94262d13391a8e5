SPECIFICATION Spec
CONSTANTS
    s1 = s1
    MaxRuns = 2
    Attempts = 2
    Pages <- OnePage
    Sources = {s1}
    MaxRev = 2
    Texts <- OneText
    MaxModels = 1
    MaxEdits = 2
    Changes <- AllChanges
CHECK_DEADLOCK FALSE
INVARIANTS
    OneFollowUp
PROPERTIES
    RunHistory
ACTION_CONSTRAINT Focus
