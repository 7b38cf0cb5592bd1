SPECIFICATION Spec
CONSTANTS
    Rows = 7
    Cost <- MCCost
    SafeBudget = 6
    BlockBudget = 6
    RefineBudget = 6
    AuditBudget = 5
    AuditView = 2
    RefineMin = 3
    AuditMin = 5
    Overlap = 2
    Confidences = {1, 2}
    MaxCuts = 2
    MaxAttempts = 2
    MaxLeft = 1
INVARIANTS
    NeverRefusesItself
    LabelsSpeakOfTheirSegment
    StoredAsReturned
PROPERTIES
    AttemptEnds
CHECK_DEADLOCK FALSE
