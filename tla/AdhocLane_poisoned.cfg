SPECIFICATION FairSpec
CONSTANTS
    NumTiers = 2
    NumPriority = 1
    Issues = {1, 2}
    LabelsOf <- MCLabels
    BodyBlockersOf <- MCFree
    NativeBlockersOf <- MCFree
    Cap = 2
    PageSize = 2
    SweepDue = TRUE
    Lives = {1, 2}
    MaxDismissals = 0
    MaxClosings = 0
    MaxConflicts = 1
    MaxSetbacks = 1
PROPERTIES
    StrandedRecovered
