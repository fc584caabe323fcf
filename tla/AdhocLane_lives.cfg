SPECIFICATION FairSpec
CONSTANTS
    NumTiers = 2
    NumPriority = 1
    Issues = {1, 2, 3}
    LabelsOf <- MCLabels
    BodyBlockersOf <- MCBody
    NativeBlockersOf <- MCNative
    Cap = 1
    PageSize = 3
    SweepDue = TRUE
    Lives = {1}
    MaxDismissals = 1
    MaxClosings = 1
    MaxConflicts = 1
    MaxSetbacks = 1
INVARIANTS
    BuildAfterBlockersClosed
    ClosedWasMerged
PROPERTIES
    LivesAsPromised
    ReadyWorkSettles
