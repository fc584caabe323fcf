SPECIFICATION Spec
CONSTANTS
    NumTiers = 2
    NumPriority = 1
    Numbers = {1, 2, 3}
    Caps = {0, 1, 2, 3}
    Added = {0}
    MaxLabels = 2
INVARIANTS
    BatchWithinCap
    BatchReservesSlot
    BatchRankClosed
    BatchWorkConserving
