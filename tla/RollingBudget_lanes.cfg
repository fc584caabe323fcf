SPECIFICATION Spec
CONSTANTS
    Cap = 101
    Window = 2
    Lanes = {"drain", "cron"}
    Classifies = TRUE
    MaxTime = 3
    MaxRows = 4
INVARIANTS
    MeteredWithinCap
PROPERTIES
    LandsWithinCap
    DeferKeepsWord
