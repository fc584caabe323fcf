SPECIFICATION Spec
CONSTANTS
    small = small
    large = large
    huge = huge
    typo = typo
    Names <- MCNames
    RepoLabels <- MCLabels
    Tables <- MCTables
    NoTable = NoTable
    NoLevel = NoLevel
    MaxEdits = 4
    MaxFaults = 2
INVARIANTS
    LevelDeclared
    RebuildsAgree
    ClassifierCharged
PROPERTIES
    ClassifiedOnce
