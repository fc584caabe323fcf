SPECIFICATION FairSpec
CONSTANTS
    NumRepos = 2
    Issues = {1, 2}
    RepoOf <- MCRepoOf
    SeverityOf <- MCSeverityOf
    DueAt <- MCDueAt
    Slots = 2
    QuotaEvery = 2
    PageSize = 2
    Beats = {1, 2}
    MaxSetbacks = 1
PROPERTIES
    PromotesFromBacklog
    LowDrains
    MissedIsSwept
