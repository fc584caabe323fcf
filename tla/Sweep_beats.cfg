SPECIFICATION SweepFairSpec
CONSTANTS
    Installations = {1, 2, 3}
    Repositories = {1, 2, 3, 4}
    InitialApps <- MCApps
    InitialRepos <- MCListed
    Undecodable = {4}
    CadencesOf <- MCCadencesOf
    Instants <- MCInstants
    PerPage = 2
    MaxChanges = 2
    MaxFaults = 1
INVARIANTS
    FiresWhenNamed
PROPERTIES
    ListsInstalled
    SoundReposVisited
