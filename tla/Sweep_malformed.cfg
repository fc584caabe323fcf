SPECIFICATION SweepFairSpec
CONSTANTS
    Installations = {1, 2, 3}
    Repositories = {1, 2, 3, 4}
    InitialApps <- MCApps
    InitialRepos <- MCListed
    Undecodable = {2}
    CadencesOf <- MCCadencesOf
    Instants <- MCInstants
    PerPage = 2
    MaxChanges = 0
    MaxFaults = 0
PROPERTIES
    MalformedDropped
