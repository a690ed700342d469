SPECIFICATION FairSpec
CONSTANTS
    Configs <- MCConfigs
    Programs <- MCPrograms
    Watched = {1, 2}
    Changing = {2}
    Credentials <- MCCredentials
    Requested = {0, 2}
    Width = 2
    MaxAttempts = 2
    Window = 1
    Lockout = 2
    MaxGen = 2
    MaxVisited = 1
CHECK_DEADLOCK FALSE
INVARIANTS
    StopTold
    AccessHeld
    
PROPERTIES
    StopEnds
    Fresh
