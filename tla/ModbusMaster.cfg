SPECIFICATION FairSpec
CONSTANTS
    gateway = gateway
    coils = coils
    double = double
    Points <- MCPoints
    Field <- MCField
    Base = 2
    Octet = 2
    Period = 2
    ProgramValues <- MCValues
    MaxGen = 2
    MaxFaults = 1
    MaxSlow = 1
CHECK_DEADLOCK FALSE
INVARIANTS
    
    TransfersWhole
    MastersApart
PROPERTIES
    StopEnds
    Fresh
