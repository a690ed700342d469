SPECIFICATION FairSpec
CONSTANTS
    c1 = c1
    c2 = c2
    Callers <- MCCallers
    MaxRapid = 2
    MaxGen = 3
    MaxLate = 1
    MaxRestarts = 1
CHECK_DEADLOCK FALSE
INVARIANTS
    LinkSound
PROPERTIES
    SafeNeedsCause
    NoCrossTalk
    Relinked
