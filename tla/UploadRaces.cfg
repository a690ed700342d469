SPECIFICATION Spec
CONSTANTS
    Confs <- MCConfs
    Contents <- MCContents
    MaxUploads = 2
    MaxCuts = 1
CHECK_DEADLOCK FALSE
INVARIANTS
    ReportsTrue
    
    
PROPERTIES
    BusyHolds
