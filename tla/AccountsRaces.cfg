\* Two request threads, one debug socket, two starts.
SPECIFICATION Spec
CONSTANTS
    Names = {n1, n2}
    Workers = {w1, w2}
    Sockets = {s1}
    MaxId = 2
    MaxTokens = 2
    MaxBusy = 2
SYMMETRY Symmetry
INVARIANTS
    TableSound
    RevokedRefused
PROPERTIES
    DeadEnd
CHECK_DEADLOCK FALSE
