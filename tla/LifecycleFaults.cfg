SPECIFICATION Spec
CONSTANTS
  Workers = {w1, w2}
  Cycles = {c1, c2}
  NoThread = NoThread
  SocketCommands = {"START", "STOP"}
  SlowCalls = FALSE
  Sigterm = FALSE
  BootFlips = TRUE
  MaxRequests = 1
  MaxFlips = 1
  MaxFaults = 1
SYMMETRY Symmetry
INVARIANTS TypeOK ClaimDiscipline  StoppedClean ImageHeld
PROPERTY FaultReported
