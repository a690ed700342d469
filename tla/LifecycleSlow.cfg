SPECIFICATION Spec
CONSTANTS
  Workers = {w1, w2}
  Cycles = {c1, c2}
  NoThread = NoThread
  SocketCommands = {"START", "STOP"}
  SlowCalls = TRUE
  Sigterm = FALSE
  BootFlips = TRUE
  MaxRequests = 1
  MaxFlips = 0
  MaxFaults = 1
SYMMETRY Symmetry
PROPERTY ErrorOutranks
