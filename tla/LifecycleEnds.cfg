SPECIFICATION FairSpec
CONSTANTS
  Workers = {w1}
  Cycles = {c1, c2}
  NoThread = NoThread
  SocketCommands = {}
  SlowCalls = FALSE
  Sigterm = TRUE
  BootFlips = FALSE
  MaxRequests = 1
  MaxFlips = 1
  MaxFaults = 1
PROPERTIES TransitionLands  ShutdownEnds
