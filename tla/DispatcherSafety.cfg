SPECIFICATION Spec
CONSTANTS
  N = 2
  Divisor <- TwoTasks
  Hyper = 2
  StuckPeriods = 2
  Overruns = TRUE
  SlowWake = TRUE
  CrashAt = {"hook", "image"}
  MaxCrashes = 1
INVARIANTS ActivationsCounted QuietWindow StuckHonest ZeroFinal
CHECK_DEADLOCK FALSE
