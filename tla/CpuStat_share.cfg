SPECIFICATION Spec
CONSTANTS
  NumCpu = 2
  MaxExact = 4
  Booted <- IdleForTwo
  MaxTime <- UpTo4
  ReloadTimes = {}
INVARIANT
  PercentIsShare
