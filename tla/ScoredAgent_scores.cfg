SPECIFICATION Spec
CONSTANTS
  NaN = NaN
  Absent = Absent
  CpuPercents <- MCCpuPercents
  Loads <- MCLoads
  MemPercents <- MCMemPercents
  NetRates <- MCNetRates
  MaxCores = 2
INVARIANTS
  TypeOK
  NaNIsNotMasked
  DirectionIsImmaterial
PROPERTIES
  BusierScoresNoHigher
  WeightBoundsEffect
  MoreCoresScoreNoLower
