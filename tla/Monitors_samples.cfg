SPECIFICATION MonitorsSpec
CONSTANTS
  NumCpu = 2
  MaxExact = 2
  Booted <- IdleForTwo
  MaxTime <- UpTo4
  ReloadTimes = {2, 3, 4}
  MaxLoads = 3
  MAX_CPU = 2
  MaxIrqs = 1
  Sda = sda
  Loop0 = loop0
  Disks = {sda, loop0}
  Virtual = {loop0}
  DiskWrap = 16
  MaxRequests <- OneDisk
  MaxClock = 4
  Layouts <- Kernels
  MemSize = 2
  StackWords <- Leftovers
INVARIANTS
  MonitorsTypeOK
  TimesDoNotRunBackwards
  ShareUnlessRewritten
  SamplesOfTheirCpu
  LoadsAreFresh
  SoftIrqPageOutlivesUsers
  CpusBeforeAGapAreReported
  ShownFieldsAreReported
PROPERTIES
  IntervalsAdjoin
  CountersGoBackOnlyByReload
  RatesAreOfTheirInterval
  OneRoundPerStepBack
