SPECIFICATION Spec
CONSTANTS
  Cpus = {c1, c2}
  Ifaces = {eth0, eth1}
  Elems = {e1, e2, e3}
  NoElem = NoElem
  Wrap = 16
  Lens = {2}
  MaxLen = 2
  MaxPackets = 3
SYMMETRY Symmetry
INVARIANTS
  IInv
  ExactUnlessCreationRaced
  NoCpuCreatesTwice
  CountersGrowBetweenReads
PROPERTIES
  RatesAreIncrements
