SPECIFICATION Spec
CONSTANTS
  Cpus = {c1, c2}
  Ifaces = {eth0}
  Elems = {e1, e2}
  NoElem = NoElem
  Wrap = 16
  Lens = {2}
  MaxLen = 2
  MaxPackets = 2
SYMMETRY Symmetry
INVARIANT
  EveryPacketCounted
