SPECIFICATION FairSpec
CONSTANTS
  Cpus = {c1}
  Ifaces = {eth0}
  Elems = {e1}
  NoElem = NoElem
  Wrap = 16
  Lens = {2}
  MaxLen = 2
  MaxPackets = 1
PROPERTY
  LateInterfacesAreMounted
