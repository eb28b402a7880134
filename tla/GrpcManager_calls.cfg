SPECIFICATION FairSpec
CONSTANTS
  Threads = {t1, t2, t3}
  Names = {alice, bob}
  Data = {d1, d2}
  NoInfo = NoInfo
  NoThread = NoThread
INVARIANTS
  EntriesComplete
  IInv
PROPERTIES
  Linearizable
  GuardReleased
