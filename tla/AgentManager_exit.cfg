SPECIFICATION Spec
CONSTANTS
  NaN = NaN
  Absent = Absent
  Alice = alice
  Bob = bob
  HostA = hostA
  HostB = hostB
  NumAgents = 2
  Names = {alice, bob}
  NoName = noName
  NoHost = noHost
  Reports <- OneHostEach
INVARIANT
  ExitIsClean
\* After exit(1) the process is gone.
CHECK_DEADLOCK FALSE
