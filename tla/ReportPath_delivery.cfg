SPECIFICATION FairSpec
CONSTANTS
  Client1 = c1
  Client2 = c2
  Alice = alice
  Bob = bob
  Clients = {c1, c2}
  Names = {alice, bob}
  UserOf <- TwoUsers
  Calls = {k1, k2, k3}
  MaxSeq = 2
  MaxBreaks = 1
  MaxDeaths = 1
  MaxRestarts = 1
INVARIANTS
  TypeOK
  AcknowledgedIsKept
PROPERTIES
  ScoresDoNotRegress
  RegressesOnlyByGivenUpCall
  FillsAgain
  ScoresCatchUp
