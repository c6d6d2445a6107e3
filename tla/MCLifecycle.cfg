CONSTANTS
  Client = {c1, c2, c3}
  MaxConns = 2
  MaxStatements = 2
  Environments <- MCEnvironments
SPECIFICATION FairSpec
CHECK_DEADLOCK FALSE
INVARIANTS
  TypeOK
  ConnectionsFollowStatements
  NobodyWaitsInVain
  CleanExitCutsNobodyOff
PROPERTIES
  WaitersEnd
  ProcessEnds
  HealthAnswered
