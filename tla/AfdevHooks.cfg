CONSTANTS
  MaxTries = 1
  MaxResets = 1
  MaxStamp = 2
  MaxResponse = 1
SPECIFICATION HookFairSpec
INVARIANTS
  ReadyMeans
  MatchIsTraced
  MovedOnce
PROPERTIES
  ThreadLetGo
  GuardsHold
  ProtocolKept
CHECK_DEADLOCK FALSE
