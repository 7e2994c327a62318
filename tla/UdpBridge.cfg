CONSTANTS
  Player = {p1, p2}
  Port = {q1, q2}
  MaxPeers = 2
  MaxRetries = 2
SPECIFICATION FairSpec
PROPERTIES
  ExitLeavesNothing
  LifecycleImplemented
  PeerSettles
