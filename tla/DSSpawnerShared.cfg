CONSTANTS
  Player <- TwoPlayers
  MaxRoom = 2
  MaxBridge = 1
  NumSlots = 1
SPECIFICATION Spec
CHECK_DEADLOCK FALSE
INVARIANTS
  MembershipNested

