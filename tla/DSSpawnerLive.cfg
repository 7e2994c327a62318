CONSTANTS
  Player <- OnePlayer
  MaxRoom = 1
  MaxBridge = 2
  NumSlots = 2
SPECIFICATION FairSpec
CHECK_DEADLOCK FALSE
INVARIANTS
  RunningIsWatched
PROPERTIES
  CallsReturn
  ReleasedGoesDown
  DeathNoticed
