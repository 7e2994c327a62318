CONSTANTS
  Player <- TwoPlayers
  MaxRoom = 1
  MaxBridge = 1
  NumSlots = 1
SPECIFICATION Spec
CHECK_DEADLOCK FALSE
PROPERTIES
  RoundEndedSticks
