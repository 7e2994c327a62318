SPECIFICATION Spec
CONSTANTS
  Uin <- MCUin
  Conn <- MCConnOverlap
  MaxRoom = 1
  Cap = 2
  NumSlots = 1
  Requests <- MCRequests
  MaxBusy = 2
  MaxOpen = 2
  QuickStart = FALSE
INVARIANTS NobodyLeftBehind EmptyIsReleased
PROPERTY RegistryRefined
CHECK_DEADLOCK FALSE
