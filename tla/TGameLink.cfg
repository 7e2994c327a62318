SPECIFICATION FairSpec
CONSTANTS
  MaxConn = 2
  Zone = {2}
  Place <- MCPlace
  RolePlan <- MCRolePlan
  ZonePlan <- MCZonePlan
  MaxTries = 2
  MaxNotes = 1
INVARIANTS KeyIsOwn ClientCanRead HandledInOrder
PROPERTIES Served
CHECK_DEADLOCK FALSE
