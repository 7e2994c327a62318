SPECIFICATION ViewSpec
CONSTANTS
  Uin <- MCUin
  Conn <- MCConn
  MaxRoom = 2
  Cap = 4
  NumSlots = 2
  Requests <- MCRequests
  MaxBusy = 1
  MaxOpen = 2
  QuickStart = FALSE
INVARIANTS TablesAgree ViewsAgree
CHECK_DEADLOCK FALSE
