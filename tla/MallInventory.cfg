SPECIFICATION Spec
CONSTANTS
  Conn <- MCConn
  Bundle <- MCBundle
  Price <- MCPrice
  MaxCharge = 2
  Opening = 3
  StarterWeapons <- MCNoWeapons
  MaxGid = 6
  Targets <- MCTargets
  Where <- MCWhere
  Requests <- MCRequests
  MaxBusy = 1
INVARIANTS MountedIsCurrent PurchaseKept NumbersNotReused
PROPERTIES BagStaysMounted LedgerRefined
CHECK_DEADLOCK FALSE
