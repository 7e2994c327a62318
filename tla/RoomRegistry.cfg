CONSTANTS
  r1 = r1
  r2 = r2
  Uin <- MCUin
  RoomId = {r1, r2}
  FighterReq <- MCFighterReq
  ObserverReq <- MCObserverReq
  Camp <- MCCamp
  SeatReq <- MCSeatReq
SYMMETRY RoomSymmetry
SPECIFICATION Spec
INVARIANTS
  MembershipAgrees
  SeatsSound
  OwnerSound
