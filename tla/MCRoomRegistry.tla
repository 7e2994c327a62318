--------------------------- MODULE MCRoomRegistry ---------------------------
(* Three players, two rooms, rooms of one or two fighters and at most one  *)
(* observer: enough for a full room, a hand-over to a fighter or to an     *)
(* observer, and a player trying to be in two rooms.  SeatReq reaches one  *)
(* past the last seat.  Rooms are interchangeable, players are not: the    *)
(* heir is chosen by comparing seats and account numbers.                  *)
EXTENDS RoomRegistry, TLC

MCUin == 1 .. 3
MCFighterReq == {0, 1}
MCObserverReq == {1}
MCCamp == {1}
MCSeatReq == {0, 1, 4}
RoomSymmetry == Permutations(RoomId)
=============================================================================
