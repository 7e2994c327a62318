---------------------------- MODULE MCZoneRooms ----------------------------
(* An instance of ZoneRooms for TLC: two accounts; account 1 can have two  *)
(* connections at a time, the second of which only goes from room to room. *)
(* Two connections are open at a time, in any succession.                  *)
EXTENDS ZoneRooms

MCUin == {1, 2}
MCConnOverlap == {<<1, 1>>, <<1, 2>>, <<2, 1>>}
RoomRequests == {"A100", "A104", "A107", "A10A"}
AllRequests == RoomRequests \cup
  {"A10D", "A110", "A113", "A117", "A11C", "A11E", "A3A0"}
MCRequests ==
  [c \in MCConnOverlap |-> IF c = <<1, 2>> THEN RoomRequests ELSE AllRequests]
=============================================================================
