---------------------------- MODULE MCRoomViews ----------------------------
(* Instances of RoomViews for TLC: two accounts with a connection each.    *)
EXTENDS RoomViews

MCUin == {1, 2}
MCConn == {<<1, 1>>, <<2, 1>>}
MCRequests ==
  [c \in MCConn |-> {"A100", "A104", "A107", "A10A", "A10D", "A110", "A113",
                     "A117", "A11C", "A11E", "A3A0"}]
=============================================================================
