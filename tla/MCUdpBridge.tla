---------------------------- MODULE MCUdpBridge ----------------------------
(* Two clients with two ports each, two places for peers and two copies of *)
(* a latched packet: one retry, a client that comes back, a peer that      *)
(* comes late, a full table.  Clients and ports are interchangeable, but   *)
(* liveness is checked over the same states, so without symmetry.          *)
EXTENDS UdpBridge
=============================================================================
