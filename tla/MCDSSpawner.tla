---------------------------- MODULE MCDSSpawner ----------------------------
(* Instances of DSSpawner.  Shared rooms need a second player, a second    *)
(* round needs a second bridge, and competition for a slot needs fewer     *)
(* slots than rooms; no run needs all three at once.  Players are numbers  *)
(* that the spawner compares (owner hand-over takes the least), rooms are  *)
(* numbered in the order of reservation: no set is symmetric.              *)
EXTENDS DSSpawner

OnePlayer == {1}
TwoPlayers == 1 .. 2
=============================================================================
