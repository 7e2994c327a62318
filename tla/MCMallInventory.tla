-------------------------- MODULE MCMallInventory --------------------------
(* An instance of MallInventory for TLC: a weapon dearer than one purchase *)
(* may cost, a character with a part, and a second backpack; an opening    *)
(* wallet that two purchases put in debt; no starter weapons, which are    *)
(* more of what the starter role and its part already are.                 *)
EXTENDS MallInventory

MCConn == {1}
MCBundle == [knife |-> <<"melee">>, hero |-> <<"role1", "part">>, pack |-> <<"bag">>]
MCPrice == [knife |-> 3, hero |-> 2, pack |-> 1]
MCNoWeapons == <<>>
MCTargets == {0, Bag2}
MCWhere == {"bag"}
MCRequests == {"buy", "touch", "drop", "takeoff", "remove", "role", "bag", "equip"}
=============================================================================
