---------------------------- MODULE MCAfdevHooks ----------------------------
(* One more attempt at the settings after the first, a socket that is     *)
(* made anew once, and a client that makes two moves: every wait may end *)
(* too early or in time, every call may fail, AFDEV may die and the bridge *)
(* may end the loader.                                                     *)
EXTENDS AfdevHooks
=============================================================================
