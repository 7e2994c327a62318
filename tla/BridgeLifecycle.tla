--------------------------- MODULE BridgeLifecycle ---------------------------
(***************************************************************************)
(* What a UDP bridge promises the spawner that reads its state file: the   *)
(* bridge goes through the stages of one start-up in order, each at most   *)
(* once, may fail from any of them and then stays failed; the file shows   *)
(* a stage it has really reached.  A write of the file may be lost, so the *)
(* file may lag and skip stages, but a later write catches up.             *)
(***************************************************************************)
VARIABLES
  state,         \* the stage the bridge has reached
  file           \* what its state file says, "" while there is none

Stage == {"BOOTING", "LISTENING", "SPAWNING", "AFDEV_READY", "READY", "FAILED"}

After == [s \in Stage |->
  CASE s = "BOOTING"     -> {"LISTENING"}
    [] s = "LISTENING"   -> {"SPAWNING", "FAILED"}
    [] s = "SPAWNING"    -> {"AFDEV_READY", "FAILED"}
    [] s = "AFDEV_READY" -> {"READY", "FAILED"}
    [] s = "READY"       -> {"FAILED"}
    [] s = "FAILED"      -> {}]

Init == state = "BOOTING" /\ file = ""

Advance == state' \in After[state] /\ file' \in {file, state'}

Republish == state' = state /\ state # "BOOTING" /\ file' = state

Next == Advance \/ Republish

Spec == Init /\ [][Next]_<<state, file>>
=============================================================================
