---------------------------- MODULE LoaderProtocol ----------------------------
(***************************************************************************)
(* What the bridge and the loader agree on: the loader is started once,    *)
(* launches AFDEV, writes down its pid, reports SESSION_READY, each at     *)
(* most once and in this order, and only while it runs.  Either process    *)
(* may end at any moment; an AFDEV whose pid nobody has written down is    *)
(* not ended by anybody.                                                   *)
(***************************************************************************)
VARIABLES
  loader,        \* the loader: off, running or gone
  afdev          \* AFDEV: off, launched, with its pid written, ready, dead

Further == [s \in {"off", "launched", "pid"} |->
  CASE s = "off" -> "launched" [] s = "launched" -> "pid" [] s = "pid" -> "ready"]

Init == loader \in {"off", "running"} /\ afdev = "off"

Start == loader = "off" /\ loader' = "running" /\ afdev' = afdev

Progress ==
  /\ loader = "running" /\ loader' = loader
  /\ afdev \in DOMAIN Further /\ afdev' = Further[afdev]

End ==
  /\ loader' \in {loader, IF loader = "running" THEN "gone" ELSE loader}
  /\ afdev' \in {afdev, IF afdev \in {"pid", "ready"} THEN "dead" ELSE afdev}

Next == Start \/ Progress \/ End

Spec == Init /\ [][Next]_<<loader, afdev>>
=============================================================================
