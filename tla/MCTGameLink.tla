----------------------------- MODULE MCTGameLink -----------------------------
(* A ROLE connection and the ZONE connection it leads to, with two places  *)
(* in the client's memory, so that the object of the first may be there    *)
(* still or its place be taken again; two looks for the key; and one       *)
(* notification by another player while the client is served.              *)
EXTENDS TGameLink

MCPlace == 1 .. 2
MCRolePlan == <<"pinglist", "zonelist">>
MCZonePlan == <<"login", "beat", "ready">>
=============================================================================
