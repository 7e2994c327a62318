------------------------------ MODULE MCDSStub ------------------------------
(* Small widths; of the packets one may be lost, one sent early, one be    *)
(* empty and one arrive twice.                                             *)
EXTENDS RelayPackets
=============================================================================
