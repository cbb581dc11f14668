----------------------------- MODULE MCGateway -----------------------------
(***************************************************************************)
(* The gateway for TLC.  The constants are ordinary values, given in the   *)
(* configuration files; slots are numbers with an order that the tasks     *)
(* follow, so they are not symmetric.                                      *)
(***************************************************************************)
EXTENDS MeshGateway
=============================================================================
