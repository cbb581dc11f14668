------------------------------- MODULE MCHome -------------------------------
(***************************************************************************)
(* Home control for TLC: one group command that switches the group off.    *)
(***************************************************************************)
EXTENDS HomeControl

MCCommands == <<FALSE>>
=============================================================================
