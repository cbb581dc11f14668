------------------------------ MODULE MCShadow ------------------------------
(* Instances of DeviceShadow: one PATCH that several requests repeat, and   *)
(* two that set different keys.                                             *)
EXTENDS DeviceShadow

OnePatch == <<[on |-> TRUE]>>
TwoPatches == <<[on |-> TRUE], [color |-> "red"]>>

=============================================================================
