------------------------------ MODULE MCHostIpc ------------------------------
(* Instances of HostIpc for TLC. *)
EXTENDS HostIpc
=============================================================================
