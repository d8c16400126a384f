-------------------------- MODULE MCVirtqInflight --------------------------
(***************************************************************************)
(* Instances of VirtqInflight for TLC.                                     *)
(***************************************************************************)
EXTENDS VirtqInflight
=============================================================================
