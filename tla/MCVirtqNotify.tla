---------------------------- MODULE MCVirtqNotify ----------------------------
(***************************************************************************)
(* Instances of VirtqNotify for TLC.                                       *)
(***************************************************************************)
EXTENDS VirtqNotify
=============================================================================
