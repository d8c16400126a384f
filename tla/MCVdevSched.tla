---------------------------- MODULE MCVdevSched ----------------------------
(* Instances of VdevSched for TLC. *)
EXTENDS VdevSched

CONSTANTS v1, v2

MCOne == {v1}
MCOneOrder == <<v1>>
MCTwo == {v1, v2}
MCTwoOrder == <<v1, v2>>

\* A message answered at once, the two that wait for one vring, one that waits
\* for all.
MCMsgs == {"GET_FEATURES", "SET_VRING_KICK", "GET_VRING_BASE", "SET_MEM_TABLE"}
=============================================================================
