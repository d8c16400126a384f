----------------------------- MODULE MCVdevMem -----------------------------
(* Instances of VdevMem for TLC. *)
EXTENDS VdevMem, TLC

CONSTANTS v1, v2, m1, m2, m3, l1, l2

MCVring == {v1, v2}
MCMap == {m1, m2, m3}
MCLog == {l1, l2}

\* The messages that concern the guest memory, and those that start and stop a
\* vring.
MCMsgs == {"SET_MEM_TABLE", "SET_LOG_BASE", "SET_FEATURES", "SET_VRING_KICK",
           "GET_VRING_BASE"}

Symmetry == Permutations(MCVring) \cup Permutations(MCMap)
            \cup Permutations(MCLog)
=============================================================================
