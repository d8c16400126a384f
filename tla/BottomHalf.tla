----------------------------- MODULE BottomHalf -----------------------------
(***************************************************************************)
(* What the users of bottom halves (BHs) of src/event.c may rely on: a     *)
(* scheduled BH stays scheduled until its callback is called, or until it  *)
(* is canceled or deleted; one callback runs at a time; scheduling a BH    *)
(* that is scheduled already adds nothing, and scheduling it while its     *)
(* callback runs makes it run once more.                                   *)
(***************************************************************************)
CONSTANT Bh

VARIABLES
    scheduled,      \* the BHs whose callbacks are to be called
    running         \* the BHs whose callback is running: none or one

vars == <<scheduled, running>>

TypeOK == scheduled \subseteq Bh /\ running \subseteq Bh

Init == scheduled = {} /\ running = {}

\* vhd_bh_schedule, vhd_bh_schedule_oneshot
Schedule(b) ==
    /\ scheduled' = scheduled \cup {b}
    /\ UNCHANGED running

\* vhd_bh_cancel, vhd_bh_delete.  Who revokes a BH, and why, is not told: that a
\* scheduled BH is called unless somebody does is liveness, BhServed of EventLoop.
Revoke(b) ==
    /\ scheduled' = scheduled \ {b}
    /\ UNCHANGED running

\* the event loop calls the callback of b
Call(b) ==
    /\ running = {}
    /\ b \in scheduled
    /\ scheduled' = scheduled \ {b}
    /\ running' = {b}

\* the callback returns
Return(b) ==
    /\ b \in running
    /\ running' = {}
    /\ UNCHANGED scheduled

Next == \E b \in Bh : Schedule(b) \/ Revoke(b) \/ Call(b) \/ Return(b)

Spec == Init /\ [][Next]_vars

=============================================================================
