----------------------------- MODULE VirtqRing -----------------------------
(***************************************************************************)
(* What a virtqueue promises its driver: a request, named by the head of   *)
(* its descriptor chain, is used once for each time it was made available, *)
(* in any order, whatever happens to the process that serves the queue.    *)
(***************************************************************************)
EXTENDS Sequences

CONSTANT Heads

VARIABLES
    waiting,        \* requests made available and not used yet
    returned        \* requests used, which the driver has not looked at yet

vars == <<waiting, returned>>

Init == waiting = {} /\ returned = <<>>

Submit(h) ==
    /\ h \notin waiting
    /\ waiting' = waiting \cup {h}
    /\ UNCHANGED returned

\* Only a request the driver waits for is used, so none is used twice.
Use(h) ==
    /\ h \in waiting
    /\ waiting' = waiting \ {h}
    /\ returned' = Append(returned, h)

\* The driver takes back all that was used.
Collect ==
    /\ returned' = <<>>
    /\ UNCHANGED waiting

Next == Collect \/ \E h \in Heads : Submit(h) \/ Use(h)

Spec == Init /\ [][Next]_vars
=============================================================================
