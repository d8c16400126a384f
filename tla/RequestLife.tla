----------------------------- MODULE RequestLife -----------------------------
(***************************************************************************)
(* What a request queue (src/include/vhost/server.h) promises about the    *)
(* requests of the devices attached to it: they reach the backend in the   *)
(* order in which they were enqueued, some may be canceled before, and the *)
(* ones the backend completes are reported each once, in the order of      *)
(* their completion.                                                       *)
(***************************************************************************)
EXTENDS Integers, Sequences

CONSTANT Bio

VARIABLES
    queued,         \* enqueued requests, oldest first
    backend,        \* requests the backend is working on
    completed       \* completed requests not yet reported, oldest first

vars == <<queued, backend, completed>>

In(s) == {s[i] : i \in DOMAIN s}

\* s without the members of S, the others in their order (SelectSeq, as a
\* function that a proof can unfold)
Without(s, S) ==
    LET keep[i \in 0 .. Len(s)] ==
            IF i = 0 THEN <<>>
            ELSE IF s[i] \in S THEN keep[i - 1] ELSE Append(keep[i - 1], s[i])
    IN  keep[Len(s)]

Init == queued = <<>> /\ backend = {} /\ completed = <<>>

Enqueue(b) ==
    /\ b \notin In(queued) \cup backend \cup In(completed)
    /\ queued' = Append(queued, b)
    /\ UNCHANGED <<backend, completed>>

Dequeue ==
    /\ queued # <<>>
    /\ backend' = backend \cup {Head(queued)}
    /\ queued' = Tail(queued)
    /\ UNCHANGED completed

\* Any of the queued requests may be canceled together: that a walk misses some
\* of its vring is not excluded here.
Cancel(bios) ==
    /\ queued' = Without(queued, bios)
    /\ UNCHANGED <<backend, completed>>

Complete(b) ==
    /\ b \in backend
    /\ backend' = backend \ {b}
    /\ completed' = Append(completed, b)
    /\ UNCHANGED queued

Report ==
    /\ completed # <<>>
    /\ completed' = Tail(completed)
    /\ UNCHANGED <<queued, backend>>

Next ==
    \/ \E b \in Bio : Enqueue(b) \/ Complete(b)
    \/ \E bios \in SUBSET Bio : Cancel(bios)
    \/ Dequeue \/ Report

Spec == Init /\ [][Next]_vars

=============================================================================
