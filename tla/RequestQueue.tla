---------------------------- MODULE RequestQueue ----------------------------
(***************************************************************************)
(* The request queue of src/server.c.  The thread that runs the queue      *)
(* enqueues the requests of several vrings, dequeues them for the backend, *)
(* cancels the queued ones of a vring, and reports completed ones to the   *)
(* guest in rq_complete_bh; threads of the backend complete requests.  The *)
(* completion list is the lock-free list of src/queue.h with its pointers: *)
(* a bio is freed when it is reported, and its memory used again.          *)
(* completion_bh is one of the bottom halves that BottomHalf describes and *)
(* EventLoop implements.                                                   *)
(***************************************************************************)
EXTENDS Integers, Sequences, FiniteSets

CONSTANTS
    Thread,         \* threads that call vhd_complete_bio
    Bio,            \* memory of requests (struct vhd_bio)
    Vring,          \* vrings of the devices attached to the queue
    CompletionBh,   \* completion_bh
    Null

ASSUME NullAssumption == Null \notin Bio \cup Vring
ASSUME BioAssumption == IsFiniteSet(Bio)

VARIABLES
    submission,     \* the tail queue of enqueued requests
    vring,          \* bio->vring, Null while the memory is free
    backend,        \* requests dequeued and not yet on the completion list
    slh_first,      \* head of the completion list
    sle_next,       \* completion_link of each bio
    pc,             \* where each thread is in vhd_complete_bio
    bio,            \* the request it completes
    old_slh_first,  \* what it read in SLIST_INSERT_HEAD_ATOMIC
    scheduled,      \* {CompletionBh} when the BH is scheduled
    running,        \* {CompletionBh} while rq_complete_bh runs
    stolen,         \* rq_complete_bh has taken the completion list
    bio_list,       \* bio_list of rq_complete_bh
    num_in_flight,  \* of each vring
    state           \* "up", "released", or "fault"

completionVars == <<slh_first, sle_next>>
threadVars == <<pc, bio, old_slh_first>>
bhVars == <<scheduled, running>>
vars == <<submission, vring, backend, completionVars, threadVars, bhVars, stolen,
          bio_list, num_in_flight, state>>

BHs == INSTANCE BottomHalf WITH Bh <- {CompletionBh}

TypeOK ==
    /\ submission \in Seq(Bio) /\ bio_list \in Seq(Bio)
    /\ vring \in [Bio -> Vring \cup {Null}]
    /\ backend \subseteq Bio
    /\ slh_first \in Bio \cup {Null}
    /\ sle_next \in [Bio -> Bio \cup {Null}]
    /\ pc \in [Thread -> {"idle", "read", "cmpxchg", "schedule"}]
    /\ bio \in [Thread -> Bio \cup {Null}]
    /\ old_slh_first \in [Thread -> Bio \cup {Null}]
    /\ BHs!TypeOK
    /\ stolen \in BOOLEAN
    /\ num_in_flight \in [Vring -> Nat]
    /\ state \in {"up", "released", "fault"}

\* vhd_create_request_queue
Init ==
    /\ submission = <<>> /\ bio_list = <<>>
    /\ vring = [b \in Bio |-> Null]
    /\ backend = {}
    /\ slh_first = Null
    /\ sle_next = [b \in Bio |-> Null]
    /\ pc = [t \in Thread |-> "idle"]
    /\ bio = [t \in Thread |-> Null]
    /\ old_slh_first = [t \in Thread |-> Null]
    /\ BHs!Init
    /\ stolen = FALSE
    /\ num_in_flight = [v \in Vring |-> 0]
    /\ state = "up"

-----------------------------------------------------------------------------
\* The members of s are linked from first on: each to the one before it.
Links(next, s, first) ==
    /\ first = IF s = <<>> THEN Null ELSE s[Len(s)]
    /\ \A i \in 1 .. Len(s) : next[s[i]] = IF i = 1 THEN Null ELSE s[i - 1]

\* The bios linked from first on, the last one first: what the loop of
\* rq_complete_bh that reverses the list makes of it.
Reversed(next, first) ==
    CHOOSE s \in UNION {[1 .. n -> Bio] : n \in 0 .. Cardinality(Bio)} :
        Links(next, s, first)

\* The requests that are completed and not yet reported.
Unreported == bio_list \o Reversed(sle_next, slh_first)

Life == INSTANCE RequestLife WITH queued <- submission, completed <- Unreported

-----------------------------------------------------------------------------
(***************************************************************************)
(* The thread that runs the queue.  The io handlers and BHs of its event   *)
(* loop, and the calls between two vhd_run_queue, do not interrupt each    *)
(* other: they happen while rq_complete_bh is not running.                 *)
(***************************************************************************)
Idle == state = "up" /\ running = {}

\* Mutant: the request is not counted.
vhd_enqueue_block_request_uncounted(b, v) ==
    /\ Idle
    /\ vring[b] = Null
    /\ vring' = [vring EXCEPT ![b] = v]
    /\ submission' = Append(submission, b)
    /\ UNCHANGED <<backend, completionVars, threadVars, bhVars, stolen, bio_list,
                   num_in_flight, state>>

\* vhd_enqueue_block_request, called by vring_kick for a bio just allocated
vhd_enqueue_block_request(b, v) ==
    /\ Idle
    /\ vring[b] = Null
    /\ vring' = [vring EXCEPT ![b] = v]
    /\ num_in_flight' = [num_in_flight EXCEPT ![v] = @ + 1]
    /\ submission' = Append(submission, b)
    /\ UNCHANGED <<backend, completionVars, threadVars, bhVars, stolen, bio_list,
                   state>>

vhd_dequeue_request ==
    /\ Idle
    /\ submission # <<>>
    /\ backend' = backend \cup {Head(submission)}
    /\ submission' = Tail(submission)
    /\ UNCHANGED <<vring, completionVars, threadVars, bhVars, stolen, bio_list,
                   num_in_flight, state>>

\* The positions of the queue at which the TAILQ_FOREACH of
\* vhd_cancel_queued_requests removes a request of v: its body moves to the
\* next request and the loop to the one after it, so a request that follows a
\* removed one is not looked at.
Walk(v) ==
    LET removed[i \in 0 .. Len(submission)] ==
            i > 0 /\ vring[submission[i]] = v /\ ~removed[i - 1]
    IN  {i \in 1 .. Len(submission) : removed[i]}

\* req_complete of a set of requests, each reported once: the completion
\* handler frees the bio, and num_in_flight of its vring drops.
req_complete(bios) ==
    /\ vring' = [b \in Bio |-> IF b \in bios THEN Null ELSE vring[b]]
    /\ num_in_flight' = [v \in Vring |->
           num_in_flight[v] - Cardinality({b \in bios : vring[b] = v})]

\* Called by vring_stop_bh.  When the last request of the queue is removed the
\* next one is a null pointer, which the loop follows.
vhd_cancel_queued_requests(v) ==
    /\ Idle
    /\ LET bios == {submission[i] : i \in Walk(v)} IN
         /\ req_complete(bios)
         /\ submission' = Life!Without(submission, bios)
    /\ state' = IF Len(submission) \in Walk(v) THEN "fault" ELSE "up"
    /\ UNCHANGED <<backend, completionVars, threadVars, bhVars, stolen,
                   bio_list>>

\* Callable when no device is attached any more, so nothing is in flight.
vhd_release_request_queue ==
    /\ Idle
    /\ \A v \in Vring : num_in_flight[v] = 0
    /\ state' = IF submission = <<>> /\ slh_first = Null THEN "released"
                                                         ELSE "fault"
    /\ BHs!Revoke(CompletionBh)
    /\ UNCHANGED <<submission, vring, backend, completionVars, threadVars,
                   stolen, bio_list, num_in_flight>>

-----------------------------------------------------------------------------
(***************************************************************************)
(* vhd_complete_bio.  The backend completes each request once, in any      *)
(* thread; a call in the thread of the queue is one of these threads while *)
(* the queue is idle.                                                      *)
(***************************************************************************)
vhd_complete_bio(t, b) ==
    /\ state # "fault"
    /\ pc[t] = "idle"
    /\ b \in backend
    /\ \A u \in Thread : bio[u] # b
    /\ pc' = [pc EXCEPT ![t] = "read"]
    /\ bio' = [bio EXCEPT ![t] = b]
    /\ UNCHANGED <<submission, vring, backend, completionVars, old_slh_first,
                   bhVars, stolen, bio_list, num_in_flight, state>>

\* SLIST_INSERT_HEAD_ATOMIC: the first line of the loop
ReadFirst(t) ==
    /\ state # "fault"
    /\ pc[t] = "read"
    /\ old_slh_first' = [old_slh_first EXCEPT ![t] = slh_first]
    /\ sle_next' = [sle_next EXCEPT ![bio[t]] = slh_first]
    /\ pc' = [pc EXCEPT ![t] = "cmpxchg"]
    /\ UNCHANGED <<submission, vring, backend, slh_first, bio, bhVars, stolen,
                   bio_list, num_in_flight, state>>

\* The head is replaced if it is what the thread has read; the thread that
\* finds the list empty goes on to schedule the BH, the others are done.
Replaced(t, next_pc) ==
    /\ slh_first' = bio[t]
    /\ backend' = backend \ {bio[t]}
    /\ old_slh_first' = [old_slh_first EXCEPT ![t] = Null]
    /\ pc' = [pc EXCEPT ![t] = next_pc]
    /\ bio' = [bio EXCEPT ![t] = Null]

\* Mutant: a completion that is not the first schedules the BH too.
CmpxchgSchedules(t) ==
    /\ state # "fault"
    /\ pc[t] = "cmpxchg"
    /\ slh_first = old_slh_first[t]
    /\ Replaced(t, "schedule")
    /\ UNCHANGED <<submission, vring, sle_next, bhVars, stolen, bio_list,
                   num_in_flight, state>>

\* SLIST_INSERT_HEAD_ATOMIC: atomic_cmpxchg
Cmpxchg(t) ==
    /\ state # "fault"
    /\ pc[t] = "cmpxchg"
    /\ \/ /\ slh_first = old_slh_first[t]
          /\ Replaced(t, IF old_slh_first[t] = Null THEN "schedule" ELSE "idle")
       \/ /\ slh_first # old_slh_first[t]
          /\ pc' = [pc EXCEPT ![t] = "read"]
          /\ old_slh_first' = [old_slh_first EXCEPT ![t] = Null]
          /\ UNCHANGED <<slh_first, backend, bio>>
    /\ UNCHANGED <<submission, vring, sle_next, bhVars, stolen, bio_list,
                   num_in_flight, state>>

\* vhd_bh_schedule(rq->completion_bh)
ScheduleBh(t) ==
    /\ state # "fault"
    /\ pc[t] = "schedule"
    /\ BHs!Schedule(CompletionBh)
    /\ pc' = [pc EXCEPT ![t] = "idle"]
    /\ UNCHANGED <<submission, vring, backend, completionVars, bio,
                   old_slh_first, stolen, bio_list, num_in_flight, state>>

-----------------------------------------------------------------------------
(***************************************************************************)
(* rq_complete_bh.                                                         *)
(***************************************************************************)
\* Mutant: completions wait until no request is queued.
CallBhStarved ==
    /\ Idle
    /\ submission = <<>>
    /\ BHs!Call(CompletionBh)
    /\ stolen' = FALSE
    /\ UNCHANGED <<submission, vring, backend, completionVars, threadVars,
                   bio_list, num_in_flight, state>>

CallBh ==
    /\ Idle
    /\ BHs!Call(CompletionBh)
    /\ stolen' = FALSE
    /\ UNCHANGED <<submission, vring, backend, completionVars, threadVars,
                   bio_list, num_in_flight, state>>

\* Mutant: the list is not reversed.
StealUnreversed ==
    /\ state = "up"
    /\ running # {} /\ ~stolen
    /\ stolen' = TRUE
    /\ LET bios == Reversed(sle_next, slh_first) IN
         bio_list' = [i \in DOMAIN bios |-> bios[Len(bios) + 1 - i]]
    /\ slh_first' = Null
    /\ UNCHANGED <<submission, vring, backend, sle_next, threadVars, bhVars,
                   num_in_flight, state>>

\* SLIST_MOVE_ATOMIC and the reversal
StealCompletions ==
    /\ state = "up"
    /\ running # {} /\ ~stolen
    /\ stolen' = TRUE
    /\ bio_list' = Reversed(sle_next, slh_first)
    /\ slh_first' = Null
    /\ UNCHANGED <<submission, vring, backend, sle_next, threadVars, bhVars,
                   num_in_flight, state>>

\* one round of the last loop
CompleteFirst ==
    /\ state = "up"
    /\ stolen
    /\ bio_list # <<>>
    /\ req_complete({Head(bio_list)})
    /\ bio_list' = Tail(bio_list)
    /\ UNCHANGED <<submission, backend, completionVars, threadVars, bhVars,
                   stolen, state>>

BhReturns ==
    /\ state = "up"
    /\ stolen
    /\ bio_list = <<>>
    /\ BHs!Return(CompletionBh)
    /\ stolen' = FALSE
    /\ UNCHANGED <<submission, vring, backend, completionVars, threadVars,
                   bio_list, num_in_flight, state>>

-----------------------------------------------------------------------------
BhStep == CallBh \/ StealCompletions \/ CompleteFirst \/ BhReturns

ThreadStep(t) == ReadFirst(t) \/ Cmpxchg(t) \/ ScheduleBh(t)

Next ==
    \/ \E v \in Vring : \/ vhd_cancel_queued_requests(v)
                        \/ \E b \in Bio : vhd_enqueue_block_request(b, v)
    \/ vhd_dequeue_request
    \/ vhd_release_request_queue
    \/ \E t \in Thread : ThreadStep(t) \/ \E b \in Bio : vhd_complete_bio(t, b)
    \/ BhStep

Spec == Init /\ [][Next]_vars

\* The event loop runs the BH when it is scheduled (BhServed of EventLoop), and
\* a thread inside vhd_complete_bio keeps running.  A thread whose cmpxchg
\* fails again and again is possible, but only while others succeed.
Fairness ==
    /\ WF_vars(BhStep)
    /\ \A t \in Thread : WF_vars(ThreadStep(t))

FairSpec == Spec /\ Fairness
-----------------------------------------------------------------------------
(***************************************************************************)
(* Properties                                                              *)
(***************************************************************************)

\* "The first one must have done so" (the comment in vhd_complete_bio): as
\* long as the completion list is not empty, exactly one of these holds: one
\* thread is about to schedule completion_bh, it is scheduled, or it runs and
\* has not taken the list yet.  While the list is empty none does: the BH is
\* never scheduled for nothing.
Scheduler == {t \in Thread : pc[t] = "schedule"}

Unstolen == running # {} /\ ~stolen

FirstSchedules ==
    state # "fault" =>
        /\ slh_first # Null <=> Scheduler # {} \/ scheduled # {} \/ Unstolen
        /\ \A t, u \in Scheduler : t = u
        /\ Scheduler # {} => scheduled = {} /\ ~Unstolen
        /\ scheduled # {} => ~Unstolen

\* The asserts of vhd_release_request_queue hold when nothing is in flight,
\* and afterwards nobody uses completion_bh: it is not scheduled, and no
\* thread is about to schedule it.
ReleaseQuiet ==
    /\ (\A v \in Vring : num_in_flight[v] = 0) =>
           submission = <<>> /\ slh_first = Null
    /\ state = "released" =>
           scheduled = {} /\ \A t \in Thread : pc[t] # "schedule"

\* The queue implements RequestLife: a request is completed at the cmpxchg
\* that links it, whatever the other threads do in between, and the lists that
\* are filled last in, first out report first in, first out ("we want the
\* completions FIFO", rq_complete_bh).
LifeSpec == Life!Spec

\* A request on the completion list is reported to the guest.
Completed == {b \in Bio : b \in Life!In(Unreported)}

CompletionsReported ==
    \A b \in Bio : b \in Completed ~> b \notin Completed \/ state = "fault"

=============================================================================
