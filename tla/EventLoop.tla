------------------------------ MODULE EventLoop ------------------------------
(***************************************************************************)
(* The event loop of src/event.c: the thread that runs it (Home), and      *)
(* other threads that schedule, cancel and delete its bottom halves (BHs), *)
(* submit work and wait for it, and terminate the loop.  Every atomic      *)
(* operation on shared state (flags, bh_list, notified, the eventfd) is a  *)
(* step of its own.  src/catomic.h builds on x86_64 only, where these      *)
(* operations are sequentially consistent.                                 *)
(***************************************************************************)
EXTENDS Integers, Sequences, FiniteSets

CONSTANTS
    Thread,         \* threads other than the one that runs the loop
    Home,           \* the home thread of the loop
    Persistent,     \* BHs made by vhd_bh_new
    Plain,          \* BHs of vhd_bh_schedule_oneshot
    Work,           \* BHs of vhd_submit_work_and_wait
    StopBh,         \* the BH of vhd_terminate_event_loop
    Handler,        \* io handlers, each with its own file descriptor
    None,           \* no BH and no handler
    MaxCalls        \* bound on the calls made and on the events of the fds

ASSUME HomeAssumption == Home \notin Thread
ASSUME BoundAssumption == MaxCalls \in Nat
ASSUME StopAssumption == StopBh \notin Persistent \cup Plain \cup Work
ASSUME KindAssumption ==
    Persistent \cap (Plain \cup Work) = {} /\ Plain \cap Work = {}

Caller == Thread \cup {Home}
Oneshot == Plain \cup Work \cup {StopBh}
Bh == Persistent \cup Oneshot

VARIABLES
    flags,          \* flags of each BH
    mem,            \* "none", "live" or "freed": the memory of each BH
    bh_list,        \* bh_list of the loop, first element first
    notified,
    notifyfd,       \* the counter of the eventfd is not zero
    is_terminated,
    pc,             \* where each caller is inside bh_enqueue, or in sem_wait
    target,         \* the BH it enqueues
    posted,         \* work whose semaphore has been posted
    handed,         \* work whose function has returned and left it to others
                    \* to complete
    at,             \* where Home is inside vhd_run_event_loop
    batch,          \* bh_list of bh_poll
    cur,            \* the BH, or the io handler, whose callback is running
    last,           \* flags that bh_dequeue returned
    events,         \* handlers still to be visited on the ready list
    handler,        \* "none", "attached", "detached", "deleted" or "freed"
    readable,       \* handlers whose fd has something to read
    calls           \* number of calls made so far

bhVars == <<flags, mem, bh_list>>
wakeVars == <<notified, notifyfd>>
callerVars == <<pc, target, posted, handed>>
pollVars == <<batch, cur, last>>
ioVars == <<events, handler, readable>>
vars == <<bhVars, wakeVars, callerVars, pollVars, ioVars, at, is_terminated,
          calls>>

Flag == {"PENDING", "SCHEDULED", "DELETED", "ONESHOT"}

\* Each module has one type invariant; this one says what the variables hold.
TypeOK ==
    /\ flags \in [Bh -> SUBSET Flag]
    /\ mem \in [Bh -> {"none", "live", "freed"}]
    /\ bh_list \in Seq(Bh) /\ batch \in Seq(Bh)
    /\ notified \in BOOLEAN /\ notifyfd \in BOOLEAN
    /\ is_terminated \in BOOLEAN
    /\ pc \in [Caller -> {"idle", "insert", "notify", "set", "sem"}]
    /\ target \in [Caller -> Bh \cup {None}]
    /\ \A t \in Caller : pc[t] = "idle" \/ target[t] \in Bh
    /\ posted \subseteq Work /\ handed \subseteq Work
    /\ at \in {"wait", "accept", "clear", "reset", "poll", "dequeue", "call",
               "free", "events", "event", "stopped", "freed"}
    /\ cur \in Bh \cup Handler \cup {None}
    /\ at \in {"call", "free"} => cur \in Bh
    /\ at = "event" => cur \in Handler
    /\ last \subseteq Flag
    /\ events \subseteq Handler /\ readable \subseteq Handler
    /\ handler \in [Handler -> {"none", "attached", "detached", "deleted",
                                "freed"}]
    /\ calls \in 0 .. MaxCalls

\* vhd_create_event_loop, vhd_bh_new for the persistent BHs, and perhaps
\* vhd_add_io_handler for some handlers before the first iteration
Init ==
    /\ flags = [b \in Bh |-> {}]
    /\ mem = [b \in Bh |-> IF b \in Persistent THEN "live" ELSE "none"]
    /\ bh_list = <<>> /\ batch = <<>>
    /\ notified = FALSE /\ notifyfd = FALSE
    /\ is_terminated = FALSE
    /\ pc = [t \in Caller |-> "idle"]
    /\ target = [t \in Caller |-> None]
    /\ posted = {} /\ handed = {}
    /\ at = "wait"
    /\ cur = None
    /\ last = {}
    /\ events = {} /\ readable = {}
    /\ handler \in [Handler -> {"none", "attached"}]
    /\ calls = 0

-----------------------------------------------------------------------------
(***************************************************************************)
(* Calls.  Home makes them in the callbacks it runs, and between two       *)
(* iterations of the loop.  After vhd_terminate_event_loop nobody schedules*)
(* BHs any more: that is the users' part of what bh_cleanup asserts.       *)
(***************************************************************************)
InCallback == at \in {"call", "event"}

MayCall(t) ==
    /\ calls < MaxCalls
    /\ pc[t] = "idle"
    /\ t = Home => at = "wait" \/ InCallback

Terminating == mem[StopBh] # "none"

\* Mutant: the BH is linked again although it is pending.
bh_enqueue_again(t, b, new) ==
    /\ flags' = [flags EXCEPT ![b] = @ \cup {"PENDING"} \cup new]
    /\ pc' = [pc EXCEPT ![t] = "insert"]
    /\ target' = [target EXCEPT ![t] = b]
    /\ calls' = IF at = "stopped" THEN calls ELSE calls + 1

\* The first step of bh_enqueue: atomic_fetch_or.
bh_enqueue(t, b, new) ==
    /\ flags' = [flags EXCEPT ![b] = @ \cup {"PENDING"} \cup new]
    /\ pc' = [pc EXCEPT ![t] = IF "PENDING" \in flags[b] THEN "notify"
                                                         ELSE "insert"]
    /\ target' = [target EXCEPT ![t] = b]
    /\ calls' = IF at = "stopped" THEN calls ELSE calls + 1

vhd_bh_schedule_oneshot(t, b) ==
    /\ mem[b] = "none"
    /\ mem' = [mem EXCEPT ![b] = "live"]
    /\ bh_enqueue(t, b, {"SCHEDULED", "ONESHOT"})
    /\ UNCHANGED <<bh_list, wakeVars, posted, handed, pollVars, ioVars, at,
                   is_terminated>>

\* vhd_run_in_ctl, vhd_run_in_rq
RunIn(t, b) ==
    /\ MayCall(t)
    /\ ~Terminating
    /\ vhd_bh_schedule_oneshot(t, b)

\* Up to sem_wait; asserts that it is not called in the loop itself.
vhd_submit_work_and_wait(t, b) ==
    /\ MayCall(t)
    /\ ~Terminating
    /\ vhd_bh_schedule_oneshot(t, b)

\* The calls of others have inserted their BHs by now, though they may still
\* be about to notify the loop: that is how the caller can know that they
\* have run.
vhd_terminate_event_loop(t) ==
    /\ MayCall(t)
    /\ \A u \in Caller : pc[u] # "insert"
    /\ vhd_bh_schedule_oneshot(t, StopBh)

vhd_bh_schedule(t, b) ==
    /\ MayCall(t)
    /\ ~Terminating
    /\ "DELETED" \notin flags[b]
    /\ bh_enqueue(t, b, {"SCHEDULED"})
    /\ UNCHANGED <<mem, bh_list, wakeVars, posted, handed, pollVars, ioVars,
                   at, is_terminated>>

vhd_bh_cancel(t, b) ==
    /\ MayCall(t)
    /\ "DELETED" \notin flags[b]
    /\ flags' = [flags EXCEPT ![b] = @ \ {"SCHEDULED"}]
    /\ calls' = calls + 1
    /\ UNCHANGED <<mem, bh_list, wakeVars, callerVars, pollVars, ioVars, at,
                   is_terminated>>

\* Also called once the loop has stopped (vhd_release_request_queue).
vhd_bh_delete(t, b) ==
    /\ MayCall(t) \/ (t = Home /\ at = "stopped" /\ pc[t] = "idle")
    /\ "DELETED" \notin flags[b]
    /\ bh_enqueue(t, b, {"DELETED"})
    /\ UNCHANGED <<mem, bh_list, wakeVars, posted, handed, pollVars, ioVars,
                   at, is_terminated>>

\* Mutant: bh_enqueue does not notify the loop.
InsertSilent(t) ==
    /\ pc[t] = "insert"
    /\ bh_list' = <<target[t]>> \o bh_list
    /\ pc' = [pc EXCEPT ![t] = "idle"]
    /\ UNCHANGED <<flags, mem, wakeVars, target, posted, handed, pollVars,
                   ioVars, at, is_terminated, calls>>

\* SLIST_INSERT_HEAD_ATOMIC in bh_enqueue
Insert(t) ==
    /\ pc[t] = "insert"
    /\ bh_list' = <<target[t]>> \o bh_list
    /\ pc' = [pc EXCEPT ![t] = "notify"]
    /\ UNCHANGED <<flags, mem, wakeVars, target, posted, handed, pollVars,
                   ioVars, at, is_terminated, calls>>

\* Where a caller goes when bh_enqueue returns.
Returned(t) ==
    IF target[t] \in Work
    THEN pc' = [pc EXCEPT ![t] = "sem"] /\ UNCHANGED target
    ELSE /\ pc' = [pc EXCEPT ![t] = "idle"]
         /\ target' = [target EXCEPT ![t] = None]

\* atomic_xchg in evloop_notify
evloop_notify(t) ==
    /\ pc[t] = "notify"
    /\ notified' = TRUE
    /\ \/ notified /\ Returned(t)
       \/ ~notified /\ pc' = [pc EXCEPT ![t] = "set"] /\ UNCHANGED target
    /\ UNCHANGED <<bhVars, notifyfd, posted, handed, pollVars, ioVars, at,
                   is_terminated, calls>>

vhd_set_eventfd(t) ==
    /\ pc[t] = "set"
    /\ notifyfd' = TRUE
    /\ Returned(t)
    /\ UNCHANGED <<bhVars, notified, posted, handed, pollVars, ioVars, at,
                   is_terminated, calls>>

\* sem_wait returns and vhd_submit_work_and_wait with it
WorkDone(t) ==
    /\ pc[t] = "sem"
    /\ target[t] \in posted
    /\ pc' = [pc EXCEPT ![t] = "idle"]
    /\ target' = [target EXCEPT ![t] = None]
    /\ UNCHANGED <<bhVars, wakeVars, posted, handed, pollVars, ioVars, at,
                   is_terminated, calls>>

-----------------------------------------------------------------------------
(***************************************************************************)
(* vhd_run_event_loop.  EINTR and a timeout of epoll_wait change nothing.  *)
(***************************************************************************)
Goes(from, to) == at = from /\ at' = to

Ready == {h \in readable : handler[h] = "attached"}

\* Mutant: the eventfd is not registered with epoll.
epoll_wait_handlers ==
    /\ Goes("wait", "accept")
    /\ pc[Home] = "idle"
    /\ ~is_terminated
    /\ Ready # {}
    /\ events' = Ready
    /\ UNCHANGED <<bhVars, wakeVars, callerVars, pollVars, handler, readable,
                   is_terminated, calls>>

epoll_wait ==
    /\ Goes("wait", "accept")
    /\ pc[Home] = "idle"
    /\ ~is_terminated
    /\ notifyfd \/ Ready # {}
    /\ events' = Ready
    /\ UNCHANGED <<bhVars, wakeVars, callerVars, pollVars, handler, readable,
                   is_terminated, calls>>

notify_accept ==
    /\ Goes("accept", IF notified THEN "clear" ELSE "poll")
    /\ UNCHANGED <<bhVars, wakeVars, callerVars, pollVars, ioVars,
                   is_terminated, calls>>

vhd_clear_eventfd ==
    /\ Goes("clear", "reset")
    /\ notifyfd' = FALSE
    /\ UNCHANGED <<bhVars, notified, callerVars, pollVars, ioVars,
                   is_terminated, calls>>

ResetNotified ==
    /\ Goes("reset", "poll")
    /\ notified' = FALSE
    /\ UNCHANGED <<bhVars, notifyfd, callerVars, pollVars, ioVars,
                   is_terminated, calls>>

\* bh_poll, up to and including SLIST_MOVE_ATOMIC
bh_poll ==
    /\ Goes("poll", "dequeue")
    /\ batch' = bh_list
    /\ bh_list' = <<>>
    /\ UNCHANGED <<flags, mem, wakeVars, callerVars, cur, last, ioVars,
                   is_terminated, calls>>

\* Mutant: BH_DELETED is not looked at.
bh_dequeue_deleted ==
    /\ batch # <<>>
    /\ LET b == Head(batch) IN
         /\ Goes("dequeue", IF "SCHEDULED" \in flags[b] THEN "call" ELSE "free")
         /\ cur' = b
         /\ last' = flags[b]
         /\ flags' = [flags EXCEPT ![b] = @ \ {"PENDING", "SCHEDULED"}]
    /\ batch' = Tail(batch)
    /\ UNCHANGED <<mem, bh_list, wakeVars, callerVars, ioVars, is_terminated,
                   calls>>

\* bh_dequeue of bh_poll, and the test whether to call the callback
bh_dequeue ==
    /\ batch # <<>>
    /\ LET b == Head(batch) IN
         /\ Goes("dequeue", IF flags[b] \cap {"SCHEDULED", "DELETED"}
                                 = {"SCHEDULED"} THEN "call" ELSE "free")
         /\ cur' = b
         /\ last' = flags[b]
         /\ flags' = [flags EXCEPT ![b] = @ \ {"PENDING", "SCHEDULED"}]
    /\ batch' = Tail(batch)
    /\ UNCHANGED <<mem, bh_list, wakeVars, callerVars, ioVars, is_terminated,
                   calls>>

\* The work a callback may complete: its own, or one that an earlier callback
\* has kept a pointer to (vdev->work).
MayComplete(b) == (at = "call" /\ cur = b) \/ b \in handed

\* Mutant: the work is taken from whoever kept it, and not posted.
vhd_complete_work_unposted(b) ==
    /\ InCallback
    /\ pc[Home] = "idle"
    /\ b \notin posted
    /\ MayComplete(b)
    /\ handed' = handed \ {b}
    /\ UNCHANGED <<bhVars, wakeVars, pc, target, posted, pollVars, ioVars, at,
                   is_terminated, calls>>

\* Called by the work function in work_bh, or by a later callback of the loop.
vhd_complete_work(b) ==
    /\ InCallback
    /\ pc[Home] = "idle"
    /\ b \notin posted
    /\ MayComplete(b)
    /\ posted' = posted \cup {b}
    /\ handed' = handed \ {b}
    /\ UNCHANGED <<bhVars, wakeVars, pc, target, pollVars, ioVars, at,
                   is_terminated, calls>>

\* Mutant: evloop_stop_bh does not set is_terminated.
CallReturnsRunning ==
    /\ Goes("call", "free")
    /\ pc[Home] = "idle"
    /\ handed' = handed \cup ({cur} \cap (Work \ posted))
    /\ UNCHANGED <<bhVars, wakeVars, pc, target, posted, pollVars, ioVars,
                   calls, is_terminated>>

\* The callback returns; evloop_stop_bh has set is_terminated.  A work function
\* need not have completed its work (vdev_stop: "will be signaled
\* asynchronously").
CallReturns ==
    /\ Goes("call", "free")
    /\ pc[Home] = "idle"
    /\ handed' = handed \cup ({cur} \cap (Work \ posted))
    /\ is_terminated' = (is_terminated \/ cur = StopBh)
    /\ UNCHANGED <<bhVars, wakeVars, pc, target, posted, pollVars, ioVars,
                   calls>>

\* vhd_free in bh_poll
FreeBh ==
    /\ Goes("free", "dequeue")
    /\ mem' = IF last \cap {"DELETED", "ONESHOT"} # {}
              THEN [mem EXCEPT ![cur] = "freed"]
              ELSE mem
    /\ cur' = None /\ last' = {}
    /\ UNCHANGED <<flags, bh_list, wakeVars, callerVars, batch, ioVars,
                   is_terminated, calls>>

\* Mutant: bh_poll leaves its list as soon as the loop is terminated.
BatchDoneTerminated ==
    /\ batch = <<>> \/ is_terminated
    /\ Goes("dequeue", "events")
    /\ UNCHANGED <<bhVars, wakeVars, callerVars, pollVars, ioVars,
                   is_terminated, calls>>

\* bh_poll is done with its list
BatchDone ==
    /\ batch = <<>>
    /\ Goes("dequeue", "events")
    /\ UNCHANGED <<bhVars, wakeVars, callerVars, pollVars, ioVars,
                   is_terminated, calls>>

\* One round of the loop of handle_events.  The order of the ready list is
\* the kernel's; the callback reads what there is to read.
handle_events(h) ==
    /\ at = "events"
    /\ h \in events
    /\ events' = events \ {h}
    /\ IF handler[h] = "attached"
       THEN /\ at' = "event"
            /\ cur' = h
            /\ readable' = readable \ {h}
       ELSE UNCHANGED <<at, cur, readable>>
    /\ UNCHANGED <<bhVars, wakeVars, callerVars, batch, last, handler,
                   is_terminated, calls>>

EventReturns ==
    /\ Goes("event", "events")
    /\ pc[Home] = "idle"
    /\ cur' = None
    /\ UNCHANGED <<bhVars, wakeVars, callerVars, batch, last, ioVars,
                   is_terminated, calls>>

\* The end of handle_events frees the deleted handlers.  When the loop is
\* terminated the next vhd_run_event_loop returns 0.
FreeHandlers ==
    /\ events = {}
    /\ Goes("events", IF is_terminated THEN "stopped" ELSE "wait")
    /\ handler' = [h \in Handler |->
                     IF handler[h] = "deleted" THEN "freed" ELSE handler[h]]
    /\ UNCHANGED <<bhVars, wakeVars, callerVars, pollVars, events, readable,
                   is_terminated, calls>>

\* vhd_free_event_loop, when nobody uses the loop any more; bh_cleanup frees
\* what remains in bh_list.
vhd_free_event_loop ==
    /\ Goes("stopped", "freed")
    /\ \A t \in Caller : pc[t] = "idle"
    /\ \A b \in Persistent : "DELETED" \in flags[b]
    /\ \A h \in Handler : handler[h] \notin {"attached", "detached"}
    /\ LET remain == {bh_list[i] : i \in DOMAIN bh_list} IN
         /\ flags' = [b \in Bh |-> IF b \in remain
                                   THEN flags[b] \ {"PENDING", "SCHEDULED"}
                                   ELSE flags[b]]
         /\ mem' = [b \in Bh |-> IF b \in remain THEN "freed" ELSE mem[b]]
    /\ bh_list' = <<>>
    /\ UNCHANGED <<wakeVars, callerVars, pollVars, ioVars,
                   is_terminated, calls>>

-----------------------------------------------------------------------------
(***************************************************************************)
(* io handlers.  They are only touched in the loop's own thread; a failing *)
(* epoll_ctl changes nothing.                                              *)
(***************************************************************************)
HandlerCall ==
    /\ MayCall(Home)
    /\ calls' = calls + 1
    /\ UNCHANGED <<bhVars, wakeVars, callerVars, pollVars, events, readable,
                   at, is_terminated>>

\* a new handler, or one that was detached
vhd_attach_io_handler(h) ==
    /\ HandlerCall
    /\ handler[h] \in {"none", "detached"}
    /\ handler' = [handler EXCEPT ![h] = "attached"]

vhd_detach_io_handler(h) ==
    /\ HandlerCall
    /\ handler[h] = "attached"
    /\ handler' = [handler EXCEPT ![h] = "detached"]

\* Mutant: the handler is freed at once.
vhd_del_io_handler_free(h) ==
    /\ HandlerCall
    /\ handler[h] \in {"attached", "detached"}
    /\ handler' = [handler EXCEPT ![h] = "freed"]

vhd_del_io_handler(h) ==
    /\ HandlerCall
    /\ handler[h] \in {"attached", "detached"}
    /\ handler' = [handler EXCEPT ![h] = "deleted"]

\* the other end of a file descriptor writes to it
FdReady(h) ==
    /\ calls < MaxCalls
    /\ handler[h] # "freed"
    /\ h \notin readable
    /\ readable' = readable \cup {h}
    /\ calls' = calls + 1
    /\ UNCHANGED <<bhVars, wakeVars, callerVars, pollVars, events, handler, at,
                   is_terminated>>

-----------------------------------------------------------------------------
Calls(t) ==
    \/ \E b \in Plain : RunIn(t, b)
    \/ \E b \in Persistent :
         vhd_bh_schedule(t, b) \/ vhd_bh_cancel(t, b) \/ vhd_bh_delete(t, b)
    \/ vhd_terminate_event_loop(t)

EnqueueStep(t) == Insert(t) \/ evloop_notify(t) \/ vhd_set_eventfd(t)

LoopStep ==
    \/ epoll_wait \/ notify_accept \/ vhd_clear_eventfd \/ ResetNotified
    \/ bh_poll \/ bh_dequeue \/ CallReturns \/ FreeBh
    \/ BatchDone \/ EventReturns \/ FreeHandlers
    \/ \E h \in Handler : handle_events(h)

Next ==
    \/ \E t \in Caller : Calls(t) \/ EnqueueStep(t)
    \/ \E t \in Thread :
         WorkDone(t) \/ \E b \in Work : vhd_submit_work_and_wait(t, b)
    \/ \E h \in Handler :
         \/ vhd_attach_io_handler(h) \/ vhd_detach_io_handler(h)
         \/ vhd_del_io_handler(h) \/ FdReady(h)
    \/ \E b \in Work : vhd_complete_work(b)
    \/ LoopStep
    \/ vhd_free_event_loop

Spec == Init /\ [][Next]_vars

\* Threads inside a call keep running, and so does the loop's thread; nobody
\* has to make another call, or to complete a work.
Fairness ==
    /\ \A t \in Caller : WF_vars(EnqueueStep(t))
    /\ \A t \in Thread : WF_vars(WorkDone(t))
    /\ WF_vars(LoopStep)

FairSpec == Spec /\ Fairness
-----------------------------------------------------------------------------
(***************************************************************************)
(* Properties                                                              *)
(***************************************************************************)

\* The wakeup is not lost (evloop_notify against notify_accept): while the
\* loop is about to block and BHs wait in its list, the eventfd is set or
\* some caller has yet to set it.
NoLostWakeup ==
    at = "wait" /\ bh_list # <<>> =>
        notifyfd \/ \E t \in Caller : pc[t] \in {"notify", "set"}

\* What makes NoLostWakeup inductive.
WakeInv ==
    /\ bh_list # <<>> =>
         notified \/ at = "poll" \/ \E t \in Caller : pc[t] = "notify"
    /\ notified =>
         notifyfd \/ at = "reset" \/ \E t \in Caller : pc[t] = "set"

\* BH_PENDING does what bh_enqueue and bh_dequeue use it for: a BH that has
\* it is linked into exactly one list, or about to be by exactly one caller,
\* and its memory is not free; one that has not is linked nowhere.  A BH to
\* be freed is linked, or bh_poll is at it: none is leaked.
Linked(b) ==
    Cardinality({i \in DOMAIN bh_list : bh_list[i] = b})
    + Cardinality({i \in DOMAIN batch : batch[i] = b})
    + Cardinality({t \in Caller : pc[t] = "insert" /\ target[t] = b})

LinkedOnce ==
    \A b \in Bh :
        /\ IF "PENDING" \in flags[b] THEN Linked(b) = 1 /\ mem[b] = "live"
                                     ELSE Linked(b) = 0
        /\ mem[b] = "live" /\ flags[b] \cap {"DELETED", "ONESHOT"} # {} =>
             \/ "PENDING" \in flags[b]
             \/ at \in {"call", "free"} /\ cur = b

\* Nothing is used after it was freed: the BH bh_poll is at, the io handlers
\* still on the ready list (deleted ones included), and the work on the stack
\* of a caller of vhd_submit_work_and_wait, which is still inside that call
\* while a callback may complete the work.
NoUseAfterFree ==
    /\ at \in {"call", "free"} => mem[cur] = "live"
    /\ at \in {"accept", "clear", "reset", "poll", "dequeue", "call", "free",
               "events", "event"} =>
         \A h \in events : handler[h] # "freed"
    /\ at = "event" => handler[cur] # "freed"
    /\ \A b \in Work \ posted : MayComplete(b) =>
         \E t \in Thread :
             target[t] = b /\ pc[t] \in {"notify", "set", "sem"}

\* When a terminated loop has stopped, every BH scheduled before has run (the
\* bh_oneshot test) and only deleted ones remain for bh_cleanup to free;
\* deleted io handlers have all been freed.
StopDrains ==
    at \in {"stopped", "freed"} =>
        /\ \A i \in DOMAIN bh_list : "DELETED" \in flags[bh_list[i]]
        /\ \A b \in Oneshot : mem[b] # "live"
        /\ \A h \in Handler : handler[h] # "deleted"

\* The loop implements the abstract bottom halves: a BH is scheduled at the
\* atomic_fetch_or of bh_enqueue, and called at the atomic_fetch_and of
\* bh_dequeue.
Scheduled == {b \in Bh : "SCHEDULED" \in flags[b] /\ "DELETED" \notin flags[b]}

Abstract == INSTANCE BottomHalf WITH
                scheduled <- Scheduled,
                running <- IF at = "call" THEN {cur} ELSE {}

BhSpec == Abstract!Spec

\* A scheduled BH is served: its callback is called, unless it is canceled or
\* deleted first.  (For the BH that stops the loop see TerminateStops.)
BhServed == \A b \in Bh \ {StopBh} : b \in Scheduled ~> b \notin Scheduled

\* vhd_submit_work_and_wait returns, unless the work function, which is called,
\* hands the work over and no later callback ever completes it.
WorkReturns ==
    \A t \in Thread :
        pc[t] = "sem" ~> (pc[t] = "idle" \/ [](target[t] \in handed))

\* vhd_terminate_event_loop makes vhd_run_event_loop return 0.
TerminateStops == Terminating ~> at \in {"stopped", "freed"}

\* vhd_run_event_loop blocks when there is nothing to do (src/event.h,
\* vhd_run_event_loop: "-1 to block indefinitely").
Blocks == <>[](Terminating \/ (at = "wait" /\ ~notifyfd /\ Ready = {}))

=============================================================================
