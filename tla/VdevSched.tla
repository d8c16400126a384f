----------------------------- MODULE VdevSched -----------------------------
(***************************************************************************)
(* Vdev with the order in which the two event loops really run BHs.        *)
(* bh_enqueue puts a BH at the head of the loop's list, from any thread;   *)
(* bh_poll takes the whole list and runs it from the head, so the BHs of   *)
(* one batch run last in, first out; those scheduled meanwhile wait for    *)
(* the next batch (event.c).  Each thread is weakly fair: this is where    *)
(* liveness is stated, and where a schedule that breaks a property is one  *)
(* the code can really follow.                                             *)
(***************************************************************************)
EXTENDS Vdev, SequencesExt

CONSTANT VringOrder         \* vdev->vrings, from index 0 up

ASSUME VringOrderAssumption ==
    /\ {VringOrder[i] : i \in DOMAIN VringOrder} = Vring
    /\ Len(VringOrder) = Cardinality(Vring)

VARIABLES
    ctl_list,    \* evloop->bh_list of the control event loop, head first
    ctl_run,     \* what is left of the batch its bh_poll took
    rq_list,     \* the same for the event loop of the request queue
    rq_run,
    bio_list     \* what is left of the completions rq_complete_bh took

schedVars == <<vars, ctl_list, ctl_run, rq_list, rq_run, bio_list>>

Bh(fn, v) == [fn |-> fn, v |-> v]
WorkBh == Bh("vdev_work_fn", None)
CompletionBh == Bh("rq_complete_bh", None)

\* The BHs a control callback has scheduled on rq, the last one first: one fn
\* at a time, in the order of a loop over vdev->vrings.
RqScheduled(fn) ==
    LET new == SelectSeq(VringOrder, LAMBDA v : vdev'[fn][v] > vdev[fn][v])
    IN  [i \in DOMAIN new |-> Bh(fn, Reverse(new)[i])]
ScheduleOnRq ==
    rq_list' = RqScheduled("vring_stop_bh")
               \o RqScheduled("vring_sync_to_virtq_bh")
               \o RqScheduled("vring_start_bh") \o rq_list

\* The BHs a callback of rq has scheduled for v on the control event loop, the
\* last one first: vring_stop_bh cancels requests, which may schedule the
\* drained BH, before it schedules the stopped one.
CtlFnOrder == <<"vring_mark_stopped_bh", "vring_mark_drained_bh",
                "vring_mark_msg_handled_bh", "vring_start_failed_bh">>
ScheduleOnCtl(v) ==
    LET new == SelectSeq(CtlFnOrder, LAMBDA fn : ctl_bh'[fn][v] > ctl_bh[fn][v])
    IN  ctl_list' = [i \in DOMAIN new |-> Bh(new[i], v)] \o ctl_list

-----------------------------------------------------------------------------
(* The control event loop thread. *)

CtlTake ==
    /\ Alive /\ ctl_run = <<>> /\ ctl_list # <<>>
    /\ ctl_run' = ctl_list /\ ctl_list' = <<>>
    /\ CtlPoll \/ (ctl_bh = NoBhs /\ UNCHANGED vars)
    /\ UNCHANGED <<rq_list, rq_run, bio_list>>

CtlRun ==
    /\ ctl_run # <<>>
    /\ LET v == Head(ctl_run).v
           Is(fn) == Head(ctl_run).fn = fn
       IN  \/ Is("vdev_work_fn") /\ vdev_work_fn
           \/ \E io \in IoResult :
                 \/ Is("vring_mark_msg_handled_bh")
                    /\ vring_mark_msg_handled_bh(v, io)
                 \/ Is("vring_start_failed_bh") /\ vring_start_failed_bh(v, io)
                 \/ Is("vring_mark_stopped_bh") /\ vring_mark_stopped_bh(v, io)
                 \/ Is("vring_mark_drained_bh") /\ vring_mark_drained_bh(v, io)
    /\ ctl_run' = Tail(ctl_run)
    /\ ScheduleOnRq
    /\ UNCHANGED <<ctl_list, rq_run, bio_list>>

CtlEvent ==
    /\ ctl_run = <<>>
    /\ Client
    /\ ScheduleOnRq
    /\ UNCHANGED <<ctl_list, ctl_run, rq_run, bio_list>>

StopCalled ==
    /\ vhd_vdev_stop_server
    /\ ctl_list' = <<WorkBh>> \o ctl_list
    /\ UNCHANGED <<ctl_run, rq_list, rq_run, bio_list>>

StartFailed ==
    /\ vhd_vdev_release
    /\ UNCHANGED <<ctl_list, ctl_run, rq_list, rq_run, bio_list>>

-----------------------------------------------------------------------------
(* The thread that runs the request queue, and the backend. *)

RqTake ==
    /\ InRunQueue /\ rq_run = <<>> /\ rq_list # <<>>
    /\ rq_run' = rq_list /\ rq_list' = <<>>
    /\ UNCHANGED <<vars, ctl_list, ctl_run, bio_list>>

\* A BH of a vring.
RqRun ==
    /\ rq_run # <<>> /\ Head(rq_run) # CompletionBh
    /\ LET v == Head(rq_run).v
           Is(fn) == Head(rq_run).fn = fn
       IN  /\ \/ Is("vring_start_bh") /\ vring_start_bh(v)
              \/ Is("vring_sync_to_virtq_bh") /\ vring_sync_to_virtq_bh(v)
              \/ Is("vring_stop_bh") /\ vring_stop_bh(v)
           /\ ScheduleOnCtl(v)
    /\ rq_run' = Tail(rq_run)
    /\ UNCHANGED <<ctl_run, rq_list, bio_list>>

RqStopDrained(v) ==
    /\ StopBhDrained(v)
    /\ ScheduleOnCtl(v)
    /\ UNCHANGED <<ctl_run, rq_list, rq_run, bio_list>>

\* rq_complete_bh takes the completion list and completes its requests.
RqStealCompletions ==
    /\ RqIdle /\ rq_run # <<>> /\ Head(rq_run) = CompletionBh /\ bio_list = Zero
    /\ bio_list' = completion
    /\ UNCHANGED <<vars, ctl_list, ctl_run, rq_list, rq_run>>

RqComplete(v) ==
    /\ bio_list[v] > 0
    /\ rq_complete_bh(v)
    /\ ScheduleOnCtl(v)
    /\ bio_list' = [bio_list EXCEPT ![v] = @ - 1]
    /\ rq_run' = IF bio_list' = Zero THEN Tail(rq_run) ELSE rq_run
    /\ UNCHANGED <<ctl_run, rq_list>>

RqEvent(v) ==
    /\ rq_run = <<>>
    /\ \E n \in 0 .. MaxInFlight : vring_kick(v, n)
    /\ UNCHANGED <<ctl_list, ctl_run, rq_list, rq_run, bio_list>>

RqDequeue(v) ==
    /\ rq_run = <<>>
    /\ vhd_dequeue_request(v)
    /\ UNCHANGED <<ctl_list, ctl_run, rq_list, rq_run, bio_list>>

\* The first completion of an empty list schedules completion_bh.
Complete(v) ==
    /\ vhd_complete_bio(v)
    /\ rq_list' = (IF completion = bio_list THEN <<CompletionBh>> ELSE <<>>)
                  \o rq_list
    /\ UNCHANGED <<ctl_list, ctl_run, rq_run, bio_list>>

-----------------------------------------------------------------------------

SchedInit ==
    /\ Init
    /\ ctl_list = <<WorkBh>> /\ ctl_run = <<>>
    /\ rq_list = <<>> /\ rq_run = <<>> /\ bio_list = Zero

CtlThread == CtlTake \/ CtlRun
RqThread == RqRun \/ RqStealCompletions
            \/ \E v \in Vring : RqStopDrained(v) \/ RqComplete(v)

SchedNext ==
    \/ StopCalled \/ StartFailed
    \/ CtlThread \/ CtlEvent
    \/ RqTake \/ RqThread
    \/ \E v \in Vring : RqEvent(v) \/ RqDequeue(v) \/ Complete(v)

\* The control thread keeps running its BHs; io events come when they may.
\* Every vhd_run_queue begins with bh_poll: rq takes its BHs again and again,
\* though not while requests are waiting to be dequeued (SF).  Its user
\* dequeues what is queued, and the backend completes what it took.
SchedFairness ==
    /\ WF_schedVars(CtlThread)
    /\ WF_schedVars(RqThread)
    /\ SF_schedVars(RqTake)
    /\ \A v \in Vring : WF_schedVars(RqDequeue(v)) /\ WF_schedVars(Complete(v))

SchedSpec == SchedInit /\ [][SchedNext]_schedVars
FairSpec == SchedSpec /\ SchedFairness

-----------------------------------------------------------------------------

\* A message that BHs complete could not be answered: the client is
\* disconnected, nothing is left to do for the message, and req stays.
Unanswered ==
    /\ vdev.req # None /\ vdev.conn_handler = "null"
    /\ vdev.num_vrings_handling_msg = 0 /\ vdev.handle_complete = None
    /\ vdev.on_drain_cb = NoVring

\* Every message is handled to its end, also when the device is stopped
\* meanwhile: req goes back to VHOST_USER_NONE, unless the reply cannot be sent.
MessagesHandled == vdev.req # None ~> (vdev.req = None \/ Unanswered)

\* The process died of the assertion that CleanedUpIdle is about.
Died == ~CleanedUpIdle

\* vdev_drained closed the connection but could not attach listen_handler.
ListenLost == vdev.listen_handler = "detached" /\ ~vdev.connfd

\* A device that lost its client is drained and accepts the next one, unless
\* it is being stopped or vdev_drained could not attach listen_handler.
Relistens == (vdev.connfd /\ vdev.conn_handler = "null")
                 ~> \/ vdev.listen_handler = "attached" \/ ListenLost
                    \/ vdev.user # "running" \/ Died

\* vhd_vdev_stop_server returns.
StopReturns == vdev.user = "stop_called" ~> (vdev.user = "stopped" \/ Died)

\* A stopped device is released, and release_cb called.
StopReleases == vdev.user = "stop_called" ~> vdev.released
=============================================================================
