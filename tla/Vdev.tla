-------------------------------- MODULE Vdev --------------------------------
(***************************************************************************)
(* The life of one vhost device (vdev.c): the control event loop that      *)
(* accepts a client, handles its vhost-user messages and shuts the device  *)
(* down; the request queue event loop (rq) that runs the vrings; and the   *)
(* bottom halves (BHs) the two loops schedule on each other.               *)
(*                                                                         *)
(* A callback of either loop is one action.  The state it shares with the  *)
(* callbacks of its own thread is `vdev' (control) or `vring' (rq).  An    *)
(* iteration of an event loop takes all BHs scheduled so far, runs them    *)
(* and then handles io events.  BHs are kept as numbers of instances: the  *)
(* control loop runs those it took in any order, rq runs those scheduled   *)
(* in any order at any time.  VdevSched adds the exact order.              *)
(*                                                                         *)
(* Operators over a parameter d are the functions of vdev.c on the control *)
(* state, and have the names of the source.                                *)
(***************************************************************************)
EXTENDS Integers, FiniteSets

CONSTANTS
    Vring,          \* the vrings of the device (vdev->vrings)
    Msgs,           \* the vhost-user requests the client sends
    MaxInFlight,    \* bound on the requests in flight of one vring
    StopServer,     \* the external context calls vhd_vdev_stop_server
    SendFails,      \* sending a reply may fail (the client is gone)
    AttachFails,    \* adding an io handler to an event loop may fail
    LeavesQueued    \* vhd_run_queue may be called with requests still queued

None == "none"

ReplyMsgs == {"GET_FEATURES", "GET_PROTOCOL_FEATURES", "GET_CONFIG",
              "GET_QUEUE_NUM"}
AllMsgs == ReplyMsgs \cup
    {"SET_OWNER", "SET_FEATURES", "SET_PROTOCOL_FEATURES", "SET_MEM_TABLE",
     "SET_LOG_BASE", "SET_VRING_NUM", "SET_VRING_BASE", "SET_VRING_ADDR",
     "SET_VRING_CALL", "SET_VRING_ERR", "SET_VRING_KICK", "GET_VRING_BASE",
     "GET_INFLIGHT_FD", "SET_INFLIGHT_FD"}

ASSUME VringAssumption == IsFiniteSet(Vring) /\ None \notin Vring
ASSUME MsgsAssumption == Msgs \subseteq AllMsgs
ASSUME MaxInFlightAssumption == MaxInFlight \in Nat
ASSUME EnvAssumption == {StopServer, SendFails, AttachFails, LeavesQueued}
                            \subseteq BOOLEAN

VARIABLES
    vdev,        \* struct vhd_vdev, and the fields of struct vhd_vring that
                 \* the control event loop owns, as functions of the vring
    vring,       \* the fields of struct vhd_vring that rq owns
    ctl_bh,      \* BHs scheduled on the control event loop
    ctl_batch,   \* BHs bh_poll of the control event loop took, still to run
    stopping,    \* the vring that rq, in vring_stop_bh, has still to report
                 \* drained, if any
    queued,      \* requests in rq->submission, by vring
    backend,     \* requests taken by vhd_dequeue_request, not yet completed
    completion,  \* requests in rq->completion
    canceled     \* (history) requests canceled since the vring was started

vars == <<vdev, vring, ctl_bh, ctl_batch, stopping, queued, backend, completion, canceled>>

CtlFn == {"vring_mark_msg_handled_bh", "vring_start_failed_bh",
          "vring_mark_stopped_bh", "vring_mark_drained_bh"}
HandlerState == {"null", "attached", "detached"}
Completes == {"set_features_complete", "set_mem_table_complete",
              "set_log_base_complete", "set_vring_call_complete",
              "set_vring_err_complete", "set_vring_addr_complete",
              "set_vring_kick_complete", "set_vring_kick_fail_complete"}

Places == {"vdev_complete_work", "vdev_cleanup", "vdev_cleanup_req",
           "vring_mark_msg_handled", "vhost_set_vring_kick",
           "vring_mark_stopped", "vring_mark_drained", "vring_start_bh",
           "vhost_set_vring_call", "vhost_set_vring_err", "server_read",
           "vhd_cancel_queued_requests", "use_after_free"}

Zero == [v \in Vring |-> 0]
NoVring == [v \in Vring |-> FALSE]

\* The fields of struct vhd_vdev and, as functions of the vring, the control
\* side of struct vhd_vring.  vring_*_bh are the BHs scheduled on rq.
\*   held   what a message parked until its handle_complete: old_memmap,
\*          old_memlog or keep_fd
\*   user   the external context: the call it is in, or what became of it
\*   fault  where the process died: a failed VHD_ASSERT, a null pointer or
\*          a use of freed memory
VdevType == [
    listen_handler : HandlerState,
    conn_handler   : HandlerState,
    connfd         : BOOLEAN,
    req            : AllMsgs \cup {None},
    ack_pending    : BOOLEAN,
    handle_complete: Completes \cup {None},
    held           : {None, "old_memmap", "old_memlog", "keep_fd"},
    num_vrings_handling_msg : Nat,
    num_vrings_started      : Nat,
    num_vrings_in_flight    : Nat,
    work           : BOOLEAN,
    user           : {"start_called", "start_failed", "running",
                      "stop_called", "stopped"},
    released       : BOOLEAN,
    fault          : Places \cup {None},
    started_in_ctl : [Vring -> BOOLEAN],
    disconnecting  : [Vring -> BOOLEAN],
    on_drain_cb    : [Vring -> BOOLEAN],
    kickfd         : [Vring -> BOOLEAN],
    vring_start_bh : [Vring -> Nat],
    vring_sync_to_virtq_bh : [Vring -> Nat],
    vring_stop_bh  : [Vring -> Nat],
    work_bh        : BOOLEAN]

VringType == [started_in_rq : BOOLEAN,
              kick_handler  : HandlerState,
              num_in_flight : Nat]

-----------------------------------------------------------------------------
(* Control-plane functions of vdev.c. *)

Fault(d, where) == [d EXCEPT !.fault = where]

\* The result of a function that returns int: the state it leaves and
\* whether it succeeded.
Ok(d)  == [dev |-> d, ok |-> TRUE]
Err(d) == [dev |-> d, ok |-> FALSE]

\* vhd_complete_work dereferences the work: there must be one.
vdev_complete_work(d, ret) ==
    IF ~d.work
    THEN Fault(d, "vdev_complete_work")
    ELSE [d EXCEPT !.work = FALSE, !.user = ret]

vdev_vrings_stopped(d) ==
    IF d.listen_handler = "null" THEN vdev_complete_work(d, "stopped") ELSE d

vdev_maybe_vrings_stopped(d) ==
    IF d.num_vrings_started = 0 THEN vdev_vrings_stopped(d) ELSE d

\* (mutant) A message the vrings are handling does not keep the device in use.
vdev_in_use_but_msg(d) ==
    d.num_vrings_in_flight # 0 \/ d.conn_handler # "null"

vdev_in_use(d) ==
    \/ d.num_vrings_in_flight # 0
    \/ d.num_vrings_handling_msg # 0
    \/ d.conn_handler # "null"

\* Asserts first; closing connfd stands for detaching from the client: the
\* memory map, the log and the inflight region are released with it.
vdev_cleanup(d) ==
    IF d.num_vrings_handling_msg # 0 \/ d.held # None
    THEN Fault(d, "vdev_cleanup")
    ELSE IF d.req # None THEN Fault(d, "vdev_cleanup_req")
    ELSE [d EXCEPT !.connfd = FALSE]

\* When listen_handler cannot be attached again, an error is logged and the
\* device stays without it.
vdev_drained(d, io) ==
    LET c == vdev_cleanup(d)
    IN  IF c.fault # None THEN c
        ELSE IF c.listen_handler = "null"
             THEN [c EXCEPT !.released = TRUE]
             ELSE [c EXCEPT !.listen_handler = IF io.attached THEN "attached"
                                                              ELSE @]

\* (mutant) Not postponed when the drained BH overtakes the stopped one.
vdev_maybe_drained_early(d, io) ==
    IF ~vdev_in_use(d) THEN vdev_drained(d, io) ELSE d

vdev_maybe_drained(d, io) ==
    IF ~vdev_in_use(d) /\ d.num_vrings_started = 0
    THEN vdev_drained(d, io)
    ELSE d

\* vring_disconnect on every vring: a started one is told to stop, the others
\* are reset.
vdev_disconnect(d, io) ==
    IF d.conn_handler = "null" THEN d
    ELSE LET e == [d EXCEPT
                     !.conn_handler = "null",
                     !.disconnecting = d.started_in_ctl,
                     !.kickfd = [v \in Vring |-> @[v] /\ d.started_in_ctl[v]],
                     !.vring_stop_bh = [v \in Vring |->
                         IF d.started_in_ctl[v] THEN @[v] + 1 ELSE @[v]]]
         IN  vdev_maybe_drained(vdev_maybe_vrings_stopped(e), io)

vdev_handle_start(d, m, ack) ==
    [d EXCEPT !.conn_handler = "detached", !.req = m, !.ack_pending = ack]

\* Nobody looks at whether conn_handler could be attached again.
vdev_handle_finish(d, io) ==
    [d EXCEPT !.ack_pending = FALSE, !.req = None,
              !.conn_handler = IF @ = "null" \/ ~io.attached THEN @
                                                             ELSE "attached"]

\* vhost_send_fds: when the message cannot be sent, its handling is not
\* finished here.
vhost_reply(d, io) ==
    IF io.sent THEN Ok(vdev_handle_finish(d, io)) ELSE Err(d)

\* (mutant) A message that needs no ack is not finished.
vhost_ack_unfinished(d, io) ==
    IF ~d.ack_pending THEN Ok(d) ELSE vhost_reply(d, io)

vhost_ack(d, io) ==
    IF ~d.ack_pending THEN Ok(vdev_handle_finish(d, io))
                      ELSE vhost_reply(d, io)

\* (mutant) A vring is counted before it is seen not to be started.
vring_handle_msg_counted(d, S) ==
    LET T == {v \in S : d.started_in_ctl[v]}
    IN  [d EXCEPT
           !.num_vrings_handling_msg = @ + Cardinality(S),
           !.vring_sync_to_virtq_bh = [v \in Vring |->
               IF v \in T THEN @[v] + 1 ELSE @[v]]]

\* vring_handle_msg(vring_sync_to_virtq_bh) on the vrings in S.
vring_handle_msg(d, S) ==
    LET T == {v \in S : d.started_in_ctl[v]}
    IN  [d EXCEPT
           !.num_vrings_handling_msg = @ + Cardinality(T),
           !.vring_sync_to_virtq_bh = [v \in Vring |->
               IF v \in T THEN @[v] + 1 ELSE @[v]]]

\* The set_*_complete functions: release what was parked, then ack; only
\* SET_LOG_BASE always replies.
complete_msg(d, fn, io) ==
    LET e == [d EXCEPT !.held = None]
    IN  IF fn = "set_log_base_complete" THEN vhost_reply(e, io)
                                        ELSE vhost_ack(e, io)

vring_mark_msg_handled(d, io) ==
    IF d.num_vrings_handling_msg = 0 THEN Fault(d, "vring_mark_msg_handled")
    ELSE LET e == [d EXCEPT !.num_vrings_handling_msg = @ - 1]
             r == complete_msg(e, e.handle_complete, io)
             f == [r.dev EXCEPT !.handle_complete = None]
         IN  IF e.num_vrings_handling_msg # 0 THEN e
             ELSE IF e.handle_complete = None
                  THEN Fault(e, "vring_mark_msg_handled")
             ELSE IF r.ok THEN f ELSE vdev_disconnect(f, io)

\* (mutant) A drain that was postponed is not caught up with.
vring_mark_stopped_undrained(d, io) ==
    IF d.num_vrings_started = 0 THEN Fault(d, "vring_mark_stopped")
    ELSE vdev_maybe_vrings_stopped([d EXCEPT !.num_vrings_started = @ - 1])

\* (mutant) The last vring to stop does not complete the work.
vring_mark_stopped_silent(d, io) ==
    IF d.num_vrings_started = 0 THEN Fault(d, "vring_mark_stopped")
    ELSE vdev_maybe_drained([d EXCEPT !.num_vrings_started = @ - 1], io)

vring_mark_stopped(d, io) ==
    IF d.num_vrings_started = 0 THEN Fault(d, "vring_mark_stopped")
    ELSE vdev_maybe_drained(vdev_maybe_vrings_stopped(
             [d EXCEPT !.num_vrings_started = @ - 1]), io)

\* on_drain_cb is vhost_send_vring_base when GET_VRING_BASE waits for the
\* drain.
on_drain(d, v, io) ==
    LET r == vhost_reply(d, io)
        e == [r.dev EXCEPT !.on_drain_cb[v] = FALSE]
    IN  IF ~d.on_drain_cb[v] THEN d
        ELSE IF r.ok THEN e ELSE vdev_disconnect(e, io)

vring_mark_drained(d, v, io) ==
    IF ~d.started_in_ctl[v] \/ d.num_vrings_in_flight = 0
    THEN Fault(d, "vring_mark_drained")
    ELSE LET e == on_drain([d EXCEPT !.started_in_ctl[v] = FALSE], v, io)
         IN  vdev_maybe_drained(
                 [e EXCEPT !.disconnecting[v] = FALSE,   \* vring_reset
                           !.kickfd[v] = FALSE,
                           !.num_vrings_in_flight = @ - 1], io)

vring_start_failed(d, v, io) ==
    vring_mark_drained(
        vring_mark_stopped(
            vring_mark_msg_handled(
                [d EXCEPT !.handle_complete = "set_vring_kick_fail_complete"],
                io), io),
        v, io)

-----------------------------------------------------------------------------
(* Message handlers.  A handler that refuses a message returns an error.   *)
(* Payload validation is left to the client: see ConnReject.               *)

vhost_set_protocol_features(d, io) ==
    IF d.num_vrings_in_flight # 0 THEN Err(d) ELSE vhost_ack(d, io)

vhost_get_inflight_fd(d, io) ==
    IF d.num_vrings_in_flight # 0 THEN Err(d) ELSE vhost_reply(d, io)

vhost_set_inflight_fd(d, io) ==
    IF d.num_vrings_in_flight # 0 THEN Err(d) ELSE vhost_ack(d, io)

vhost_set_vring_num(d, v, io) ==
    IF d.started_in_ctl[v] THEN Err(d) ELSE vhost_ack(d, io)

vhost_set_vring_base(d, v, io) ==
    IF d.started_in_ctl[v] THEN Err(d) ELSE vhost_ack(d, io)

\* A message all vrings handle before it is complete: fn completes it,
\* parked is what it keeps until then.
handle_in_vrings(d, S, fn, parked, inline, io) ==
    LET e == [d EXCEPT !.held = parked]
    IN  IF inline THEN complete_msg(e, fn, io)
        ELSE Ok(vring_handle_msg([e EXCEPT !.handle_complete = fn], S))

vhost_set_features(d, io) ==
    handle_in_vrings(d, Vring, "set_features_complete", None,
                     d.num_vrings_in_flight = 0, io)

vhost_set_mem_table(d, io) ==
    handle_in_vrings(d, Vring, "set_mem_table_complete", "old_memmap",
                     d.num_vrings_in_flight = 0, io)

vhost_set_log_base(d, io) ==
    handle_in_vrings(d, Vring, "set_log_base_complete", "old_memlog",
                     d.num_vrings_in_flight = 0, io)

vhost_set_vring_call(d, v, io) ==
    IF d.held = "keep_fd" THEN Ok(Fault(d, "vhost_set_vring_call"))
    ELSE handle_in_vrings(d, {v}, "set_vring_call_complete", "keep_fd",
                          ~d.started_in_ctl[v], io)

vhost_set_vring_err(d, v, io) ==
    IF d.held = "keep_fd" THEN Ok(Fault(d, "vhost_set_vring_err"))
    ELSE handle_in_vrings(d, {v}, "set_vring_err_complete", "keep_fd",
                          ~d.started_in_ctl[v], io)

vhost_set_vring_addr(d, v, io) ==
    handle_in_vrings(d, {v}, "set_vring_addr_complete", None,
                     ~d.started_in_ctl[v], io)

vhost_set_vring_kick(d, v) ==
    IF d.started_in_ctl[v] THEN Err(d)
    ELSE IF d.kickfd[v] THEN Ok(Fault(d, "vhost_set_vring_kick"))
    ELSE Ok([d EXCEPT !.kickfd[v] = TRUE,
                      !.started_in_ctl[v] = TRUE,
                      !.num_vrings_started = @ + 1,
                      !.num_vrings_in_flight = @ + 1,
                      !.handle_complete = "set_vring_kick_complete",
                      !.num_vrings_handling_msg = @ + 1,
                      !.vring_start_bh[v] = @ + 1])

vhost_get_vring_base(d, v, io) ==
    IF ~d.started_in_ctl[v] THEN vhost_reply(d, io)
    ELSE Ok([d EXCEPT !.on_drain_cb[v] = TRUE, !.vring_stop_bh[v] = @ + 1])

vhost_handle_msg(d, m, v, io) ==
    CASE m \in ReplyMsgs -> vhost_reply(d, io)
      [] m = "SET_OWNER" -> vhost_ack(d, io)
      [] m = "SET_PROTOCOL_FEATURES" -> vhost_set_protocol_features(d, io)
      [] m = "SET_FEATURES" -> vhost_set_features(d, io)
      [] m = "SET_MEM_TABLE" -> vhost_set_mem_table(d, io)
      [] m = "SET_LOG_BASE" -> vhost_set_log_base(d, io)
      [] m = "SET_VRING_NUM" -> vhost_set_vring_num(d, v, io)
      [] m = "SET_VRING_BASE" -> vhost_set_vring_base(d, v, io)
      [] m = "SET_VRING_ADDR" -> vhost_set_vring_addr(d, v, io)
      [] m = "SET_VRING_CALL" -> vhost_set_vring_call(d, v, io)
      [] m = "SET_VRING_ERR" -> vhost_set_vring_err(d, v, io)
      [] m = "SET_VRING_KICK" -> vhost_set_vring_kick(d, v)
      [] m = "GET_VRING_BASE" -> vhost_get_vring_base(d, v, io)
      [] m = "GET_INFLIGHT_FD" -> vhost_get_inflight_fd(d, io)
      [] m = "SET_INFLIGHT_FD" -> vhost_set_inflight_fd(d, io)

-----------------------------------------------------------------------------
(* The control event loop. *)

Alive == vdev.fault = None

\* What the system calls of a callback return: whether its reply is sent, and
\* whether the io handler it attaches is added to the event loop.  No callback
\* attaches two handlers that are both still there when it returns.
SendResult == IF SendFails THEN BOOLEAN ELSE {TRUE}
AttachResult == IF AttachFails THEN BOOLEAN ELSE {TRUE}
IoResult == [sent : SendResult, attached : AttachResult]

rqVars == <<vring, stopping, queued, backend, completion, canceled>>

\* Callbacks run on a device that has been freed use freed memory.
Run(d) == IF vdev.released THEN Fault(d, "use_after_free") ELSE d

vdev_start(d, io) ==
    IF io.attached
    THEN vdev_complete_work([d EXCEPT !.listen_handler = "attached"], "running")
    ELSE vdev_complete_work(d, "start_failed")

vdev_stop(d, io) ==
    LET e == [d EXCEPT !.listen_handler = "null"]
    IN  IF e.conn_handler # "null"
        THEN vdev_disconnect(e, io)
        ELSE vdev_maybe_drained(vdev_maybe_vrings_stopped(e), io)

NoBhs == [fn \in CtlFn |-> Zero]

\* bh_poll takes the BHs scheduled so far; io events are handled once they
\* have all run.
CtlPoll ==
    /\ Alive /\ ctl_batch = NoBhs /\ ctl_bh # NoBhs
    /\ ctl_batch' = ctl_bh
    /\ ctl_bh' = NoBhs
    /\ UNCHANGED <<rqVars, vdev>>

HandlingEvents == Alive /\ ctl_batch = NoBhs

\* The BH of the work vhd_vdev_init_server or vhd_vdev_stop_server waits for;
\* one caller, so that -EBUSY is not returned.
vdev_work_fn ==
    /\ Alive /\ vdev.work_bh /\ ~vdev.work
    /\ LET d == [vdev EXCEPT !.work_bh = FALSE, !.work = TRUE]
       IN  \E io \in IoResult :
              \/ vdev.user = "start_called" /\ vdev' = vdev_start(d, io)
              \/ vdev.user = "stop_called" /\ vdev' = Run(vdev_stop(d, io))
    /\ UNCHANGED <<rqVars, ctl_bh, ctl_batch>>

vhd_vdev_stop_server ==
    /\ Alive /\ StopServer /\ vdev.user = "running"
    /\ vdev' = [vdev EXCEPT !.user = "stop_called", !.work_bh = TRUE]
    /\ UNCHANGED <<rqVars, ctl_bh, ctl_batch>>

\* vhd_vdev_init_server releases the device it could not start.
vhd_vdev_release ==
    /\ Alive /\ vdev.user = "start_failed" /\ ~vdev.released
    /\ vdev' = [vdev EXCEPT !.released = TRUE]
    /\ UNCHANGED <<rqVars, ctl_bh, ctl_batch>>

server_read ==
    /\ HandlingEvents /\ vdev.listen_handler = "attached"
    /\ vdev' = IF vdev.connfd THEN Fault(vdev, "server_read")
               ELSE [vdev EXCEPT !.listen_handler = "detached",
                                 !.connfd = TRUE,
                                 !.conn_handler = "attached"]
    /\ UNCHANGED <<rqVars, ctl_bh, ctl_batch>>

\* A message the handler accepts as well formed.
conn_read(m, v, ack, io) ==
    /\ HandlingEvents /\ vdev.conn_handler = "attached"
    /\ LET d == vdev_handle_start(vdev, m, ack)
           r == vhost_handle_msg(d, m, v, io)
       IN  vdev' = IF r.ok THEN r.dev
                   ELSE vdev_disconnect(vdev_handle_finish(r.dev, io), io)
    /\ UNCHANGED <<rqVars, ctl_bh, ctl_batch>>

\* The handler returns an error before it changes anything: a malformed or
\* unsupported message, or a system call that failed.
ConnReject(m, ack, io) ==
    /\ HandlingEvents /\ vdev.conn_handler = "attached"
    /\ vdev' = vdev_disconnect(vdev_handle_finish(
                   vdev_handle_start(vdev, m, ack), io), io)
    /\ UNCHANGED <<rqVars, ctl_bh, ctl_batch>>

\* net_recv_msg fails: the client has closed its end.
ConnHangup(io) ==
    /\ HandlingEvents /\ vdev.conn_handler = "attached"
    /\ vdev' = vdev_disconnect(vdev, io)
    /\ UNCHANGED <<rqVars, ctl_bh, ctl_batch>>

\* Run one BH fn of v on the control event loop.
CtlBh(fn, v) ==
    /\ Alive /\ ctl_batch[fn][v] > 0
    /\ ctl_batch' = [ctl_batch EXCEPT ![fn][v] = @ - 1]
    /\ UNCHANGED <<rqVars, ctl_bh>>

vring_mark_msg_handled_bh(v, io) ==
    /\ CtlBh("vring_mark_msg_handled_bh", v)
    /\ vdev' = Run(vring_mark_msg_handled(vdev, io))

vring_start_failed_bh(v, io) ==
    /\ CtlBh("vring_start_failed_bh", v)
    /\ vdev' = Run(vring_start_failed(vdev, v, io))

vring_mark_stopped_bh(v, io) ==
    /\ CtlBh("vring_mark_stopped_bh", v)
    /\ vdev' = Run(vring_mark_stopped(vdev, io))

vring_mark_drained_bh(v, io) ==
    /\ CtlBh("vring_mark_drained_bh", v)
    /\ vdev' = Run(vring_mark_drained(vdev, v, io))

-----------------------------------------------------------------------------
(* The request queue: its event loop, its user and the backend. *)

\* vhd_run_in_ctl, n times.
RunInCtl(b, fn, v, n) == [b EXCEPT ![fn][v] = @ + n]

\* BHs run in vhd_run_queue.  Unless the user leaves requests queued, it has
\* dequeued them all before it calls vhd_run_queue again.
RqIdle == Alive /\ stopping = None
InRunQueue == RqIdle /\ (LeavesQueued \/ queued = Zero)

reqVars == <<stopping, ctl_batch, queued, backend, completion>>

vring_start_bh(v) ==
    /\ InRunQueue /\ vdev.vring_start_bh[v] > 0
    /\ LET d == [vdev EXCEPT !.vring_start_bh[v] = @ - 1]
       IN  vdev' = IF vring[v].started_in_rq THEN Fault(d, "vring_start_bh")
                                             ELSE Run(d)
    /\ \/ /\ vdev.disconnecting[v] \/ AttachFails
          /\ ctl_bh' = RunInCtl(ctl_bh, "vring_start_failed_bh", v, 1)
          /\ UNCHANGED <<vring, canceled>>
       \/ /\ ~vdev.disconnecting[v]
          /\ vring' = [vring EXCEPT ![v].kick_handler = "attached",
                                    ![v].started_in_rq = TRUE]
          /\ ctl_bh' = RunInCtl(ctl_bh, "vring_mark_msg_handled_bh", v, 1)
          /\ canceled' = [canceled EXCEPT ![v] = 0]
    /\ UNCHANGED reqVars

vring_sync_to_virtq_bh(v) ==
    /\ InRunQueue /\ vdev.vring_sync_to_virtq_bh[v] > 0
    /\ vdev' = Run([vdev EXCEPT !.vring_sync_to_virtq_bh[v] = @ - 1])
    /\ ctl_bh' = RunInCtl(ctl_bh, "vring_mark_msg_handled_bh", v, 1)
    /\ UNCHANGED <<rqVars, ctl_batch>>

\* What vhd_cancel_queued_requests may do to n queued requests of one vring.
\* Having removed a request, the loop goes on after the next one: of a run of
\* adjacent requests of the vring it cancels every other.  The queue is shared
\* with the other vrings and devices of rq, so the runs may be of any lengths:
\* k of the n are canceled, at least half.  When the request removed is the
\* last of the queue, the loop follows a null pointer; a run of even length
\* does not end so.
CancelOutcomes(n) ==
    {o \in [k : 0 .. n, null : BOOLEAN] :
        /\ 2 * o.k >= n
        /\ o.null => 2 * o.k > n}

\* (mutant) The vring is reported drained whatever it has in flight.
vring_stop_bh_at_once(v) ==
    /\ InRunQueue /\ vdev.vring_stop_bh[v] > 0 /\ vring[v].started_in_rq
    /\ vdev' = Run([vdev EXCEPT !.vring_stop_bh[v] = @ - 1])
    /\ vring' = [vring EXCEPT ![v].started_in_rq = FALSE,
                              ![v].kick_handler = "null"]
    /\ ctl_bh' = RunInCtl(ctl_bh, "vring_mark_stopped_bh", v, 1)
    /\ stopping' = v
    /\ UNCHANGED <<ctl_batch, queued, backend, completion, canceled>>

\* dec_in_flight of the canceled requests schedules the drained BH when it
\* gets to zero.  vring_stop_bh then schedules the stopped BH and, in a step
\* of its own, the drained one.
vring_stop_bh(v) ==
    /\ InRunQueue /\ vdev.vring_stop_bh[v] > 0
    /\ LET d == [vdev EXCEPT !.vring_stop_bh[v] = @ - 1]
       IN  \/ /\ vdev.released \/ ~vring[v].started_in_rq
              /\ vdev' = Run(d)
              /\ UNCHANGED <<vring, stopping, ctl_bh, queued, canceled>>
           \/ /\ ~vdev.released /\ vring[v].started_in_rq
              /\ \E o \in CancelOutcomes(IF vdev.disconnecting[v]
                                         THEN queued[v] ELSE 0) :
                    LET n == vring[v].num_in_flight - o.k
                    IN  /\ vdev' = IF o.null
                                   THEN Fault(d, "vhd_cancel_queued_requests")
                                   ELSE d
                        /\ vring' = [vring EXCEPT
                               ![v] = [started_in_rq |-> FALSE,
                                       kick_handler  |-> "null",
                                       num_in_flight |-> n]]
                        /\ queued' = [queued EXCEPT ![v] = @ - o.k]
                        /\ canceled' = [canceled EXCEPT ![v] = @ + o.k]
                        /\ ctl_bh' = RunInCtl(
                               RunInCtl(ctl_bh, "vring_mark_stopped_bh", v, 1),
                               "vring_mark_drained_bh", v,
                               IF o.k > 0 /\ n = 0 THEN 1 ELSE 0)
                        /\ stopping' = IF n = 0 THEN v ELSE None
    /\ UNCHANGED <<ctl_batch, backend, completion>>

StopBhDrained(v) ==
    /\ Alive /\ stopping = v
    /\ stopping' = None
    /\ ctl_bh' = RunInCtl(ctl_bh, "vring_mark_drained_bh", v, 1)
    /\ UNCHANGED <<vdev, vring, ctl_batch, queued, backend, completion, canceled>>

\* One request of the completion list; the last one of a stopped vring
\* schedules its drained BH (vhd_vring_dec_in_flight).
rq_complete_bh(v) ==
    /\ InRunQueue /\ completion[v] > 0
    /\ LET n == vring[v].num_in_flight - 1
       IN  /\ vring' = [vring EXCEPT ![v].num_in_flight = n]
           /\ ctl_bh' = RunInCtl(ctl_bh, "vring_mark_drained_bh", v,
                  IF n = 0 /\ ~vring[v].started_in_rq THEN 1 ELSE 0)
    /\ completion' = [completion EXCEPT ![v] = @ - 1]
    /\ vdev' = Run(vdev)
    /\ UNCHANGED <<stopping, ctl_batch, queued, backend, canceled>>

\* (mutant) A request is queued without vhd_vring_inc_in_flight.
vring_kick_uncounted(v, n) ==
    /\ RqIdle /\ vring[v].kick_handler = "attached"
    /\ n > 0 /\ queued[v] + n <= MaxInFlight
    /\ queued' = [queued EXCEPT ![v] = @ + n]
    /\ vdev' = Run(vdev)
    /\ UNCHANGED <<vring, stopping, ctl_bh, ctl_batch, backend, completion, canceled>>

\* The guest kicked the vring: n new requests are fetched and queued.  When
\* dispatch_requests fails on the way, the vring is suspended.
vring_kick(v, n) ==
    /\ RqIdle /\ vring[v].kick_handler = "attached"
    /\ vring[v].num_in_flight + n <= MaxInFlight
    /\ \E handler \in {"attached", "detached"} :
          vring' = [vring EXCEPT ![v].num_in_flight = @ + n,
                                 ![v].kick_handler = handler]
    /\ queued' = [queued EXCEPT ![v] = @ + n]
    /\ vdev' = Run(vdev)
    /\ UNCHANGED <<stopping, ctl_bh, ctl_batch, backend, completion, canceled>>

vhd_dequeue_request(v) ==
    /\ RqIdle /\ queued[v] > 0
    /\ queued' = [queued EXCEPT ![v] = @ - 1]
    /\ backend' = [backend EXCEPT ![v] = @ + 1]
    /\ vdev' = Run(vdev)
    /\ UNCHANGED <<vring, stopping, ctl_bh, ctl_batch, completion, canceled>>

vhd_complete_bio(v) ==
    /\ Alive /\ backend[v] > 0
    /\ backend' = [backend EXCEPT ![v] = @ - 1]
    /\ completion' = [completion EXCEPT ![v] = @ + 1]
    /\ vdev' = Run(vdev)
    /\ UNCHANGED <<vring, stopping, ctl_bh, ctl_batch, queued, canceled>>

-----------------------------------------------------------------------------

Init ==
    /\ vdev = [
         listen_handler |-> "null", conn_handler |-> "null", connfd |-> FALSE,
         req |-> None, ack_pending |-> FALSE, handle_complete |-> None,
         held |-> None, num_vrings_handling_msg |-> 0,
         num_vrings_started |-> 0, num_vrings_in_flight |-> 0,
         work |-> FALSE, user |-> "start_called", released |-> FALSE,
         fault |-> None, started_in_ctl |-> NoVring,
         disconnecting |-> NoVring, on_drain_cb |-> NoVring,
         kickfd |-> NoVring,
         vring_start_bh |-> Zero, vring_sync_to_virtq_bh |-> Zero,
         vring_stop_bh |-> Zero, work_bh |-> TRUE]
    /\ vring = [v \in Vring |-> [started_in_rq |-> FALSE,
                                 kick_handler  |-> "null",
                                 num_in_flight |-> 0]]
    /\ ctl_bh = NoBhs /\ ctl_batch = NoBhs /\ stopping = None
    /\ queued = Zero /\ backend = Zero /\ completion = Zero
    /\ canceled = Zero

External == vhd_vdev_stop_server \/ vhd_vdev_release

Client ==
    \/ server_read
    \/ \E io \in IoResult :
          \/ ConnHangup(io)
          \/ \E m \in Msgs, ack \in BOOLEAN :
                \/ ConnReject(m, ack, io)
                \/ \E v \in Vring : conn_read(m, v, ack, io)

CtlBhs(v) ==
    \E io \in IoResult :
        \/ vring_mark_msg_handled_bh(v, io)
        \/ vring_start_failed_bh(v, io)
        \/ vring_mark_stopped_bh(v, io)
        \/ vring_mark_drained_bh(v, io)

RqBhs(v) ==
    \/ vring_start_bh(v)
    \/ vring_sync_to_virtq_bh(v)
    \/ vring_stop_bh(v)
    \/ StopBhDrained(v)
    \/ rq_complete_bh(v)

Requests(v) ==
    \/ \E n \in 0 .. MaxInFlight : vring_kick(v, n)
    \/ vhd_dequeue_request(v)
    \/ vhd_complete_bio(v)

Next ==
    \/ External
    \/ Client
    \/ vdev_work_fn
    \/ CtlPoll
    \/ \E v \in Vring : CtlBhs(v) \/ RqBhs(v) \/ Requests(v)

Spec == Init /\ [][Next]_vars

-----------------------------------------------------------------------------
(* Safety. *)

TypeOK ==
    /\ vdev \in VdevType
    /\ vring \in [Vring -> VringType]
    /\ ctl_bh \in [CtlFn -> [Vring -> Nat]]
    /\ ctl_batch \in [CtlFn -> [Vring -> Nat]]
    /\ stopping \in Vring \cup {None}
    /\ queued \in [Vring -> Nat]
    /\ backend \in [Vring -> Nat]
    /\ completion \in [Vring -> Nat]
    /\ canceled \in [Vring -> Nat]

\* num_in_flight of a vring counts its requests, wherever they are: in
\* rq->submission, in the backend or in rq->completion.
RequestsAccounted ==
    \A v \in Vring :
        vring[v].num_in_flight = queued[v] + backend[v] + completion[v]

\* The instances of a control BH of v that have not run yet.
Bhs(fn, v) == ctl_bh[fn][v] + ctl_batch[fn][v]

\* The acknowledgements the control event loop still has to get from v: that
\* it handled the message, that it stopped, that it drained.
MsgAcks(v) == vdev.vring_start_bh[v] + vdev.vring_sync_to_virtq_bh[v]
              + Bhs("vring_start_failed_bh", v)
              + Bhs("vring_mark_msg_handled_bh", v)
StopAcks(v) == vdev.vring_start_bh[v] + Bhs("vring_start_failed_bh", v)
               + (IF vring[v].started_in_rq THEN 1 ELSE 0)
               + Bhs("vring_mark_stopped_bh", v)
DrainAcks(v) == vdev.vring_start_bh[v] + Bhs("vring_start_failed_bh", v)
                + (IF \/ vring[v].started_in_rq \/ vring[v].num_in_flight > 0
                      \/ stopping = v
                   THEN 1 ELSE 0)
                + Bhs("vring_mark_drained_bh", v)

\* The three counters of struct vhd_vdev count exactly the vrings whose
\* acknowledgement is outstanding, and no vring owes the same one twice,
\* however the BHs are reordered (the comment above vring_handle_msg).  This is
\* so unless LeavesQueued: a vring that cancels its last requests while it stops
\* is reported drained twice.
CountersExact ==
    \/ ~Alive
    \/ /\ \A v \in Vring : /\ MsgAcks(v) <= 1 /\ StopAcks(v) <= 1
                           /\ DrainAcks(v) = IF vdev.started_in_ctl[v]
                                             THEN 1 ELSE 0
       /\ vdev.num_vrings_handling_msg =
              Cardinality({v \in Vring : MsgAcks(v) = 1})
       /\ vdev.num_vrings_started =
              Cardinality({v \in Vring : StopAcks(v) = 1})
       /\ vdev.num_vrings_in_flight =
              Cardinality({v \in Vring : vdev.started_in_ctl[v]})

\* VHD_ASSERT(vdev->req == VHOST_USER_NONE) of vdev_cleanup holds: no message
\* is left unfinished when the device is drained.
CleanedUpIdle == vdev.fault # "vdev_cleanup_req"

\* Every other VHD_ASSERT of vdev.c holds, and no null work or handle_complete
\* is called, whatever the order of BHs, messages, disconnect and stop, and
\* whether or not replies are sent and handlers attached.
AssertionsHold == vdev.fault \in {None, "vdev_cleanup_req", "use_after_free"}

\* A vring is reported drained once: VHD_ASSERT(vring->started_in_ctl) of
\* vring_mark_drained holds.
DrainedOnce == vdev.fault # "vring_mark_drained"

\* No callback runs on a device that has been freed.
NoUseAfterFree == vdev.fault # "use_after_free"

\* A device that accepts a new client has no BH left from the previous one.
ListenClean ==
    vdev.listen_handler = "attached" => \A v \in Vring :
        /\ vdev.vring_start_bh[v] = 0 /\ vdev.vring_sync_to_virtq_bh[v] = 0
        /\ vdev.vring_stop_bh[v] = 0
        /\ \A fn \in CtlFn : Bhs(fn, v) = 0

\* Once vhd_vdev_stop_server has returned, no new request reaches the backend.
NoNewRequests ==
    [][vdev.user = "stopped" => \A v \in Vring : backend'[v] <= backend[v]]_vars

\* GET_VRING_BASE of a started vring is answered once all of its requests have
\* been completed to the client: none is in flight and none was canceled.  Only
\* queued requests are canceled, and vring_stop_bh finds some only if
\* LeavesQueued: without it the second half says nothing.
BaseAfterDrain ==
    [][\A v \in Vring : vdev.on_drain_cb[v] /\ ~vdev'.on_drain_cb[v] =>
           vring[v].num_in_flight = 0 /\ canceled[v] = 0]_vars

=============================================================================
