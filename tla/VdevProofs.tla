----------------------------- MODULE VdevProofs -----------------------------
(***************************************************************************)
(* Proofs about Vdev, for any number of vrings, any bound on the requests  *)
(* in flight and any environment.                                          *)
(***************************************************************************)
EXTENDS Vdev, TLAPS

-----------------------------------------------------------------------------
(* The functions of vdev.c keep the type of the control state. *)

Result == [dev : VdevType, ok : BOOLEAN]

\* Assigning a value of its type to a field keeps the type.
LEMMA FieldType ==
  ASSUME NEW d \in VdevType
  PROVE  /\ \A x \in HandlerState :
               [d EXCEPT !.listen_handler = x] \in VdevType
         /\ \A x \in HandlerState :
               [d EXCEPT !.conn_handler = x] \in VdevType
         /\ \A x \in BOOLEAN :
               [d EXCEPT !.connfd = x] \in VdevType
         /\ \A x \in AllMsgs \cup {None} :
               [d EXCEPT !.req = x] \in VdevType
         /\ \A x \in BOOLEAN :
               [d EXCEPT !.ack_pending = x] \in VdevType
         /\ \A x \in Completes \cup {None} :
               [d EXCEPT !.handle_complete = x] \in VdevType
         /\ \A x \in {None, "old_memmap", "old_memlog", "keep_fd"} :
               [d EXCEPT !.held = x] \in VdevType
         /\ \A x \in Nat :
               [d EXCEPT !.num_vrings_handling_msg = x] \in VdevType
         /\ \A x \in Nat :
               [d EXCEPT !.num_vrings_started = x] \in VdevType
         /\ \A x \in Nat :
               [d EXCEPT !.num_vrings_in_flight = x] \in VdevType
         /\ \A x \in BOOLEAN :
               [d EXCEPT !.work = x] \in VdevType
         /\ \A x \in {"start_called", "start_failed", "running",
                   "stop_called", "stopped"} :
               [d EXCEPT !.user = x] \in VdevType
         /\ \A x \in BOOLEAN :
               [d EXCEPT !.released = x] \in VdevType
         /\ \A x \in Places \cup {None} :
               [d EXCEPT !.fault = x] \in VdevType
         /\ \A x \in [Vring -> BOOLEAN] :
               [d EXCEPT !.started_in_ctl = x] \in VdevType
         /\ \A x \in [Vring -> BOOLEAN] :
               [d EXCEPT !.disconnecting = x] \in VdevType
         /\ \A x \in [Vring -> BOOLEAN] :
               [d EXCEPT !.on_drain_cb = x] \in VdevType
         /\ \A x \in [Vring -> BOOLEAN] :
               [d EXCEPT !.kickfd = x] \in VdevType
         /\ \A x \in [Vring -> Nat] :
               [d EXCEPT !.vring_start_bh = x] \in VdevType
         /\ \A x \in [Vring -> Nat] :
               [d EXCEPT !.vring_sync_to_virtq_bh = x] \in VdevType
         /\ \A x \in [Vring -> Nat] :
               [d EXCEPT !.vring_stop_bh = x] \in VdevType
         /\ \A x \in BOOLEAN :
               [d EXCEPT !.work_bh = x] \in VdevType
<1>1. ASSUME NEW x \in HandlerState
      PROVE  [d EXCEPT !.listen_handler = x] \in VdevType
  BY DEF VdevType
<1>2. ASSUME NEW x \in HandlerState
      PROVE  [d EXCEPT !.conn_handler = x] \in VdevType
  BY DEF VdevType
<1>3. ASSUME NEW x \in BOOLEAN
      PROVE  [d EXCEPT !.connfd = x] \in VdevType
  BY DEF VdevType
<1>4. ASSUME NEW x \in AllMsgs \cup {None}
      PROVE  [d EXCEPT !.req = x] \in VdevType
  BY DEF VdevType
<1>5. ASSUME NEW x \in BOOLEAN
      PROVE  [d EXCEPT !.ack_pending = x] \in VdevType
  BY DEF VdevType
<1>6. ASSUME NEW x \in Completes \cup {None}
      PROVE  [d EXCEPT !.handle_complete = x] \in VdevType
  BY DEF VdevType
<1>7. ASSUME NEW x \in {None, "old_memmap", "old_memlog", "keep_fd"}
      PROVE  [d EXCEPT !.held = x] \in VdevType
  BY DEF VdevType
<1>8. ASSUME NEW x \in Nat
      PROVE  [d EXCEPT !.num_vrings_handling_msg = x] \in VdevType
  BY DEF VdevType
<1>9. ASSUME NEW x \in Nat
      PROVE  [d EXCEPT !.num_vrings_started = x] \in VdevType
  BY DEF VdevType
<1>10. ASSUME NEW x \in Nat
      PROVE  [d EXCEPT !.num_vrings_in_flight = x] \in VdevType
  BY DEF VdevType
<1>11. ASSUME NEW x \in BOOLEAN
      PROVE  [d EXCEPT !.work = x] \in VdevType
  BY DEF VdevType
<1>12. ASSUME NEW x \in {"start_called", "start_failed", "running",
                   "stop_called", "stopped"}
      PROVE  [d EXCEPT !.user = x] \in VdevType
  BY DEF VdevType
<1>13. ASSUME NEW x \in BOOLEAN
      PROVE  [d EXCEPT !.released = x] \in VdevType
  BY DEF VdevType
<1>14. ASSUME NEW x \in Places \cup {None}
      PROVE  [d EXCEPT !.fault = x] \in VdevType
  BY DEF VdevType
<1>15. ASSUME NEW x \in [Vring -> BOOLEAN]
      PROVE  [d EXCEPT !.started_in_ctl = x] \in VdevType
  BY DEF VdevType
<1>16. ASSUME NEW x \in [Vring -> BOOLEAN]
      PROVE  [d EXCEPT !.disconnecting = x] \in VdevType
  BY DEF VdevType
<1>17. ASSUME NEW x \in [Vring -> BOOLEAN]
      PROVE  [d EXCEPT !.on_drain_cb = x] \in VdevType
  BY DEF VdevType
<1>18. ASSUME NEW x \in [Vring -> Nat]
      PROVE  [d EXCEPT !.vring_start_bh = x] \in VdevType
  BY DEF VdevType
<1>19. ASSUME NEW x \in [Vring -> Nat]
      PROVE  [d EXCEPT !.vring_sync_to_virtq_bh = x] \in VdevType
  BY DEF VdevType
<1>20. ASSUME NEW x \in [Vring -> Nat]
      PROVE  [d EXCEPT !.vring_stop_bh = x] \in VdevType
  BY DEF VdevType
<1>21. ASSUME NEW x \in BOOLEAN
      PROVE  [d EXCEPT !.work_bh = x] \in VdevType
  BY DEF VdevType
<1>22. ASSUME NEW x \in [Vring -> BOOLEAN]
      PROVE  [d EXCEPT !.kickfd = x] \in VdevType
  BY DEF VdevType
<1> QED
  BY <1>1, <1>2, <1>3, <1>4, <1>5, <1>6, <1>7, <1>8, <1>9, <1>10, <1>11, <1>12, <1>13, <1>14, <1>15, <1>16, <1>17, <1>18, <1>19, <1>20, <1>21, <1>22


\* The states in which the external context may be left by a completed work.
LEMMA CompleteWorkType ==
  ASSUME NEW d \in VdevType, NEW ret \in {"running", "start_failed", "stopped"}
  PROVE  vdev_complete_work(d, ret) \in VdevType
<1>1. /\ "vdev_complete_work" \in Places \cup {None}
      /\ ret \in {"start_called", "start_failed", "running", "stop_called",
                  "stopped"}
  BY DEF Places
<1> QED
  BY <1>1, FieldType, Zenon DEF vdev_complete_work, Fault

\* vdev_maybe_vrings_stopped completes at most the pending work.
LEMMA MaybeStoppedType ==
  ASSUME NEW d \in VdevType
  PROVE  vdev_maybe_vrings_stopped(d) \in VdevType
  BY CompleteWorkType DEF vdev_maybe_vrings_stopped, vdev_vrings_stopped

\* vdev_maybe_drained cleans the device up and releases it or listens again.
LEMMA MaybeDrainedType ==
  ASSUME NEW d \in VdevType, NEW io \in IoResult
  PROVE  vdev_maybe_drained(d, io) \in VdevType
<1>1. vdev_drained(d, io) \in VdevType
  <2>1. /\ {"vdev_cleanup", "vdev_cleanup_req"} \subseteq Places \cup {None}
        /\ "attached" \in HandlerState
    BY DEF Places, HandlerState
  <2>2. vdev_cleanup(d) \in VdevType
    BY <2>1, FieldType, Zenon DEF vdev_cleanup, Fault
  <2>. DEFINE c == vdev_cleanup(d)
  <2>3. (IF io.attached THEN "attached" ELSE c.listen_handler) \in HandlerState
    BY <2>1, <2>2 DEF VdevType
  <2> QED
    BY <2>2, <2>3, FieldType, Zenon DEF vdev_drained
<1> QED
  BY <1>1 DEF vdev_maybe_drained

\* What vdev_disconnect does first: no connection, and the started vrings are
\* told to stop.
Disconnecting(d) == [d EXCEPT
                       !.conn_handler = "null",
                       !.disconnecting = d.started_in_ctl,
                       !.kickfd = [v \in Vring |-> @[v] /\ d.started_in_ctl[v]],
                       !.vring_stop_bh = [v \in Vring |->
                           IF d.started_in_ctl[v] THEN @[v] + 1 ELSE @[v]]]

LEMMA DisconnectingType ==
  ASSUME NEW d \in VdevType, NEW io \in IoResult
  PROVE  /\ Disconnecting(d) \in VdevType
         /\ vdev_disconnect(d, io) =
              IF d.conn_handler = "null" THEN d
              ELSE vdev_maybe_drained(vdev_maybe_vrings_stopped(Disconnecting(d)), io)
<1>1. "null" \in HandlerState /\ d.started_in_ctl \in [Vring -> BOOLEAN]
  BY DEF HandlerState, VdevType
<1>2. [v \in Vring |-> IF d.started_in_ctl[v] THEN d.vring_stop_bh[v] + 1
                                             ELSE d.vring_stop_bh[v]]
        \in [Vring -> Nat]
      /\ [v \in Vring |-> d.kickfd[v] /\ d.started_in_ctl[v]]
           \in [Vring -> BOOLEAN]
  BY DEF VdevType
<1>3. Disconnecting(d) \in VdevType
  BY <1>1, <1>2, FieldType, Zenon DEF Disconnecting
<1> QED
  BY <1>3, Zenon DEF vdev_disconnect, Disconnecting

\* vdev_disconnect keeps the type.
LEMMA DisconnectType ==
  ASSUME NEW d \in VdevType, NEW io \in IoResult
  PROVE  vdev_disconnect(d, io) \in VdevType
  BY DisconnectingType, MaybeStoppedType, MaybeDrainedType

\* vdev_handle_start and vdev_handle_finish bracket a message.
LEMMA HandleStartType ==
  ASSUME NEW d \in VdevType, NEW m \in AllMsgs, NEW ack \in BOOLEAN
  PROVE  vdev_handle_start(d, m, ack) \in VdevType
<1>1. "detached" \in HandlerState
  BY DEF HandlerState
<1> QED
  BY <1>1, FieldType, Zenon DEF vdev_handle_start

LEMMA HandleFinishType ==
  ASSUME NEW d \in VdevType, NEW io \in IoResult
  PROVE  vdev_handle_finish(d, io) \in VdevType
<1>1. (IF d.conn_handler = "null" \/ ~io.attached THEN d.conn_handler
                                                  ELSE "attached")
        \in HandlerState
  BY DEF HandlerState, VdevType
<1> QED
  BY <1>1, FieldType, Zenon DEF vdev_handle_finish

\* Replies and acknowledgements finish the message or fail.
LEMMA ReplyType ==
  ASSUME NEW d \in VdevType, NEW io \in IoResult
  PROVE  /\ vhost_reply(d, io) \in Result
         /\ vhost_ack(d, io) \in Result
<1>1. vdev_handle_finish(d, io) \in VdevType
  BY HandleFinishType
<1> QED
  BY <1>1 DEF vhost_reply, vhost_ack, Ok, Err, Result

\* The set_*_complete functions release what the message had parked.
LEMMA CompleteMsgType ==
  ASSUME NEW d \in VdevType, NEW fn, NEW io \in IoResult
  PROVE  complete_msg(d, fn, io) \in Result
<1>1. [d EXCEPT !.held = None] \in VdevType
  BY DEF VdevType, None
<1> QED
  BY <1>1, ReplyType DEF complete_msg

\* How vrings are counted: it holds as there are finitely many (VringsCounted
\* of VdevRqProofs, where the theory of finite sets is taken in).
VringCounts ==
    /\ Cardinality({}) = 0
    /\ \A S \in SUBSET Vring :
         /\ Cardinality(S) \in Nat
         /\ Cardinality(S) = 0 => S = {}
         /\ \A v \in Vring :
              /\ v \notin S => Cardinality(S \cup {v}) = Cardinality(S) + 1
              /\ v \in S => Cardinality(S \ {v}) = Cardinality(S) - 1

\* vring_handle_msg counts the started vrings and schedules their BHs.
LEMMA HandleMsgType ==
  ASSUME VringCounts, NEW d \in VdevType, NEW S \in SUBSET Vring
  PROVE  vring_handle_msg(d, S) \in VdevType
<1>. DEFINE T == {v \in S : d.started_in_ctl[v]}
<1>1. Cardinality(T) \in Nat
  BY DEF VringCounts
<1>. HIDE DEF T
<1>2. [d EXCEPT
           !.num_vrings_handling_msg = @ + Cardinality(T),
           !.vring_sync_to_virtq_bh = [v \in Vring |->
               IF v \in T THEN @[v] + 1 ELSE @[v]]] \in VdevType
  <2>1. /\ d.num_vrings_handling_msg + Cardinality(T) \in Nat
        /\ [v \in Vring |-> IF v \in T THEN d.vring_sync_to_virtq_bh[v] + 1
                                       ELSE d.vring_sync_to_virtq_bh[v]]
             \in [Vring -> Nat]
    BY <1>1 DEF VdevType
  <2> QED
    BY <2>1, FieldType, Zenon
<1> QED
  BY <1>2 DEF vring_handle_msg, T

\* vring_mark_msg_handled completes the message with the last vring.
LEMMA MsgHandledType ==
  ASSUME NEW d \in VdevType, NEW io \in IoResult
  PROVE  vring_mark_msg_handled(d, io) \in VdevType
<1>. DEFINE e == [d EXCEPT !.num_vrings_handling_msg = @ - 1]
            r == complete_msg(e, e.handle_complete, io)
            f == [r.dev EXCEPT !.handle_complete = None]
<1>1. /\ Fault(d, "vring_mark_msg_handled") \in VdevType
  BY DEF Fault, VdevType, Places
<1>2. CASE d.num_vrings_handling_msg # 0
  <2>1. e \in VdevType
    BY <1>2 DEF VdevType
  <2>2. r \in Result
    BY <2>1, CompleteMsgType
  <2>. HIDE DEF r
  <2>3. f \in VdevType
    BY <2>2 DEF Result, VdevType, None
  <2>4. Fault(e, "vring_mark_msg_handled") \in VdevType
    <3>1. "vring_mark_msg_handled" \in Places \cup {None}
      BY DEF Places
    <3> QED
      BY <2>1, <3>1, FieldType, Zenon DEF Fault
  <2>5. vdev_disconnect(f, io) \in VdevType
    BY <2>3, DisconnectType
  <2>6. vring_mark_msg_handled(d, io) \in
            {e, Fault(e, "vring_mark_msg_handled"), f, vdev_disconnect(f, io)}
    BY <1>2, Zenon DEF vring_mark_msg_handled, r
  <2> QED
    BY <2>1, <2>3, <2>4, <2>5, <2>6, Zenon
<1> QED
  BY <1>1, <1>2 DEF vring_mark_msg_handled

\* vring_mark_stopped counts a started vring less.
LEMMA MarkStoppedType ==
  ASSUME NEW d \in VdevType, NEW io \in IoResult
  PROVE  vring_mark_stopped(d, io) \in VdevType
<1>1. Fault(d, "vring_mark_stopped") \in VdevType
  BY DEF Fault, VdevType, Places
<1>2. d.num_vrings_started # 0 => [d EXCEPT !.num_vrings_started = @ - 1] \in VdevType
  BY DEF VdevType
<1> QED
  BY <1>1, <1>2, MaybeStoppedType, MaybeDrainedType DEF vring_mark_stopped

\* vring_mark_drained answers GET_VRING_BASE and resets the vring.
LEMMA MarkDrainedType ==
  ASSUME NEW d \in VdevType, NEW v \in Vring, NEW io \in IoResult
  PROVE  vring_mark_drained(d, v, io) \in VdevType
<1>1. Fault(d, "vring_mark_drained") \in VdevType
  BY DEF Fault, VdevType, Places
<1>2. CASE d.num_vrings_in_flight # 0
  <2>. DEFINE d1 == [d EXCEPT !.started_in_ctl[v] = FALSE]
              r  == vhost_reply(d1, io)
              e  == [r.dev EXCEPT !.on_drain_cb[v] = FALSE]
              g  == on_drain(d1, v, io)
  <2>1. d1 \in VdevType /\ d1.num_vrings_in_flight # 0
    <3>1. [d.started_in_ctl EXCEPT ![v] = FALSE] \in [Vring -> BOOLEAN]
      BY DEF VdevType
    <3>2. d1 \in VdevType
      BY <3>1, FieldType, Zenon
    <3>3. \A x : [d EXCEPT !.started_in_ctl = x].num_vrings_in_flight
                 = d.num_vrings_in_flight
      BY DEF VdevType
    <3>4. d1.num_vrings_in_flight = d.num_vrings_in_flight
      BY <3>3, Zenon
    <3> QED
      BY <1>2, <3>2, <3>4, Zenon
  <2>2. r \in Result /\ r.dev.num_vrings_in_flight # 0
    <3>1. r \in Result
      BY <2>1, ReplyType
    <3>2. r.dev \in {d1, vdev_handle_finish(d1, io)}
      BY Zenon DEF vhost_reply, Ok, Err
    <3>. HIDE DEF d1
    <3>3. vdev_handle_finish(d1, io).num_vrings_in_flight # 0
      BY <2>1 DEF vdev_handle_finish, VdevType
    <3> QED
      BY <2>1, <3>1, <3>2, <3>3
  <2>. HIDE DEF d1, r
  <2>3. e \in VdevType /\ e.num_vrings_in_flight # 0
    <3>1. r.dev \in VdevType
      BY <2>2 DEF Result
    <3>2. [r.dev.on_drain_cb EXCEPT ![v] = FALSE] \in [Vring -> BOOLEAN]
      BY <3>1 DEF VdevType
    <3>3. e \in VdevType
      BY <3>1, <3>2, FieldType, Zenon
    <3>4. \A x : [r.dev EXCEPT !.on_drain_cb = x].num_vrings_in_flight
                 = r.dev.num_vrings_in_flight
      BY <3>1 DEF VdevType
    <3>5. e.num_vrings_in_flight = r.dev.num_vrings_in_flight
      BY <3>4, Zenon
    <3> QED
      BY <2>2, <3>3, <3>5, Zenon
  <2>4. vdev_disconnect(e, io) \in VdevType
    BY <2>3, DisconnectType
  <2>5. vdev_disconnect(e, io).num_vrings_in_flight # 0
    <3>. HIDE DEF e
    <3> QED
    BY <2>3 DEF vdev_disconnect, vdev_maybe_drained, vdev_in_use,
                vdev_maybe_vrings_stopped, vdev_vrings_stopped,
                vdev_complete_work, Fault, VdevType
  <2>6. g \in VdevType /\ g.num_vrings_in_flight # 0
    BY <2>1, <2>3, <2>4, <2>5 DEF on_drain, r
  <2>. HIDE DEF g
  <2>7. [g EXCEPT !.disconnecting[v] = FALSE, !.kickfd[v] = FALSE,
                  !.num_vrings_in_flight = @ - 1] \in VdevType
    <3>1. /\ [g.disconnecting EXCEPT ![v] = FALSE] \in [Vring -> BOOLEAN]
          /\ [g.kickfd EXCEPT ![v] = FALSE] \in [Vring -> BOOLEAN]
          /\ g.num_vrings_in_flight - 1 \in Nat
      BY <2>6 DEF VdevType
    <3>. DEFINE h == [g EXCEPT !.disconnecting[v] = FALSE]
                k == [h EXCEPT !.kickfd[v] = FALSE]
    <3>2. h \in VdevType
      BY <2>6, <3>1, FieldType, Zenon
    <3>3. /\ h.kickfd = g.kickfd
          /\ h.num_vrings_in_flight = g.num_vrings_in_flight
      BY <2>6 DEF VdevType
    <3>4. k \in VdevType /\ k.num_vrings_in_flight = h.num_vrings_in_flight
      <4>. HIDE DEF h
      <4>1. k \in VdevType
        BY <3>1, <3>2, <3>3, FieldType, Zenon
      <4>2. k.num_vrings_in_flight = h.num_vrings_in_flight
        BY <3>2 DEF VdevType
      <4> QED
        BY <4>1, <4>2
    <3>. HIDE DEF h
    <3>5. [k EXCEPT !.num_vrings_in_flight = @ - 1] \in VdevType
      <4>. HIDE DEF k
      <4> QED  BY <3>1, <3>3, <3>4, FieldType, Zenon
    <3>6. [k EXCEPT !.num_vrings_in_flight = @ - 1]
            = [g EXCEPT !.disconnecting[v] = FALSE, !.kickfd[v] = FALSE,
                        !.num_vrings_in_flight = @ - 1]
      BY Zenon DEF h
    <3> QED
      BY <3>5, <3>6
  <2> QED
    BY <1>1, <2>7, MaybeDrainedType DEF vring_mark_drained, g, d1
<1> QED
  BY <1>1, <1>2 DEF vring_mark_drained

\* vring_start_failed_bh runs the three acknowledgements of a vring at once.
LEMMA StartFailedType ==
  ASSUME NEW d \in VdevType, NEW v \in Vring, NEW io \in IoResult
  PROVE  vring_start_failed(d, v, io) \in VdevType
<1>1. "set_vring_kick_fail_complete" \in Completes \cup {None}
  BY DEF Completes
<1>2. [d EXCEPT !.handle_complete = "set_vring_kick_fail_complete"] \in VdevType
  BY <1>1, FieldType, Zenon
<1> QED
  BY <1>2, MsgHandledType, MarkStoppedType, MarkDrainedType
     DEF vring_start_failed

\* A message that vrings handle before it is complete.
LEMMA InVringsType ==
  ASSUME VringCounts, NEW d \in VdevType, NEW S \in SUBSET Vring,
         NEW fn \in Completes,
         NEW parked \in {None, "old_memmap", "old_memlog", "keep_fd"},
         NEW inline \in BOOLEAN, NEW io \in IoResult
  PROVE  handle_in_vrings(d, S, fn, parked, inline, io) \in Result
<1>. DEFINE e == [d EXCEPT !.held = parked]
            f == [e EXCEPT !.handle_complete = fn]
<1>1. e \in VdevType
  BY FieldType, Zenon
<1>2. f \in VdevType
  BY <1>1, FieldType, Zenon
<1>3. complete_msg(e, fn, io) \in Result
  BY <1>1, CompleteMsgType
<1>4. vring_handle_msg(f, S) \in VdevType
  BY <1>2, HandleMsgType
<1>5. Ok(vring_handle_msg(f, S)) \in Result
  BY <1>4 DEF Ok, Result
<1> QED
  BY <1>3, <1>5, Zenon DEF handle_in_vrings

\* SET_VRING_KICK starts a vring and counts it three times.
LEMMA SetKickType ==
  ASSUME NEW d \in VdevType, NEW v \in Vring
  PROVE  vhost_set_vring_kick(d, v) \in Result
<1>. DEFINE e == [d EXCEPT !.kickfd[v] = TRUE,
                           !.started_in_ctl[v] = TRUE,
                           !.num_vrings_started = @ + 1,
                           !.num_vrings_in_flight = @ + 1,
                           !.handle_complete = "set_vring_kick_complete",
                           !.num_vrings_handling_msg = @ + 1,
                           !.vring_start_bh[v] = @ + 1]
<1>1. /\ [d.kickfd EXCEPT ![v] = TRUE] \in [Vring -> BOOLEAN]
      /\ [d.started_in_ctl EXCEPT ![v] = TRUE] \in [Vring -> BOOLEAN]
      /\ d.num_vrings_started + 1 \in Nat
      /\ d.num_vrings_in_flight + 1 \in Nat
      /\ "set_vring_kick_complete" \in Completes \cup {None}
      /\ d.num_vrings_handling_msg + 1 \in Nat
      /\ [d.vring_start_bh EXCEPT ![v] = @ + 1] \in [Vring -> Nat]
  BY DEF VdevType, Completes
<1>2. e \in VdevType
  <2>. DEFINE e1 == [d EXCEPT !.kickfd[v] = TRUE, !.started_in_ctl[v] = TRUE]
              e2 == [e1 EXCEPT !.num_vrings_started = @ + 1,
                               !.num_vrings_in_flight = @ + 1,
                               !.handle_complete = "set_vring_kick_complete",
                               !.num_vrings_handling_msg = @ + 1]
  <2>1. e1 \in VdevType
    <3>. DEFINE k == [d EXCEPT !.kickfd[v] = TRUE]
    <3>1. k \in VdevType /\ k.started_in_ctl = d.started_in_ctl
      <4>1. k \in VdevType
        BY <1>1, FieldType, Zenon
      <4>2. k.started_in_ctl = d.started_in_ctl
        BY DEF VdevType
      <4> QED
        BY <4>1, <4>2
    <3>2. e1 = [k EXCEPT !.started_in_ctl[v] = TRUE]
      BY Zenon
    <3>. HIDE DEF e1, k
    <3> QED
      BY <1>1, <3>1, <3>2, FieldType, Zenon
  <2>. HIDE DEF e1
  <2>2. e2 \in VdevType
    <3>1. /\ e1.num_vrings_started + 1 \in Nat
          /\ e1.num_vrings_in_flight + 1 \in Nat
          /\ e1.num_vrings_handling_msg + 1 \in Nat
      BY <2>1 DEF VdevType
    <3> QED
      BY <1>1, <2>1, <3>1, FieldType, Zenon
  <2>. HIDE DEF e2
  <2>3. [e2.vring_start_bh EXCEPT ![v] = @ + 1] \in [Vring -> Nat]
    BY <2>2 DEF VdevType
  <2>4. [e2 EXCEPT !.vring_start_bh[v] = @ + 1] \in VdevType
    BY <2>2, <2>3, FieldType, Zenon
  <2> QED
    BY <2>4 DEF e1, e2
<1>3. Fault(d, "vhost_set_vring_kick") \in VdevType
  BY FieldType, Zenon DEF Fault, Places
<1>4. /\ Err(d) \in Result /\ Ok(e) \in Result
      /\ Ok(Fault(d, "vhost_set_vring_kick")) \in Result
  <2>. HIDE DEF e
  <2> QED  BY <1>2, <1>3 DEF Ok, Err, Result
<1> QED
  BY <1>4, Zenon DEF vhost_set_vring_kick

\* GET_VRING_BASE answers, or stops the vring to answer once it has drained.
LEMMA GetBaseType ==
  ASSUME NEW d \in VdevType, NEW v \in Vring, NEW io \in IoResult
  PROVE  vhost_get_vring_base(d, v, io) \in Result
<1>. DEFINE e == [d EXCEPT !.on_drain_cb[v] = TRUE, !.vring_stop_bh[v] = @ + 1]
<1>1. /\ [d.on_drain_cb EXCEPT ![v] = TRUE] \in [Vring -> BOOLEAN]
      /\ [d.vring_stop_bh EXCEPT ![v] = @ + 1] \in [Vring -> Nat]
  BY DEF VdevType
<1>2. e \in VdevType
  <2>. DEFINE e1 == [d EXCEPT !.on_drain_cb[v] = TRUE]
  <2>1. e1 \in VdevType
    BY <1>1, FieldType, Zenon
  <2>. HIDE DEF e1
  <2>2. [e1.vring_stop_bh EXCEPT ![v] = @ + 1] \in [Vring -> Nat]
    BY <2>1 DEF VdevType
  <2>3. [e1 EXCEPT !.vring_stop_bh[v] = @ + 1] \in VdevType
    BY <2>1, <2>2, FieldType, Zenon
  <2> QED
    BY <2>3 DEF e1
<1>3. Ok(e) \in Result
  <2>. HIDE DEF e
  <2> QED  BY <1>2 DEF Ok, Result
<1> QED
  BY <1>3, ReplyType, Zenon DEF vhost_get_vring_base

\* Every message handler keeps the type of the control state.
LEMMA HandlersType ==
  ASSUME VringCounts, NEW d \in VdevType, NEW m \in AllMsgs, NEW v \in Vring,
         NEW io \in IoResult
  PROVE  vhost_handle_msg(d, m, v, io) \in Result
<1>1. /\ vhost_reply(d, io) \in Result
      /\ vhost_ack(d, io) \in Result
      /\ Err(d) \in Result
  BY ReplyType DEF Err, Result
<1>2. /\ vhost_set_protocol_features(d, io) \in Result
      /\ vhost_get_inflight_fd(d, io) \in Result
      /\ vhost_set_inflight_fd(d, io) \in Result
      /\ vhost_set_vring_num(d, v, io) \in Result
      /\ vhost_set_vring_base(d, v, io) \in Result
  BY <1>1, Zenon DEF vhost_set_protocol_features, vhost_get_inflight_fd,
                     vhost_set_inflight_fd, vhost_set_vring_num,
                     vhost_set_vring_base
<1>3. /\ (d.num_vrings_in_flight = 0) \in BOOLEAN
      /\ (~d.started_in_ctl[v]) \in BOOLEAN
      /\ {v} \in SUBSET Vring /\ Vring \in SUBSET Vring
  OBVIOUS
<1>4. /\ vhost_set_features(d, io) \in Result
      /\ vhost_set_mem_table(d, io) \in Result
      /\ vhost_set_log_base(d, io) \in Result
      /\ vhost_set_vring_addr(d, v, io) \in Result
  <2>1. vhost_set_features(d, io) \in Result
    BY <1>3, InVringsType, Zenon DEF vhost_set_features, Completes
  <2>2. vhost_set_mem_table(d, io) \in Result
    BY <1>3, InVringsType, Zenon DEF vhost_set_mem_table, Completes
  <2>3. vhost_set_log_base(d, io) \in Result
    BY <1>3, InVringsType, Zenon DEF vhost_set_log_base, Completes
  <2>4. vhost_set_vring_addr(d, v, io) \in Result
    BY <1>3, InVringsType, Zenon DEF vhost_set_vring_addr, Completes
  <2> QED
    BY <2>1, <2>2, <2>3, <2>4
<1>5. /\ vhost_set_vring_call(d, v, io) \in Result
      /\ vhost_set_vring_err(d, v, io) \in Result
  <2>1. /\ "vhost_set_vring_call" \in Places \cup {None}
        /\ "vhost_set_vring_err" \in Places \cup {None}
    BY DEF Places
  <2>2. /\ Fault(d, "vhost_set_vring_call") \in VdevType
        /\ Fault(d, "vhost_set_vring_err") \in VdevType
    BY <2>1, FieldType, Zenon DEF Fault
  <2>3. /\ Ok(Fault(d, "vhost_set_vring_call")) \in Result
        /\ Ok(Fault(d, "vhost_set_vring_err")) \in Result
    BY <2>2 DEF Ok, Result
  <2>4. /\ handle_in_vrings(d, {v}, "set_vring_call_complete", "keep_fd",
                            ~d.started_in_ctl[v], io) \in Result
        /\ handle_in_vrings(d, {v}, "set_vring_err_complete", "keep_fd",
                            ~d.started_in_ctl[v], io) \in Result
    <3>1. {"set_vring_call_complete", "set_vring_err_complete"} \subseteq Completes
      BY DEF Completes
    <3> QED
      BY <1>3, <3>1, InVringsType
  <2> QED
    BY <2>3, <2>4, Zenon DEF vhost_set_vring_call, vhost_set_vring_err
<1>6. /\ vhost_set_vring_kick(d, v) \in Result
      /\ vhost_get_vring_base(d, v, io) \in Result
  BY SetKickType, GetBaseType
<1> QED
  BY <1>1, <1>2, <1>4, <1>5, <1>6 DEF vhost_handle_msg, AllMsgs, ReplyMsgs

-----------------------------------------------------------------------------
(* Type correctness.  num_in_flight of a vring is decremented without a      *)
(* test, so that it stays a natural number because it counts the requests    *)
(* of the vring: RequestsAccounted belongs to the inductive invariant.       *)

TypeInv == TypeOK /\ RequestsAccounted /\ VringCounts

BhType == [CtlFn -> [Vring -> Nat]]

\* vhd_run_in_ctl adds instances of a BH.
LEMMA RunInCtlType ==
  ASSUME NEW b \in BhType, NEW fn \in CtlFn, NEW v \in Vring, NEW n \in Nat
  PROVE  RunInCtl(b, fn, v, n) \in BhType
  BY DEF RunInCtl, BhType

\* Run faults at most.
LEMMA RunType ==
  ASSUME NEW d \in VdevType
  PROVE  Run(d) \in VdevType
<1>1. "use_after_free" \in Places \cup {None}
  BY DEF Places
<1> QED
  BY <1>1, FieldType, Zenon DEF Run, Fault

\* The steps of the control event loop and of the external context, which
\* change only the control state and the BHs of the control loop.
LEMMA CtlTypeStep ==
  ASSUME TypeInv, External \/ Client \/ vdev_work_fn \/ CtlPoll
  PROVE  TypeInv'
<1>. USE DEF TypeInv, RequestsAccounted
<1>1. vdev \in VdevType
  BY DEF TypeOK
<1>2. SUFFICES vdev' \in VdevType
  <2>1. ctl_bh' \in BhType /\ ctl_batch' \in BhType /\ UNCHANGED rqVars
    BY Zenon DEF External, Client, vdev_work_fn, CtlPoll, vhd_vdev_stop_server,
           vhd_vdev_release, server_read, ConnHangup, ConnReject, conn_read,
           TypeOK, BhType, NoBhs, Zero
  <2> QED
    BY <2>1 DEF TypeOK, rqVars, BhType
<1>3. CASE External
  <2>1. [vdev EXCEPT !.user = "stop_called", !.work_bh = TRUE] \in VdevType
    BY <1>1, FieldType, Zenon
  <2>2. [vdev EXCEPT !.released = TRUE] \in VdevType
    BY <1>1, FieldType, Zenon
  <2> QED
    BY <1>3, <2>1, <2>2, Zenon DEF External, vhd_vdev_stop_server, vhd_vdev_release
<1>4. CASE server_read
  <2>1. "server_read" \in Places \cup {None} /\ {"attached", "detached"} \subseteq HandlerState
    BY DEF Places, HandlerState
  <2>2. Fault(vdev, "server_read") \in VdevType
    BY <1>1, <2>1, FieldType, Zenon DEF Fault
  <2>3. [vdev EXCEPT !.listen_handler = "detached", !.connfd = TRUE,
                     !.conn_handler = "attached"] \in VdevType
    BY <1>1, <2>1, FieldType, Zenon
  <2> QED
    BY <1>4, <2>2, <2>3 DEF server_read
<1>5. ASSUME NEW io \in IoResult, ConnHangup(io)
      PROVE  vdev' \in VdevType
  BY <1>1, <1>5, DisconnectType DEF ConnHangup
<1>6. ASSUME NEW m \in Msgs, NEW ack \in BOOLEAN, NEW io \in IoResult,
             ConnReject(m, ack, io)
      PROVE  vdev' \in VdevType
  BY <1>1, <1>6, DisconnectType, HandleStartType, HandleFinishType,
     MsgsAssumption DEF ConnReject
<1>7. ASSUME NEW m \in Msgs, NEW ack \in BOOLEAN, NEW v \in Vring,
             NEW io \in IoResult, conn_read(m, v, ack, io)
      PROVE  vdev' \in VdevType
  <2>. DEFINE d == vdev_handle_start(vdev, m, ack)
              r == vhost_handle_msg(d, m, v, io)
  <2>1. m \in AllMsgs
    BY MsgsAssumption
  <2>2. d \in VdevType
    BY <1>1, <2>1, HandleStartType
  <2>3. r \in Result
    BY <2>1, <2>2, HandlersType
  <2>4. vdev' = IF r.ok THEN r.dev
                ELSE vdev_disconnect(vdev_handle_finish(r.dev, io), io)
    BY <1>7, Zenon DEF conn_read
  <2>. HIDE DEF r
  <2>5. r.dev \in VdevType
    BY <2>3 DEF Result
  <2> QED
    BY <2>1, <2>4, <2>5, HandleFinishType, DisconnectType
<1>8. CASE vdev_work_fn
  <2>. DEFINE d == [vdev EXCEPT !.work_bh = FALSE, !.work = TRUE]
  <2>1. d \in VdevType
    BY <1>1, FieldType, Zenon
  <2>2. PICK io \in IoResult :
          vdev' = vdev_start(d, io) \/ vdev' = Run(vdev_stop(d, io))
    BY <1>8, Zenon DEF vdev_work_fn
  <2>. HIDE DEF d
  <2>3. {"attached", "null"} \subseteq HandlerState
    BY DEF HandlerState
  <2>4. vdev_start(d, io) \in VdevType
    <3>1. [d EXCEPT !.listen_handler = "attached"] \in VdevType
      BY <2>1, <2>3, FieldType, Zenon
    <3> QED
      BY <2>1, <3>1, CompleteWorkType DEF vdev_start
  <2>5. Run(vdev_stop(d, io)) \in VdevType
    <3>1. [d EXCEPT !.listen_handler = "null"] \in VdevType
      BY <2>1, <2>3, FieldType, Zenon
    <3> QED
      BY <3>1, DisconnectType, MaybeStoppedType, MaybeDrainedType, RunType
         DEF vdev_stop
  <2> QED
    BY <2>2, <2>4, <2>5
<1>9. CASE CtlPoll
  BY <1>1, <1>9 DEF CtlPoll
<1> QED
  BY <1>3, <1>4, <1>5, <1>6, <1>7, <1>8, <1>9 DEF Client

\* The BHs of the control event loop.
LEMMA CtlBhTypeStep ==
  ASSUME TypeInv, NEW v \in Vring, CtlBhs(v)
  PROVE  TypeInv'
<1>. USE DEF TypeInv, RequestsAccounted
<1>1. vdev \in VdevType /\ ctl_batch \in BhType
  BY DEF TypeOK, BhType
<1>2. PICK fn \in CtlFn : CtlBh(fn, v)
  BY DEF CtlBhs, vring_mark_stopped_bh, vring_mark_msg_handled_bh,
         vring_start_failed_bh, vring_mark_drained_bh, CtlFn
<1>3. ctl_batch' \in BhType
  BY <1>1, <1>2 DEF CtlBh, BhType
<1>4. vdev' \in VdevType
  BY <1>1, RunType, MarkStoppedType, MsgHandledType, StartFailedType,
     MarkDrainedType
     DEF CtlBhs, vring_mark_stopped_bh, vring_mark_msg_handled_bh,
         vring_start_failed_bh, vring_mark_drained_bh
<1> QED
  BY <1>2, <1>3, <1>4 DEF CtlBh, TypeOK, BhType, rqVars

\* The steps of the request queue and of the backend.
LEMMA RqTypeStep ==
  ASSUME TypeInv, NEW v \in Vring, RqBhs(v) \/ Requests(v)
  PROVE  TypeInv'
<1>. USE DEF TypeInv, RequestsAccounted
<1>1. /\ vdev \in VdevType /\ ctl_bh \in BhType /\ ctl_batch \in BhType
      /\ vring \in [Vring -> VringType] /\ stopping \in Vring \cup {None}
      /\ queued \in [Vring -> Nat] /\ backend \in [Vring -> Nat]
      /\ completion \in [Vring -> Nat] /\ canceled \in [Vring -> Nat]
  BY DEF TypeOK, BhType
<1>2. /\ {"vring_mark_msg_handled_bh", "vring_start_failed_bh",
          "vring_mark_stopped_bh", "vring_mark_drained_bh"} \subseteq CtlFn
      /\ {"vring_start_bh", "vhd_cancel_queued_requests"} \subseteq Places \cup {None}
      /\ {"null", "attached", "detached"} \subseteq HandlerState
  BY DEF CtlFn, Places, HandlerState
<1>3. ASSUME NEW d \in VdevType, NEW w \in Places \cup {None}
      PROVE  Fault(d, w) \in VdevType
  BY FieldType, Zenon DEF Fault
<1>4. SUFFICES /\ vdev' \in VdevType /\ ctl_bh' \in BhType
               /\ ctl_batch' \in BhType
               /\ vring' \in [Vring -> VringType] /\ stopping' \in Vring \cup {None}
               /\ queued' \in [Vring -> Nat] /\ backend' \in [Vring -> Nat]
               /\ completion' \in [Vring -> Nat] /\ canceled' \in [Vring -> Nat]
               /\ RequestsAccounted'
  BY DEF TypeOK, BhType
<1>5. CASE vring_start_bh(v)
  <2>. DEFINE d == [vdev EXCEPT !.vring_start_bh[v] = @ - 1]
  <2>1. d \in VdevType
    <3>1. [vdev.vring_start_bh EXCEPT ![v] = @ - 1] \in [Vring -> Nat]
      BY <1>1, <1>5 DEF vring_start_bh, VdevType
    <3> QED
      BY <1>1, <3>1, FieldType, Zenon
  <2>2. vdev' \in VdevType
    BY <1>2, <1>3, <1>5, <2>1, RunType, Zenon DEF vring_start_bh
  <2>3. ctl_bh' \in BhType
    <3>1. \/ ctl_bh' = RunInCtl(ctl_bh, "vring_start_failed_bh", v, 1)
          \/ ctl_bh' = RunInCtl(ctl_bh, "vring_mark_msg_handled_bh", v, 1)
      BY <1>5, Zenon DEF vring_start_bh
    <3> QED
      BY <1>1, <1>2, <3>1, RunInCtlType
  <2>4. vring' \in [Vring -> VringType] /\ canceled' \in [Vring -> Nat]
    <3>1. CASE UNCHANGED <<vring, canceled>>
      BY <1>1, <3>1
    <3>2. CASE /\ vring' = [vring EXCEPT ![v].kick_handler = "attached",
                                         ![v].started_in_rq = TRUE]
               /\ canceled' = [canceled EXCEPT ![v] = 0]
      <4>. DEFINE r == [vring[v] EXCEPT !.kick_handler = "attached",
                                        !.started_in_rq = TRUE]
      <4>1. r \in VringType
        BY <1>1, <1>2 DEF VringType
      <4>2. vring' = [vring EXCEPT ![v] = r]
        BY <3>2, Zenon
      <4>. HIDE DEF r
      <4> QED
        BY <1>1, <3>2, <4>1, <4>2
    <3> QED
      BY <1>5, <3>1, <3>2 DEF vring_start_bh
  <2>5. RequestsAccounted'
    BY <1>1, <1>5 DEF vring_start_bh, VringType, reqVars
  <2> QED
    BY <1>1, <1>5, <2>2, <2>3, <2>4, <2>5 DEF vring_start_bh, reqVars
<1>6. CASE vring_sync_to_virtq_bh(v)
  <2>1. [vdev.vring_sync_to_virtq_bh EXCEPT ![v] = @ - 1] \in [Vring -> Nat]
    BY <1>1, <1>6 DEF vring_sync_to_virtq_bh, VdevType
  <2>2. vdev' \in VdevType
    BY <1>1, <1>6, <2>1, FieldType, RunType, Zenon DEF vring_sync_to_virtq_bh
  <2>3. ctl_bh' \in BhType
    BY <1>1, <1>2, <1>6, RunInCtlType, Zenon DEF vring_sync_to_virtq_bh
  <2> QED
    BY <1>1, <1>6, <2>2, <2>3 DEF vring_sync_to_virtq_bh, rqVars
<1>7. CASE vring_stop_bh(v)
  <2>. DEFINE d == [vdev EXCEPT !.vring_stop_bh[v] = @ - 1]
  <2>1. d \in VdevType
    <3>1. [vdev.vring_stop_bh EXCEPT ![v] = @ - 1] \in [Vring -> Nat]
      BY <1>1, <1>7 DEF vring_stop_bh, VdevType
    <3> QED
      BY <1>1, <3>1, FieldType, Zenon
  <2>2. CASE vdev.released \/ ~vring[v].started_in_rq
    BY <1>1, <1>7, <2>1, <2>2, RunType DEF vring_stop_bh
  <2>3. CASE ~vdev.released /\ vring[v].started_in_rq
    <3>. DEFINE q == IF vdev.disconnecting[v] THEN queued[v] ELSE 0
    <3>1. PICK o \in CancelOutcomes(q) :
            LET n == vring[v].num_in_flight - o.k
            IN  /\ vdev' = IF o.null THEN Fault(d, "vhd_cancel_queued_requests")
                                     ELSE d
                /\ vring' = [vring EXCEPT
                       ![v] = [started_in_rq |-> FALSE,
                               kick_handler  |-> "null",
                               num_in_flight |-> n]]
                /\ queued' = [queued EXCEPT ![v] = @ - o.k]
                /\ canceled' = [canceled EXCEPT ![v] = @ + o.k]
                /\ ctl_bh' = RunInCtl(
                       RunInCtl(ctl_bh, "vring_mark_stopped_bh", v, 1),
                       "vring_mark_drained_bh", v,
                       IF o.k > 0 /\ n = 0 THEN 1 ELSE 0)
                /\ stopping' = IF n = 0 THEN v ELSE None
      BY <1>7, <2>3 DEF vring_stop_bh
    <3>2. /\ o.k \in Nat /\ o.k <= queued[v]
          /\ o.k <= vring[v].num_in_flight
      BY <1>1 DEF CancelOutcomes, VringType
    <3>3. vdev' \in VdevType
      BY <1>2, <1>3, <2>1, <3>1, Zenon
    <3>4. ctl_bh' \in BhType
      BY <1>1, <1>2, <3>1, RunInCtlType, Zenon
    <3>5. /\ vring' \in [Vring -> VringType] /\ queued' \in [Vring -> Nat]
          /\ canceled' \in [Vring -> Nat] /\ stopping' \in Vring \cup {None}
      BY <1>1, <1>2, <3>1, <3>2 DEF VringType
    <3>6. RequestsAccounted'
      BY <1>1, <1>7, <3>1, <3>2 DEF vring_stop_bh, VringType
    <3> QED
      BY <1>1, <1>7, <3>3, <3>4, <3>5, <3>6 DEF vring_stop_bh
  <2> QED
    BY <1>7, <2>2, <2>3 DEF vring_stop_bh
<1>8. CASE StopBhDrained(v)
  BY <1>1, <1>2, <1>8, RunInCtlType DEF StopBhDrained
<1>9. CASE rq_complete_bh(v)
  <2>1. vdev' \in VdevType
    BY <1>1, <1>9, RunType DEF rq_complete_bh
  <2>2. ctl_bh' \in BhType
    BY <1>1, <1>2, <1>9, RunInCtlType, Zenon DEF rq_complete_bh
  <2>3. vring[v].num_in_flight > 0
    BY <1>1, <1>9 DEF rq_complete_bh, VringType
  <2>4. vring' \in [Vring -> VringType] /\ completion' \in [Vring -> Nat]
    BY <1>1, <1>9, <2>3 DEF rq_complete_bh, VringType
  <2>5. RequestsAccounted'
    BY <1>1, <1>9 DEF rq_complete_bh, VringType
  <2> QED
    BY <1>1, <1>9, <2>1, <2>2, <2>4, <2>5 DEF rq_complete_bh
<1>10. ASSUME NEW n \in 0 .. MaxInFlight, vring_kick(v, n)
       PROVE  TypeInv'
  <2>1. vdev' \in VdevType
    BY <1>1, <1>10, RunType DEF vring_kick
  <2>2. PICK handler \in {"attached", "detached"} :
          vring' = [vring EXCEPT ![v].num_in_flight = @ + n,
                                 ![v].kick_handler = handler]
    BY <1>10, Zenon DEF vring_kick
  <2>3. n \in Nat /\ queued' = [queued EXCEPT ![v] = @ + n]
    BY <1>10, MaxInFlightAssumption DEF vring_kick
  <2>4. vring' \in [Vring -> VringType] /\ queued' \in [Vring -> Nat]
    <3>. DEFINE f == [vring EXCEPT ![v].num_in_flight = @ + n]
    <3>1. f \in [Vring -> VringType]
      BY <1>1, <2>3 DEF VringType
    <3>2. vring' = [f EXCEPT ![v].kick_handler = handler]
      BY <2>2
    <3>. HIDE DEF f
    <3>3. handler \in HandlerState
      BY <1>2
    <3>4. vring' \in [Vring -> VringType]
      BY <3>1, <3>2, <3>3 DEF VringType
    <3>5. queued' \in [Vring -> Nat]
      BY <1>1, <2>3
    <3> QED
      BY <3>4, <3>5
  <2>5. RequestsAccounted'
    BY <1>1, <1>10, <2>2, <2>3 DEF vring_kick, VringType
  <2> QED
    BY <1>1, <1>10, <2>1, <2>4, <2>5 DEF vring_kick, TypeOK, BhType
<1>11. CASE vhd_dequeue_request(v)
  <2>1. vdev' \in VdevType
    BY <1>1, <1>11, RunType DEF vhd_dequeue_request
  <2>2. queued' \in [Vring -> Nat] /\ backend' \in [Vring -> Nat]
    BY <1>1, <1>11 DEF vhd_dequeue_request
  <2>3. RequestsAccounted'
    BY <1>1, <1>11 DEF vhd_dequeue_request, VringType
  <2> QED
    BY <1>1, <1>11, <2>1, <2>2, <2>3 DEF vhd_dequeue_request
<1>12. CASE vhd_complete_bio(v)
  <2>1. vdev' \in VdevType
    BY <1>1, <1>12, RunType DEF vhd_complete_bio
  <2>2. backend' \in [Vring -> Nat] /\ completion' \in [Vring -> Nat]
    BY <1>1, <1>12 DEF vhd_complete_bio
  <2>3. RequestsAccounted'
    BY <1>1, <1>12 DEF vhd_complete_bio, VringType
  <2> QED
    BY <1>1, <1>12, <2>1, <2>2, <2>3 DEF vhd_complete_bio
<1> QED
  BY <1>5, <1>6, <1>7, <1>8, <1>9, <1>10, <1>11, <1>12 DEF RqBhs, Requests, TypeOK, BhType

\* A started device.
LEMMA TypeInit ==
  ASSUME Init, VringCounts
  PROVE  TypeInv
<1>1. vdev \in VdevType
  BY DEF Init, VdevType, HandlerState, None, Zero, NoVring
<1> QED
  BY <1>1 DEF Init, TypeInv, TypeOK, RequestsAccounted, VringType, HandlerState,
              NoBhs, Zero, None

\* One step of the device.
LEMMA TypeNext ==
  ASSUME TypeInv, [Next]_vars
  PROVE  TypeInv'
<1>1. CASE UNCHANGED vars
  BY <1>1 DEF TypeInv, TypeOK, RequestsAccounted, vars
<1> QED
  BY <1>1, CtlTypeStep, CtlBhTypeStep, RqTypeStep DEF Next

-----------------------------------------------------------------------------
(* What the functions of vdev.c do to the state the counters are about. *)

\* The counters of e, and what they count.
Counts(e, handling, started, in_flight) ==
    /\ e.num_vrings_handling_msg = handling
    /\ e.num_vrings_started = started
    /\ e.num_vrings_in_flight = in_flight

SameBhs(d, e) ==
    /\ e.vring_start_bh = d.vring_start_bh
    /\ e.vring_sync_to_virtq_bh = d.vring_sync_to_virtq_bh

SameVrings(d, e) ==
    /\ SameBhs(d, e)
    /\ e.started_in_ctl = d.started_in_ctl
    /\ e.on_drain_cb = d.on_drain_cb

Same(d, e) ==
    /\ Counts(e, d.num_vrings_handling_msg, d.num_vrings_started,
              d.num_vrings_in_flight)
    /\ SameVrings(d, e)

Idle(d) ==
    /\ d.conn_handler = "null"
    /\ d.num_vrings_handling_msg = 0
    /\ d.num_vrings_started = 0
    /\ d.num_vrings_in_flight = 0

\* The device may have begun to listen because it is idle, and have lost an
\* error, but it has not been started.
Life(d, e) ==
    /\ e.listen_handler = "attached" => d.listen_handler = "attached" \/ Idle(e)
    /\ e.user = "start_called" =>
          /\ d.user = "start_called"
          /\ d.listen_handler = "null" => e.listen_handler = "null"
    /\ d.fault # None => e.fault # None

Still(d, e) ==
    /\ e.listen_handler = d.listen_handler
    /\ e.conn_handler = d.conn_handler
    /\ e.user = d.user
    /\ e.fault = d.fault

\* e is d, possibly disconnected.
Calm(d, e) ==
    Same(d, e) /\ Life(d, e) /\ e.conn_handler \in {d.conn_handler, "null"}

\* vdev_maybe_vrings_stopped and vdev_maybe_drained.
LEMMA MaybeCalm ==
  ASSUME NEW d \in VdevType, NEW io \in IoResult
  PROVE  /\ Calm(d, vdev_maybe_vrings_stopped(d))
         /\ Calm(d, vdev_maybe_drained(d, io))
<1>1. Calm(d, vdev_maybe_vrings_stopped(d))
  BY DEF Calm, Same, Counts, SameVrings, SameBhs, Life, vdev_maybe_vrings_stopped, vdev_vrings_stopped,
         vdev_complete_work, Fault, VdevType, None
<1>2. Calm(d, vdev_maybe_drained(d, io))
  BY DEF Calm, Same, Counts, SameVrings, SameBhs, Life, Idle, vdev_maybe_drained, vdev_drained,
         vdev_cleanup, vdev_in_use, Fault, VdevType, None
<1> QED
  BY <1>1, <1>2

\* One after the other.
LEMMA CalmTransitive ==
  ASSUME NEW d \in VdevType, NEW e \in VdevType, NEW f \in VdevType,
         Calm(d, e), Calm(e, f)
  PROVE  Calm(d, f)
  BY DEF Calm, Same, Counts, SameVrings, SameBhs, Life, Idle

\* vdev_disconnect leaves no connection.
LEMMA DisconnectCalm ==
  ASSUME NEW d \in VdevType, NEW io \in IoResult
  PROVE  /\ Calm(d, vdev_disconnect(d, io))
         /\ vdev_disconnect(d, io).conn_handler = "null"
<1>. DEFINE e == Disconnecting(d)
            f == vdev_maybe_vrings_stopped(e)
            g == vdev_maybe_drained(f, io)
<1>1. vdev_disconnect(d, io) = IF d.conn_handler = "null" THEN d ELSE g
  BY DisconnectingType
<1>2. Calm(d, d)
  BY DEF Calm, Same, Counts, SameVrings, SameBhs, Life
<1>3. e \in VdevType
  BY DisconnectingType
<1>4. Calm(d, e) /\ e.conn_handler = "null"
  BY DEF Calm, Same, Counts, SameVrings, SameBhs, Life, Disconnecting, VdevType
<1>. HIDE DEF e
<1>5. f \in VdevType /\ g \in VdevType
  BY <1>3, MaybeStoppedType, MaybeDrainedType
<1>6. Calm(e, f) /\ Calm(f, g)
  BY <1>3, <1>5, MaybeCalm
<1>. HIDE DEF f, g
<1>7. Calm(d, g)
  BY <1>3, <1>4, <1>5, <1>6, CalmTransitive
<1>8. g.conn_handler = "null"
  BY <1>4, <1>6 DEF Calm
<1> QED
  BY <1>1, <1>2, <1>7, <1>8

\* A failed assertion, and a callback on a freed device.
LEMMA FaultCalm ==
  ASSUME NEW d \in VdevType, NEW where \in Places
  PROVE  /\ Calm(d, Fault(d, where)) /\ Fault(d, where).fault # None
         /\ Calm(d, Run(d))
  BY DEF Calm, Same, Counts, SameVrings, SameBhs, Life, Idle, Fault, Run, VdevType, Places, None

\* A reply or an acknowledgement, sent or not: d, or d with the message
\* finished.
Replied(d, e) ==
    Same(d, e) /\ Life(d, e) /\ (d.conn_handler = "null" => e.conn_handler = "null")

\* A reply sent, or the connection closed, moves no vring and no counter.
LEMMA ReplyKeeps ==
  ASSUME NEW d \in VdevType, NEW io \in IoResult, NEW fn
  PROVE  /\ Replied(d, vdev_handle_finish(d, io))
         /\ Replied(d, vhost_reply(d, io).dev)
         /\ Replied(d, vhost_ack(d, io).dev)
         /\ Replied(d, complete_msg(d, fn, io).dev)
<1>1. Replied(d, d)
  BY DEF Replied, Same, Counts, SameVrings, SameBhs, Life
<1>2. Replied(d, vdev_handle_finish(d, io))
  BY DEF Replied, Same, Counts, SameVrings, SameBhs, Life, Idle, vdev_handle_finish, VdevType
<1>3. \A c \in VdevType : /\ vhost_reply(c, io).dev \in {c, vdev_handle_finish(c, io)}
                          /\ vhost_ack(c, io).dev \in {c, vdev_handle_finish(c, io)}
  BY DEF vhost_reply, vhost_ack, Ok, Err
<1>4. Replied(d, complete_msg(d, fn, io).dev)
  <2>. DEFINE c == [d EXCEPT !.held = None]
  <2>1. c \in VdevType
    BY DEF VdevType, None
  <2>2. Replied(d, c) /\ Replied(d, vdev_handle_finish(c, io))
    BY DEF Replied, Same, Counts, SameVrings, SameBhs, Life, Idle, vdev_handle_finish, VdevType
  <2>3. complete_msg(d, fn, io).dev \in {c, vdev_handle_finish(c, io)}
    BY <1>3, <2>1 DEF complete_msg
  <2> QED
    BY <2>2, <2>3
<1> QED
  BY <1>1, <1>2, <1>3, <1>4

\* The last vring to handle a message completes it.
LEMMA MsgHandledEffect ==
  ASSUME NEW d \in VdevType, NEW io \in IoResult,
         NEW e, e = vring_mark_msg_handled(d, io), e.fault = None
  PROVE  /\ d.num_vrings_handling_msg # 0
         /\ Counts(e, d.num_vrings_handling_msg - 1, d.num_vrings_started,
                   d.num_vrings_in_flight)
         /\ SameVrings(d, e) /\ Life(d, e)
         /\ e.conn_handler = d.conn_handler \/ e.num_vrings_handling_msg = 0
         /\ d.conn_handler = "null" => e.conn_handler = "null"
<1>. DEFINE c == [d EXCEPT !.num_vrings_handling_msg = @ - 1]
            r == complete_msg(c, c.handle_complete, io)
            f == [r.dev EXCEPT !.handle_complete = None]
<1>1. d.num_vrings_handling_msg # 0
  BY DEF vring_mark_msg_handled, Fault, VdevType, None
<1>2. /\ c \in VdevType
      /\ Counts(c, d.num_vrings_handling_msg - 1, d.num_vrings_started,
                d.num_vrings_in_flight)
      /\ SameVrings(d, c) /\ Life(d, c) /\ c.conn_handler = d.conn_handler
  BY <1>1 DEF VdevType, Counts, SameVrings, SameBhs, Life
<1>3. \/ e = c
      \/ e = Fault(c, "vring_mark_msg_handled")
      \/ c.num_vrings_handling_msg = 0 /\ (e = f \/ e = vdev_disconnect(f, io))
  BY <1>1, Zenon DEF vring_mark_msg_handled
<1>. HIDE DEF c
<1>4. r \in Result /\ Replied(c, r.dev)
  BY <1>2, CompleteMsgType, ReplyKeeps
<1>. HIDE DEF r
<1>5. f \in VdevType /\ Replied(c, f)
  <2>1. r.dev \in VdevType
    BY <1>4 DEF Result
  <2>2. f \in VdevType
    BY <2>1, FieldType
  <2>3. Same(r.dev, f) /\ Still(r.dev, f)
    BY <2>1 DEF Same, Counts, SameVrings, SameBhs, Still, VdevType
  <2> QED
    BY <1>4, <2>2, <2>3 DEF Replied, Same, Counts, SameVrings, SameBhs, Still, Life, Idle
<1>. HIDE DEF f
<1>6. Replied(c, vdev_disconnect(f, io))
  BY <1>2, <1>5, DisconnectType, DisconnectCalm DEF Replied, Calm, Same, Counts, SameVrings, SameBhs, Life, Idle
<1>7. e # Fault(c, "vring_mark_msg_handled")
  BY <1>2, FaultCalm DEF Places
<1>8. Replied(c, e)
  <2>1. Replied(c, c)
    BY <1>2 DEF Replied, Same, Counts, SameVrings, SameBhs, Life
  <2> QED
    BY <1>3, <1>5, <1>6, <1>7, <2>1
<1>9. e.conn_handler = d.conn_handler \/ e.num_vrings_handling_msg = 0
  BY <1>2, <1>3, <1>7, <1>8 DEF Replied, Same, Counts, SameVrings, SameBhs
<1> QED
  BY <1>1, <1>2, <1>8, <1>9 DEF Replied, Same, Counts, SameVrings, SameBhs, Life, Idle

\* The last vring to stop lets vhd_vdev_stop_server return.
LEMMA MarkStoppedEffect ==
  ASSUME NEW d \in VdevType, NEW io \in IoResult, NEW e, e = vring_mark_stopped(d, io), e.fault = None
  PROVE  /\ d.num_vrings_started # 0
         /\ Counts(e, d.num_vrings_handling_msg, d.num_vrings_started - 1,
                   d.num_vrings_in_flight)
         /\ SameVrings(d, e) /\ Life(d, e)
         /\ e.conn_handler \in {d.conn_handler, "null"}
<1>. DEFINE c == [d EXCEPT !.num_vrings_started = @ - 1]
            f == vdev_maybe_vrings_stopped(c)
            g == vdev_maybe_drained(f, io)
<1>1. d.num_vrings_started # 0
  BY DEF vring_mark_stopped, Fault, VdevType, None
<1>2. /\ c \in VdevType
      /\ Counts(c, d.num_vrings_handling_msg, d.num_vrings_started - 1,
                d.num_vrings_in_flight)
      /\ SameVrings(d, c) /\ Life(d, c) /\ c.conn_handler = d.conn_handler
  BY <1>1 DEF VdevType, Counts, SameVrings, SameBhs, Life
<1>3. e = g
  BY <1>1, Zenon DEF vring_mark_stopped
<1>. HIDE DEF c
<1>4. f \in VdevType /\ g \in VdevType /\ Calm(c, f)
  BY <1>2, MaybeStoppedType, MaybeDrainedType, MaybeCalm
<1>. HIDE DEF f
<1>5. Calm(c, g)
  BY <1>2, <1>4, MaybeCalm, CalmTransitive
<1> QED
  BY <1>1, <1>2, <1>3, <1>5 DEF Calm, Same, Counts, SameVrings, SameBhs, Life, Idle

\* The fields vring_mark_drained assigns.
LEMMA SetStarted ==
  ASSUME NEW d \in VdevType, NEW x \in [Vring -> BOOLEAN],
         NEW c, c = [d EXCEPT !.started_in_ctl = x]
  PROVE  /\ c \in VdevType /\ c.started_in_ctl = x
         /\ Counts(c, d.num_vrings_handling_msg, d.num_vrings_started,
                   d.num_vrings_in_flight)
         /\ SameBhs(d, c) /\ Life(d, c)
         /\ c.conn_handler = d.conn_handler
         /\ c.on_drain_cb = d.on_drain_cb
  BY DEF VdevType, Counts, SameBhs, Life

\* The assignment to on_drain_cb.
LEMMA SetOnDrain ==
  ASSUME NEW d \in VdevType, NEW x \in [Vring -> BOOLEAN],
         NEW c, c = [d EXCEPT !.on_drain_cb = x]
  PROVE  /\ c \in VdevType /\ c.on_drain_cb = x
         /\ Counts(c, d.num_vrings_handling_msg, d.num_vrings_started,
                   d.num_vrings_in_flight)
         /\ SameBhs(d, c) /\ Life(d, c)
         /\ c.conn_handler = d.conn_handler
         /\ c.started_in_ctl = d.started_in_ctl
  BY DEF VdevType, Counts, SameBhs, Life

\* The reset of a vring and the count of the vrings in flight.
LEMMA SetInFlight ==
  ASSUME NEW d \in VdevType, NEW x \in [Vring -> BOOLEAN],
         NEW k \in [Vring -> BOOLEAN], NEW n \in Nat,
         NEW c, c = [d EXCEPT !.disconnecting = x, !.kickfd = k,
                              !.num_vrings_in_flight = n]
  PROVE  /\ c \in VdevType
         /\ Counts(c, d.num_vrings_handling_msg, d.num_vrings_started, n)
         /\ SameVrings(d, c) /\ Life(d, c)
         /\ c.conn_handler = d.conn_handler
<1>1. c \in VdevType
  BY FieldType, Zenon
<1>2. Counts(c, d.num_vrings_handling_msg, d.num_vrings_started, n)
  BY DEF VdevType, Counts
<1> QED
  BY <1>1, <1>2 DEF VdevType, SameVrings, SameBhs, Life

\* A drained vring is not started any more, and GET_VRING_BASE is answered.
LEMMA MarkDrainedEffect ==
  ASSUME NEW d \in VdevType, NEW v \in Vring, NEW io \in IoResult,
         NEW e, e = vring_mark_drained(d, v, io), e.fault = None
  PROVE  /\ d.num_vrings_in_flight # 0 /\ d.started_in_ctl[v]
         /\ Counts(e, d.num_vrings_handling_msg, d.num_vrings_started,
                   d.num_vrings_in_flight - 1)
         /\ SameBhs(d, e) /\ Life(d, e)
         /\ e.started_in_ctl = [d.started_in_ctl EXCEPT ![v] = FALSE]
         /\ e.on_drain_cb = [d.on_drain_cb EXCEPT ![v] = FALSE]
         /\ e.conn_handler \in {d.conn_handler, "null"} \/ d.on_drain_cb[v]
         /\ d.conn_handler = "null" => e.conn_handler = "null"
<1>. DEFINE c == [d EXCEPT !.started_in_ctl[v] = FALSE]
            r == vhost_reply(c, io)
            b == [r.dev EXCEPT !.on_drain_cb[v] = FALSE]
            f == on_drain(c, v, io)
            g == [f EXCEPT !.disconnecting[v] = FALSE,
                           !.kickfd[v] = FALSE,
                           !.num_vrings_in_flight = @ - 1]
<1>1. d.num_vrings_in_flight # 0 /\ d.started_in_ctl[v]
  BY DEF vring_mark_drained, Fault, VdevType, None
<1>2. e = vdev_maybe_drained(g, io)
  BY <1>1, Zenon DEF vring_mark_drained
<1>. DEFINE x == [d.started_in_ctl EXCEPT ![v] = FALSE]
<1>3. x \in [Vring -> BOOLEAN] /\ c = [d EXCEPT !.started_in_ctl = x]
  <2>1. x \in [Vring -> BOOLEAN]
    BY DEF VdevType
  <2>2. c = [d EXCEPT !.started_in_ctl = x]
    BY Zenon
  <2> QED
    BY <2>1, <2>2
<1>4. /\ c \in VdevType
      /\ Counts(c, d.num_vrings_handling_msg, d.num_vrings_started,
                d.num_vrings_in_flight)
      /\ SameBhs(d, c) /\ Life(d, c) /\ c.conn_handler = d.conn_handler
      /\ c.started_in_ctl = x
      /\ c.on_drain_cb = d.on_drain_cb
  <2>. HIDE DEF c, x
  <2> QED
    BY <1>3, SetStarted
<1>5. f = IF ~c.on_drain_cb[v] THEN c ELSE IF r.ok THEN b ELSE vdev_disconnect(b, io)
  BY Zenon DEF on_drain
<1>. HIDE DEF c
<1>. DEFINE Answered(u) ==
       /\ Counts(u, c.num_vrings_handling_msg, c.num_vrings_started,
                 c.num_vrings_in_flight)
       /\ SameBhs(c, u) /\ Life(c, u)
       /\ u.started_in_ctl = c.started_in_ctl
       /\ u.on_drain_cb = [c.on_drain_cb EXCEPT ![v] = FALSE]
       /\ c.conn_handler = "null" => u.conn_handler = "null"
<1>6. b \in VdevType /\ Answered(b)
  <2>1. r \in Result /\ Replied(c, r.dev)
    BY <1>4, ReplyType, ReplyKeeps
  <2>. HIDE DEF r
  <2>. DEFINE y == [r.dev.on_drain_cb EXCEPT ![v] = FALSE]
  <2>2. r.dev \in VdevType /\ y \in [Vring -> BOOLEAN]
    BY <2>1 DEF Result, VdevType
  <2>3. /\ b \in VdevType
        /\ Counts(b, r.dev.num_vrings_handling_msg, r.dev.num_vrings_started,
                  r.dev.num_vrings_in_flight)
        /\ SameBhs(r.dev, b) /\ Life(r.dev, b)
        /\ b.conn_handler = r.dev.conn_handler
        /\ b.started_in_ctl = r.dev.started_in_ctl
        /\ b.on_drain_cb = y
    <3>1. b = [r.dev EXCEPT !.on_drain_cb = y]
      BY Zenon
    <3>. HIDE DEF b, y
    <3> QED
      BY <2>2, <3>1, SetOnDrain
  <2> QED
    BY <2>1, <2>3 DEF Replied, Same, Counts, SameVrings, SameBhs, Life, Idle
<1>. HIDE DEF r, b
<1>7. vdev_disconnect(b, io) \in VdevType /\ Answered(vdev_disconnect(b, io))
  <2>1. /\ vdev_disconnect(b, io) \in VdevType /\ Calm(b, vdev_disconnect(b, io))
        /\ vdev_disconnect(b, io).conn_handler = "null"
    BY <1>6, DisconnectType, DisconnectCalm
  <2> QED
    BY <1>6, <2>1 DEF Calm, Same, Counts, SameVrings, SameBhs, Life, Idle
<1>8. ~c.on_drain_cb[v] => Answered(c)
  BY <1>4 DEF Counts, SameBhs, Life, VdevType
<1>9. f \in VdevType /\ Answered(f)
      /\ (f.conn_handler = c.conn_handler \/ d.on_drain_cb[v])
  BY <1>4, <1>5, <1>6, <1>7, <1>8
<1>. HIDE DEF f
<1>10. /\ g \in VdevType
       /\ Counts(g, c.num_vrings_handling_msg, c.num_vrings_started,
                 c.num_vrings_in_flight - 1)
       /\ SameVrings(f, g) /\ Life(f, g)
       /\ g.conn_handler = f.conn_handler
  <2>. DEFINE y == [f.disconnecting EXCEPT ![v] = FALSE]
              k == [f.kickfd EXCEPT ![v] = FALSE]
              n == f.num_vrings_in_flight - 1
  <2>1. {y, k} \subseteq [Vring -> BOOLEAN] /\ n \in Nat
    BY <1>1, <1>4, <1>9 DEF VdevType, Counts
  <2>2. /\ g \in VdevType
        /\ Counts(g, f.num_vrings_handling_msg, f.num_vrings_started, n)
        /\ SameVrings(f, g) /\ Life(f, g)
        /\ g.conn_handler = f.conn_handler
    <3>1. g = [f EXCEPT !.disconnecting = y, !.kickfd = k,
                        !.num_vrings_in_flight = n]
      BY Zenon
    <3>. HIDE DEF g, y, k, n
    <3> QED
      BY <1>9, <2>1, <3>1, SetInFlight
  <2> QED
    BY <1>9, <2>2 DEF Counts
<1>. HIDE DEF g
<1>11. Calm(g, e)
  BY <1>2, <1>10, MaybeCalm
<1>12. /\ Counts(e, d.num_vrings_handling_msg, d.num_vrings_started,
                   d.num_vrings_in_flight - 1)
       /\ SameBhs(d, e)
       /\ e.started_in_ctl = [d.started_in_ctl EXCEPT ![v] = FALSE]
       /\ e.on_drain_cb = [d.on_drain_cb EXCEPT ![v] = FALSE]
  BY <1>4, <1>9, <1>10, <1>11 DEF Calm, Same, Counts, SameVrings, SameBhs
<1>13. Life(d, e)
  <2>1. ~Idle(c) /\ ~Idle(f)
    BY <1>1, <1>4, <1>9 DEF Idle, Counts
  <2>2. Idle(g) => Idle(e)
    BY <1>11 DEF Idle, Calm, Same, Counts
  <2> QED
    BY <1>4, <1>9, <1>10, <1>11, <2>1, <2>2 DEF Calm, Life
<1> QED
  BY <1>1, <1>4, <1>9, <1>10, <1>11, <1>12, <1>13 DEF Calm

\* The vrings in T have a message to handle.
HandedTo(d, e, T) ==
    /\ T \in SUBSET {w \in Vring : d.started_in_ctl[w]}
    /\ Counts(e, d.num_vrings_handling_msg + Cardinality(T),
              d.num_vrings_started, d.num_vrings_in_flight)
    /\ e.started_in_ctl = d.started_in_ctl
    /\ e.on_drain_cb = d.on_drain_cb
    /\ e.vring_start_bh = d.vring_start_bh
    /\ e.vring_sync_to_virtq_bh = [w \in Vring |->
          IF w \in T THEN d.vring_sync_to_virtq_bh[w] + 1
                     ELSE d.vring_sync_to_virtq_bh[w]]
    /\ Still(d, e)

\* A message that vrings handle is completed at once, or handed to them.
LEMMA InVringsEffect ==
  ASSUME NEW d \in VdevType, NEW S \in SUBSET Vring,
         NEW fn \in Completes,
         NEW parked \in {None, "old_memmap", "old_memlog", "keep_fd"},
         NEW inline \in BOOLEAN, NEW io \in IoResult,
         NEW r, r = handle_in_vrings(d, S, fn, parked, inline, io)
  PROVE  \/ inline /\ Replied(d, r.dev)
         \/ /\ ~inline /\ r.ok
            /\ HandedTo(d, r.dev, {w \in S : d.started_in_ctl[w]})
<1>. DEFINE e == [d EXCEPT !.held = parked]
            f == [e EXCEPT !.handle_complete = fn]
            T == {w \in S : d.started_in_ctl[w]}
<1>1. e \in VdevType /\ f \in VdevType
  BY FieldType, Zenon
<1>2. Replied(d, e)
  BY <1>1 DEF Replied, Same, Counts, SameVrings, SameBhs, Life, VdevType
<1>3. /\ Counts(f, d.num_vrings_handling_msg, d.num_vrings_started,
                d.num_vrings_in_flight)
      /\ SameVrings(d, f) /\ Still(d, f)
  BY <1>1 DEF Counts, SameVrings, SameBhs, Still, VdevType
<1>4. r = IF inline THEN complete_msg(e, fn, io) ELSE Ok(vring_handle_msg(f, S))
  BY Zenon DEF handle_in_vrings
<1>. HIDE DEF e, f
<1>5. CASE inline
  <2>1. complete_msg(e, fn, io) \in Result /\ Replied(e, complete_msg(e, fn, io).dev)
    BY <1>1, CompleteMsgType, ReplyKeeps
  <2> QED
    BY <1>1, <1>2, <1>4, <1>5, <2>1 DEF Replied, Same, Counts, SameVrings,
                                        SameBhs, Life, Idle, Result
<1>6. CASE ~inline
  <2>. DEFINE g == vring_handle_msg(f, S)
  <2>1. r.ok /\ r.dev = g
    BY <1>4, <1>6 DEF Ok
  <2>2. f.started_in_ctl = d.started_in_ctl
    BY <1>3 DEF SameVrings
  <2>3. g = [f EXCEPT
               !.num_vrings_handling_msg = @ + Cardinality(T),
               !.vring_sync_to_virtq_bh = [w \in Vring |->
                   IF w \in T THEN @[w] + 1 ELSE @[w]]]
    BY <2>2, Zenon DEF vring_handle_msg
  <2>4. T \in SUBSET {w \in Vring : d.started_in_ctl[w]}
    OBVIOUS
  <2>. HIDE DEF T
  <2>5. /\ Counts(g, f.num_vrings_handling_msg + Cardinality(T),
                  f.num_vrings_started, f.num_vrings_in_flight)
        /\ g.started_in_ctl = f.started_in_ctl
        /\ g.on_drain_cb = f.on_drain_cb
        /\ g.vring_start_bh = f.vring_start_bh
        /\ g.vring_sync_to_virtq_bh = [w \in Vring |->
              IF w \in T THEN f.vring_sync_to_virtq_bh[w] + 1
                         ELSE f.vring_sync_to_virtq_bh[w]]
        /\ Still(f, g)
    BY <1>1, <2>3 DEF Counts, Still, VdevType
  <2>. HIDE DEF g
  <2>6. HandedTo(d, g, T)
    BY <1>3, <2>4, <2>5 DEF HandedTo, Counts, SameVrings, SameBhs, Still
  <2> QED
    BY <1>6, <2>1, <2>6 DEF T
<1> QED
  BY <1>5, <1>6

\* SET_VRING_KICK starts v.
Kicked(d, e, v) ==
    /\ ~d.started_in_ctl[v]
    /\ Counts(e, d.num_vrings_handling_msg + 1, d.num_vrings_started + 1,
              d.num_vrings_in_flight + 1)
    /\ e.started_in_ctl = [d.started_in_ctl EXCEPT ![v] = TRUE]
    /\ e.on_drain_cb = d.on_drain_cb
    /\ e.vring_start_bh = [d.vring_start_bh EXCEPT ![v] = @ + 1]
    /\ e.vring_sync_to_virtq_bh = d.vring_sync_to_virtq_bh
    /\ Still(d, e)

\* GET_VRING_BASE waits for v to drain.
Draining(d, e, v) ==
    /\ d.started_in_ctl[v]
    /\ Counts(e, d.num_vrings_handling_msg, d.num_vrings_started,
              d.num_vrings_in_flight)
    /\ e.started_in_ctl = d.started_in_ctl
    /\ e.on_drain_cb = [d.on_drain_cb EXCEPT ![v] = TRUE]
    /\ SameBhs(d, e)
    /\ Still(d, e)

\* The handlers that start and stop a vring.
LEMMA KickEffect ==
  ASSUME NEW d \in VdevType, NEW v \in Vring, NEW io \in IoResult
  PROVE  /\ LET r == vhost_set_vring_kick(d, v)
            IN  \/ r = Err(d)
                \/ r.ok /\ r.dev.fault # None
                \/ r.ok /\ Kicked(d, r.dev, v)
         /\ LET r == vhost_get_vring_base(d, v, io)
            IN  r = vhost_reply(d, io) \/ (r.ok /\ Draining(d, r.dev, v))
<1>. DEFINE x == [d.started_in_ctl EXCEPT ![v] = TRUE]
            y == [d.vring_start_bh EXCEPT ![v] = @ + 1]
            z == [d.on_drain_cb EXCEPT ![v] = TRUE]
            s == [d.vring_stop_bh EXCEPT ![v] = @ + 1]
            k == [d.kickfd EXCEPT ![v] = TRUE]
            e == [d EXCEPT !.kickfd = k,
                           !.started_in_ctl = x,
                           !.num_vrings_started = @ + 1,
                           !.num_vrings_in_flight = @ + 1,
                           !.handle_complete = "set_vring_kick_complete",
                           !.num_vrings_handling_msg = @ + 1,
                           !.vring_start_bh = y]
            f == [d EXCEPT !.on_drain_cb = z, !.vring_stop_bh = s]
<1>1. /\ d.started_in_ctl[v] => vhost_set_vring_kick(d, v) = Err(d)
      /\ ~d.started_in_ctl[v] =>
           vhost_set_vring_kick(d, v) \in
             {Ok(e), Ok(Fault(d, "vhost_set_vring_kick"))}
  <2>1. [d EXCEPT !.kickfd[v] = TRUE,
                  !.started_in_ctl[v] = TRUE,
                  !.num_vrings_started = @ + 1,
                  !.num_vrings_in_flight = @ + 1,
                  !.handle_complete = "set_vring_kick_complete",
                  !.num_vrings_handling_msg = @ + 1,
                  !.vring_start_bh[v] = @ + 1] = e
    BY DEF VdevType
  <2>. HIDE DEF e
  <2> QED
    BY <2>1 DEF vhost_set_vring_kick
<1>2. /\ ~d.started_in_ctl[v] => vhost_get_vring_base(d, v, io) = vhost_reply(d, io)
      /\ d.started_in_ctl[v] => vhost_get_vring_base(d, v, io) = Ok(f)
  <2>1. [d EXCEPT !.on_drain_cb[v] = TRUE, !.vring_stop_bh[v] = @ + 1] = f
    BY DEF VdevType
  <2>. HIDE DEF f
  <2> QED
    BY <2>1 DEF vhost_get_vring_base
<1>3. ~d.started_in_ctl[v] => Kicked(d, e, v)
  <2>. HIDE DEF x, y, k
  <2>1. /\ e.started_in_ctl = x /\ e.vring_start_bh = y
        /\ Counts(e, d.num_vrings_handling_msg + 1, d.num_vrings_started + 1,
                  d.num_vrings_in_flight + 1)
        /\ e.on_drain_cb = d.on_drain_cb
        /\ e.vring_sync_to_virtq_bh = d.vring_sync_to_virtq_bh
        /\ Still(d, e)
    BY DEF VdevType, Counts, Still
  <2>. HIDE DEF e
  <2> QED
    BY <2>1 DEF Kicked, x, y
<1>4. d.started_in_ctl[v] => Draining(d, f, v)
  <2>. HIDE DEF z, s
  <2>1. /\ f.on_drain_cb = z /\ f.started_in_ctl = d.started_in_ctl
        /\ Counts(f, d.num_vrings_handling_msg, d.num_vrings_started,
                  d.num_vrings_in_flight)
        /\ SameBhs(d, f)
        /\ Still(d, f)
    BY DEF VdevType, Counts, SameBhs, Still
  <2>. HIDE DEF f
  <2> QED
    BY <2>1 DEF Draining, z
<1>. HIDE DEF e, f
<1>5. Ok(e).ok /\ Ok(e).dev = e /\ Ok(f).ok /\ Ok(f).dev = f
  BY DEF Ok
<1>6. LET r == Ok(Fault(d, "vhost_set_vring_kick"))
      IN  r.ok /\ r.dev.fault # None
  BY DEF Ok, Fault, VdevType, None
<1> QED
  BY <1>1, <1>2, <1>3, <1>4, <1>5, <1>6

\* What handling a message does: it is answered or refused, handed to vrings,
\* starts one or waits for one to drain, or an assertion fails.
LEMMA HandlerEffect ==
  ASSUME NEW d \in VdevType, NEW m \in AllMsgs, NEW v \in Vring,
         NEW io \in IoResult, NEW r, r = vhost_handle_msg(d, m, v, io)
  PROVE  \/ Replied(d, r.dev)
         \/ r.ok /\ \E T \in SUBSET Vring : HandedTo(d, r.dev, T)
         \/ r.ok /\ Kicked(d, r.dev, v)
         \/ r.ok /\ Draining(d, r.dev, v)
         \/ r.ok /\ r.dev.fault # None
<1>. DEFINE Done(x) == \/ Replied(d, x.dev)
                       \/ x.ok /\ \E T \in SUBSET Vring : HandedTo(d, x.dev, T)
                       \/ x.ok /\ Kicked(d, x.dev, v)
                       \/ x.ok /\ Draining(d, x.dev, v)
                       \/ x.ok /\ x.dev.fault # None
<1>1. Done(vhost_reply(d, io)) /\ Done(vhost_ack(d, io)) /\ Done(Err(d))
  <2>1. Replied(d, d) /\ Err(d).dev = d
    BY DEF Replied, Same, Counts, SameVrings, SameBhs, Life, Err
  <2> QED
    BY <2>1, ReplyKeeps
<1>2. Done(vhost_set_vring_kick(d, v)) /\ Done(vhost_get_vring_base(d, v, io))
  <2>1. Done(vhost_set_vring_kick(d, v))
    BY <1>1, KickEffect
  <2>2. Done(vhost_get_vring_base(d, v, io))
    BY <1>1, KickEffect
  <2> QED
    BY <2>1, <2>2
<1>3. ASSUME NEW S \in SUBSET Vring, NEW fn \in Completes,
             NEW parked \in {None, "old_memmap", "old_memlog", "keep_fd"},
             NEW inline \in BOOLEAN
      PROVE  Done(handle_in_vrings(d, S, fn, parked, inline, io))
  BY InVringsEffect
<1>4. ASSUME NEW where \in Places PROVE Done(Ok(Fault(d, where)))
  BY FaultCalm DEF Ok
<1>. HIDE DEF Done
<1>5. /\ Done(vhost_set_protocol_features(d, io))
      /\ Done(vhost_get_inflight_fd(d, io))
      /\ Done(vhost_set_inflight_fd(d, io))
      /\ Done(vhost_set_vring_num(d, v, io))
      /\ Done(vhost_set_vring_base(d, v, io))
  BY <1>1, Zenon DEF vhost_set_protocol_features, vhost_get_inflight_fd,
                     vhost_set_inflight_fd, vhost_set_vring_num,
                     vhost_set_vring_base
<1>6. /\ (d.num_vrings_in_flight = 0) \in BOOLEAN
      /\ (~d.started_in_ctl[v]) \in BOOLEAN
      /\ {v} \in SUBSET Vring /\ Vring \in SUBSET Vring
  OBVIOUS
<1>7. Done(vhost_set_features(d, io))
  BY <1>3, <1>6, Zenon DEF vhost_set_features, Completes
<1>8. Done(vhost_set_mem_table(d, io))
  BY <1>3, <1>6, Zenon DEF vhost_set_mem_table, Completes
<1>9. Done(vhost_set_log_base(d, io))
  BY <1>3, <1>6, Zenon DEF vhost_set_log_base, Completes
<1>10. Done(vhost_set_vring_addr(d, v, io))
  BY <1>3, <1>6, Zenon DEF vhost_set_vring_addr, Completes
<1>11. Done(vhost_set_vring_call(d, v, io))
  BY <1>3, <1>4, <1>6, Zenon DEF vhost_set_vring_call, Completes, Places
<1>12. Done(vhost_set_vring_err(d, v, io))
  BY <1>3, <1>4, <1>6, Zenon DEF vhost_set_vring_err, Completes, Places
<1>13. Done(r)
  BY <1>1, <1>2, <1>5, <1>7, <1>8, <1>9, <1>10, <1>11, <1>12
     DEF vhost_handle_msg, AllMsgs, ReplyMsgs
<1> QED
  BY <1>13 DEF Done

-----------------------------------------------------------------------------
(* GET_VRING_BASE. *)

\* A callback on a freed device answers no message.
LEMMA RunDrainCb ==
  ASSUME NEW d \in VdevType
  PROVE  Run(d).on_drain_cb = d.on_drain_cb
  BY DEF Fault, Run, VdevType

\* on_drain_cb outlives everything but the drain of its vring, also when an
\* assertion fails.
LEMMA DrainCbKept ==
  ASSUME NEW d \in VdevType, NEW io \in IoResult, NEW fn, NEW where
  PROVE  /\ vdev_maybe_vrings_stopped(d).on_drain_cb = d.on_drain_cb
         /\ vdev_maybe_drained(d, io).on_drain_cb = d.on_drain_cb
         /\ vdev_disconnect(d, io).on_drain_cb = d.on_drain_cb
         /\ vhost_reply(d, io).dev.on_drain_cb = d.on_drain_cb
         /\ complete_msg(d, fn, io).dev.on_drain_cb = d.on_drain_cb
         /\ Fault(d, where).on_drain_cb = d.on_drain_cb
         /\ Run(d).on_drain_cb = d.on_drain_cb
<1>1. /\ vdev_maybe_vrings_stopped(d).on_drain_cb = d.on_drain_cb
      /\ vdev_maybe_drained(d, io).on_drain_cb = d.on_drain_cb
  BY MaybeCalm DEF Calm, Same, SameVrings
<1>2. vdev_disconnect(d, io).on_drain_cb = d.on_drain_cb
  BY DisconnectCalm DEF Calm, Same, SameVrings
<1>3. /\ vhost_reply(d, io).dev.on_drain_cb = d.on_drain_cb
      /\ complete_msg(d, fn, io).dev.on_drain_cb = d.on_drain_cb
  <2>1. Replied(d, vhost_reply(d, io).dev) /\ Replied(d, complete_msg(d, fn, io).dev)
    BY ReplyKeeps
  <2> QED
    BY <2>1 DEF Replied, Same, SameVrings
<1>4. /\ Fault(d, where).on_drain_cb = d.on_drain_cb
      /\ Run(d).on_drain_cb = d.on_drain_cb
  BY RunDrainCb DEF Fault, VdevType
<1> QED
  BY <1>1, <1>2, <1>3, <1>4

\* A vring that has handled a message leaves every on_drain_cb.
LEMMA MsgHandledDrainCb ==
  ASSUME NEW d \in VdevType, NEW io \in IoResult
  PROVE  vring_mark_msg_handled(d, io).on_drain_cb = d.on_drain_cb
<1>. DEFINE e == [d EXCEPT !.num_vrings_handling_msg = @ - 1]
            r == complete_msg(e, e.handle_complete, io)
            f == [r.dev EXCEPT !.handle_complete = None]
            g == vring_mark_msg_handled(d, io)
<1>1. CASE d.num_vrings_handling_msg = 0
  BY <1>1, DrainCbKept DEF vring_mark_msg_handled
<1>2. CASE d.num_vrings_handling_msg # 0
  <2>1. e \in VdevType /\ e.on_drain_cb = d.on_drain_cb
    BY <1>2 DEF VdevType
  <2>2. \/ g = e \/ g = Fault(e, "vring_mark_msg_handled")
        \/ g = f \/ g = vdev_disconnect(f, io)
    BY <1>2, Zenon DEF vring_mark_msg_handled
  <2>. HIDE DEF e, g
  <2>3. r.dev \in VdevType /\ r.dev.on_drain_cb = d.on_drain_cb
    BY <2>1, CompleteMsgType, DrainCbKept DEF Result
  <2>. HIDE DEF r
  <2>4. f \in VdevType /\ f.on_drain_cb = d.on_drain_cb
    <3>1. f \in VdevType
      BY <2>3, FieldType
    <3>2. f.on_drain_cb = d.on_drain_cb
      BY <2>3 DEF VdevType
    <3> QED
      BY <3>1, <3>2
  <2>. HIDE DEF f
  <2>5. vdev_disconnect(f, io).on_drain_cb = d.on_drain_cb
    BY <2>4, DrainCbKept
  <2>6. Fault(e, "vring_mark_msg_handled").on_drain_cb = d.on_drain_cb
    BY <2>1, DrainCbKept
  <2>7. g.on_drain_cb = d.on_drain_cb
    BY <2>1, <2>2, <2>4, <2>5, <2>6
  <2> QED
    BY <2>7 DEF g
<1> QED
  BY <1>1, <1>2 DEF VdevType

\* So does a vring that has stopped.
LEMMA StoppedDrainCb ==
  ASSUME NEW d \in VdevType, NEW io \in IoResult
  PROVE  vring_mark_stopped(d, io).on_drain_cb = d.on_drain_cb
<1>. DEFINE e == [d EXCEPT !.num_vrings_started = @ - 1]
<1>1. CASE d.num_vrings_started = 0
  BY <1>1, DrainCbKept DEF vring_mark_stopped
<1>2. CASE d.num_vrings_started # 0
  <2>1. e \in VdevType /\ e.on_drain_cb = d.on_drain_cb
    BY <1>2 DEF VdevType
  <2>2. vring_mark_stopped(d, io) = vdev_maybe_drained(vdev_maybe_vrings_stopped(e), io)
    BY <1>2, Zenon DEF vring_mark_stopped
  <2>. HIDE DEF e
  <2>3. /\ vdev_maybe_vrings_stopped(e) \in VdevType
        /\ vdev_maybe_vrings_stopped(e).on_drain_cb = d.on_drain_cb
    BY <2>1, MaybeStoppedType, DrainCbKept
  <2> QED
    BY <2>2, <2>3, DrainCbKept
<1> QED
  BY <1>1, <1>2

\* vring_mark_drained clears the on_drain_cb of its own vring only.
LEMMA DrainedDrainCb ==
  ASSUME NEW d \in VdevType, NEW v \in Vring, NEW io \in IoResult,
         NEW w \in Vring, w # v
  PROVE  vring_mark_drained(d, v, io).on_drain_cb[w] = d.on_drain_cb[w]
<1>. DEFINE c == [d EXCEPT !.started_in_ctl[v] = FALSE]
            r == vhost_reply(c, io)
            b == [r.dev EXCEPT !.on_drain_cb[v] = FALSE]
            f == on_drain(c, v, io)
            g == [f EXCEPT !.disconnecting[v] = FALSE,
                           !.kickfd[v] = FALSE,
                           !.num_vrings_in_flight = @ - 1]
<1>1. CASE ~d.started_in_ctl[v] \/ d.num_vrings_in_flight = 0
  BY <1>1, DrainCbKept DEF vring_mark_drained
<1>2. CASE d.started_in_ctl[v] /\ d.num_vrings_in_flight # 0
  <2>. DEFINE x == [d.started_in_ctl EXCEPT ![v] = FALSE]
  <2>1. x \in [Vring -> BOOLEAN] /\ d.num_vrings_in_flight - 1 \in Nat
    BY <1>2 DEF VdevType
  <2>2. vring_mark_drained(d, v, io) = vdev_maybe_drained(g, io)
    BY <1>2, Zenon DEF vring_mark_drained
  <2>3. /\ c \in VdevType /\ c.on_drain_cb = d.on_drain_cb
        /\ c.num_vrings_in_flight = d.num_vrings_in_flight
    <3>1. c = [d EXCEPT !.started_in_ctl = x]
      BY Zenon
    <3>. HIDE DEF c, x
    <3> QED
      BY <2>1, <3>1, SetStarted DEF Counts
  <2>4. f = IF ~c.on_drain_cb[v] THEN c ELSE IF r.ok THEN b ELSE vdev_disconnect(b, io)
    BY Zenon DEF on_drain
  <2>. HIDE DEF c
  <2>5. /\ r.dev \in VdevType /\ r.dev.on_drain_cb = d.on_drain_cb
        /\ r.dev.num_vrings_in_flight = d.num_vrings_in_flight
    <3>1. r \in Result /\ Replied(c, r.dev)
      BY <2>3, ReplyType, ReplyKeeps
    <3>. HIDE DEF r
    <3> QED
      BY <2>3, <3>1 DEF Result, Replied, Same, SameVrings, Counts
  <2>. HIDE DEF r
  <2>6. /\ b \in VdevType /\ b.on_drain_cb[w] = d.on_drain_cb[w]
        /\ b.num_vrings_in_flight = d.num_vrings_in_flight
    <3>. DEFINE y == [r.dev.on_drain_cb EXCEPT ![v] = FALSE]
    <3>1. b = [r.dev EXCEPT !.on_drain_cb = y]
      BY Zenon
    <3>2. y \in [Vring -> BOOLEAN] /\ y[w] = d.on_drain_cb[w]
      BY <2>5 DEF VdevType
    <3>. HIDE DEF b, y
    <3> QED
      BY <2>5, <3>1, <3>2, SetOnDrain DEF Counts
  <2>. HIDE DEF b
  <2>7. /\ vdev_disconnect(b, io) \in VdevType
        /\ vdev_disconnect(b, io).on_drain_cb[w] = d.on_drain_cb[w]
        /\ vdev_disconnect(b, io).num_vrings_in_flight = d.num_vrings_in_flight
    BY <2>6, DisconnectType, DisconnectCalm DEF Calm, Same, SameVrings, Counts
  <2>8. /\ f \in VdevType /\ f.on_drain_cb[w] = d.on_drain_cb[w]
        /\ f.num_vrings_in_flight = d.num_vrings_in_flight
    BY <2>3, <2>4, <2>6, <2>7
  <2>. HIDE DEF f
  <2>9. g \in VdevType /\ g.on_drain_cb = f.on_drain_cb
    <3>. DEFINE z == [f.disconnecting EXCEPT ![v] = FALSE]
                k == [f.kickfd EXCEPT ![v] = FALSE]
                n == f.num_vrings_in_flight - 1
    <3>1. {z, k} \subseteq [Vring -> BOOLEAN] /\ n \in Nat
      BY <2>1, <2>8 DEF VdevType
    <3>2. g = [f EXCEPT !.disconnecting = z, !.kickfd = k,
                        !.num_vrings_in_flight = n]
      BY Zenon
    <3>. HIDE DEF g, z, k, n
    <3>3. f \in VdevType
      BY <2>8
    <3>4. g \in VdevType /\ SameVrings(f, g)
      BY <3>1, <3>2, <3>3, SetInFlight
    <3> QED
      BY <3>4 DEF SameVrings
  <2>. HIDE DEF g
  <2>10. vdev_maybe_drained(g, io).on_drain_cb = g.on_drain_cb
    BY <2>9, DrainCbKept
  <2> QED
    BY <2>2, <2>8, <2>9, <2>10
<1> QED
  BY <1>1, <1>2

\* So does vring_start_failed_bh, whose acknowledgements are the three above.
LEMMA StartFailedDrainCb ==
  ASSUME NEW d \in VdevType, NEW v \in Vring, NEW io \in IoResult,
         NEW w \in Vring, w # v
  PROVE  vring_start_failed(d, v, io).on_drain_cb[w] = d.on_drain_cb[w]
<1>. DEFINE e == [d EXCEPT !.handle_complete = "set_vring_kick_fail_complete"]
            f == vring_mark_msg_handled(e, io)
            g == vring_mark_stopped(f, io)
<1>1. e \in VdevType
  BY FieldType DEF Completes
<1>2. e.on_drain_cb = d.on_drain_cb
  BY DEF VdevType
<1>3. vring_start_failed(d, v, io) = vring_mark_drained(g, v, io)
  BY Zenon DEF vring_start_failed
<1>. HIDE DEF e
<1>4. f \in VdevType /\ f.on_drain_cb = d.on_drain_cb
  BY <1>1, <1>2, MsgHandledType, MsgHandledDrainCb
<1>. HIDE DEF f
<1>5. g \in VdevType /\ g.on_drain_cb = d.on_drain_cb
  BY <1>4, MarkStoppedType, StoppedDrainCb
<1>. HIDE DEF g
<1> QED
  BY <1>3, <1>5, DrainedDrainCb

\* vdev_start and vdev_stop answer no message.
LEMMA WorkDrainCb ==
  ASSUME vdev \in VdevType, vdev_work_fn
  PROVE  vdev'.on_drain_cb = vdev.on_drain_cb
<1>. DEFINE d == [vdev EXCEPT !.work_bh = FALSE, !.work = TRUE]
            a == [d EXCEPT !.listen_handler = "attached"]
            n == [d EXCEPT !.listen_handler = "null"]
            m == vdev_maybe_vrings_stopped(n)
<1>1. d \in VdevType /\ a \in VdevType /\ n \in VdevType
  BY FieldType, Zenon DEF HandlerState
<1>2. /\ d.on_drain_cb = vdev.on_drain_cb /\ a.on_drain_cb = vdev.on_drain_cb
      /\ n.on_drain_cb = vdev.on_drain_cb
  BY DEF VdevType
<1>3. PICK io \in IoResult :
        \/ vdev' = vdev_complete_work(a, "running")
        \/ vdev' = vdev_complete_work(d, "start_failed")
        \/ vdev' = Run(vdev_stop(d, io))
  BY Zenon DEF vdev_work_fn, vdev_start
<1>4. vdev_stop(d, io) \in {vdev_disconnect(n, io), vdev_maybe_drained(m, io)}
  BY Zenon DEF vdev_stop
<1>. HIDE DEF d, a, n
<1>5. m \in VdevType /\ m.on_drain_cb = vdev.on_drain_cb
  BY <1>1, <1>2, MaybeStoppedType, DrainCbKept
<1>. HIDE DEF m
<1>6. vdev_stop(d, io) \in VdevType /\ vdev_stop(d, io).on_drain_cb = vdev.on_drain_cb
  <2>1. /\ vdev_disconnect(n, io) \in VdevType
        /\ vdev_disconnect(n, io).on_drain_cb = vdev.on_drain_cb
    BY <1>1, <1>2, DisconnectType, DrainCbKept
  <2>2. /\ vdev_maybe_drained(m, io) \in VdevType
        /\ vdev_maybe_drained(m, io).on_drain_cb = vdev.on_drain_cb
    BY <1>5, MaybeDrainedType, DrainCbKept
  <2> QED
    BY <1>4, <2>1, <2>2
<1>7. ASSUME NEW c \in VdevType, NEW ret
      PROVE  vdev_complete_work(c, ret).on_drain_cb = c.on_drain_cb
  BY DEF vdev_complete_work, Fault, VdevType
<1>8. /\ vdev_complete_work(a, "running").on_drain_cb = vdev.on_drain_cb
      /\ vdev_complete_work(d, "start_failed").on_drain_cb = vdev.on_drain_cb
  BY <1>1, <1>2, <1>7
<1>9. Run(vdev_stop(d, io)).on_drain_cb = vdev.on_drain_cb
  BY <1>6, DrainCbKept
<1> QED
  BY <1>3, <1>8, <1>9

\* The request queue answers no message.
LEMMA RqDrainCb ==
  ASSUME vdev \in VdevType, NEW v \in Vring, RqBhs(v) \/ Requests(v)
  PROVE  vdev'.on_drain_cb = vdev.on_drain_cb
<1>1. CASE vring_start_bh(v)
  BY <1>1 DEF vring_start_bh, Run, Fault, VdevType
<1>2. CASE vring_sync_to_virtq_bh(v)
  BY <1>2 DEF vring_sync_to_virtq_bh, Run, Fault, VdevType
<1>3. CASE vring_stop_bh(v)
  BY <1>3 DEF vring_stop_bh, Run, Fault, VdevType
<1>4. CASE StopBhDrained(v)
  BY <1>4 DEF StopBhDrained
<1>5. CASE rq_complete_bh(v) \/ Requests(v)
  <2>1. vdev' = Run(vdev)
    BY <1>5, Zenon DEF rq_complete_bh, Requests, vring_kick, vhd_dequeue_request,
                       vhd_complete_bio
  <2> QED
    BY <2>1, RunDrainCb
<1> QED
  BY <1>1, <1>2, <1>3, <1>4, <1>5 DEF RqBhs
=============================================================================
