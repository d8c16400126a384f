---------------------------- MODULE EventLoopProofs ----------------------------
(***************************************************************************)
(* Proofs about the event loop, for any number of threads, BHs and         *)
(* handlers: its state is well typed, no wakeup is lost and no io handler  *)
(* is freed too early.  The second half is about the bottom halves (BHs):  *)
(* the invariants that link their flags, the lists they are in and their   *)
(* memory.  EventLoopBhProofs goes on from there.                          *)
(***************************************************************************)
EXTENDS EventLoop, TLAPS

\* The assumptions on the constants, by one name.
LEMMA Constants == Home \notin Thread /\ MaxCalls \in Nat
  BY HomeAssumption, BoundAssumption

\* The initial state, made by vhd_create_event_loop and vhd_bh_new, is well
\* typed.
LEMMA InitType == Init => TypeOK
  <1> SUFFICES ASSUME Init PROVE TypeOK
    OBVIOUS
  <1>1. calls \in 0 .. MaxCalls
    BY Constants DEF Init
  <1>2. handler \in [Handler -> {"none", "attached", "detached", "deleted",
                                "freed"}]
    BY DEF Init
  <1>3. /\ flags \in [Bh -> SUBSET Flag]
        /\ mem \in [Bh -> {"none", "live", "freed"}]
        /\ bh_list \in Seq(Bh) /\ batch \in Seq(Bh)
    BY DEF Init
  <1>4. /\ pc \in [Caller -> {"idle", "insert", "notify", "set", "sem"}]
        /\ target \in [Caller -> Bh \cup {None}]
        /\ \A t \in Caller : pc[t] = "idle" \/ target[t] \in Bh
    BY DEF Init
  <1>5. QED
    BY <1>1, <1>2, <1>3, <1>4 DEF Init, TypeOK

\* Every step of a caller or of the loop keeps the state well typed.
LEMMA NextType == TypeOK /\ [Next]_vars => TypeOK'
  <1> SUFFICES ASSUME TypeOK, [Next]_vars
               PROVE  TypeOK'
    OBVIOUS
  <1>1. ASSUME NEW t \in Caller, NEW b \in Plain, RunIn(t, b)
        PROVE  TypeOK'
    BY <1>1, Constants DEF TypeOK, Flag, RunIn, bhVars, wakeVars, callerVars,
       pollVars, ioVars, vhd_bh_schedule_oneshot, bh_enqueue, MayCall,
       Oneshot, Bh
  <1>2. ASSUME NEW t \in Caller, NEW b \in Persistent, vhd_bh_schedule(t, b)
        PROVE  TypeOK'
    BY <1>2, Constants DEF TypeOK, Flag, vhd_bh_schedule, bhVars, wakeVars,
       callerVars, pollVars, ioVars, bh_enqueue, MayCall, Bh
  <1>3. ASSUME NEW t \in Caller, NEW b \in Persistent, vhd_bh_cancel(t, b)
        PROVE  TypeOK'
    BY <1>3, Constants DEF TypeOK, Flag, vhd_bh_cancel, bhVars, wakeVars,
       callerVars, pollVars, ioVars, MayCall, Bh
  <1>4. ASSUME NEW t \in Caller, NEW b \in Persistent, vhd_bh_delete(t, b)
        PROVE  TypeOK'
    BY <1>4, Constants DEF TypeOK, Flag, vhd_bh_delete, bhVars, wakeVars,
       callerVars, pollVars, ioVars, bh_enqueue, MayCall, Bh
  <1>5. ASSUME NEW t \in Thread, NEW b \in Work, vhd_submit_work_and_wait(t, b)
        PROVE  TypeOK'
    BY <1>5, Constants DEF TypeOK, Flag, vhd_submit_work_and_wait, bhVars,
       wakeVars, callerVars, pollVars, ioVars, vhd_bh_schedule_oneshot,
       bh_enqueue, MayCall, Oneshot, Bh, Caller
  <1>6. ASSUME NEW t \in Caller, vhd_terminate_event_loop(t)
        PROVE  TypeOK'
    BY <1>6, Constants DEF TypeOK, Flag, vhd_terminate_event_loop, bhVars,
       wakeVars, callerVars, pollVars, ioVars, vhd_bh_schedule_oneshot,
       bh_enqueue, MayCall, Oneshot, Bh
  <1>7. ASSUME NEW t \in Caller, Insert(t)
        PROVE  TypeOK'
    BY <1>7, Constants DEF TypeOK, Flag, Insert, bhVars, wakeVars, callerVars,
       pollVars, ioVars
  <1>8. ASSUME NEW t \in Caller, evloop_notify(t)
        PROVE  TypeOK'
    <2>1. /\ pc' \in [Caller -> {"idle", "insert", "notify", "set", "sem"}]
          /\ target' \in [Caller -> Bh \cup {None}]
          /\ \A u \in Caller : pc'[u] = "idle" \/ target'[u] \in Bh
      BY <1>8 DEF TypeOK, evloop_notify, Returned
    <2>2. QED
      BY <1>8, <2>1 DEF TypeOK, evloop_notify, bhVars, pollVars, ioVars
  <1>9. ASSUME NEW t \in Caller, vhd_set_eventfd(t)
        PROVE  TypeOK'
    <2>1. /\ pc' \in [Caller -> {"idle", "insert", "notify", "set", "sem"}]
          /\ target' \in [Caller -> Bh \cup {None}]
          /\ \A u \in Caller : pc'[u] = "idle" \/ target'[u] \in Bh
      BY <1>9 DEF TypeOK, vhd_set_eventfd, Returned
    <2>2. QED
      BY <1>9, <2>1 DEF TypeOK, vhd_set_eventfd, bhVars, pollVars, ioVars
  <1>10. ASSUME NEW t \in Thread, WorkDone(t)
        PROVE  TypeOK'
    BY <1>10, Constants DEF TypeOK, Flag, WorkDone, bhVars, wakeVars,
       callerVars, pollVars, ioVars, Caller
  <1>11. ASSUME NEW h \in Handler, vhd_attach_io_handler(h)
        PROVE  TypeOK'
    BY <1>11, Constants DEF TypeOK, Flag, vhd_attach_io_handler, bhVars,
       wakeVars, callerVars, pollVars, ioVars, HandlerCall, MayCall
  <1>12. ASSUME NEW h \in Handler, vhd_detach_io_handler(h)
        PROVE  TypeOK'
    BY <1>12, Constants DEF TypeOK, Flag, vhd_detach_io_handler, bhVars,
       wakeVars, callerVars, pollVars, ioVars, HandlerCall, MayCall
  <1>13. ASSUME NEW h \in Handler, vhd_del_io_handler(h)
        PROVE  TypeOK'
    BY <1>13, Constants DEF TypeOK, Flag, vhd_del_io_handler, bhVars,
       wakeVars, callerVars, pollVars, ioVars, HandlerCall, MayCall
  <1>14. ASSUME NEW h \in Handler, FdReady(h)
        PROVE  TypeOK'
    BY <1>14, Constants DEF TypeOK, Flag, FdReady, bhVars, wakeVars,
       callerVars, pollVars, ioVars
  <1>15. ASSUME NEW h \in Handler, handle_events(h)
        PROVE  TypeOK'
    BY <1>15, Constants DEF TypeOK, Flag, handle_events, bhVars, wakeVars,
       callerVars, pollVars, ioVars
  <1>16. CASE epoll_wait
    BY <1>16, Constants DEF TypeOK, Flag, epoll_wait, bhVars, wakeVars,
       callerVars, pollVars, ioVars, Goes, Ready
  <1>17. CASE notify_accept
    BY <1>17, Constants DEF TypeOK, Flag, notify_accept, bhVars, wakeVars,
       callerVars, pollVars, ioVars, Goes
  <1>18. CASE vhd_clear_eventfd
    BY <1>18, Constants DEF TypeOK, Flag, vhd_clear_eventfd, bhVars, wakeVars,
       callerVars, pollVars, ioVars, Goes
  <1>19. CASE ResetNotified
    BY <1>19, Constants DEF TypeOK, Flag, ResetNotified, bhVars, wakeVars,
       callerVars, pollVars, ioVars, Goes
  <1>20. CASE bh_poll
    BY <1>20, Constants DEF TypeOK, Flag, bh_poll, bhVars, wakeVars,
       callerVars, pollVars, ioVars, Goes
  <1>21. CASE bh_dequeue
    BY <1>21, Constants DEF TypeOK, Flag, bh_dequeue, bhVars, wakeVars,
       callerVars, pollVars, ioVars, Goes
  <1>22. CASE \E b \in Work : vhd_complete_work(b)
    BY <1>22, Constants DEF TypeOK, Flag, vhd_complete_work, bhVars, wakeVars,
       callerVars, pollVars, ioVars
  <1>23. CASE CallReturns
    BY <1>23, Constants DEF TypeOK, Flag, CallReturns, bhVars, wakeVars,
       callerVars, pollVars, ioVars, Goes
  <1>24. CASE FreeBh
    BY <1>24, Constants DEF TypeOK, Flag, FreeBh, bhVars, wakeVars,
       callerVars, pollVars, ioVars, Goes
  <1>25. CASE BatchDone
    BY <1>25, Constants DEF TypeOK, Flag, BatchDone, bhVars, wakeVars,
       callerVars, pollVars, ioVars, Goes
  <1>26. CASE EventReturns
    BY <1>26, Constants DEF TypeOK, Flag, EventReturns, bhVars, wakeVars,
       callerVars, pollVars, ioVars, Goes
  <1>27. CASE FreeHandlers
    BY <1>27, Constants DEF TypeOK, Flag, FreeHandlers, bhVars, wakeVars,
       callerVars, pollVars, ioVars, Goes
  <1>28. CASE vhd_free_event_loop
    BY <1>28, Constants DEF TypeOK, Flag, vhd_free_event_loop, bhVars,
       wakeVars, callerVars, pollVars, ioVars, Goes
  <1>29. CASE UNCHANGED vars
    BY <1>29, Zenon DEF TypeOK, vars, bhVars, wakeVars, callerVars, pollVars,
       ioVars
  <1>30. QED
    BY <1>1, <1>2, <1>3, <1>4, <1>5, <1>6, <1>7, <1>8, <1>9, <1>10, <1>11,
       <1>12, <1>13, <1>14, <1>15, <1>16, <1>17, <1>18, <1>19, <1>20, <1>21,
       <1>22, <1>23, <1>24, <1>25, <1>26, <1>27, <1>28, <1>29 DEF Next, Calls,
       EnqueueStep, LoopStep

\* The state of the event loop is always well typed.
THEOREM Typing == Spec => []TypeOK
  BY InitType, NextType, PTL DEF Spec

\* What the proof of the wakeup needs to know of the types.
WakeTypes ==
    /\ pc \in [Caller -> {"idle", "insert", "notify", "set", "sem"}]
    /\ notified \in BOOLEAN /\ notifyfd \in BOOLEAN

\* The two halves of WakeInv are kept by every step: BHs are inserted before
\* notified is exchanged, notified is set before the eventfd, and the loop
\* clears the eventfd, then notified, and only then takes the list.
LEMMA NextWake == TypeOK /\ WakeInv /\ [Next]_vars => WakeInv'
  <1> SUFFICES ASSUME TypeOK, WakeInv, [Next]_vars
               PROVE  WakeInv'
    OBVIOUS
  <1>0. WakeTypes
    BY DEF TypeOK, WakeTypes
  <1>1. ASSUME NEW t \in Caller, NEW b \in Plain, RunIn(t, b)
        PROVE  WakeInv'
    BY <1>1, <1>0 DEF WakeInv, WakeTypes, RunIn, bhVars, wakeVars, callerVars,
       vhd_bh_schedule_oneshot, bh_enqueue, MayCall
  <1>2. ASSUME NEW t \in Caller, NEW b \in Persistent, vhd_bh_schedule(t, b)
        PROVE  WakeInv'
    BY <1>2, <1>0 DEF WakeInv, WakeTypes, vhd_bh_schedule, bhVars, wakeVars,
       callerVars, bh_enqueue, MayCall
  <1>3. ASSUME NEW t \in Caller, NEW b \in Persistent, vhd_bh_cancel(t, b)
        PROVE  WakeInv'
    BY <1>3, <1>0 DEF WakeInv, WakeTypes, vhd_bh_cancel, bhVars, wakeVars,
       callerVars
  <1>4. ASSUME NEW t \in Caller, NEW b \in Persistent, vhd_bh_delete(t, b)
        PROVE  WakeInv'
    BY <1>4, <1>0 DEF WakeInv, WakeTypes, vhd_bh_delete, bhVars, wakeVars,
       callerVars, bh_enqueue, MayCall
  <1>5. ASSUME NEW t \in Thread, NEW b \in Work, vhd_submit_work_and_wait(t, b)
        PROVE  WakeInv'
    BY <1>5, <1>0 DEF WakeInv, WakeTypes, vhd_submit_work_and_wait, bhVars,
       wakeVars, callerVars,
       vhd_bh_schedule_oneshot, bh_enqueue, MayCall, Caller
  <1>6. ASSUME NEW t \in Caller, vhd_terminate_event_loop(t)
        PROVE  WakeInv'
    BY <1>6, <1>0 DEF WakeInv, WakeTypes, vhd_terminate_event_loop, bhVars,
       wakeVars, callerVars,
       vhd_bh_schedule_oneshot, bh_enqueue, MayCall
  <1>7. ASSUME NEW t \in Caller, Insert(t)
        PROVE  WakeInv'
    BY <1>7, <1>0 DEF WakeInv, WakeTypes, Insert, bhVars, wakeVars, callerVars
  <1>8. ASSUME NEW t \in Caller, evloop_notify(t)
        PROVE  WakeInv'
    BY <1>8, <1>0 DEF WakeInv, WakeTypes, evloop_notify, bhVars, wakeVars,
       callerVars, Returned
  <1>9. ASSUME NEW t \in Caller, vhd_set_eventfd(t)
        PROVE  WakeInv'
    BY <1>9, <1>0 DEF WakeInv, WakeTypes, vhd_set_eventfd, bhVars, wakeVars,
       callerVars, Returned
  <1>10. ASSUME NEW t \in Thread, WorkDone(t)
        PROVE  WakeInv'
    BY <1>10, <1>0 DEF WakeInv, WakeTypes, WorkDone, bhVars, wakeVars,
       callerVars, Caller
  <1>11. ASSUME NEW h \in Handler, vhd_attach_io_handler(h)
        PROVE  WakeInv'
    BY <1>11, <1>0 DEF WakeInv, WakeTypes, vhd_attach_io_handler, bhVars,
       wakeVars, callerVars, HandlerCall
  <1>12. ASSUME NEW h \in Handler, vhd_detach_io_handler(h)
        PROVE  WakeInv'
    BY <1>12, <1>0 DEF WakeInv, WakeTypes, vhd_detach_io_handler, bhVars,
       wakeVars, callerVars, HandlerCall
  <1>13. ASSUME NEW h \in Handler, vhd_del_io_handler(h)
        PROVE  WakeInv'
    BY <1>13, <1>0 DEF WakeInv, WakeTypes, vhd_del_io_handler, bhVars,
       wakeVars, callerVars, HandlerCall
  <1>14. ASSUME NEW h \in Handler, FdReady(h)
        PROVE  WakeInv'
    BY <1>14, <1>0 DEF WakeInv, WakeTypes, FdReady, bhVars, wakeVars, callerVars
  <1>15. ASSUME NEW h \in Handler, handle_events(h)
        PROVE  WakeInv'
    BY <1>15, <1>0 DEF WakeInv, WakeTypes, handle_events, bhVars, wakeVars,
       callerVars
  <1>16. CASE epoll_wait
    BY <1>16, <1>0 DEF WakeInv, WakeTypes, epoll_wait, bhVars, wakeVars,
       callerVars, Goes
  <1>17. CASE notify_accept
    BY <1>17, <1>0 DEF WakeInv, WakeTypes, notify_accept, bhVars, wakeVars,
       callerVars, Goes
  <1>18. CASE vhd_clear_eventfd
    BY <1>18, <1>0 DEF WakeInv, WakeTypes, vhd_clear_eventfd, bhVars,
       wakeVars, callerVars, Goes
  <1>19. CASE ResetNotified
    BY <1>19, <1>0 DEF WakeInv, WakeTypes, ResetNotified, bhVars, wakeVars,
       callerVars, Goes
  <1>20. CASE bh_poll
    BY <1>20, <1>0 DEF WakeInv, WakeTypes, bh_poll, bhVars, wakeVars,
       callerVars, Goes
  <1>21. CASE bh_dequeue
    BY <1>21, <1>0 DEF WakeInv, WakeTypes, bh_dequeue, bhVars, wakeVars,
       callerVars, Goes
  <1>22. CASE \E b \in Work : vhd_complete_work(b)
    BY <1>22, <1>0 DEF WakeInv, WakeTypes, vhd_complete_work, bhVars,
       wakeVars, callerVars
  <1>23. CASE CallReturns
    BY <1>23, <1>0 DEF WakeInv, WakeTypes, CallReturns, bhVars, wakeVars,
       callerVars, Goes
  <1>24. CASE FreeBh
    BY <1>24, <1>0 DEF WakeInv, WakeTypes, FreeBh, bhVars, wakeVars,
       callerVars, Goes
  <1>25. CASE BatchDone
    BY <1>25, <1>0 DEF WakeInv, WakeTypes, BatchDone, bhVars, wakeVars,
       callerVars, Goes
  <1>26. CASE EventReturns
    BY <1>26, <1>0 DEF WakeInv, WakeTypes, EventReturns, bhVars, wakeVars,
       callerVars, Goes
  <1>27. CASE FreeHandlers
    BY <1>27, <1>0 DEF WakeInv, WakeTypes, FreeHandlers, bhVars, wakeVars,
       callerVars, Goes
  <1>28. CASE vhd_free_event_loop
    BY <1>28, <1>0 DEF WakeInv, WakeTypes, vhd_free_event_loop, bhVars,
       wakeVars, callerVars, Goes
  <1>29. CASE UNCHANGED vars
    BY <1>29, <1>0 DEF WakeInv, WakeTypes, vars, bhVars, wakeVars, callerVars
  <1>30. QED
    BY <1>1, <1>2, <1>3, <1>4, <1>5, <1>6, <1>7, <1>8, <1>9, <1>10, <1>11,
       <1>12, <1>13, <1>14,
       <1>15, <1>16, <1>17, <1>18, <1>19, <1>20, <1>21, <1>22, <1>23, <1>24, <1>25, <1>26, <1>27, <1>28, <1>29
       DEF Next, Calls, EnqueueStep, LoopStep

\* No wakeup is lost: whenever the loop is about to block while BHs wait in
\* its list, the eventfd is set or a caller is about to set it.
THEOREM Wakeup == Spec => []NoLostWakeup
  <1>1. Init => WakeInv
    BY DEF Init, WakeInv
  <1>2. WakeInv => NoLostWakeup
    BY DEF WakeInv, NoLostWakeup
  <1>3. QED
    BY <1>1, <1>2, NextWake, Typing, PTL DEF Spec

\* handle_events frees deleted handlers only when its ready list is empty.
HandlerInv ==
    /\ at \notin {"wait", "stopped", "freed"} =>
         \A h \in events : handler[h] # "freed"
    /\ at = "event" => handler[cur] # "freed"
    /\ at \in {"stopped", "freed"} =>
         \A h \in Handler : handler[h] # "deleted"

\* Every step keeps HandlerInv.
LEMMA NextHandlers == TypeOK /\ HandlerInv /\ [Next]_vars => HandlerInv'
  <1> SUFFICES ASSUME TypeOK, HandlerInv, [Next]_vars PROVE HandlerInv'
    OBVIOUS
  <1>0. /\ handler \in [Handler -> {"none", "attached", "detached", "deleted",
                                    "freed"}]
        /\ events \subseteq Handler /\ readable \subseteq Handler
        /\ at = "event" => cur \in Handler
    BY DEF TypeOK
  <1>1. CASE UNCHANGED <<at, cur, events, handler>>
    BY <1>1 DEF HandlerInv
  <1>2. ASSUME NEW t \in Caller, Calls(t) \/ EnqueueStep(t)
        PROVE  UNCHANGED <<at, cur, events, handler>>
    BY <1>2 DEF Calls, EnqueueStep, RunIn, vhd_bh_schedule, vhd_bh_cancel,
       vhd_bh_delete, vhd_terminate_event_loop, vhd_bh_schedule_oneshot,
       Insert, evloop_notify, vhd_set_eventfd, pollVars, ioVars
  <1>3. ASSUME NEW t \in Thread,
               WorkDone(t) \/ \E b \in Work : vhd_submit_work_and_wait(t, b)
        PROVE  UNCHANGED <<at, cur, events, handler>>
    BY <1>3 DEF WorkDone, vhd_submit_work_and_wait, vhd_bh_schedule_oneshot,
       pollVars, ioVars
  <1>4. ASSUME NEW h \in Handler,
               \/ vhd_attach_io_handler(h) \/ vhd_detach_io_handler(h)
               \/ vhd_del_io_handler(h)
        PROVE  HandlerInv'
    <2>1. /\ UNCHANGED <<at, cur, events>> /\ at \notin {"stopped", "freed"}
          /\ \A g \in Handler : handler[g] # "freed" => handler'[g] # "freed"
      BY <1>0, <1>4 DEF vhd_attach_io_handler, vhd_detach_io_handler,
         vhd_del_io_handler, HandlerCall, MayCall, InCallback, pollVars
    <2>2. QED
      BY <1>0, <2>1 DEF HandlerInv
  <1>5. ASSUME NEW h \in Handler, FdReady(h)
        PROVE  UNCHANGED <<at, cur, events, handler>>
    BY <1>5 DEF FdReady, pollVars
  <1>6. ASSUME NEW h \in Handler, handle_events(h)
        PROVE  HandlerInv'
    BY <1>0, <1>6 DEF HandlerInv, handle_events
  <1>7. CASE \/ notify_accept \/ vhd_clear_eventfd \/ ResetNotified \/ bh_poll
             \/ bh_dequeue \/ CallReturns \/ FreeBh \/ BatchDone
    <2>1. /\ UNCHANGED <<events, handler>>
          /\ at \notin {"wait", "stopped", "freed"}
          /\ at' \notin {"event", "stopped", "freed"}
      BY <1>7 DEF notify_accept, vhd_clear_eventfd, ResetNotified, bh_poll,
         bh_dequeue, CallReturns, FreeBh, BatchDone, Goes, ioVars
    <2>2. QED
      BY <2>1 DEF HandlerInv
  <1>8. CASE \E b \in Work : vhd_complete_work(b)
    BY <1>1, <1>8 DEF vhd_complete_work, pollVars, ioVars
  <1>9. CASE epoll_wait
    BY <1>0, <1>9 DEF HandlerInv, epoll_wait, Goes, Ready
  <1>10. CASE EventReturns
    BY <1>10 DEF HandlerInv, EventReturns, Goes, ioVars
  <1>11. CASE FreeHandlers
    BY <1>0, <1>11 DEF HandlerInv, FreeHandlers, Goes
  <1>12. CASE vhd_free_event_loop
    BY <1>12 DEF HandlerInv, vhd_free_event_loop, Goes, ioVars
  <1>13. CASE UNCHANGED vars
    BY <1>1, <1>13 DEF vars, pollVars, ioVars
  <1>14. QED
    BY <1>1, <1>2, <1>3, <1>4, <1>5, <1>6, <1>7, <1>8, <1>9, <1>10, <1>11,
       <1>12, <1>13 DEF Next, LoopStep

\* The elements of a list.
Rng(s) == {s[i] : i \in DOMAIN s}

\* How SLIST_INSERT_HEAD_ATOMIC and bh_dequeue change the elements of a list.
LEMMA Elements ==
    /\ Rng(<<>>) = {}
    /\ \A s \in Seq(Bh) : Rng(s) \subseteq Bh
    /\ \A s \in Seq(Bh), b \in Bh : Rng(<<b>> \o s) = {b} \cup Rng(s)
    /\ \A s \in Seq(Bh) : s # <<>> =>
         /\ Head(s) \in Rng(s)
         /\ Rng(s) = {Head(s)} \cup Rng(Tail(s))
  <1>0. \A s \in Seq(Bh) : \A x :
            x \in Rng(s) <=> \E i \in 1 .. Len(s) : s[i] = x
    BY DEF Rng
  <1>1. Rng(<<>>) = {}
    BY DEF Rng
  <1>2. ASSUME NEW s \in Seq(Bh) PROVE Rng(s) \subseteq Bh
    BY DEF Rng
  <1>3. ASSUME NEW s \in Seq(Bh), NEW b \in Bh
        PROVE  Rng(<<b>> \o s) = {b} \cup Rng(s)
    <2> DEFINE r == <<b>> \o s
    <2>1. /\ r \in Seq(Bh) /\ Len(r) = Len(s) + 1 /\ Len(s) \in Nat
          /\ r[1] = b
          /\ \A i \in 1 .. Len(s) : r[i + 1] = s[i]
          /\ \A i \in 2 .. Len(r) : r[i] = s[i - 1] /\ i - 1 \in 1 .. Len(s)
      OBVIOUS
    <2>2. \A x : x \in Rng(r) <=> \E i \in 1 .. Len(r) : r[i] = x
      <3> HIDE DEF r
      <3> QED
        BY <2>1, <1>0
    <2>3. \A x : x \in Rng(s) <=> \E i \in 1 .. Len(s) : s[i] = x
      BY <1>0
    <2>4. ASSUME NEW x, x \in Rng(r) PROVE x \in {b} \cup Rng(s)
      <3>1. PICK i \in 1 .. Len(r) : r[i] = x
        BY <2>2, <2>4
      <3>2. i = 1 \/ i \in 2 .. Len(r)
        BY <2>1
      <3>3. QED
        BY <3>1, <3>2, <2>1, <2>3
    <2>5. ASSUME NEW x, x \in {b} \cup Rng(s) PROVE x \in Rng(r)
      <3>1. CASE x = b
        BY <3>1, <2>1, <2>2
      <3>2. CASE x \in Rng(s)
        <4>1. PICK i \in 1 .. Len(s) : s[i] = x
          BY <3>2, <2>3
        <4>2. i + 1 \in 1 .. Len(r) /\ r[i + 1] = x
          BY <4>1, <2>1
        <4>3. QED
          BY <4>2, <2>2
      <3>3. QED
        BY <3>1, <3>2, <2>5
    <2>6. QED
      BY <2>4, <2>5
  <1>4. ASSUME NEW s \in Seq(Bh), s # <<>>
        PROVE  Head(s) \in Rng(s) /\ Rng(s) = {Head(s)} \cup Rng(Tail(s))
    <2> DEFINE r == Tail(s)
    <2>1. /\ r \in Seq(Bh) /\ Len(s) = Len(r) + 1 /\ Len(r) \in Nat
          /\ Head(s) = s[1]
          /\ \A i \in 1 .. Len(r) : s[i + 1] = r[i] /\ i + 1 \in 1 .. Len(s)
          /\ \A i \in 2 .. Len(s) : s[i] = r[i - 1] /\ i - 1 \in 1 .. Len(r)
      BY <1>4
    <2>2. \A x : x \in Rng(r) <=> \E i \in 1 .. Len(r) : r[i] = x
      <3> HIDE DEF r
      <3> QED
        BY <2>1, <1>0
    <2>3. \A x : x \in Rng(s) <=> \E i \in 1 .. Len(s) : s[i] = x
      BY <1>0
    <2>4. ASSUME NEW x, x \in Rng(s) PROVE x \in {Head(s)} \cup Rng(r)
      <3>1. PICK i \in 1 .. Len(s) : s[i] = x
        BY <2>3, <2>4
      <3>2. i = 1 \/ i \in 2 .. Len(s)
        BY <2>1
      <3>3. QED
        BY <3>1, <3>2, <2>1, <2>2
    <2>5. ASSUME NEW x, x \in Rng(r) PROVE x \in Rng(s)
      <3>1. PICK i \in 1 .. Len(r) : r[i] = x
        BY <2>5, <2>2
      <3>2. QED
        BY <3>1, <2>1, <2>3
    <2>6. Head(s) \in Rng(s)
      BY <2>1, <2>3
    <2>7. QED
      BY <2>4, <2>5, <2>6
  <1>5. QED
    BY <1>1, <1>2, <1>3, <1>4

\* No element occurs twice in a list.
Once(s) == \A i, j \in DOMAIN s : s[i] = s[j] => i = j

\* How the same operations keep every element of a list in it once.
LEMMA OnceLists ==
    /\ Once(<<>>)
    /\ \A s \in Seq(Bh), b \in Bh :
         Once(s) /\ b \notin Rng(s) => Once(<<b>> \o s)
    /\ \A s \in Seq(Bh) : s # <<>> /\ Once(s) =>
         Head(s) \notin Rng(Tail(s)) /\ Once(Tail(s))
  <1>1. Once(<<>>)
    BY DEF Once
  <1>2. ASSUME NEW s \in Seq(Bh), NEW b \in Bh, Once(s), b \notin Rng(s)
        PROVE  Once(<<b>> \o s)
    <2> DEFINE r == <<b>> \o s
    <2>1. /\ DOMAIN r = 1 .. Len(s) + 1 /\ DOMAIN s = 1 .. Len(s)
          /\ Len(s) \in Nat /\ r[1] = b
          /\ \A i \in 2 .. Len(s) + 1 : r[i] = s[i - 1]
      OBVIOUS
    <2> HIDE DEF r
    <2>2. \A i \in 1 .. Len(s) : s[i] # b
      BY <1>2, <2>1 DEF Rng
    <2>3. ASSUME NEW i \in DOMAIN r, NEW j \in DOMAIN r, r[i] = r[j]
          PROVE  i = j
      <3>1. CASE i = 1 /\ j # 1
        BY <3>1, <2>1, <2>2, <2>3
      <3>2. CASE i # 1 /\ j = 1
        BY <3>2, <2>1, <2>2, <2>3
      <3>3. CASE i # 1 /\ j # 1
        <4>1. s[i - 1] = s[j - 1] /\ i - 1 \in DOMAIN s /\ j - 1 \in DOMAIN s
          BY <3>3, <2>1, <2>3
        <4>2. i - 1 = j - 1
          BY <4>1, <1>2 DEF Once
        <4>3. QED
          BY <4>2, <2>1
      <3>4. QED
        BY <3>1, <3>2, <3>3
    <2>4. QED
      BY <2>3 DEF Once, r
  <1>3. ASSUME NEW s \in Seq(Bh), s # <<>>, Once(s)
        PROVE  Head(s) \notin Rng(Tail(s)) /\ Once(Tail(s))
    <2> DEFINE r == Tail(s)
    <2>1. /\ DOMAIN s = 1 .. Len(r) + 1 /\ DOMAIN r = 1 .. Len(r)
          /\ Len(r) \in Nat /\ Head(s) = s[1]
          /\ \A i \in 1 .. Len(r) : r[i] = s[i + 1]
      BY <1>3
    <2> HIDE DEF r
    <2>2. \A i \in 1 .. Len(r) : i + 1 \in DOMAIN s /\ 1 \in DOMAIN s /\ i + 1 # 1
      BY <2>1
    <2>3. Head(s) \notin Rng(r)
      BY <1>3, <2>1, <2>2 DEF Rng, Once
    <2>4. ASSUME NEW i \in DOMAIN r, NEW j \in DOMAIN r, r[i] = r[j]
          PROVE  i = j
      <3>1. i + 1 = j + 1
        BY <1>3, <2>1, <2>2, <2>4 DEF Once
      <3>2. QED
        BY <3>1, <2>1
    <2>5. QED
      BY <2>3, <2>4 DEF Once, r
  <1>4. QED
    BY <1>1, <1>2, <1>3

\* A set of one element has cardinality 1, the empty set 0.
LEMMA SmallSets == Cardinality({}) = 0 /\ \A x : Cardinality({x}) = 1
  <1>1. Cardinality({}) = 0
    <2> DEFINE P(c) == c = [T \in SUBSET {} |-> IF T = {} THEN 0
                              ELSE 1 + c[T \ {CHOOSE y : y \in T}]]
    <2>1. P([T \in SUBSET {} |-> 0])
      OBVIOUS
    <2>2. P(CHOOSE c : P(c))
      BY <2>1, Zenon
    <2>3. QED
      BY <2>2 DEF Cardinality
  <1>2. ASSUME NEW x
        PROVE  Cardinality({x}) = 1
    <2> DEFINE P(c) == c = [T \in SUBSET {x} |-> IF T = {} THEN 0
                              ELSE 1 + c[T \ {CHOOSE y : y \in T}]]
               f == [T \in SUBSET {x} |-> IF T = {} THEN 0 ELSE 1]
               g == CHOOSE c : P(c)
    <2>1. \A T \in SUBSET {x} : T = {} \/ T = {x}
      OBVIOUS
    <2>2. {x} \ {CHOOSE y : y \in {x}} = {}
      OBVIOUS
    <2>3. P(f)
      <3>1. \A T \in SUBSET {x} : 
               f[T] = IF T = {} THEN 0 ELSE 1 + f[T \ {CHOOSE y : y \in T}]
        BY <2>1, <2>2
      <3>2. QED
        BY <3>1
    <2>4. P(g)
      BY <2>3, Zenon
    <2>5. g[{x}] = 1 + g[{}] /\ g[{}] = 0
      <3> HIDE DEF g
      <3> QED
        BY <2>2, <2>4
    <2>6. QED
      BY <2>5 DEF Cardinality
  <1>3. QED
    BY <1>1, <1>2

\* How often a BH occurs in a list without repetitions.
LEMMA Occurrences ==
    ASSUME NEW s \in Seq(Bh), Once(s), NEW b
    PROVE  Cardinality({i \in DOMAIN s : s[i] = b}) =
             IF b \in Rng(s) THEN 1 ELSE 0
  <1>1. CASE b \in Rng(s)
    <2>1. PICK i \in DOMAIN s : s[i] = b
      BY <1>1 DEF Rng
    <2>2. {j \in DOMAIN s : s[j] = b} = {i}
      BY <2>1 DEF Once
    <2>3. QED
      BY <1>1, <2>2, SmallSets
  <1>2. CASE b \notin Rng(s)
    <2>1. {j \in DOMAIN s : s[j] = b} = {}
      BY <1>2 DEF Rng
    <2>2. QED
      BY <1>2, <2>1, SmallSets
  <1>3. QED
    BY <1>1, <1>2

-----------------------------------------------------------------------------
(***************************************************************************)
(* The steps, by what they do to the BHs.                                  *)
(***************************************************************************)

\* The BHs that callers are about to insert, and the BHs that are linked or
\* about to be.
Inserting == {target[t] : t \in {u \in Caller : pc[u] = "insert"}}

Lists == Rng(bh_list) \cup Rng(batch) \cup Inserting

\* A oneshot BH is allocated and the atomic_fetch_or of bh_enqueue done.
Allocates(t, b) ==
    /\ b \in Oneshot
    /\ b \in Work => t \in Thread
    /\ b \in Plain => b \notin Work
    /\ pc[t] = "idle"
    /\ IF b = StopBh THEN \A u \in Caller : pc[u] # "insert" ELSE ~Terminating
    /\ mem[b] = "none"
    /\ mem' = [mem EXCEPT ![b] = "live"]
    /\ bh_enqueue(t, b, {"SCHEDULED", "ONESHOT"})
    /\ UNCHANGED <<bh_list, batch, cur, last, at, is_terminated, posted,
                   handed>>

\* The same for a persistent BH, which is scheduled or deleted.
Marks(t, b, f) ==
    /\ b \in Persistent
    /\ f = "DELETED" \/ (f = "SCHEDULED" /\ ~Terminating)
    /\ pc[t] = "idle"
    /\ "DELETED" \notin flags[b]
    /\ bh_enqueue(t, b, {f})
    /\ UNCHANGED <<mem, bh_list, batch, cur, last, at, is_terminated, posted,
                   handed>>

\* The BHs, the lists they are in, and the one bh_poll is at stay as they are,
\* and who waits for work goes on waiting until it is posted.
Keeps ==
    /\ UNCHANGED <<flags, mem, bh_list, batch, last>>
    /\ \A t \in Caller : pc'[t] = "insert" <=> pc[t] = "insert"
    /\ \A t \in Caller : pc[t] = "insert" => target'[t] = target[t]
    /\ is_terminated' = is_terminated
    /\ at = "call" <=> at' = "call"
    /\ at = "free" <=> at' = "free"
    /\ at \in {"call", "free"} => cur' = cur
    /\ at' \in {"dequeue", "call", "free"} \/ batch = <<>>
         \/ at \notin {"dequeue", "call", "free"}
    /\ at' \in {"stopped", "freed"} => is_terminated \/ at' = at
    /\ posted \subseteq posted' /\ handed' \subseteq handed \ (posted' \ posted)
    /\ \A b \in posted' \ posted : MayComplete(b)
    /\ \A t \in Caller : pc[t] # "idle" /\ target[t] \in Work \ posted =>
         pc'[t] # "idle" /\ target'[t] = target[t]

\* Every step that touches a BH is one of the steps named here.
LEMMA Kinds ==
    ASSUME TypeOK, [Next]_vars
    PROVE  \/ \E t \in Caller, b \in Bh : Allocates(t, b)
           \/ \E t \in Caller, b \in Bh, f \in Flag : Marks(t, b, f)
           \/ \E t \in Caller, b \in Persistent : vhd_bh_cancel(t, b)
           \/ \E t \in Caller : Insert(t)
           \/ bh_poll \/ bh_dequeue \/ CallReturns \/ FreeBh
           \/ vhd_free_event_loop
           \/ Keeps
  <1>1. ASSUME NEW t \in Caller, NEW b \in Plain, RunIn(t, b)
        PROVE  Allocates(t, b) /\ b \in Bh
    BY <1>1, StopAssumption, KindAssumption
       DEF RunIn, Allocates, vhd_bh_schedule_oneshot, MayCall, pollVars, Bh,
           Oneshot
  <1>2. ASSUME NEW t \in Caller, NEW b \in Persistent, vhd_bh_schedule(t, b)
        PROVE  Marks(t, b, "SCHEDULED") /\ b \in Bh
    BY <1>2 DEF vhd_bh_schedule, Marks, MayCall, pollVars, Bh
  <1>4. ASSUME NEW t \in Caller, NEW b \in Persistent, vhd_bh_delete(t, b)
        PROVE  Marks(t, b, "DELETED") /\ b \in Bh
    BY <1>4 DEF vhd_bh_delete, Marks, MayCall, pollVars, Bh
  <1>5. ASSUME NEW t \in Thread, NEW b \in Work, vhd_submit_work_and_wait(t, b)
        PROVE  Allocates(t, b) /\ b \in Bh /\ t \in Caller
    BY <1>5, StopAssumption, KindAssumption
       DEF vhd_submit_work_and_wait, Allocates, vhd_bh_schedule_oneshot,
           MayCall, pollVars, Bh, Oneshot, Caller
  <1>6. ASSUME NEW t \in Caller, vhd_terminate_event_loop(t)
        PROVE  Allocates(t, StopBh) /\ StopBh \in Bh
    BY <1>6, StopAssumption
       DEF vhd_terminate_event_loop, Allocates, vhd_bh_schedule_oneshot,
           MayCall, pollVars, Bh, Oneshot
  <1>7. pc \in [Caller -> {"idle", "insert", "notify", "set", "sem"}]
        /\ target \in [Caller -> Bh \cup {None}]
    BY DEF TypeOK
  <1>8. ASSUME NEW t \in Caller,
               evloop_notify(t) \/ vhd_set_eventfd(t) \/ WorkDone(t)
        PROVE  Keeps
    BY <1>7, <1>8 DEF evloop_notify, vhd_set_eventfd, WorkDone, Returned, Keeps,
       bhVars, pollVars
  <1>9. ASSUME NEW h \in Handler,
               \/ vhd_attach_io_handler(h) \/ vhd_detach_io_handler(h)
               \/ vhd_del_io_handler(h) \/ FdReady(h)
        PROVE  Keeps
    BY <1>9 DEF vhd_attach_io_handler, vhd_detach_io_handler,
       vhd_del_io_handler, FdReady, HandlerCall, Keeps, bhVars, pollVars,
       callerVars
  <1>10. ASSUME NEW h \in Handler, handle_events(h)
         PROVE  Keeps
    BY <1>10 DEF handle_events, Keeps, bhVars, pollVars, callerVars
  <1>11. CASE \/ epoll_wait \/ notify_accept \/ vhd_clear_eventfd
              \/ ResetNotified
    BY <1>11 DEF epoll_wait, notify_accept, vhd_clear_eventfd, ResetNotified,
       Goes, Keeps, bhVars, pollVars, callerVars
  <1>12. CASE BatchDone \/ EventReturns \/ FreeHandlers
    BY <1>12 DEF BatchDone, EventReturns, FreeHandlers,
       Goes, Keeps, bhVars, pollVars, callerVars
  <1>13. CASE UNCHANGED vars
    BY <1>13 DEF Keeps, vars, bhVars, pollVars, callerVars
  <1>14. /\ "SCHEDULED" \in Flag /\ "DELETED" \in Flag
         /\ \A t \in Thread : t \in Caller
    BY DEF Flag, Caller
  <1>15. CASE \E t \in Caller : Calls(t)
    BY <1>15, <1>1, <1>2, <1>4, <1>6, <1>14 DEF Calls
  <1>16. CASE \E t \in Caller : EnqueueStep(t)
    BY <1>16, <1>8 DEF EnqueueStep
  <1>17. CASE \E t \in Thread :
                WorkDone(t) \/ \E b \in Work : vhd_submit_work_and_wait(t, b)
    BY <1>17, <1>5, <1>8, <1>14
  <1>18. CASE LoopStep
    BY <1>18, <1>10, <1>11, <1>12 DEF LoopStep
  <1>19. ASSUME NEW b \in Work, vhd_complete_work(b)
         PROVE  Keeps
    BY <1>19 DEF vhd_complete_work, InCallback, Keeps, bhVars, pollVars
  <1>20. QED
    BY <1>9, <1>13, <1>15, <1>16, <1>17, <1>18, <1>19 DEF Next

\* The types the proofs below use.
BhTypes ==
    /\ flags \in [Bh -> SUBSET Flag]
    /\ mem \in [Bh -> {"none", "live", "freed"}]
    /\ bh_list \in Seq(Bh) /\ batch \in Seq(Bh)
    /\ pc \in [Caller -> {"idle", "insert", "notify", "set", "sem"}]
    /\ target \in [Caller -> Bh \cup {None}]
    /\ \A t \in Caller : pc[t] = "insert" => target[t] \in Bh
    /\ at \in {"call", "free"} => cur \in Bh
    /\ Persistent \cap Oneshot = {}
    /\ Bh = Persistent \cup Oneshot
    /\ StopBh \in Oneshot

\* They follow from the type invariant and the assumptions on the constants.
LEMMA BhTyping == TypeOK => BhTypes
  BY StopAssumption, KindAssumption DEF TypeOK, BhTypes, Bh, Oneshot

\* Only BHs are listed or inserted.
LEMMA ListsTyped ==
    ASSUME BhTypes
    PROVE  /\ Inserting \subseteq Bh
           /\ Rng(bh_list) \subseteq Bh /\ Rng(batch) \subseteq Bh
  <1>1. Inserting \subseteq Bh
    BY DEF Inserting, BhTypes
  <1>2. Rng(bh_list) \subseteq Bh /\ Rng(batch) \subseteq Bh
    BY Elements DEF BhTypes
  <1>3. QED
    BY <1>1, <1>2

\* A caller that starts bh_enqueue is about to insert the BH, unless it is
\* pending already.
LEMMA EnqueueInserting ==
    ASSUME NEW t \in Caller, NEW b \in Bh, NEW new, pc[t] = "idle",
           pc \in [Caller -> {"idle", "insert", "notify", "set", "sem"}],
           target \in [Caller -> Bh \cup {None}],
           bh_enqueue(t, b, new)
    PROVE  Inserting' = IF "PENDING" \in flags[b] THEN Inserting
                                                  ELSE Inserting \cup {b}
  <1>1. \A u \in Caller \ {t} : pc'[u] = pc[u] /\ target'[u] = target[u]
    BY DEF bh_enqueue
  <1>2. /\ target'[t] = b
        /\ pc'[t] = IF "PENDING" \in flags[b] THEN "notify" ELSE "insert"
    BY DEF bh_enqueue
  <1>3. QED
    BY <1>1, <1>2 DEF Inserting

-----------------------------------------------------------------------------
(***************************************************************************)
(* The invariants of the BHs, and the first steps that keep them.          *)
(***************************************************************************)

\* The lists and the insertions under way have no BH twice and none in common,
\* and BH_PENDING is set for the BHs in them and for no others.
LinkInv ==
    /\ Once(bh_list) /\ Once(batch)
    /\ \A t, u \in Caller :
         pc[t] = "insert" /\ pc[u] = "insert" /\ target[t] = target[u] => t = u
    /\ Rng(bh_list) \cap Rng(batch) = {}
    /\ Rng(bh_list) \cap Inserting = {}
    /\ Rng(batch) \cap Inserting = {}
    /\ \A b \in Bh : "PENDING" \in flags[b] <=> b \in Lists
    /\ at \in {"dequeue", "call", "free"} \/ batch = <<>>

\* bh_poll is at b: it has dequeued it and has not freed it yet.
InHand(b) == at \in {"call", "free"} /\ cur = b

\* What the flags of a BH say about its memory: a pending BH has some, a
\* oneshot BH has BH_ONESHOT as long as it has memory, a persistent one is
\* freed only when BH_DELETED is set.  Whoever is marked to be freed is
\* pending, or bh_poll is at it and has seen the mark.
LifeInv ==
    /\ \A b \in Bh : "PENDING" \in flags[b] => mem[b] = "live"
    /\ \A b \in Bh : "SCHEDULED" \in flags[b] => "PENDING" \in flags[b]
    /\ \A b \in Oneshot :
         /\ "DELETED" \notin flags[b]
         /\ mem[b] = "none" => flags[b] = {}
         /\ mem[b] = "live" =>
              /\ "ONESHOT" \in flags[b]
              /\ "PENDING" \in flags[b] \/ InHand(b)
         /\ InHand(b) => "ONESHOT" \in last /\ "PENDING" \notin flags[b]
    /\ \A b \in Persistent :
         /\ "ONESHOT" \notin flags[b]
         /\ mem[b] # "none"
         /\ mem[b] = "freed" => "DELETED" \in flags[b]
         /\ mem[b] = "live" /\ "DELETED" \in flags[b] =>
              \/ "PENDING" \in flags[b]
              \/ InHand(b) /\ "DELETED" \in last
         /\ InHand(b) => "ONESHOT" \notin last
         /\ InHand(b) /\ "DELETED" \in last =>
              "DELETED" \in flags[b] /\ "PENDING" \notin flags[b]
    /\ at \in {"call", "free"} => mem[cur] = "live"

\* Why nothing is left when the loop has stopped: no BH but a deleted one is
\* inserted after the BH that stops the loop, and bh_poll takes that one
\* together with all that were inserted before it.
StopInv ==
    /\ Terminating =>
         \A b \in Inserting : b = StopBh \/ "DELETED" \in flags[b]
    /\ Terminating /\ StopBh \notin Rng(bh_list) \cup Inserting =>
         \A b \in Rng(bh_list) : "DELETED" \in flags[b]
    /\ is_terminated => Terminating /\ "PENDING" \notin flags[StopBh]
    /\ at \in {"stopped", "freed"} => is_terminated

\* What the three invariants of the BHs say together.
BhInv == LinkInv /\ LifeInv /\ StopInv

\* They hold initially, when no BH is linked.
LEMMA InitBh == Init => BhInv
  <1> SUFFICES ASSUME Init PROVE BhInv
    OBVIOUS
  <1>1. /\ \A b \in Bh : flags[b] = {}
        /\ \A b \in Persistent : mem[b] = "live"
        /\ \A b \in Oneshot : mem[b] = "none"
        /\ bh_list = <<>> /\ batch = <<>> /\ at = "wait" /\ ~is_terminated
        /\ \A t \in Caller : pc[t] = "idle"
        /\ StopBh \in Oneshot /\ Bh = Persistent \cup Oneshot
    BY StopAssumption, KindAssumption DEF Init, Bh, Oneshot
  <1>2. Inserting = {} /\ Lists = {} /\ Once(bh_list) /\ Once(batch)
    BY <1>1, Elements, OnceLists DEF Inserting, Lists
  <1>3. LinkInv
    BY <1>1, <1>2, Elements DEF LinkInv
  <1>4. LifeInv
    BY <1>1 DEF LifeInv, InHand
  <1>5. StopInv
    BY <1>1, <1>2 DEF StopInv, Terminating
  <1>6. QED
    BY <1>3, <1>4, <1>5 DEF BhInv

\* Steps that touch no BH.
LEMMA KeepsBh == ASSUME BhTypes, BhInv, Keeps PROVE BhInv'
  <1>1. Inserting' = Inserting
    BY DEF Keeps, Inserting
  <1>2. Lists' = Lists
    BY <1>1 DEF Keeps, Lists
  <1>3. \A b : InHand(b)' <=> InHand(b)
    BY DEF Keeps, InHand
  <1>4. LinkInv'
    <2>1. \A t, u \in Caller :
            pc'[t] = "insert" /\ pc'[u] = "insert" /\ target'[t] = target'[u]
            => t = u
      BY DEF Keeps, BhInv, LinkInv
    <2>2. at' \in {"dequeue", "call", "free"} \/ batch = <<>>
      BY DEF Keeps, BhInv, LinkInv
    <2>3. QED
      BY <1>1, <1>2, <2>1, <2>2 DEF Keeps, BhInv, LinkInv
  <1>5. LifeInv'
    <2>1. at' \in {"call", "free"} => mem[cur'] = "live"
      BY DEF Keeps, BhInv, LifeInv
    <2>2. UNCHANGED <<flags, mem, last>>
      BY DEF Keeps
    <2>3. QED
      BY <1>3, <2>1, <2>2 DEF BhInv, LifeInv
  <1>6. StopInv'
    <2>1. Terminating' = Terminating
      BY DEF Keeps, Terminating
    <2>2. at' \in {"stopped", "freed"} => is_terminated
      BY DEF Keeps, BhInv, StopInv
    <2>3. UNCHANGED <<flags, bh_list, is_terminated>>
      BY DEF Keeps
    <2>4. QED
      BY <1>1, <2>1, <2>2, <2>3 DEF BhInv, StopInv
  <1>7. QED
    BY <1>4, <1>5, <1>6 DEF BhInv

\* What bh_enqueue does to the lists: a BH that was not pending is about to
\* be inserted, by nobody else.
LEMMA EnqueueLinks ==
    ASSUME BhTypes, LinkInv, NEW t \in Caller, NEW b \in Bh,
           NEW new \in SUBSET Flag, "PENDING" \notin new,
           pc[t] = "idle", bh_enqueue(t, b, new),
           UNCHANGED <<bh_list, batch, at>>
    PROVE  LinkInv'
  <1>1. /\ flags'[b] = flags[b] \cup {"PENDING"} \cup new
        /\ \A c \in Bh \ {b} : flags'[c] = flags[c]
        /\ \A u \in Caller \ {t} : pc'[u] = pc[u] /\ target'[u] = target[u]
        /\ target'[t] = b
        /\ pc'[t] = IF "PENDING" \in flags[b] THEN "notify" ELSE "insert"
    BY DEF bh_enqueue, BhTypes
  <1>2. Inserting' = IF "PENDING" \in flags[b] THEN Inserting
                                               ELSE Inserting \cup {b}
    BY EnqueueInserting DEF BhTypes
  <1>3. \A c \in Bh : "PENDING" \in flags'[c] <=> "PENDING" \in flags[c] \/ c = b
    BY <1>1
  <1>4. b \in Lists <=> "PENDING" \in flags[b]
    BY DEF LinkInv
  <1>5. Lists' = Lists \cup {b}
    BY <1>2, <1>4 DEF Lists
  <1>6. ASSUME NEW u \in Caller, NEW v \in Caller, pc'[u] = "insert",
               pc'[v] = "insert", target'[u] = target'[v]
        PROVE  u = v
    <2>1. \A w \in Caller \ {t} : pc[w] = "insert" => target[w] \in Inserting
      BY DEF Inserting
    <2>2. pc'[t] = "insert" => b \notin Inserting
      BY <1>1, <1>4 DEF Lists
    <2>3. QED
      BY <1>1, <1>6, <2>1, <2>2 DEF LinkInv
  <1>7. /\ Rng(bh_list) \cap Inserting' = {}
        /\ Rng(batch) \cap Inserting' = {}
    BY <1>2, <1>4 DEF LinkInv, Lists
  <1>8. \A c \in Bh : "PENDING" \in flags'[c] <=> c \in Lists'
    BY <1>3, <1>5 DEF LinkInv
  <1>9. UNCHANGED <<bh_list, batch, at>>
    OBVIOUS
  <1>10. QED
    BY <1>6, <1>7, <1>8, <1>9 DEF LinkInv

\* vhd_bh_schedule_oneshot, up to the atomic_fetch_or.
LEMMA AllocatesBh ==
    ASSUME BhTypes, BhInv, NEW t \in Caller, NEW b \in Bh, Allocates(t, b)
    PROVE  BhInv'
  <1> DEFINE new == {"SCHEDULED", "ONESHOT"}
  <1>1. /\ b \in Oneshot /\ pc[t] = "idle" /\ mem[b] = "none"
        /\ bh_enqueue(t, b, new)
        /\ UNCHANGED <<bh_list, batch, cur, last, at, is_terminated>>
        /\ new \in SUBSET Flag /\ "PENDING" \notin new
    BY DEF Allocates, Flag
  <1>2. /\ flags[b] = {} /\ b \notin Lists
    BY <1>1 DEF BhInv, LifeInv, LinkInv
  <1>3. /\ mem'[b] = "live"
        /\ \A c \in Bh \ {b} : mem'[c] = mem[c] /\ flags'[c] = flags[c]
        /\ flags'[b] = {"PENDING"} \cup new
    BY <1>1, <1>2 DEF Allocates, BhTypes, bh_enqueue
  <1>4. LinkInv'
    BY <1>1, EnqueueLinks DEF BhInv
  <1>5. \A c : InHand(c)' <=> InHand(c)
    BY <1>1 DEF InHand
  <1>6. ~InHand(b)
    BY <1>1 DEF BhInv, LifeInv, InHand
  <1>7. LifeInv'
    <2>1. ASSUME NEW c \in Oneshot
          PROVE  /\ "DELETED" \notin flags'[c]
                 /\ mem'[c] = "none" => flags'[c] = {}
                 /\ mem'[c] = "live" =>
                      /\ "ONESHOT" \in flags'[c]
                      /\ "PENDING" \in flags'[c] \/ InHand(c)
                 /\ InHand(c) => "ONESHOT" \in last /\ "PENDING" \notin flags'[c]
      <3>1. CASE c # b
        <4>1. flags'[c] = flags[c] /\ mem'[c] = mem[c]
          BY <1>3, <3>1 DEF BhTypes
        <4>2. QED
          BY <4>1 DEF BhInv, LifeInv
      <3>2. CASE c = b
        BY <1>3, <1>6, <3>2
      <3>3. QED
        BY <3>1, <3>2
    <2>2. ASSUME NEW c \in Persistent
          PROVE  flags'[c] = flags[c] /\ mem'[c] = mem[c]
      BY <1>1, <1>3 DEF BhTypes
    <2>3. ASSUME NEW c \in Bh
          PROVE  /\ "PENDING" \in flags'[c] => mem'[c] = "live"
                 /\ "SCHEDULED" \in flags'[c] => "PENDING" \in flags'[c]
      BY <1>3 DEF BhInv, LifeInv
    <2>4. at \in {"call", "free"} => mem'[cur] = "live"
      BY <1>1, <1>3, <1>6 DEF BhInv, LifeInv, BhTypes, InHand
    <2>5. QED
      BY <1>1, <1>5, <2>1, <2>2, <2>3, <2>4 DEF BhInv, LifeInv
  <1>8. StopInv'
    <2>1. Inserting' = Inserting \cup {b}
      BY <1>1, <1>2, EnqueueInserting DEF BhTypes
    <2>2. b \notin Rng(bh_list) /\ b \notin Inserting
      BY <1>2 DEF Lists
    <2>3. Inserting \subseteq Bh /\ Rng(bh_list) \subseteq Bh
      BY ListsTyped DEF BhTypes
    <2>4. ~Terminating /\ is_terminated = FALSE
      BY <1>1, <1>2 DEF Allocates, BhInv, StopInv, Terminating
    <2>5. CASE b = StopBh
      <3>1. Inserting = {}
        BY <2>5 DEF Allocates, Inserting
      <3>2. Inserting' = {StopBh}
        BY <2>1, <2>5, <3>1
      <3>3. QED
        BY <1>1, <2>4, <3>2 DEF BhInv, StopInv
    <2>6. CASE b # StopBh
      <3>1. ~Terminating'
        BY <1>3, <2>4, <2>6 DEF Terminating, BhTypes
      <3>2. QED
        BY <1>1, <2>4, <3>1 DEF BhInv, StopInv
    <2>7. QED
      BY <2>5, <2>6
  <1>9. QED
    BY <1>4, <1>7, <1>8 DEF BhInv

================================================================================
