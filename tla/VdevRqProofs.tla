----------------------------- MODULE VdevRqProofs ----------------------------
(***************************************************************************)
(* Proofs about Vdev, for any number of vrings: the steps of the request   *)
(* queue keep the inductive invariant of VdevCountProofs, and the theorems *)
(* about Vdev.                                                             *)
(***************************************************************************)
EXTENDS VdevBhProofs, FiniteSetTheorems

-----------------------------------------------------------------------------
(* The request queue stops vrings and completes requests. *)

\* rq stops a vring that it does not run, or of a freed device.
LEMMA NotRunningCount ==
  ASSUME CountInv, TypeInv', NEW v \in Vring, vring_stop_bh(v),
         vdev.released \/ ~vring[v].started_in_rq
  PROVE  CountInv'
<1>. DEFINE d == [vdev EXCEPT !.vring_stop_bh[v] = @ - 1]
<1>1. SUFFICES ASSUME Alive' PROVE CountInv'
  BY DEF CountInv
<1>2. /\ Alive /\ TypeInv /\ UNCHANGED <<rqVars, ctl_bh, ctl_batch>>
      /\ vdev.vring_stop_bh[v] > 0 /\ vdev \in VdevType
  BY DEF CountInv, vring_stop_bh, InRunQueue, RqIdle, rqVars, TypeInv, TypeOK
<1>3. vdev' = d
  <2>1. d \in VdevType
    <3>1. [vdev.vring_stop_bh EXCEPT ![v] = @ - 1] \in [Vring -> Nat]
      BY <1>2 DEF VdevType
    <3> QED
      BY <1>2, <3>1, FieldType, Zenon
  <2>2. vdev' = Run(d)
    BY Zenon DEF vring_stop_bh
  <2>. HIDE DEF d
  <2> QED
    BY <1>1, <2>1, <2>2, RunAlive
<1>4. Kept(vdev, vdev') /\ SameBhs(vdev, vdev')
  BY <1>2, <1>3, RqBhRun
<1>5. Calm(vdev, vdev')
  BY <1>4 DEF Kept, Calm, Same, SameVrings, Life, Still
<1> QED
  BY <1>2, <1>5, CalmStep

\* rq stops a vring that it runs.  No request is queued when a BH runs, so
\* none is canceled.
LEMMA StopBhCount ==
  ASSUME CountInv, TypeInv', NEW v \in Vring, vring_stop_bh(v),
         ~(vdev.released \/ ~vring[v].started_in_rq), LeavesQueued = FALSE
  PROVE  CountInv'
<1>. DEFINE d == [vdev EXCEPT !.vring_stop_bh[v] = @ - 1]
            r(n) == [started_in_rq |-> FALSE, kick_handler |-> "null",
                     num_in_flight |-> n]
<1>1. SUFFICES ASSUME Alive' PROVE CountInv'
  BY DEF CountInv
<1>2. /\ Alive /\ TypeInv /\ RingInv /\ Quiet /\ vring[v].started_in_rq
      /\ queued[v] = 0 /\ vdev.vring_stop_bh[v] > 0 /\ UNCHANGED ctl_batch
      /\ vdev \in VdevType /\ vring \in [Vring -> VringType]
      /\ queued \in [Vring -> Nat] /\ canceled \in [Vring -> Nat]
      /\ ctl_bh \in [CtlFn -> [Vring -> Nat]] /\ stopping = None
  BY DEF CountInv, vring_stop_bh, InRunQueue, RqIdle, Zero, TypeInv, TypeOK
<1>3. PICK o \in CancelOutcomes(IF vdev.disconnecting[v] THEN queued[v] ELSE 0) :
        LET n == vring[v].num_in_flight - o.k
        IN  /\ vdev' = IF o.null THEN Fault(d, "vhd_cancel_queued_requests") ELSE d
            /\ vring' = [vring EXCEPT ![v] = r(n)]
            /\ queued' = [queued EXCEPT ![v] = @ - o.k]
            /\ canceled' = [canceled EXCEPT ![v] = @ + o.k]
            /\ ctl_bh' = RunInCtl(RunInCtl(ctl_bh, "vring_mark_stopped_bh", v, 1),
                                  "vring_mark_drained_bh", v,
                                  IF o.k > 0 /\ n = 0 THEN 1 ELSE 0)
            /\ stopping' = IF n = 0 THEN v ELSE None
  BY Zenon DEF vring_stop_bh
<1>4. o.k = 0 /\ ~o.null
  <2>1. o \in CancelOutcomes(0)
    BY <1>2
  <2> QED
    BY <2>1 DEF CancelOutcomes
<1>. DEFINE n == vring[v].num_in_flight
<1>5. n \in Nat /\ n - o.k = n
  BY <1>2, <1>4 DEF VringType
<1>6. /\ vdev' = d
      /\ vring' = [vring EXCEPT ![v] = r(n)]
      /\ queued' = [queued EXCEPT ![v] = @ - 0]
      /\ canceled' = [canceled EXCEPT ![v] = @ + 0]
      /\ ctl_bh' = RunInCtl(RunInCtl(ctl_bh, "vring_mark_stopped_bh", v, 1),
                            "vring_mark_drained_bh", v, 0)
      /\ stopping' = IF n = 0 THEN v ELSE None
  <2>1. ~(o.k > 0)
    BY <1>4
  <2>. HIDE DEF d, r
  <2> QED
    BY <1>3, <1>4, <1>5, <2>1
<1>7. queued' = queued /\ canceled' = canceled
  BY <1>2, <1>6
<1>8. /\ vring'[v] = r(n) /\ \A w \in Vring \ {v} : vring'[w] = vring[w]
      /\ ~vring'[v].started_in_rq /\ vring'[v].kick_handler = "null"
      /\ vring'[v].num_in_flight = n
  BY <1>2, <1>6
<1>9. ctl_bh' = RunInCtl(ctl_bh, "vring_mark_stopped_bh", v, 1)
  <2>1. RunInCtl(ctl_bh, "vring_mark_stopped_bh", v, 1) \in [CtlFn -> [Vring -> Nat]]
    BY <1>2 DEF RunInCtl, CtlFn
  <2>2. ASSUME NEW b \in [CtlFn -> [Vring -> Nat]]
        PROVE  RunInCtl(b, "vring_mark_drained_bh", v, 0) = b
    BY DEF RunInCtl, CtlFn
  <2> QED
    BY <1>6, <2>1, <2>2
<1>10. Kept(vdev, vdev') /\ SameBhs(vdev, vdev')
  BY <1>2, <1>6, RqBhRun
<1>. HIDE DEF d, r
<1>11. \A w \in Vring : RqChange(w, 0, 0)
  BY <1>2, <1>10, NoChange
<1>12. CtlChange(v, 0, 0, 1, 0) /\ \A w \in Vring \ {v} : CtlChange(w, 0, 0, 0, 0)
  <2>1. "vring_mark_stopped_bh" \in CtlFn
    BY DEF CtlFn
  <2> QED
    BY <1>2, <1>9, <2>1, InCtl
<1>13. RingChange(v, -1, 0)
  BY <1>2, <1>5, <1>6, <1>8 DEF RingChange, Started, Busy
<1>14. \A w \in Vring \ {v} : stopping' # w /\ stopping # w
  BY <1>2, <1>6, VringAssumption
<1>15. \A w \in Vring \ {v} : RingChange(w, 0, 0)
  BY <1>2, <1>8, <1>14, NoChange
<1>16. RqChange(v, 0, 0)
  BY <1>11
<1>17. Owes(v, 0, 0, 0)
  BY <1>2, <1>12, <1>13, <1>16, AckChange
<1>18. Acks' /\ Totals' /\ CtlInv(vdev)'
  BY <1>2, <1>10, <1>11, <1>12, <1>15, <1>17, RqStep
<1>19. vdev.started_in_ctl[v] /\ ctl_batch["vring_mark_drained_bh"][v] = 0
  <2>1. Busy(v) = 1
    BY <1>2 DEF Busy
  <2>2. Bhs("vring_mark_drained_bh", v) = 0 /\ vdev.started_in_ctl[v]
    BY <1>2, <2>1, StartNotBusy
  <2>3. /\ ctl_bh["vring_mark_drained_bh"][v] \in Nat
        /\ ctl_batch["vring_mark_drained_bh"][v] \in Nat
    BY <1>2, AckTypes DEF CtlFn
  <2> QED
    BY <2>2, <2>3 DEF Bhs
<1>20. \A w \in Vring \ {v} :
         ctl_bh'["vring_mark_stopped_bh"][w] = ctl_bh["vring_mark_stopped_bh"][w]
  BY <1>2, <1>9 DEF RunInCtl, CtlFn
<1>21. RingInv'
  <2>. USE DEF RingInv
  <2>1. SUFFICES ASSUME NEW w \in Vring
                 PROVE  /\ vdev'.on_drain_cb[w] => vdev'.started_in_ctl[w]
                        /\ ctl_bh'["vring_mark_stopped_bh"][w] > 0 =>
                              /\ vdev'.started_in_ctl[w]
                              /\ ctl_batch'["vring_mark_drained_bh"][w] = 0
                        /\ vring'[w].kick_handler = "attached" =>
                              vring'[w].started_in_rq
                        /\ stopping' = w => /\ ~vring'[w].started_in_rq
                                            /\ vring'[w].num_in_flight = 0
    OBVIOUS
  <2>2. CASE w = v
    BY <1>2, <1>6, <1>8, <1>10, <1>19, <2>2, VringAssumption DEF Kept
  <2>3. CASE w # v
    BY <1>2, <1>8, <1>10, <1>14, <1>20, <2>3 DEF Kept
  <2> QED
    BY <2>2, <2>3
<1>22. Quiet'
  BY <1>2, <1>7, <1>8 DEF Quiet
<1> QED
  BY <1>18, <1>21, <1>22 DEF CountInv

\* A step of rq that leaves the device and schedules nothing but drained BHs.
LEMMA DrainedStep ==
  ASSUME CountInv, Alive, NEW v \in Vring, vdev' = vdev, NEW k \in {0, 1},
         ctl_bh' = RunInCtl(ctl_bh, "vring_mark_drained_bh", v, k),
         UNCHANGED ctl_batch,
         RingChange(v, 0, -k), \A w \in Vring \ {v} : RingChange(w, 0, 0)
  PROVE  /\ Acks' /\ Totals' /\ CtlInv(vdev)'
         /\ ctl_bh'["vring_mark_stopped_bh"] = ctl_bh["vring_mark_stopped_bh"]
<1>1. TypeInv /\ ctl_bh \in [CtlFn -> [Vring -> Nat]]
  BY DEF CountInv, TypeInv, TypeOK
<1>2. Kept(vdev, vdev') /\ \A w \in Vring : RqChange(w, 0, 0)
  BY <1>1, KeptSelf
<1>3. CtlChange(v, 0, 0, 0, k) /\ \A w \in Vring \ {v} : CtlChange(w, 0, 0, 0, 0)
  <2>1. "vring_mark_drained_bh" \in CtlFn /\ k \in Nat
    BY DEF CtlFn
  <2> QED
    BY <1>1, <2>1, InCtl
<1>4. RqChange(v, 0, 0) /\ k \in Int /\ -k \in Int
  BY <1>2
<1>5. Owes(v, 0, 0, 0)
  BY <1>1, <1>3, <1>4, AckChange
<1>6. ctl_bh'["vring_mark_stopped_bh"] = ctl_bh["vring_mark_stopped_bh"]
  BY <1>1 DEF RunInCtl, CtlFn
<1> QED
  BY <1>2, <1>3, <1>5, <1>6, RqStep

\* The vring that vring_stop_bh found with nothing in flight is drained.
LEMMA StopDrainedCount ==
  ASSUME CountInv, TypeInv', NEW v \in Vring, StopBhDrained(v)
  PROVE  CountInv'
<1>1. /\ Alive /\ RingInv /\ Quiet /\ stopping = v /\ stopping' = None
      /\ ctl_bh' = RunInCtl(ctl_bh, "vring_mark_drained_bh", v, 1)
      /\ UNCHANGED <<vdev, vring, ctl_batch, queued, canceled>>
      /\ TypeInv
  BY DEF CountInv, StopBhDrained
<1>2. \A w \in Vring : stopping' # w
  BY <1>1, VringAssumption
<1>3. ~vring[v].started_in_rq /\ vring[v].num_in_flight = 0
  BY <1>1 DEF RingInv
<1>4. RingChange(v, 0, -1)
  BY <1>1, <1>2, <1>3 DEF RingChange, Started, Busy
<1>5. \A w \in Vring \ {v} : RingChange(w, 0, 0)
  BY <1>1, <1>2, NoChange
<1>6. /\ Acks' /\ Totals' /\ CtlInv(vdev)'
      /\ ctl_bh'["vring_mark_stopped_bh"] = ctl_bh["vring_mark_stopped_bh"]
  BY <1>1, <1>4, <1>5, DrainedStep
<1>7. RingInv'
  BY <1>1, <1>2, <1>6 DEF RingInv
<1>8. Quiet'
  BY <1>1 DEF Quiet
<1> QED
  BY <1>6, <1>7, <1>8 DEF CountInv

\* The last request of a stopped vring completes.
LEMMA CompleteCount ==
  ASSUME CountInv, TypeInv', NEW v \in Vring, rq_complete_bh(v)
  PROVE  CountInv'
<1>. DEFINE n == vring[v].num_in_flight - 1
            k == IF n = 0 /\ ~vring[v].started_in_rq THEN 1 ELSE 0
<1>1. SUFFICES ASSUME Alive' PROVE CountInv'
  BY DEF CountInv
<1>2. /\ Alive /\ RingInv /\ Quiet /\ stopping = None /\ completion[v] > 0
      /\ vring' = [vring EXCEPT ![v].num_in_flight = n]
      /\ ctl_bh' = RunInCtl(ctl_bh, "vring_mark_drained_bh", v, k)
      /\ UNCHANGED <<stopping, ctl_batch, queued, canceled>>
      /\ TypeInv /\ vdev \in VdevType /\ vring \in [Vring -> VringType]
  BY DEF CountInv, rq_complete_bh, InRunQueue, RqIdle, TypeInv, TypeOK
<1>3. vdev' = vdev
  BY <1>1, <1>2, RunAlive DEF rq_complete_bh
<1>4. n \in Nat
  <2>1. /\ queued[v] \in Nat /\ backend[v] \in Nat /\ completion[v] \in Nat
        /\ vring[v].num_in_flight = queued[v] + backend[v] + completion[v]
    BY <1>2 DEF TypeInv, TypeOK, RequestsAccounted
  <2> QED
    BY <1>2, <2>1
<1>5. /\ vring'[v].num_in_flight = n
      /\ vring'[v].started_in_rq = vring[v].started_in_rq
      /\ vring'[v].kick_handler = vring[v].kick_handler
      /\ \A w \in Vring \ {v} : vring'[w] = vring[w]
  BY <1>2 DEF VringType
<1>6. vring[v].num_in_flight = n + 1
  BY <1>2 DEF VringType
<1>7. k \in {0, 1} /\ (k = 1 <=> n = 0 /\ ~vring[v].started_in_rq)
  OBVIOUS
<1>. HIDE DEF n, k
<1>8. \A w \in Vring : stopping # w /\ stopping' # w
  BY <1>2, VringAssumption
<1>9. RingChange(v, 0, -k)
  BY <1>4, <1>5, <1>6, <1>7, <1>8 DEF RingChange, Started, Busy
<1>10. \A w \in Vring \ {v} : RingChange(w, 0, 0)
  BY <1>2, <1>5, NoChange
<1>11. /\ Acks' /\ Totals' /\ CtlInv(vdev)'
       /\ ctl_bh'["vring_mark_stopped_bh"] = ctl_bh["vring_mark_stopped_bh"]
  BY <1>2, <1>3, <1>7, <1>9, <1>10, DrainedStep
<1>12. RingInv'
  BY <1>2, <1>3, <1>5, <1>8, <1>11 DEF RingInv
<1>13. Quiet'
  BY <1>2, <1>5 DEF Quiet
<1> QED
  BY <1>11, <1>12, <1>13 DEF CountInv

\* Requests arrive, reach the backend and complete.
LEMMA RequestCount ==
  ASSUME CountInv, TypeInv', NEW v \in Vring, Requests(v)
  PROVE  CountInv'
<1>1. SUFFICES ASSUME Alive' PROVE CountInv'
  BY DEF CountInv
<1>2. /\ Alive /\ RingInv /\ Quiet /\ UNCHANGED <<stopping, ctl_bh, ctl_batch, canceled>>
      /\ vdev' = Run(vdev)
      /\ TypeInv /\ vdev \in VdevType /\ vring \in [Vring -> VringType]
      /\ queued \in [Vring -> Nat]
  BY DEF CountInv, Requests, vring_kick, vhd_dequeue_request, vhd_complete_bio,
         RqIdle, TypeInv, TypeOK
<1>3. vdev' = vdev
  BY <1>1, <1>2, RunAlive
<1>4. /\ \A w \in Vring : /\ vring'[w].started_in_rq = vring[w].started_in_rq
                          /\ vring'[w].kick_handler = "attached" =>
                                vring[w].kick_handler = "attached"
                          /\ \/ vring'[w].num_in_flight = vring[w].num_in_flight
                             \/ stopping # w /\ vring[w].started_in_rq
                          /\ queued'[w] > 0 => queued[w] > 0 \/ vring[w].started_in_rq
  <2>1. ASSUME NEW m \in 0 .. MaxInFlight, vring_kick(v, m)
        PROVE  <1>4!1
    <3>1. PICK handler \in {"attached", "detached"} :
            vring' = [vring EXCEPT ![v].num_in_flight = @ + m,
                                   ![v].kick_handler = handler]
      BY <2>1 DEF vring_kick
    <3>2. /\ vring'[v].started_in_rq = vring[v].started_in_rq
          /\ \A w \in Vring \ {v} : vring'[w] = vring[w]
      BY <1>2, <3>1 DEF VringType
    <3>3. vring[v].kick_handler = "attached" /\ stopping # v /\ vring[v].started_in_rq
      BY <1>2, <2>1, VringAssumption DEF vring_kick, RqIdle, RingInv
    <3>4. \A w \in Vring \ {v} : queued'[w] = queued[w]
      BY <1>2, <2>1 DEF vring_kick
    <3> QED
      BY <3>2, <3>3, <3>4
  <2>2. CASE vhd_dequeue_request(v) \/ vhd_complete_bio(v)
    <3>1. vring' = vring
      BY <2>2 DEF vhd_dequeue_request, vhd_complete_bio
    <3>2. \A w \in Vring : queued'[w] > 0 => queued[w] > 0
      BY <1>2, <2>2 DEF vhd_dequeue_request, vhd_complete_bio
    <3> QED
      BY <3>1, <3>2
  <2> QED
    BY <2>1, <2>2 DEF Requests
<1>5. \A w \in Vring : RingChange(w, 0, 0)
  BY <1>2, <1>4 DEF RingChange, Started, Busy
<1>6. RingChange(v, 0, -0)
  BY <1>5
<1>7. ctl_bh' = RunInCtl(ctl_bh, "vring_mark_drained_bh", v, 0)
  BY <1>2 DEF RunInCtl, CtlFn, TypeInv, TypeOK
<1>8. Acks' /\ Totals' /\ CtlInv(vdev)'
  BY <1>2, <1>3, <1>5, <1>6, <1>7, DrainedStep
<1>9. RingInv'
  <2>1. \A w \in Vring : stopping = w => vring'[w].num_in_flight = vring[w].num_in_flight
    BY <1>4
  <2> QED
    BY <1>2, <1>3, <1>4, <2>1 DEF RingInv
<1>10. Quiet'
  BY <1>2, <1>4 DEF Quiet
<1> QED
  BY <1>8, <1>9, <1>10 DEF CountInv

-----------------------------------------------------------------------------
(* The theorems. *)

\* How finitely many vrings are counted.
LEMMA VringsCounted == VringCounts
<1>1. Cardinality({}) = 0
  BY FS_EmptySet
<1>2. ASSUME NEW S \in SUBSET Vring
      PROVE  IsFiniteSet(S) /\ Cardinality(S) \in Nat
  BY VringAssumption, FS_Subset, FS_CardinalityType
<1>3. ASSUME NEW S \in SUBSET Vring
      PROVE  Cardinality(S) = 0 => S = {}
  BY <1>2, FS_EmptySet
<1>4. ASSUME NEW S \in SUBSET Vring, NEW v \in Vring
      PROVE  v \notin S => Cardinality(S \cup {v}) = Cardinality(S) + 1
  BY <1>2, FS_AddElement
<1>5. ASSUME NEW S \in SUBSET Vring, NEW v \in Vring
      PROVE  v \in S => Cardinality(S \ {v}) = Cardinality(S) - 1
  BY <1>2, FS_RemoveElement
<1> QED
  BY <1>1, <1>2, <1>3, <1>4, <1>5 DEF VringCounts

\* Every state of every behaviour is of the right type, and num_in_flight of
\* a vring is the number of its requests that are queued, in the backend or
\* completed but not yet reported (vhd_vring_inc/dec_in_flight).
THEOREM TypeCorrect == Spec => [](TypeOK /\ RequestsAccounted)
<1>1. Init => TypeInv
  BY TypeInit, VringsCounted
<1>2. TypeInv /\ [Next]_vars => TypeInv'
  BY TypeNext
<1> QED
  BY <1>1, <1>2, PTL DEF Spec, TypeInv

\* A started device counts nothing.
LEMMA InitCount ==
  ASSUME Init, TypeInv
  PROVE  CountInv
<1>1. \A v \in Vring :
        /\ vdev.vring_start_bh[v] = 0 /\ vdev.vring_sync_to_virtq_bh[v] = 0
        /\ \A fn \in CtlFn : ctl_bh[fn][v] = 0 /\ ctl_batch[fn][v] = 0
        /\ ~vring[v].started_in_rq /\ vring[v].num_in_flight = 0 /\ stopping # v
        /\ vring[v].kick_handler = "null"
        /\ ~vdev.started_in_ctl[v] /\ ~vdev.on_drain_cb[v]
        /\ queued[v] = 0 /\ canceled[v] = 0
  BY VringAssumption DEF Init, NoBhs, Zero, NoVring
<1>2. \A v \in Vring : \A fn \in CtlFn : Bhs(fn, v) = 0
  BY <1>1 DEF Bhs
<1>3. \A v \in Vring : /\ MsgAcks(v) = 0 /\ StopAcks(v) = 0 /\ DrainAcks(v) = 0
  BY <1>1, <1>2 DEF MsgAcks, StopAcks, DrainAcks, CtlFn
<1>4. Acks
  BY <1>1, <1>3 DEF Acks
<1>5. Totals
  <2>1. MsgSet = {} /\ StopSet = {} /\ InSet = {}
    BY <1>1, <1>3 DEF MsgSet, StopSet, InSet
  <2>2. Counts(vdev, 0, 0, 0)
    BY DEF Init, Counts
  <2> QED
    BY <2>1, <2>2, VringsCounted DEF Totals, VringCounts
<1>6. CtlInv(vdev)
  BY <1>1 DEF Init, CtlInv, DevInv
<1>7. RingInv
  BY <1>1 DEF RingInv, CtlFn
<1>8. Quiet
  BY <1>1 DEF Quiet
<1> QED
  BY <1>4, <1>5, <1>6, <1>7, <1>8 DEF CountInv

\* One step of the device.
LEMMA CountNext ==
  ASSUME CountInv, [Next]_vars, LeavesQueued = FALSE
  PROVE  CountInv'
<1>1. TypeInv'
  BY TypeNext DEF CountInv
<1>2. CASE External
  BY <1>1, <1>2, ExternalCount
<1>3. CASE Client
  BY <1>1, <1>3, AcceptCount, RejectCount, ReadCount DEF Client
<1>4. CASE vdev_work_fn
  BY <1>1, <1>4, WorkCount
<1>5. CASE CtlPoll
  BY <1>1, <1>5, PollCount
<1>6. ASSUME NEW v \in Vring, CtlBhs(v) PROVE CountInv'
  BY <1>1, <1>6, MsgHandledCount, StoppedCount, DrainedCount, StartFailedCount
     DEF CtlBhs
<1>7. ASSUME NEW v \in Vring, RqBhs(v) PROVE CountInv'
  BY <1>1, <1>7, StartCount, SyncCount, NotRunningCount, StopBhCount,
     StopDrainedCount, CompleteCount DEF RqBhs
<1>8. ASSUME NEW v \in Vring, Requests(v) PROVE CountInv'
  BY <1>1, <1>8, RequestCount
<1>9. CASE UNCHANGED vars
  <2>1. /\ vdev' = vdev /\ UNCHANGED <<rqVars, ctl_bh, ctl_batch>>
        /\ Calm(vdev, vdev')
    BY <1>9 DEF vars, rqVars, Calm, Same, Counts, SameVrings, SameBhs, Life
  <2> QED
    BY <1>1, <2>1, CalmStep DEF CountInv, Alive
<1> QED
  BY <1>2, <1>3, <1>4, <1>5, <1>6, <1>7, <1>8, <1>9 DEF Next

\* CountInv is an invariant.
LEMMA CountersInvariant ==
  ASSUME LeavesQueued = FALSE
  PROVE  Spec => []CountInv
<1>1. Init => CountInv
  <2>1. Init => TypeInv
    BY TypeInit, VringsCounted
  <2> QED
    BY <2>1, InitCount
<1>2. CountInv /\ [Next]_vars => CountInv'
  BY CountNext
<1> QED
  BY <1>1, <1>2, PTL DEF Spec

\* The counters of struct vhd_vdev count the vrings that still owe the control
\* event loop an acknowledgement, and no vring owes one twice: whatever the
\* messages, the disconnects and the order of the BHs of the two threads, for
\* any number of vrings, if vhd_run_queue is called when no request is queued.
THEOREM CountersCorrect ==
  ASSUME LeavesQueued = FALSE
  PROVE  Spec => []CountersExact
<1>1. CountInv => CountersExact
  BY DEF CountInv, Acks, Totals, Counts, MsgSet, StopSet, InSet, CountersExact
<1> QED
  BY <1>1, CountersInvariant, PTL

-----------------------------------------------------------------------------
(* GET_VRING_BASE. *)

\* A drained BH, or a start that failed, is all its vring owes: it has no
\* request in flight.
LEMMA DrainedEmpty ==
  ASSUME CountInv, Alive, NEW v \in Vring,
         \/ Bhs("vring_mark_drained_bh", v) >= 1
         \/ Bhs("vring_start_failed_bh", v) >= 1
  PROVE  vring[v].num_in_flight = 0 /\ canceled[v] = 0
<1>1. Acks /\ TypeInv /\ Quiet
  BY DEF CountInv
<1>2. /\ vdev.vring_start_bh[v] \in Nat /\ vring[v].num_in_flight \in Nat
      /\ Bhs("vring_mark_drained_bh", v) \in Nat
      /\ Bhs("vring_start_failed_bh", v) \in Nat
  BY <1>1, AckTypes DEF CtlFn
<1>3. DrainAcks(v) = 0 \/ DrainAcks(v) = 1
  BY <1>1 DEF Acks
<1>4. ~(vring[v].num_in_flight > 0)
  BY <1>2, <1>3 DEF DrainAcks
<1> QED
  BY <1>1, <1>2, <1>4 DEF Quiet

\* Only the drained BH of a vring, or its start that failed, answers for it.
LEMMA DrainStep ==
  ASSUME CountInv, [Next]_vars, NEW v \in Vring,
         vdev.on_drain_cb[v], ~vdev'.on_drain_cb[v]
  PROVE  vring[v].num_in_flight = 0 /\ canceled[v] = 0
<1>1. vdev \in VdevType
  BY DEF CountInv, TypeInv, TypeOK
<1>2. vdev'.on_drain_cb # vdev.on_drain_cb
  OBVIOUS
<1>3. ~External /\ ~vdev_work_fn /\ ~CtlPoll /\ ~UNCHANGED vars /\ ~server_read
  <2>1. ~External
    BY <1>1, <1>2 DEF External, vhd_vdev_stop_server, vhd_vdev_release, VdevType
  <2>2. ~vdev_work_fn
    BY <1>1, <1>2, WorkDrainCb
  <2>3. ~CtlPoll /\ ~UNCHANGED vars
    BY <1>2 DEF CtlPoll, vars
  <2>4. ~server_read
    BY <1>1, <1>2 DEF server_read, Fault, VdevType
  <2> QED
    BY <2>1, <2>2, <2>3, <2>4
<1>4. ~Client
  <2>1. Client => HandlingEvents /\ vdev.conn_handler = "attached"
    BY <1>3, Zenon DEF Client, ConnHangup, ConnReject, conn_read
  <2> QED
    BY <2>1 DEF HandlingEvents, CountInv, CtlInv, DevInv
<1>5. PICK w \in Vring : CtlBhs(w)
  BY <1>1, <1>2, <1>3, <1>4, RqDrainCb DEF Next
<1>6. PICK io \in IoResult : \/ vring_mark_msg_handled_bh(w, io)
                               \/ vring_start_failed_bh(w, io)
                               \/ vring_mark_stopped_bh(w, io)
                               \/ vring_mark_drained_bh(w, io)
  BY <1>5, Zenon DEF CtlBhs
<1>7. ~vring_mark_stopped_bh(w, io)
  <2>1. vring_mark_stopped(vdev, io) \in VdevType
    BY <1>1, MarkStoppedType
  <2> QED
    BY <1>1, <1>2, <2>1, StoppedDrainCb, DrainCbKept DEF vring_mark_stopped_bh
<1>8. ~vring_mark_msg_handled_bh(w, io)
  <2>1. vring_mark_msg_handled(vdev, io) \in VdevType
    BY <1>1, MsgHandledType
  <2> QED
    BY <1>1, <1>2, <2>1, MsgHandledDrainCb, DrainCbKept
       DEF vring_mark_msg_handled_bh
<1>9. CASE vring_start_failed_bh(w, io)
  <2>1. vring_start_failed(vdev, w, io) \in VdevType
    BY <1>1, StartFailedType
  <2>2. w = v
    BY <1>1, <1>9, <2>1, StartFailedDrainCb, DrainCbKept
       DEF vring_start_failed_bh
  <2>3. CtlBh("vring_start_failed_bh", v) /\ "vring_start_failed_bh" \in CtlFn
    BY <1>9, <2>2 DEF vring_start_failed_bh, CtlFn
  <2>4. Alive /\ Bhs("vring_start_failed_bh", v) >= 1
    BY <2>3, RunsBh
  <2> QED
    BY <2>4, DrainedEmpty
<1>10. CASE vring_mark_drained_bh(w, io)
  <2>1. vring_mark_drained(vdev, w, io) \in VdevType
    BY <1>1, MarkDrainedType
  <2>2. w = v
    BY <1>1, <1>10, <2>1, DrainedDrainCb, DrainCbKept
       DEF vring_mark_drained_bh
  <2>3. CtlBh("vring_mark_drained_bh", v) /\ "vring_mark_drained_bh" \in CtlFn
    BY <1>10, <2>2 DEF vring_mark_drained_bh, CtlFn
  <2>4. Alive /\ Bhs("vring_mark_drained_bh", v) >= 1
    BY <2>3, RunsBh
  <2> QED
    BY <2>4, DrainedEmpty
<1> QED
  BY <1>6, <1>7, <1>8, <1>9, <1>10

\* GET_VRING_BASE of a started vring is answered once all of its requests have
\* been completed to the client, for any number of vrings: none is in flight
\* and none was canceled, if vhd_run_queue is called when no request is queued.
THEOREM BaseAnsweredDrained ==
  ASSUME LeavesQueued = FALSE
  PROVE  Spec => BaseAfterDrain
<1>1. CountInv /\ [Next]_vars =>
        [\A v \in Vring : vdev.on_drain_cb[v] /\ ~vdev'.on_drain_cb[v] =>
             vring[v].num_in_flight = 0 /\ canceled[v] = 0]_vars
  BY DrainStep
<1> QED
  BY <1>1, CountersInvariant, PTL DEF Spec, BaseAfterDrain
=============================================================================
