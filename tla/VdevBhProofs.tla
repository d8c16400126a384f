---------------------------- MODULE VdevBhProofs ----------------------------
(***************************************************************************)
(* Proofs about Vdev, for any number of vrings: the BHs of the control     *)
(* event loop, and the BHs by which rq starts a vring or updates it, keep  *)
(* the inductive invariant of VdevCountProofs.                             *)
(***************************************************************************)
EXTENDS VdevCountProofs

-----------------------------------------------------------------------------
(* The BHs of the control event loop. *)

\* A callback that survives on a device that is not freed.
LEMMA RunAlive ==
  ASSUME NEW d, vdev' = Run(d), Alive', d \in VdevType
  PROVE  vdev' = d /\ d.fault = None
<1>1. CASE vdev.released
  <2>1. vdev'.fault # None
    BY <1>1 DEF Run, Fault, VdevType, None
  <2> QED
    BY <2>1 DEF Alive
<1>2. CASE ~vdev.released
  BY <1>2 DEF Run, Alive
<1> QED
  BY <1>1, <1>2

\* What a BH fn of v that runs leaves alone.
LEMMA RunsBh ==
  ASSUME CountInv, NEW v \in Vring, NEW fn \in CtlFn, CtlBh(fn, v)
  PROVE  /\ Alive /\ TypeInv /\ Acks /\ CtlInv(vdev) /\ RingInv /\ Quiet
         /\ vdev \in VdevType
         /\ Bhs(fn, v) >= 1 /\ ctl_batch[fn][v] > 0
         /\ UNCHANGED <<vring, stopping, queued, canceled, ctl_bh>>
         /\ \A w \in Vring : RingChange(w, 0, 0)
         /\ \A g \in CtlFn, w \in Vring : ctl_batch'[g][w] <= ctl_batch[g][w]
         /\ \A g \in CtlFn, w \in Vring : ctl_batch'[g][w] \in Nat
<1>1. /\ Alive /\ TypeInv /\ Acks /\ CtlInv(vdev) /\ RingInv /\ Quiet
      /\ vdev \in VdevType
  BY DEF CountInv, CtlBh, TypeInv, TypeOK
<1>2. ctl_bh \in [CtlFn -> [Vring -> Nat]] /\ ctl_batch \in [CtlFn -> [Vring -> Nat]]
  BY <1>1 DEF TypeInv, TypeOK
<1>3. /\ ctl_batch[fn][v] > 0 /\ ctl_batch' = [ctl_batch EXCEPT ![fn][v] = @ - 1]
      /\ UNCHANGED <<vring, stopping, queued, canceled, ctl_bh>>
  BY DEF CtlBh, rqVars
<1>4. Bhs(fn, v) >= 1
  BY <1>2, <1>3 DEF Bhs
<1>5. \A w \in Vring : RingChange(w, 0, 0)
  BY <1>1, <1>3, NoChange
<1>6. \A g \in CtlFn, w \in Vring : /\ ctl_batch'[g][w] <= ctl_batch[g][w]
                                    /\ ctl_batch'[g][w] \in Nat
  BY <1>2, <1>3
<1> QED
  BY <1>1, <1>3, <1>4, <1>5, <1>6

\* A BH that leaves the vrings.
LEMMA RingKept ==
  ASSUME CountInv, NEW v \in Vring, NEW fn \in CtlFn, CtlBh(fn, v),
         SameVrings(vdev, vdev')
  PROVE  RingInv' /\ Quiet'
<1>1. /\ RingInv /\ Quiet /\ UNCHANGED <<vring, stopping, queued, canceled, ctl_bh>>
      /\ \A w \in Vring : /\ ctl_batch'["vring_mark_drained_bh"][w]
                               <= ctl_batch["vring_mark_drained_bh"][w]
                          /\ ctl_batch'["vring_mark_drained_bh"][w] \in Nat
  BY RunsBh DEF CtlFn
<1>2. /\ vdev'.started_in_ctl = vdev.started_in_ctl
      /\ vdev'.on_drain_cb = vdev.on_drain_cb
  BY DEF SameVrings
<1>3. RingInv'
  BY <1>1, <1>2 DEF RingInv
<1>4. Quiet'
  BY <1>1 DEF Quiet
<1> QED
  BY <1>3, <1>4

\* An acknowledgement that a vring owes is the only one.
LEMMA OwesOne ==
  ASSUME CountInv, Alive, NEW v \in Vring
  PROVE  /\ MsgAcks(v) \in {0, 1} /\ StopAcks(v) \in {0, 1} /\ DrainAcks(v) \in {0, 1}
         /\ DrainAcks(v) = IF vdev.started_in_ctl[v] THEN 1 ELSE 0
         /\ Bhs("vring_start_failed_bh", v) >= 1 =>
              /\ MsgAcks(v) = 1 /\ StopAcks(v) = 1 /\ DrainAcks(v) = 1
              /\ Bhs("vring_mark_stopped_bh", v) = 0
         /\ Bhs("vring_mark_msg_handled_bh", v) >= 1 => MsgAcks(v) = 1
         /\ Bhs("vring_mark_stopped_bh", v) >= 1 => StopAcks(v) = 1
         /\ Bhs("vring_mark_drained_bh", v) >= 1 => DrainAcks(v) = 1
<1>1. TypeInv /\ Acks
  BY DEF CountInv
<1>2. /\ MsgAcks(v) \in {0, 1} /\ StopAcks(v) \in {0, 1} /\ DrainAcks(v) \in {0, 1}
      /\ DrainAcks(v) = IF vdev.started_in_ctl[v] THEN 1 ELSE 0
  BY <1>1, AckSums DEF Acks
<1>3. /\ vdev.vring_start_bh[v] \in Nat /\ vdev.vring_sync_to_virtq_bh[v] \in Nat
      /\ Bhs("vring_start_failed_bh", v) \in Nat
      /\ Bhs("vring_mark_msg_handled_bh", v) \in Nat
      /\ Bhs("vring_mark_stopped_bh", v) \in Nat
      /\ Bhs("vring_mark_drained_bh", v) \in Nat
      /\ Started(v) \in Nat /\ Busy(v) \in Nat
  BY <1>1, AckTypes DEF CtlFn, Started, Busy
<1>4. \A a, b, c, d \in Nat : a + b + c + d \in {0, 1} =>
        /\ (a >= 1 \/ b >= 1 \/ c >= 1 \/ d >= 1) => a + b + c + d = 1
        /\ b >= 1 => d = 0
        /\ c >= 1 => a + b + c + d = 1
  OBVIOUS
<1>5. /\ Bhs("vring_mark_msg_handled_bh", v) >= 1 => MsgAcks(v) = 1
      /\ Bhs("vring_start_failed_bh", v) >= 1 => MsgAcks(v) = 1
  <2>1. MsgAcks(v) = vdev.vring_start_bh[v] + vdev.vring_sync_to_virtq_bh[v]
                     + Bhs("vring_start_failed_bh", v)
                     + Bhs("vring_mark_msg_handled_bh", v)
    BY <1>1, AckSums
  <2> QED
    BY <1>2, <1>3, <1>4, <2>1
<1>6. /\ Bhs("vring_mark_stopped_bh", v) >= 1 => StopAcks(v) = 1
      /\ Bhs("vring_start_failed_bh", v) >= 1 =>
           StopAcks(v) = 1 /\ Bhs("vring_mark_stopped_bh", v) = 0
  <2>1. StopAcks(v) = vdev.vring_start_bh[v] + Bhs("vring_start_failed_bh", v)
                      + Started(v) + Bhs("vring_mark_stopped_bh", v)
    BY <1>1, AckSums
  <2> QED
    BY <1>2, <1>3, <1>4, <2>1
<1>7. /\ Bhs("vring_mark_drained_bh", v) >= 1 => DrainAcks(v) = 1
      /\ Bhs("vring_start_failed_bh", v) >= 1 => DrainAcks(v) = 1
  <2>1. DrainAcks(v) = vdev.vring_start_bh[v] + Bhs("vring_start_failed_bh", v)
                       + Busy(v) + Bhs("vring_mark_drained_bh", v)
    BY <1>1, AckSums
  <2> QED
    BY <1>2, <1>3, <1>4, <2>1
<1> QED
  BY <1>2, <1>5, <1>6, <1>7

\* vring_reset of v.
LEMMA ResetVring ==
  ASSUME vdev \in VdevType, NEW v \in Vring,
         vdev'.started_in_ctl = [vdev.started_in_ctl EXCEPT ![v] = FALSE],
         vdev'.on_drain_cb = [vdev.on_drain_cb EXCEPT ![v] = FALSE]
  PROVE  /\ ~vdev'.started_in_ctl[v] /\ ~vdev'.on_drain_cb[v]
         /\ \A w \in Vring \ {v} :
               /\ vdev'.started_in_ctl[w] = vdev.started_in_ctl[w]
               /\ vdev'.on_drain_cb[w] = vdev.on_drain_cb[w]
<1>1. /\ vdev.started_in_ctl \in [Vring -> BOOLEAN]
      /\ vdev.on_drain_cb \in [Vring -> BOOLEAN]
  BY DEF VdevType
<1> QED
  BY <1>1

\* A vring has handled the message.
LEMMA MsgHandledCount ==
  ASSUME CountInv, TypeInv', NEW v \in Vring, NEW io \in IoResult,
         vring_mark_msg_handled_bh(v, io)
  PROVE  CountInv'
<1>. DEFINE fn == "vring_mark_msg_handled_bh"
<1>1. SUFFICES ASSUME Alive' PROVE CountInv'
  BY DEF CountInv
<1>2. CtlBh(fn, v) /\ fn \in CtlFn
  BY DEF vring_mark_msg_handled_bh, CtlFn
<1>3. /\ Alive /\ TypeInv /\ Acks /\ CtlInv(vdev) /\ RingInv /\ Quiet
      /\ vdev \in VdevType /\ Bhs(fn, v) >= 1
      /\ UNCHANGED <<vring, stopping, queued, canceled, ctl_bh>>
      /\ \A w \in Vring : RingChange(w, 0, 0)
  BY <1>2, RunsBh
<1>4. vdev' = vring_mark_msg_handled(vdev, io) /\ vdev'.fault = None
  BY <1>1, <1>3, RunAlive, MsgHandledType DEF vring_mark_msg_handled_bh
<1>5. /\ vdev.num_vrings_handling_msg # 0
      /\ Counts(vdev', vdev.num_vrings_handling_msg - 1, vdev.num_vrings_started,
                vdev.num_vrings_in_flight)
      /\ SameVrings(vdev, vdev') /\ Life(vdev, vdev')
      /\ vdev'.conn_handler = vdev.conn_handler \/ vdev'.num_vrings_handling_msg = 0
  BY <1>3, <1>4, MsgHandledEffect
<1>6. \A w \in Vring : RqChange(w, 0, 0)
  BY <1>3, <1>5, NoChange DEF SameVrings
<1>7. CtlChange(v, 0, -1, 0, 0) /\ \A w \in Vring \ {v} : CtlChange(w, 0, 0, 0, 0)
  BY <1>2, <1>3, OneBh
<1>8. \A w \in Vring \ {v} : Untouched(w)
  BY <1>3, <1>5, <1>6, <1>7 DEF Untouched, SameVrings
<1>9. Owes(v, -1, 0, 0)
  BY <1>3, <1>6, <1>7, AckChange
<1>10. /\ MsgAcks(v) = 1 /\ StopAcks(v) \in {0, 1}
       /\ DrainAcks(v) \in {0, 1}
       /\ DrainAcks(v) = IF vdev'.started_in_ctl[v] THEN 1 ELSE 0
  BY <1>3, <1>5, OwesOne DEF SameVrings
<1>11. /\ MsgAcks(v) + (-1) \in {0, 1} /\ StopAcks(v) + 0 \in {0, 1}
       /\ DrainAcks(v) + 0 = IF vdev'.started_in_ctl[v] THEN 1 ELSE 0
  BY <1>10
<1>12. Counts(vdev', vdev.num_vrings_handling_msg + (-1), vdev.num_vrings_started + 0,
              vdev.num_vrings_in_flight + 0)
  BY <1>3, <1>5 DEF Counts, VdevType
<1>13. Acks' /\ Totals'
  BY <1>3, <1>8, <1>9, <1>11, <1>12, RingStep
<1>14. CtlInv(vdev)'
  <2>1. /\ vdev'.conn_handler = "attached" => vdev'.num_vrings_handling_msg = 0
        /\ vdev.listen_handler # "attached" /\ vdev.user # "start_called"
        /\ \A w \in Vring : ~vdev.on_drain_cb[w]
    BY <1>3, <1>5 DEF CtlInv, DevInv
  <2>2. \A w \in Vring : ~vdev'.on_drain_cb[w]
    BY <1>5, <2>1 DEF SameVrings
  <2>3. /\ vdev'.listen_handler = "attached" => Idle(vdev')
        /\ vdev'.user # "start_called"
    BY <1>5, <2>1 DEF Life
  <2> QED
    BY <2>1, <2>2, <2>3 DEF CtlInv, DevInv, Idle
<1>15. RingInv' /\ Quiet'
  BY <1>2, <1>5, RingKept
<1> QED
  BY <1>13, <1>14, <1>15 DEF CountInv

\* A vring has stopped.
LEMMA StoppedCount ==
  ASSUME CountInv, TypeInv', NEW v \in Vring, NEW io \in IoResult,
         vring_mark_stopped_bh(v, io)
  PROVE  CountInv'
<1>. DEFINE fn == "vring_mark_stopped_bh"
<1>1. SUFFICES ASSUME Alive' PROVE CountInv'
  BY DEF CountInv
<1>2. CtlBh(fn, v) /\ fn \in CtlFn
  BY DEF vring_mark_stopped_bh, CtlFn
<1>3. /\ Alive /\ TypeInv /\ Acks /\ CtlInv(vdev) /\ RingInv /\ Quiet
      /\ vdev \in VdevType /\ Bhs(fn, v) >= 1
      /\ UNCHANGED <<vring, stopping, queued, canceled, ctl_bh>>
      /\ \A w \in Vring : RingChange(w, 0, 0)
  BY <1>2, RunsBh
<1>4. vdev' = vring_mark_stopped(vdev, io) /\ vdev'.fault = None
  BY <1>1, <1>3, RunAlive, MarkStoppedType DEF vring_mark_stopped_bh
<1>5. /\ vdev.num_vrings_started # 0
      /\ Counts(vdev', vdev.num_vrings_handling_msg, vdev.num_vrings_started - 1,
                vdev.num_vrings_in_flight)
      /\ SameVrings(vdev, vdev') /\ Life(vdev, vdev')
      /\ vdev'.conn_handler \in {vdev.conn_handler, "null"}
  BY <1>3, <1>4, MarkStoppedEffect
<1>6. \A w \in Vring : RqChange(w, 0, 0)
  BY <1>3, <1>5, NoChange DEF SameVrings
<1>7. CtlChange(v, 0, 0, -1, 0) /\ \A w \in Vring \ {v} : CtlChange(w, 0, 0, 0, 0)
  BY <1>2, <1>3, OneBh
<1>8. \A w \in Vring \ {v} : Untouched(w)
  BY <1>3, <1>5, <1>6, <1>7 DEF Untouched, SameVrings
<1>9. Owes(v, 0, -1, 0)
  BY <1>3, <1>6, <1>7, AckChange
<1>10. /\ MsgAcks(v) \in {0, 1} /\ StopAcks(v) = 1
       /\ DrainAcks(v) \in {0, 1}
       /\ DrainAcks(v) = IF vdev'.started_in_ctl[v] THEN 1 ELSE 0
  BY <1>3, <1>5, OwesOne DEF SameVrings
<1>11. /\ MsgAcks(v) + 0 \in {0, 1} /\ StopAcks(v) + (-1) \in {0, 1}
       /\ DrainAcks(v) + 0 = IF vdev'.started_in_ctl[v] THEN 1 ELSE 0
  BY <1>10
<1>12. Counts(vdev', vdev.num_vrings_handling_msg + 0, vdev.num_vrings_started + (-1),
              vdev.num_vrings_in_flight + 0)
  BY <1>3, <1>5 DEF Counts, VdevType
<1>13. Acks' /\ Totals'
  BY <1>3, <1>8, <1>9, <1>11, <1>12, RingStep
<1>14. CtlInv(vdev)'
  <2>1. vdev.listen_handler # "attached" /\ vdev.user # "start_called"
    BY <1>3, <1>5 DEF CtlInv, DevInv
  <2>2. /\ vdev'.listen_handler = "attached" => Idle(vdev')
        /\ vdev'.user # "start_called"
    BY <1>5, <2>1 DEF Life
  <2>3. /\ vdev'.on_drain_cb = vdev.on_drain_cb
        /\ vdev'.num_vrings_handling_msg = vdev.num_vrings_handling_msg
        /\ vdev'.conn_handler = "attached" => vdev.conn_handler = "attached"
    BY <1>5 DEF SameVrings, Counts
  <2> QED
    BY <1>3, <2>2, <2>3 DEF CtlInv, DevInv, Idle
<1>15. RingInv' /\ Quiet'
  BY <1>2, <1>5, RingKept
<1> QED
  BY <1>13, <1>14, <1>15 DEF CountInv

\* The vring that a BH resets owes nothing that RingInv speaks of.
LEMMA RingReset ==
  ASSUME RingInv, NEW v \in Vring, UNCHANGED <<vring, stopping, ctl_bh>>,
         ~vdev'.started_in_ctl[v], ~vdev'.on_drain_cb[v],
         \A w \in Vring \ {v} : /\ vdev'.started_in_ctl[w] = vdev.started_in_ctl[w]
                                /\ vdev'.on_drain_cb[w] = vdev.on_drain_cb[w],
         ctl_bh["vring_mark_stopped_bh"][v] = 0,
         \A w \in Vring : /\ ctl_batch'["vring_mark_drained_bh"][w] \in Nat
                          /\ ctl_batch'["vring_mark_drained_bh"][w] <=
                               ctl_batch["vring_mark_drained_bh"][w]
  PROVE  RingInv'
<1>. USE DEF RingInv
<1>. TAKE w \in Vring
<1>1. CASE w = v
  BY <1>1
<1>2. CASE w # v
  <2>1. /\ vdev'.started_in_ctl[w] = vdev.started_in_ctl[w]
        /\ vdev'.on_drain_cb[w] = vdev.on_drain_cb[w]
    BY <1>2
  <2>2. ctl_batch["vring_mark_drained_bh"][w] = 0 =>
          ctl_batch'["vring_mark_drained_bh"][w] = 0
    OBVIOUS
  <2> QED
    BY <2>1, <2>2
<1> QED
  BY <1>1, <1>2

\* A vring has drained: it is reset, whatever its stopped BH that may still
\* have to run.
LEMMA DrainedCount ==
  ASSUME CountInv, TypeInv', NEW v \in Vring, NEW io \in IoResult,
         vring_mark_drained_bh(v, io)
  PROVE  CountInv'
<1>. DEFINE fn == "vring_mark_drained_bh"
<1>1. SUFFICES ASSUME Alive' PROVE CountInv'
  BY DEF CountInv
<1>2. CtlBh(fn, v) /\ fn \in CtlFn
  BY DEF vring_mark_drained_bh, CtlFn
<1>3. /\ Alive /\ TypeInv /\ Acks /\ CtlInv(vdev) /\ RingInv /\ Quiet
      /\ vdev \in VdevType /\ Bhs(fn, v) >= 1 /\ ctl_batch[fn][v] > 0
      /\ UNCHANGED <<vring, stopping, queued, canceled, ctl_bh>>
      /\ \A w \in Vring : RingChange(w, 0, 0)
  BY <1>2, RunsBh
<1>4. vdev' = vring_mark_drained(vdev, v, io) /\ vdev'.fault = None
  BY <1>1, <1>3, RunAlive, MarkDrainedType DEF vring_mark_drained_bh
<1>5. /\ vdev.num_vrings_in_flight # 0 /\ vdev.started_in_ctl[v]
      /\ Counts(vdev', vdev.num_vrings_handling_msg, vdev.num_vrings_started,
                vdev.num_vrings_in_flight - 1)
      /\ SameBhs(vdev, vdev') /\ Life(vdev, vdev')
      /\ vdev'.started_in_ctl = [vdev.started_in_ctl EXCEPT ![v] = FALSE]
      /\ vdev'.on_drain_cb = [vdev.on_drain_cb EXCEPT ![v] = FALSE]
      /\ vdev'.conn_handler \in {vdev.conn_handler, "null"} \/ vdev.on_drain_cb[v]
  BY <1>3, <1>4, MarkDrainedEffect
<1>6. /\ ~vdev'.started_in_ctl[v] /\ ~vdev'.on_drain_cb[v]
      /\ \A w \in Vring \ {v} :
            /\ vdev'.started_in_ctl[w] = vdev.started_in_ctl[w]
            /\ vdev'.on_drain_cb[w] = vdev.on_drain_cb[w]
  BY <1>3, <1>5, ResetVring
<1>7. \A w \in Vring : RqChange(w, 0, 0)
  BY <1>3, <1>5, NoChange
<1>8. CtlChange(v, 0, 0, 0, -1) /\ \A w \in Vring \ {v} : CtlChange(w, 0, 0, 0, 0)
  BY <1>2, <1>3, OneBh
<1>9. \A w \in Vring \ {v} : Untouched(w)
  BY <1>3, <1>6, <1>7, <1>8 DEF Untouched
<1>10. Owes(v, 0, 0, -1)
  BY <1>3, <1>7, <1>8, AckChange
<1>11. /\ MsgAcks(v) \in {0, 1} /\ StopAcks(v) \in {0, 1} /\ DrainAcks(v) = 1
       /\ ~vdev'.started_in_ctl[v]
  BY <1>3, <1>6, OwesOne
<1>12. /\ MsgAcks(v) + 0 \in {0, 1} /\ StopAcks(v) + 0 \in {0, 1}
       /\ DrainAcks(v) + (-1) = IF vdev'.started_in_ctl[v] THEN 1 ELSE 0
  BY <1>11
<1>13. Counts(vdev', vdev.num_vrings_handling_msg + 0, vdev.num_vrings_started + 0,
              vdev.num_vrings_in_flight + (-1))
  <2>1. vdev \in VdevType
    BY <1>3
  <2> QED
    BY <1>5, <2>1 DEF Counts, VdevType
<1>14. Acks' /\ Totals'
  <2>1. Alive
    BY <1>3
  <2> QED
    BY <1>9, <1>10, <1>12, <1>13, <2>1, RingStep
<1>15. CtlInv(vdev)'
  <2>1. vdev.listen_handler # "attached" /\ vdev.user # "start_called"
    BY <1>3, <1>5 DEF CtlInv, DevInv
  <2>2. /\ vdev'.listen_handler = "attached" => Idle(vdev')
        /\ vdev'.user # "start_called"
    BY <1>5, <2>1 DEF Life
  <2>3. /\ \A w \in Vring : vdev'.on_drain_cb[w] => vdev.on_drain_cb[w] /\ w # v
        /\ vdev'.num_vrings_handling_msg = vdev.num_vrings_handling_msg
        /\ vdev'.conn_handler \in {vdev.conn_handler, "null"} \/ vdev.on_drain_cb[v]
    BY <1>5, <1>6 DEF Counts
  <2>4. CtlInv(vdev)
    BY <1>3
  <2> QED
    BY <2>2, <2>3, <2>4 DEF CtlInv, DevInv, Idle
<1>16. RingInv'
  <2>1. ctl_bh["vring_mark_stopped_bh"][v] = 0
    BY <1>3, AckTypes DEF RingInv, CtlFn
  <2>2. \A w \in Vring : /\ ctl_batch'["vring_mark_drained_bh"][w] \in Nat
                         /\ ctl_batch'["vring_mark_drained_bh"][w] <=
                              ctl_batch["vring_mark_drained_bh"][w]
    BY <1>2, RunsBh DEF CtlFn
  <2>3. RingInv /\ UNCHANGED <<vring, stopping, ctl_bh>>
    BY <1>3
  <2> QED
    BY <1>6, <2>1, <2>2, <2>3, RingReset
<1>17. Quiet'
  BY <1>3 DEF Quiet
<1> QED
  BY <1>14, <1>15, <1>16, <1>17 DEF CountInv

\* A vring could not be started: all it owes is acknowledged at once.
LEMMA StartFailedCount ==
  ASSUME CountInv, TypeInv', NEW v \in Vring, NEW io \in IoResult,
         vring_start_failed_bh(v, io)
  PROVE  CountInv'
<1>. DEFINE fn == "vring_start_failed_bh"
            d == [vdev EXCEPT !.handle_complete = "set_vring_kick_fail_complete"]
            e == vring_mark_msg_handled(d, io)
            f == vring_mark_stopped(e, io)
<1>1. SUFFICES ASSUME Alive' PROVE CountInv'
  BY DEF CountInv
<1>2. CtlBh(fn, v) /\ fn \in CtlFn
  BY DEF vring_start_failed_bh, CtlFn
<1>3. /\ Alive /\ TypeInv /\ Acks /\ CtlInv(vdev) /\ RingInv /\ Quiet
      /\ vdev \in VdevType /\ Bhs(fn, v) >= 1
      /\ UNCHANGED <<vring, stopping, queued, canceled, ctl_bh>>
      /\ \A w \in Vring : RingChange(w, 0, 0)
  BY <1>2, RunsBh
<1>4. d \in VdevType /\ Same(vdev, d) /\ Still(vdev, d)
  BY <1>3 DEF VdevType, Completes, Same, Counts, SameVrings, SameBhs, Still
<1>5. vdev' = vring_mark_drained(f, v, io) /\ vdev'.fault = None
  <2>1. vdev' = Run(vring_mark_drained(f, v, io))
    BY DEF vring_start_failed_bh, vring_start_failed
  <2>. HIDE DEF d
  <2>2. vring_mark_drained(f, v, io) \in VdevType
    BY <1>2, <1>4, MsgHandledType, MarkStoppedType, MarkDrainedType
  <2> QED
    BY <1>1, <2>1, <2>2, RunAlive
<1>. HIDE DEF d
<1>6. e \in VdevType /\ f \in VdevType
  BY <1>2, <1>4, MsgHandledType, MarkStoppedType
<1>. HIDE DEF f
<1>7. /\ f.num_vrings_in_flight # 0 /\ f.started_in_ctl[v]
      /\ Counts(vdev', f.num_vrings_handling_msg, f.num_vrings_started,
                f.num_vrings_in_flight - 1)
      /\ SameBhs(f, vdev') /\ Life(f, vdev')
      /\ vdev'.started_in_ctl = [f.started_in_ctl EXCEPT ![v] = FALSE]
      /\ vdev'.on_drain_cb = [f.on_drain_cb EXCEPT ![v] = FALSE]
      /\ vdev'.conn_handler \in {f.conn_handler, "null"} \/ f.on_drain_cb[v]
  BY <1>2, <1>5, <1>6, MarkDrainedEffect
<1>8. f.fault = None
  BY <1>5, <1>7 DEF Life
<1>. HIDE DEF e
<1>9. /\ e.num_vrings_started # 0
      /\ Counts(f, e.num_vrings_handling_msg, e.num_vrings_started - 1,
                e.num_vrings_in_flight)
      /\ SameVrings(e, f) /\ Life(e, f)
      /\ f.conn_handler \in {e.conn_handler, "null"}
  BY <1>6, <1>8, MarkStoppedEffect DEF f
<1>10. e.fault = None
  BY <1>8, <1>9 DEF Life
<1>11. /\ d.num_vrings_handling_msg # 0
       /\ Counts(e, d.num_vrings_handling_msg - 1, d.num_vrings_started,
                 d.num_vrings_in_flight)
       /\ SameVrings(d, e) /\ Life(d, e)
       /\ e.conn_handler = d.conn_handler \/ e.num_vrings_handling_msg = 0
  BY <1>2, <1>4, <1>10, MsgHandledEffect DEF e
<1>12. /\ Counts(vdev', vdev.num_vrings_handling_msg - 1,
                 vdev.num_vrings_started - 1, vdev.num_vrings_in_flight - 1)
       /\ vdev.num_vrings_handling_msg # 0
  BY <1>4, <1>7, <1>9, <1>11 DEF Same, Counts
<1>13. /\ SameBhs(vdev, vdev')
       /\ vdev'.started_in_ctl = [vdev.started_in_ctl EXCEPT ![v] = FALSE]
       /\ vdev'.on_drain_cb = [vdev.on_drain_cb EXCEPT ![v] = FALSE]
       /\ f.on_drain_cb = vdev.on_drain_cb
  BY <1>4, <1>7, <1>9, <1>11 DEF Same, SameVrings, SameBhs
<1>14. /\ ~vdev'.started_in_ctl[v] /\ ~vdev'.on_drain_cb[v]
       /\ \A w \in Vring \ {v} :
             /\ vdev'.started_in_ctl[w] = vdev.started_in_ctl[w]
             /\ vdev'.on_drain_cb[w] = vdev.on_drain_cb[w]
  BY <1>3, <1>13, ResetVring
<1>15. \A w \in Vring : RqChange(w, 0, 0)
  BY <1>3, <1>13, NoChange
<1>16. CtlChange(v, -1, 0, 0, 0) /\ \A w \in Vring \ {v} : CtlChange(w, 0, 0, 0, 0)
  BY <1>2, <1>3, OneBh
<1>17. \A w \in Vring \ {v} : Untouched(w)
  BY <1>3, <1>14, <1>15, <1>16 DEF Untouched
<1>18. Owes(v, -1, -1, -1)
  BY <1>3, <1>15, <1>16, AckChange
<1>19. /\ MsgAcks(v) = 1 /\ StopAcks(v) = 1 /\ DrainAcks(v) = 1
       /\ Bhs("vring_mark_stopped_bh", v) = 0
  BY <1>3, OwesOne
<1>20. /\ MsgAcks(v) + (-1) \in {0, 1} /\ StopAcks(v) + (-1) \in {0, 1}
       /\ DrainAcks(v) + (-1) = IF vdev'.started_in_ctl[v] THEN 1 ELSE 0
  BY <1>14, <1>19
<1>21. Counts(vdev', vdev.num_vrings_handling_msg + (-1), vdev.num_vrings_started + (-1),
              vdev.num_vrings_in_flight + (-1))
  BY <1>3, <1>12 DEF Counts, VdevType
<1>22. Acks' /\ Totals'
  BY <1>3, <1>17, <1>18, <1>20, <1>21, RingStep
<1>23. CtlInv(vdev)'
  <2>1. \A w \in Vring : ~vdev.on_drain_cb[w] /\ ~vdev'.on_drain_cb[w]
    BY <1>3, <1>12, <1>14 DEF CtlInv, DevInv
  <2>2. vdev'.conn_handler = "attached" => vdev'.num_vrings_handling_msg = 0
    <3>1. vdev'.conn_handler = "attached" => e.conn_handler = "attached"
      BY <1>7, <1>9, <1>13, <2>1
    <3>2. d.conn_handler # "attached"
      BY <1>3, <1>4, <1>12 DEF Still, CtlInv, DevInv
    <3> QED
      BY <1>7, <1>9, <1>11, <3>1, <3>2 DEF Counts
  <2>3. vdev'.listen_handler = "attached" => Idle(vdev')
    <3>1. ~Idle(f) /\ ~Idle(e)
      BY <1>7, <1>9 DEF Idle, Counts
    <3>2. d.listen_handler # "attached"
      BY <1>3, <1>4, <1>12 DEF Still, CtlInv, DevInv
    <3> QED
      BY <1>7, <1>9, <1>11, <3>1, <3>2 DEF Life
  <2>4. vdev'.user # "start_called"
    <3>1. d.user # "start_called"
      BY <1>3, <1>4, <1>12 DEF Still, CtlInv, DevInv
    <3> QED
      BY <1>7, <1>9, <1>11, <3>1 DEF Life
  <2> QED
    BY <2>1, <2>2, <2>3, <2>4 DEF CtlInv, DevInv, Idle
<1>24. RingInv'
  <2>1. ctl_bh["vring_mark_stopped_bh"][v] = 0
    <3>1. /\ ctl_bh["vring_mark_stopped_bh"][v] \in Nat
          /\ ctl_batch["vring_mark_stopped_bh"][v] \in Nat
      BY <1>3, AckTypes DEF CtlFn
    <3> QED
      BY <1>19, <3>1 DEF Bhs
  <2>2. \A w \in Vring : /\ ctl_batch'["vring_mark_drained_bh"][w] \in Nat
                         /\ ctl_batch'["vring_mark_drained_bh"][w] <=
                              ctl_batch["vring_mark_drained_bh"][w]
    BY <1>2, RunsBh DEF CtlFn
  <2>3. RingInv /\ UNCHANGED <<vring, stopping, ctl_bh>>
    BY <1>3
  <2> QED
    BY <1>14, <2>1, <2>2, <2>3, RingReset
<1>25. Quiet'
  BY <1>3 DEF Quiet
<1> QED
  BY <1>22, <1>23, <1>24, <1>25 DEF CountInv

-----------------------------------------------------------------------------
(* The request queue. *)

\* What rq leaves of the control state.
Kept(d, e) ==
    /\ Counts(e, d.num_vrings_handling_msg, d.num_vrings_started,
              d.num_vrings_in_flight)
    /\ e.started_in_ctl = d.started_in_ctl
    /\ e.on_drain_cb = d.on_drain_cb
    /\ Still(d, e)

\* A step of rq about v that exchanges what v owes for something else.
LEMMA RqStep ==
  ASSUME CountInv, Alive, NEW v \in Vring, Kept(vdev, vdev'),
         \A w \in Vring \ {v} :
            RqChange(w, 0, 0) /\ CtlChange(w, 0, 0, 0, 0) /\ RingChange(w, 0, 0),
         Owes(v, 0, 0, 0)
  PROVE  Acks' /\ Totals' /\ CtlInv(vdev)'
<1>1. CtlInv(vdev) /\ vdev \in VdevType
  BY DEF CountInv, TypeInv, TypeOK
<1>2. CtlInv(vdev)'
  BY <1>1 DEF CtlInv, DevInv, Kept, Counts, Still
<1>3. \A w \in Vring \ {v} : Untouched(w)
  BY DEF Untouched, Kept
<1>4. /\ MsgAcks(v) \in {0, 1} /\ StopAcks(v) \in {0, 1}
      /\ DrainAcks(v) \in {0, 1}
      /\ DrainAcks(v) = IF vdev'.started_in_ctl[v] THEN 1 ELSE 0
  BY OwesOne DEF Kept
<1>5. /\ MsgAcks(v) + 0 \in {0, 1} /\ StopAcks(v) + 0 \in {0, 1}
      /\ DrainAcks(v) + 0 = IF vdev'.started_in_ctl[v] THEN 1 ELSE 0
  BY <1>4
<1>6. Counts(vdev', vdev.num_vrings_handling_msg + 0, vdev.num_vrings_started + 0,
             vdev.num_vrings_in_flight + 0)
  BY <1>1 DEF Kept, Counts, VdevType
<1>7. Acks' /\ Totals'
  BY <1>3, <1>5, <1>6, RingStep
<1> QED
  BY <1>2, <1>7

\* One BH less on rq.
LEMMA RqBhRun ==
  ASSUME TypeInv, NEW v \in Vring
  PROVE  /\ vdev' = [vdev EXCEPT !.vring_start_bh[v] = @ - 1] =>
              /\ Kept(vdev, vdev') /\ RqChange(v, -1, 0)
              /\ \A w \in Vring \ {v} : RqChange(w, 0, 0)
         /\ vdev' = [vdev EXCEPT !.vring_sync_to_virtq_bh[v] = @ - 1] =>
              /\ Kept(vdev, vdev') /\ RqChange(v, 0, -1)
              /\ \A w \in Vring \ {v} : RqChange(w, 0, 0)
         /\ vdev' = [vdev EXCEPT !.vring_stop_bh[v] = @ - 1] =>
              /\ Kept(vdev, vdev') /\ SameBhs(vdev, vdev')
<1>. DEFINE x == [vdev.vring_start_bh EXCEPT ![v] = @ - 1]
            y == [vdev.vring_sync_to_virtq_bh EXCEPT ![v] = @ - 1]
            z == [vdev.vring_stop_bh EXCEPT ![v] = @ - 1]
<1>1. vdev \in VdevType
  BY DEF TypeInv, TypeOK
<1>2. /\ vdev.vring_start_bh \in [Vring -> Nat]
      /\ vdev.vring_sync_to_virtq_bh \in [Vring -> Nat]
  BY <1>1 DEF VdevType
<1>3. /\ [vdev EXCEPT !.vring_start_bh[v] = @ - 1] = [vdev EXCEPT !.vring_start_bh = x]
      /\ [vdev EXCEPT !.vring_sync_to_virtq_bh[v] = @ - 1]
           = [vdev EXCEPT !.vring_sync_to_virtq_bh = y]
      /\ [vdev EXCEPT !.vring_stop_bh[v] = @ - 1] = [vdev EXCEPT !.vring_stop_bh = z]
  BY Zenon
<1>4. /\ x[v] = vdev.vring_start_bh[v] - 1
      /\ \A w \in Vring \ {v} : x[w] = vdev.vring_start_bh[w]
  BY <1>2
<1>5. /\ y[v] = vdev.vring_sync_to_virtq_bh[v] - 1
      /\ \A w \in Vring \ {v} : y[w] = vdev.vring_sync_to_virtq_bh[w]
  BY <1>2
<1>. HIDE DEF x, y, z
<1>6. ASSUME vdev' = [vdev EXCEPT !.vring_start_bh = x]
      PROVE  /\ Kept(vdev, vdev') /\ vdev'.vring_start_bh = x
             /\ vdev'.vring_sync_to_virtq_bh = vdev.vring_sync_to_virtq_bh
  BY <1>1, <1>6 DEF VdevType, Kept, Counts, Still
<1>7. ASSUME vdev' = [vdev EXCEPT !.vring_sync_to_virtq_bh = y]
      PROVE  /\ Kept(vdev, vdev') /\ vdev'.vring_sync_to_virtq_bh = y
             /\ vdev'.vring_start_bh = vdev.vring_start_bh
  BY <1>1, <1>7 DEF VdevType, Kept, Counts, Still
<1>8. ASSUME vdev' = [vdev EXCEPT !.vring_stop_bh = z]
      PROVE  Kept(vdev, vdev') /\ SameBhs(vdev, vdev')
  BY <1>1, <1>8 DEF VdevType, Kept, Counts, Still, SameBhs
<1>9. ASSUME vdev' = [vdev EXCEPT !.vring_start_bh = x]
      PROVE  RqChange(v, -1, 0) /\ \A w \in Vring \ {v} : RqChange(w, 0, 0)
  BY <1>2, <1>4, <1>6, <1>9 DEF RqChange
<1>10. ASSUME vdev' = [vdev EXCEPT !.vring_sync_to_virtq_bh = y]
       PROVE  RqChange(v, 0, -1) /\ \A w \in Vring \ {v} : RqChange(w, 0, 0)
  BY <1>2, <1>5, <1>7, <1>10 DEF RqChange
<1> QED
  BY <1>3, <1>6, <1>7, <1>8, <1>9, <1>10

\* A device that is not freed.
LEMMA KeptSelf ==
  ASSUME TypeInv, vdev' = vdev
  PROVE  Kept(vdev, vdev') /\ \A w \in Vring : RqChange(w, 0, 0)
<1>1. Kept(vdev, vdev') /\ SameBhs(vdev, vdev')
  BY DEF Kept, Counts, Still, SameBhs
<1> QED
  BY <1>1, NoChange

\* A vring that rq has still to start is drained; one that rq runs, or that is
\* not drained, has no drained BH.
LEMMA StartNotBusy ==
  ASSUME CountInv, Alive, NEW v \in Vring
  PROVE  /\ vdev.vring_start_bh[v] > 0 => Busy(v) = 0
         /\ Busy(v) = 1 => /\ Bhs("vring_mark_drained_bh", v) = 0
                           /\ vdev.started_in_ctl[v]
<1>1. TypeInv
  BY DEF CountInv
<1>2. /\ vdev.vring_start_bh[v] \in Nat /\ Bhs("vring_start_failed_bh", v) \in Nat
      /\ Bhs("vring_mark_drained_bh", v) \in Nat /\ Busy(v) \in Nat
  BY <1>1, AckTypes DEF CtlFn, Busy
<1>3. /\ DrainAcks(v) = vdev.vring_start_bh[v] + Bhs("vring_start_failed_bh", v)
                        + Busy(v) + Bhs("vring_mark_drained_bh", v)
      /\ DrainAcks(v) \in {0, 1}
  BY <1>1, AckSums, OwesOne
<1>4. \A a, b, c, d \in Nat : a + b + c + d \in {0, 1} =>
        /\ a > 0 => c = 0
        /\ c = 1 => d = 0 /\ a + b + c + d = 1
  OBVIOUS
<1>5. /\ vdev.vring_start_bh[v] > 0 => Busy(v) = 0
      /\ Busy(v) = 1 => Bhs("vring_mark_drained_bh", v) = 0 /\ DrainAcks(v) = 1
  BY <1>2, <1>3, <1>4
<1> QED
  BY <1>5, OwesOne

\* The vring starts in rq, or cannot be started.
LEMMA StartCount ==
  ASSUME CountInv, TypeInv', NEW v \in Vring, vring_start_bh(v)
  PROVE  CountInv'
<1>. DEFINE d == [vdev EXCEPT !.vring_start_bh[v] = @ - 1]
<1>1. SUFFICES ASSUME Alive' PROVE CountInv'
  BY DEF CountInv
<1>2. /\ Alive /\ TypeInv /\ RingInv /\ Quiet /\ stopping = None
      /\ vdev.vring_start_bh[v] > 0
      /\ UNCHANGED <<stopping, ctl_batch, queued>>
      /\ vdev \in VdevType /\ vring \in [Vring -> VringType]
      /\ canceled \in [Vring -> Nat]
  BY DEF CountInv, vring_start_bh, InRunQueue, RqIdle, reqVars, TypeInv, TypeOK
<1>3. vdev' = d /\ ~vring[v].started_in_rq
  <2>1. d \in VdevType
    <3>1. [vdev.vring_start_bh EXCEPT ![v] = @ - 1] \in [Vring -> Nat]
      BY <1>2 DEF VdevType
    <3> QED
      BY <1>2, <3>1, FieldType, Zenon
  <2>2. vdev' = IF vring[v].started_in_rq THEN Fault(d, "vring_start_bh") ELSE Run(d)
    BY Zenon DEF vring_start_bh
  <2>. HIDE DEF d
  <2>3. ~vring[v].started_in_rq
    BY <1>1, <2>1, <2>2, FaultCalm DEF Places, Alive
  <2> QED
    BY <1>1, <2>1, <2>2, <2>3, RunAlive
<1>4. /\ Kept(vdev, vdev') /\ RqChange(v, -1, 0)
      /\ \A w \in Vring \ {v} : RqChange(w, 0, 0)
  BY <1>2, <1>3, RqBhRun
<1>. HIDE DEF d
<1>5. CASE /\ ctl_bh' = RunInCtl(ctl_bh, "vring_start_failed_bh", v, 1)
           /\ UNCHANGED <<vring, canceled>>
  <2>1. CtlChange(v, 1, 0, 0, 0) /\ \A w \in Vring \ {v} : CtlChange(w, 0, 0, 0, 0)
    <3>1. "vring_start_failed_bh" \in CtlFn
      BY DEF CtlFn
    <3> QED
      BY <1>2, <1>5, <3>1, InCtl
  <2>2. \A w \in Vring : RingChange(w, 0, 0)
    BY <1>2, <1>5, NoChange
  <2>3. /\ RqChange(v, -1, 0) /\ CtlChange(v, 1, 0, 0, 0) /\ RingChange(v, 0, 0)
        /\ TypeInv
    BY <1>2, <1>4, <2>1, <2>2
  <2>4. Owes(v, 0, 0, 0)
    BY <2>3, AckChange
  <2>5. Acks' /\ Totals' /\ CtlInv(vdev)'
    BY <1>2, <1>4, <2>1, <2>2, <2>4, RqStep
  <2>6. ctl_bh'["vring_mark_stopped_bh"] = ctl_bh["vring_mark_stopped_bh"]
    BY <1>2, <1>5 DEF RunInCtl, TypeInv, TypeOK, CtlFn
  <2>7. RingInv'
    BY <1>2, <1>4, <1>5, <2>6 DEF RingInv, Kept
  <2>8. Quiet'
    BY <1>2, <1>5 DEF Quiet
  <2> QED
    BY <2>5, <2>7, <2>8 DEF CountInv
<1>6. CASE /\ ctl_bh' = RunInCtl(ctl_bh, "vring_mark_msg_handled_bh", v, 1)
           /\ vring' = [vring EXCEPT ![v].kick_handler = "attached",
                                     ![v].started_in_rq = TRUE]
           /\ canceled' = [canceled EXCEPT ![v] = 0]
  <2>1. CtlChange(v, 0, 1, 0, 0) /\ \A w \in Vring \ {v} : CtlChange(w, 0, 0, 0, 0)
    <3>1. "vring_mark_msg_handled_bh" \in CtlFn
      BY DEF CtlFn
    <3> QED
      BY <1>2, <1>6, <3>1, InCtl
  <2>2. vring'[v].started_in_rq /\ \A w \in Vring \ {v} : vring'[w] = vring[w]
    BY <1>2, <1>6 DEF VringType
  <2>3. RingChange(v, 1, 1)
    <3>1. Busy(v) = 0
      BY <1>2, StartNotBusy
    <3> QED
      BY <1>3, <2>2, <3>1 DEF RingChange, Started, Busy
  <2>4. \A w \in Vring \ {v} : RingChange(w, 0, 0)
    BY <1>2, <2>2, NoChange
  <2>5. Owes(v, 0, 0, 0)
    BY <1>2, <1>4, <2>1, <2>3, AckChange
  <2>7. Acks' /\ Totals' /\ CtlInv(vdev)'
    BY <1>2, <1>4, <2>1, <2>4, <2>5, RqStep
  <2>8. ctl_bh'["vring_mark_stopped_bh"] = ctl_bh["vring_mark_stopped_bh"]
    BY <1>2, <1>6 DEF RunInCtl, TypeInv, TypeOK, CtlFn
  <2>9. \A w \in Vring : stopping # w
    BY <1>2, VringAssumption
  <2>10. RingInv'
    BY <1>2, <1>4, <2>2, <2>8, <2>9 DEF RingInv, Kept
  <2>11. Quiet'
    BY <1>2, <1>6, <2>2 DEF Quiet
  <2> QED
    BY <2>7, <2>10, <2>11 DEF CountInv
<1> QED
  BY <1>5, <1>6 DEF vring_start_bh

\* The vring reads its state back from the virtqueue.
LEMMA SyncCount ==
  ASSUME CountInv, TypeInv', NEW v \in Vring, vring_sync_to_virtq_bh(v)
  PROVE  CountInv'
<1>. DEFINE d == [vdev EXCEPT !.vring_sync_to_virtq_bh[v] = @ - 1]
<1>1. SUFFICES ASSUME Alive' PROVE CountInv'
  BY DEF CountInv
<1>2. /\ Alive /\ TypeInv /\ RingInv /\ Quiet
      /\ vdev.vring_sync_to_virtq_bh[v] > 0
      /\ ctl_bh' = RunInCtl(ctl_bh, "vring_mark_msg_handled_bh", v, 1)
      /\ UNCHANGED <<vring, stopping, ctl_batch, queued, canceled>>
      /\ vdev \in VdevType
  BY DEF CountInv, vring_sync_to_virtq_bh, InRunQueue, RqIdle, rqVars, TypeInv, TypeOK
<1>3. vdev' = d
  <2>1. d \in VdevType
    <3>1. [vdev.vring_sync_to_virtq_bh EXCEPT ![v] = @ - 1] \in [Vring -> Nat]
      BY <1>2 DEF VdevType
    <3> QED
      BY <1>2, <3>1, FieldType, Zenon
  <2>2. vdev' = Run(d)
    BY Zenon DEF vring_sync_to_virtq_bh
  <2>. HIDE DEF d
  <2> QED
    BY <1>1, <2>1, <2>2, RunAlive
<1>4. /\ Kept(vdev, vdev') /\ RqChange(v, 0, -1)
      /\ \A w \in Vring \ {v} : RqChange(w, 0, 0)
  BY <1>2, <1>3, RqBhRun
<1>. HIDE DEF d
<1>5. CtlChange(v, 0, 1, 0, 0) /\ \A w \in Vring \ {v} : CtlChange(w, 0, 0, 0, 0)
  <2>1. "vring_mark_msg_handled_bh" \in CtlFn
    BY DEF CtlFn
  <2> QED
    BY <1>2, <2>1, InCtl
<1>6. \A w \in Vring : RingChange(w, 0, 0)
  BY <1>2, NoChange
<1>7. RqChange(v, 0, -1) /\ CtlChange(v, 0, 1, 0, 0) /\ RingChange(v, 0, 0)
  BY <1>4, <1>5, <1>6
<1>8. Owes(v, 0, 0, 0)
  BY <1>2, <1>7, AckChange
<1>9. Acks' /\ Totals' /\ CtlInv(vdev)'
  BY <1>2, <1>4, <1>5, <1>6, <1>8, RqStep
<1>10. ctl_bh'["vring_mark_stopped_bh"] = ctl_bh["vring_mark_stopped_bh"]
  BY <1>2 DEF RunInCtl, TypeInv, TypeOK, CtlFn
<1>11. RingInv'
  BY <1>2, <1>4, <1>10 DEF RingInv, Kept
<1>12. Quiet'
  BY <1>2 DEF Quiet
<1> QED
  BY <1>9, <1>11, <1>12 DEF CountInv
=============================================================================
