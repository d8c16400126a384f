--------------------------- MODULE VdevCountProofs ---------------------------
(***************************************************************************)
(* Proofs about Vdev, for any number of vrings: the counters of struct     *)
(* vhd_vdev count what they should.                                        *)
(***************************************************************************)
EXTENDS VdevProofs

-----------------------------------------------------------------------------
(* The inductive invariant. *)

\* The vrings that owe an acknowledgement.
MsgSet == {v \in Vring : MsgAcks(v) = 1}
StopSet == {v \in Vring : StopAcks(v) = 1}
InSet == {v \in Vring : vdev.started_in_ctl[v]}

\* CountersExact in two parts.
Acks ==
    \A v \in Vring :
        /\ MsgAcks(v) <= 1 /\ StopAcks(v) <= 1
        /\ DrainAcks(v) = IF vdev.started_in_ctl[v] THEN 1 ELSE 0

Totals ==
    Counts(vdev, Cardinality(MsgSet), Cardinality(StopSet), Cardinality(InSet))

\* What CountersExact rests on in the control state: the device reads messages
\* only when none is being handled, one vring at most waits for its drain to
\* answer GET_VRING_BASE, and an unused device counts no vring.
DevInv(d) ==
    /\ d.conn_handler = "attached" => d.num_vrings_handling_msg = 0
    /\ \A v \in Vring : d.on_drain_cb[v] =>
           /\ d.conn_handler # "attached"
           /\ d.num_vrings_handling_msg = 0
           /\ \A w \in Vring : d.on_drain_cb[w] => w = v
    /\ d.listen_handler = "attached" \/ d.user = "start_called" =>
           /\ d.conn_handler = "null"
           /\ d.num_vrings_handling_msg = 0
           /\ d.num_vrings_started = 0
           /\ d.num_vrings_in_flight = 0

\* DevInv, and the device does not listen before it is started.
CtlInv(d) ==
    DevInv(d) /\ (d.user = "start_called" => d.listen_handler = "null")

\* What it rests on in each vring.  In particular a stopped BH that the control
\* event loop has not taken has not been overtaken by the drained BH: the vring
\* cannot be restarted before both have run.
RingInv ==
    \A v \in Vring :
        /\ vdev.on_drain_cb[v] => vdev.started_in_ctl[v]
        /\ ctl_bh["vring_mark_stopped_bh"][v] > 0 =>
               /\ vdev.started_in_ctl[v]
               /\ ctl_batch["vring_mark_drained_bh"][v] = 0
        /\ vring[v].kick_handler = "attached" => vring[v].started_in_rq
        /\ stopping = v => /\ ~vring[v].started_in_rq
                           /\ vring[v].num_in_flight = 0

\* Nothing is canceled, and only a started vring has requests queued, when
\* vhd_run_queue is not called before the queue is empty.
Quiet ==
    /\ \A v \in Vring : canceled[v] = 0
    /\ \A v \in Vring : queued[v] > 0 => vring[v].started_in_rq

CountInv ==
    TypeInv /\ (Alive => Acks /\ Totals /\ CtlInv(vdev) /\ RingInv /\ Quiet)

\* The numbers that the acknowledgements are sums of.
LEMMA AckTypes ==
  ASSUME TypeInv, NEW v \in Vring
  PROVE  /\ vdev.vring_start_bh[v] \in Nat
         /\ vdev.vring_sync_to_virtq_bh[v] \in Nat
         /\ \A fn \in CtlFn : /\ ctl_bh[fn][v] \in Nat /\ ctl_batch[fn][v] \in Nat
                              /\ Bhs(fn, v) \in Nat
         /\ vring[v].num_in_flight \in Nat
<1>1. /\ vdev.vring_start_bh[v] \in Nat
      /\ vdev.vring_sync_to_virtq_bh[v] \in Nat
  BY DEF TypeInv, TypeOK, VdevType
<1>2. \A fn \in CtlFn : ctl_bh[fn][v] \in Nat /\ ctl_batch[fn][v] \in Nat
  BY DEF TypeInv, TypeOK
<1>3. vring[v].num_in_flight \in Nat
  BY DEF TypeInv, TypeOK, VringType
<1> QED
  BY <1>1, <1>2, <1>3 DEF Bhs

\* What a vring that runs, and one that is not drained, adds to them.
Started(v) == IF vring[v].started_in_rq THEN 1 ELSE 0
Busy(v) == IF vring[v].started_in_rq \/ vring[v].num_in_flight > 0 \/ stopping = v
           THEN 1 ELSE 0

LEMMA AckSums ==
  ASSUME TypeInv, NEW v \in Vring
  PROVE  /\ MsgAcks(v) = vdev.vring_start_bh[v] + vdev.vring_sync_to_virtq_bh[v]
                         + Bhs("vring_start_failed_bh", v)
                         + Bhs("vring_mark_msg_handled_bh", v)
         /\ StopAcks(v) = vdev.vring_start_bh[v] + Bhs("vring_start_failed_bh", v)
                          + Started(v) + Bhs("vring_mark_stopped_bh", v)
         /\ DrainAcks(v) = vdev.vring_start_bh[v] + Bhs("vring_start_failed_bh", v)
                           + Busy(v) + Bhs("vring_mark_drained_bh", v)
         /\ MsgAcks(v) \in Nat /\ StopAcks(v) \in Nat /\ DrainAcks(v) \in Nat
         /\ Started(v) \in {0, 1} /\ Busy(v) \in {0, 1}
<1>1. /\ MsgAcks(v) = vdev.vring_start_bh[v] + vdev.vring_sync_to_virtq_bh[v]
                         + Bhs("vring_start_failed_bh", v)
                         + Bhs("vring_mark_msg_handled_bh", v)
      /\ StopAcks(v) = vdev.vring_start_bh[v] + Bhs("vring_start_failed_bh", v)
                          + Started(v) + Bhs("vring_mark_stopped_bh", v)
      /\ DrainAcks(v) = vdev.vring_start_bh[v] + Bhs("vring_start_failed_bh", v)
                           + Busy(v) + Bhs("vring_mark_drained_bh", v)
  BY DEF MsgAcks, StopAcks, DrainAcks, Started, Busy
<1>2. Started(v) \in {0, 1} /\ Busy(v) \in {0, 1}
  BY DEF Started, Busy
<1>3. /\ Bhs("vring_start_failed_bh", v) \in Nat
      /\ Bhs("vring_mark_msg_handled_bh", v) \in Nat
      /\ Bhs("vring_mark_stopped_bh", v) \in Nat
      /\ Bhs("vring_mark_drained_bh", v) \in Nat
      /\ vdev.vring_start_bh[v] \in Nat /\ vdev.vring_sync_to_virtq_bh[v] \in Nat
  BY AckTypes DEF CtlFn
<1> QED
  BY <1>1, <1>2, <1>3

\* Numbers that add up to zero.
LEMMA ZeroSum ==
  ASSUME NEW a \in Nat, NEW b \in Nat, NEW c \in Nat, NEW d \in Nat,
         a + b + c + d = 0
  PROVE  a = 0 /\ b = 0 /\ c = 0 /\ d = 0
  OBVIOUS

\* A vring that owes no drained BH has nothing to do.
LEMMA Settled ==
  ASSUME TypeInv, NEW v \in Vring, DrainAcks(v) = 0
  PROVE  /\ vdev.vring_start_bh[v] = 0 /\ Bhs("vring_start_failed_bh", v) = 0
         /\ Busy(v) = 0 /\ Bhs("vring_mark_drained_bh", v) = 0
<1>1. /\ vdev.vring_start_bh[v] \in Nat /\ Bhs("vring_start_failed_bh", v) \in Nat
      /\ Bhs("vring_mark_drained_bh", v) \in Nat
  BY AckTypes DEF CtlFn
<1>2. vdev.vring_start_bh[v] + Bhs("vring_start_failed_bh", v)
        + Busy(v) + Bhs("vring_mark_drained_bh", v) = 0
  BY AckSums
<1>3. Busy(v) \in Nat
  BY DEF Busy
<1> QED
  BY <1>1, <1>2, <1>3, ZeroSum

\* What a step adds to the numbers of BHs, and to Started and Busy, of v.
RqChange(v, i, j) ==
    /\ vdev'.vring_start_bh[v] = vdev.vring_start_bh[v] + i
    /\ vdev'.vring_sync_to_virtq_bh[v] = vdev.vring_sync_to_virtq_bh[v] + j

CtlChange(v, k, l, m, n) ==
    /\ Bhs("vring_start_failed_bh", v)' = Bhs("vring_start_failed_bh", v) + k
    /\ Bhs("vring_mark_msg_handled_bh", v)' = Bhs("vring_mark_msg_handled_bh", v) + l
    /\ Bhs("vring_mark_stopped_bh", v)' = Bhs("vring_mark_stopped_bh", v) + m
    /\ Bhs("vring_mark_drained_bh", v)' = Bhs("vring_mark_drained_bh", v) + n

RingChange(v, o, p) ==
    Started(v)' = Started(v) + o /\ Busy(v)' = Busy(v) + p

\* BHs that are not run or scheduled, and a vring that does not change.
LEMMA NoChange ==
  ASSUME TypeInv, NEW v \in Vring
  PROVE  /\ SameBhs(vdev, vdev') => RqChange(v, 0, 0)
         /\ UNCHANGED <<ctl_bh, ctl_batch>> => CtlChange(v, 0, 0, 0, 0)
         /\ vring'[v] = vring[v] /\ (stopping' = v <=> stopping = v) =>
              RingChange(v, 0, 0)
<1>1. SameBhs(vdev, vdev') => RqChange(v, 0, 0)
  BY AckTypes DEF SameBhs, RqChange
<1>2. UNCHANGED <<ctl_bh, ctl_batch>> => CtlChange(v, 0, 0, 0, 0)
  <2>1. UNCHANGED <<ctl_bh, ctl_batch>> => \A fn : Bhs(fn, v)' = Bhs(fn, v)
    BY DEF Bhs
  <2> QED
    BY <2>1, AckTypes DEF CtlChange, CtlFn
<1>3. vring'[v] = vring[v] /\ (stopping' = v <=> stopping = v) => RingChange(v, 0, 0)
  BY DEF RingChange, Started, Busy
<1> QED
  BY <1>1, <1>2, <1>3

\* vhd_run_in_ctl, and a BH that the control event loop runs.
LEMMA OneBh ==
  ASSUME TypeInv, NEW v \in Vring, NEW fn \in CtlFn, NEW n \in Int,
         \/ n \in Nat /\ ctl_bh' = RunInCtl(ctl_bh, fn, v, n) /\ UNCHANGED ctl_batch
         \/ n = -1 /\ CtlBh(fn, v)
  PROVE  /\ fn = "vring_start_failed_bh" => CtlChange(v, n, 0, 0, 0)
         /\ fn = "vring_mark_msg_handled_bh" => CtlChange(v, 0, n, 0, 0)
         /\ fn = "vring_mark_stopped_bh" => CtlChange(v, 0, 0, n, 0)
         /\ fn = "vring_mark_drained_bh" => CtlChange(v, 0, 0, 0, n)
         /\ \A w \in Vring \ {v} : CtlChange(w, 0, 0, 0, 0)
<1>1. ctl_bh \in [CtlFn -> [Vring -> Nat]] /\ ctl_batch \in [CtlFn -> [Vring -> Nat]]
  BY DEF TypeInv, TypeOK
<1>2. /\ Bhs(fn, v)' = Bhs(fn, v) + n
      /\ \A g \in CtlFn, w \in Vring : g # fn \/ w # v => Bhs(g, w)' = Bhs(g, w)
  <2>1. CASE /\ n \in Nat /\ UNCHANGED ctl_batch
             /\ ctl_bh' = [ctl_bh EXCEPT ![fn][v] = @ + n]
    <3>1. /\ ctl_bh'[fn][v] = ctl_bh[fn][v] + n
          /\ \A g \in CtlFn, w \in Vring : g # fn \/ w # v => ctl_bh'[g][w] = ctl_bh[g][w]
      BY <1>1, <2>1
    <3> QED
      BY <1>1, <2>1, <3>1 DEF Bhs
  <2>2. CASE /\ n = -1 /\ UNCHANGED ctl_bh
             /\ ctl_batch' = [ctl_batch EXCEPT ![fn][v] = @ - 1]
    <3>1. /\ ctl_batch'[fn][v] = ctl_batch[fn][v] - 1
          /\ \A g \in CtlFn, w \in Vring : g # fn \/ w # v => ctl_batch'[g][w] = ctl_batch[g][w]
      BY <1>1, <2>2
    <3>2. /\ ctl_bh' = ctl_bh /\ n = -1
          /\ ctl_bh[fn][v] \in Nat /\ ctl_batch[fn][v] \in Nat
      BY <1>1, <2>2
    <3>3. Bhs(fn, v)' = Bhs(fn, v) + n
      BY <3>1, <3>2 DEF Bhs
    <3>4. \A g \in CtlFn, w \in Vring : g # fn \/ w # v => Bhs(g, w)' = Bhs(g, w)
      BY <3>1, <3>2 DEF Bhs
    <3> QED
      BY <3>3, <3>4
  <2> QED
    BY <2>1, <2>2 DEF RunInCtl, CtlBh
<1>3. \A g \in CtlFn, w \in Vring : Bhs(g, w) \in Nat
  BY AckTypes
<1>4. {"vring_mark_msg_handled_bh", "vring_start_failed_bh",
       "vring_mark_stopped_bh", "vring_mark_drained_bh"} \subseteq CtlFn
  BY DEF CtlFn
<1>5. \A w \in Vring \ {v} : CtlChange(w, 0, 0, 0, 0)
  BY <1>2, <1>3, <1>4 DEF CtlChange
<1>6. fn = "vring_start_failed_bh" => CtlChange(v, n, 0, 0, 0)
  BY <1>2, <1>3, <1>4 DEF CtlChange
<1>7. fn = "vring_mark_msg_handled_bh" => CtlChange(v, 0, n, 0, 0)
  BY <1>2, <1>3, <1>4 DEF CtlChange
<1>8. fn = "vring_mark_stopped_bh" => CtlChange(v, 0, 0, n, 0)
  BY <1>2, <1>3, <1>4 DEF CtlChange
<1>9. fn = "vring_mark_drained_bh" => CtlChange(v, 0, 0, 0, n)
  BY <1>2, <1>3, <1>4 DEF CtlChange
<1> QED
  BY <1>5, <1>6, <1>7, <1>8, <1>9

\* vhd_run_in_ctl, function by function.
LEMMA InCtl ==
  ASSUME TypeInv, NEW v \in Vring, NEW n \in Nat, UNCHANGED ctl_batch,
         NEW fn \in CtlFn, ctl_bh' = RunInCtl(ctl_bh, fn, v, n)
  PROVE  /\ \A w \in Vring \ {v} : CtlChange(w, 0, 0, 0, 0)
         /\ fn = "vring_start_failed_bh" => CtlChange(v, n, 0, 0, 0)
         /\ fn = "vring_mark_msg_handled_bh" => CtlChange(v, 0, n, 0, 0)
         /\ fn = "vring_mark_stopped_bh" => CtlChange(v, 0, 0, n, 0)
         /\ fn = "vring_mark_drained_bh" => CtlChange(v, 0, 0, 0, n)
  BY OneBh

\* a, b and c more acknowledgements of each kind.
Owes(v, a, b, c) ==
    /\ MsgAcks(v)' = MsgAcks(v) + a
    /\ StopAcks(v)' = StopAcks(v) + b
    /\ DrainAcks(v)' = DrainAcks(v) + c

LEMMA AckChange ==
  ASSUME TypeInv, NEW v \in Vring,
         NEW i \in Int, NEW j \in Int, NEW k \in Int, NEW l \in Int,
         NEW m \in Int, NEW n \in Int, NEW o \in Int, NEW p \in Int,
         RqChange(v, i, j), CtlChange(v, k, l, m, n), RingChange(v, o, p),
         NEW a, NEW b, NEW c,
         a = i + j + k + l, b = i + k + o + m, c = i + k + p + n
  PROVE  Owes(v, a, b, c)
<1>1. /\ MsgAcks(v) = vdev.vring_start_bh[v] + vdev.vring_sync_to_virtq_bh[v]
                         + Bhs("vring_start_failed_bh", v)
                         + Bhs("vring_mark_msg_handled_bh", v)
      /\ StopAcks(v) = vdev.vring_start_bh[v] + Bhs("vring_start_failed_bh", v)
                          + Started(v) + Bhs("vring_mark_stopped_bh", v)
      /\ DrainAcks(v) = vdev.vring_start_bh[v] + Bhs("vring_start_failed_bh", v)
                           + Busy(v) + Bhs("vring_mark_drained_bh", v)
      /\ Started(v) \in {0, 1} /\ Busy(v) \in {0, 1}
  BY AckSums
<1>2. /\ MsgAcks(v)' = vdev'.vring_start_bh[v] + vdev'.vring_sync_to_virtq_bh[v]
                         + Bhs("vring_start_failed_bh", v)'
                         + Bhs("vring_mark_msg_handled_bh", v)'
      /\ StopAcks(v)' = vdev'.vring_start_bh[v] + Bhs("vring_start_failed_bh", v)'
                          + Started(v)' + Bhs("vring_mark_stopped_bh", v)'
      /\ DrainAcks(v)' = vdev'.vring_start_bh[v] + Bhs("vring_start_failed_bh", v)'
                           + Busy(v)' + Bhs("vring_mark_drained_bh", v)'
  BY DEF MsgAcks, StopAcks, DrainAcks, Started, Busy
<1>3. /\ Bhs("vring_start_failed_bh", v) \in Nat
      /\ Bhs("vring_mark_msg_handled_bh", v) \in Nat
      /\ Bhs("vring_mark_stopped_bh", v) \in Nat
      /\ Bhs("vring_mark_drained_bh", v) \in Nat
      /\ vdev.vring_start_bh[v] \in Nat /\ vdev.vring_sync_to_virtq_bh[v] \in Nat
  BY AckTypes DEF CtlFn
<1> QED
  BY <1>1, <1>2, <1>3 DEF RqChange, CtlChange, RingChange, Owes

\* Nothing about v changes.
Untouched(v) ==
    /\ RqChange(v, 0, 0) /\ CtlChange(v, 0, 0, 0, 0) /\ RingChange(v, 0, 0)
    /\ vdev'.started_in_ctl[v] = vdev.started_in_ctl[v]

\* A set of vrings that gains or loses v.
LEMMA OneMore ==
  ASSUME VringCounts, NEW S \in SUBSET Vring, NEW T \in SUBSET Vring,
         NEW v \in Vring, NEW a \in -1 .. 1,
         \A w \in Vring \ {v} : w \in T <=> w \in S,
         a = 0 => (v \in T <=> v \in S),
         a = 1 => v \notin S /\ v \in T,
         a = -1 => v \in S /\ v \notin T
  PROVE  Cardinality(T) = Cardinality(S) + a
<1>1. CASE a = 0
  <2>1. T = S
    BY <1>1
  <2>2. Cardinality(S) \in Nat
    BY DEF VringCounts
  <2> QED
    BY <1>1, <2>1, <2>2
<1>2. CASE a = 1
  <2>1. v \notin S /\ T = S \cup {v}
    BY <1>2
  <2> QED
    BY <1>2, <2>1 DEF VringCounts
<1>3. CASE a = -1
  <2>1. v \in S /\ T = S \ {v} /\ Cardinality(S) \in Nat
    BY <1>3 DEF VringCounts
  <2>2. Cardinality(T) = Cardinality(S) - 1
    BY <2>1 DEF VringCounts
  <2> QED
    BY <1>3, <2>1, <2>2
<1> QED
  BY <1>1, <1>2, <1>3

\* A step that changes what one vring owes, and the counters with it.
LEMMA RingStep ==
  ASSUME CountInv, Alive, NEW v \in Vring,
         \A w \in Vring \ {v} : Untouched(w),
         NEW a \in -1 .. 1, NEW b \in -1 .. 1, NEW c \in -1 .. 1,
         Owes(v, a, b, c),
         MsgAcks(v) + a \in {0, 1}, StopAcks(v) + b \in {0, 1},
         DrainAcks(v) + c = IF vdev'.started_in_ctl[v] THEN 1 ELSE 0,
         Counts(vdev', vdev.num_vrings_handling_msg + a,
                vdev.num_vrings_started + b, vdev.num_vrings_in_flight + c)
  PROVE  Acks' /\ Totals'
<1>1. Acks /\ Totals /\ TypeInv
  BY DEF CountInv
<1>2. \A w \in Vring \ {v} : /\ MsgAcks(w)' = MsgAcks(w) /\ StopAcks(w)' = StopAcks(w)
                             /\ DrainAcks(w)' = DrainAcks(w)
                             /\ vdev'.started_in_ctl[w] = vdev.started_in_ctl[w]
  <2>1. TAKE w \in Vring \ {v}
  <2>2. Owes(w, 0, 0, 0)
    BY <1>1, AckChange DEF Untouched
  <2>3. MsgAcks(w) \in Nat /\ StopAcks(w) \in Nat /\ DrainAcks(w) \in Nat
    BY <1>1, AckSums
  <2> QED
    BY <2>2, <2>3 DEF Owes, Untouched
<1>3. /\ MsgAcks(v)' = MsgAcks(v) + a /\ StopAcks(v)' = StopAcks(v) + b
      /\ DrainAcks(v)' = DrainAcks(v) + c
  BY DEF Owes
<1>4. Acks'
  BY <1>1, <1>2, <1>3 DEF Acks
<1>5. /\ MsgAcks(v) \in Nat /\ StopAcks(v) \in Nat
      /\ MsgAcks(v) <= 1 /\ StopAcks(v) <= 1
      /\ DrainAcks(v) = IF vdev.started_in_ctl[v] THEN 1 ELSE 0
  BY <1>1, AckSums DEF Acks
<1>6. /\ MsgSet \in SUBSET Vring /\ StopSet \in SUBSET Vring /\ InSet \in SUBSET Vring
      /\ MsgSet' \in SUBSET Vring /\ StopSet' \in SUBSET Vring /\ InSet' \in SUBSET Vring
      /\ VringCounts
  BY <1>1 DEF MsgSet, StopSet, InSet, TypeInv
<1>7. Cardinality(MsgSet)' = Cardinality(MsgSet) + a
  <2>1. /\ \A w \in Vring \ {v} : w \in MsgSet' <=> w \in MsgSet
        /\ a = 0 => (v \in MsgSet' <=> v \in MsgSet)
        /\ a = 1 => v \notin MsgSet /\ v \in MsgSet'
        /\ a = -1 => v \in MsgSet /\ v \notin MsgSet'
    BY <1>2, <1>3, <1>5 DEF MsgSet
  <2> QED
    BY <1>6, <2>1, OneMore
<1>8. Cardinality(StopSet)' = Cardinality(StopSet) + b
  <2>1. /\ \A w \in Vring \ {v} : w \in StopSet' <=> w \in StopSet
        /\ b = 0 => (v \in StopSet' <=> v \in StopSet)
        /\ b = 1 => v \notin StopSet /\ v \in StopSet'
        /\ b = -1 => v \in StopSet /\ v \notin StopSet'
    BY <1>2, <1>3, <1>5 DEF StopSet
  <2> QED
    BY <1>6, <2>1, OneMore
<1>9. Cardinality(InSet)' = Cardinality(InSet) + c
  <2>1. /\ \A w \in Vring \ {v} : w \in InSet' <=> w \in InSet
        /\ c = 0 => (v \in InSet' <=> v \in InSet)
        /\ c = 1 => v \notin InSet /\ v \in InSet'
        /\ c = -1 => v \in InSet /\ v \notin InSet'
    BY <1>2, <1>3, <1>5 DEF InSet
  <2> QED
    BY <1>6, <2>1, OneMore
<1>10. Totals'
  BY <1>1, <1>7, <1>8, <1>9 DEF Totals, Counts
<1> QED
  BY <1>4, <1>10

\* A counter that is zero counts no vring.
LEMMA NoneCounted ==
  ASSUME CountInv, Alive, NEW v \in Vring
  PROVE  /\ vdev.num_vrings_handling_msg = 0 => MsgAcks(v) # 1
         /\ vdev.num_vrings_started = 0 => StopAcks(v) # 1
         /\ vdev.num_vrings_in_flight = 0 => ~vdev.started_in_ctl[v]
<1>1. MsgSet \in SUBSET Vring /\ StopSet \in SUBSET Vring /\ InSet \in SUBSET Vring
  BY DEF MsgSet, StopSet, InSet
<1>2. Totals /\ VringCounts
  BY DEF CountInv, TypeInv
<1>3. /\ vdev.num_vrings_handling_msg = 0 => MsgSet = {}
      /\ vdev.num_vrings_started = 0 => StopSet = {}
      /\ vdev.num_vrings_in_flight = 0 => InSet = {}
  BY <1>1, <1>2 DEF Totals, Counts, VringCounts
<1> QED
  BY <1>3 DEF MsgSet, StopSet, InSet

\* A step of the control event loop that keeps the counters, what they count
\* and the BHs.
LEMMA SameStep ==
  ASSUME CountInv, Alive, TypeInv', CtlInv(vdev)', Same(vdev, vdev'),
         UNCHANGED <<rqVars, ctl_bh, ctl_batch>>
  PROVE  CountInv'
<1>1. Acks /\ Totals /\ RingInv /\ Quiet
  BY DEF CountInv
<1>2. \A v \in Vring : /\ MsgAcks(v)' = MsgAcks(v) /\ StopAcks(v)' = StopAcks(v)
                       /\ DrainAcks(v)' = DrainAcks(v)
                       /\ vdev'.started_in_ctl[v] = vdev.started_in_ctl[v]
  BY DEF MsgAcks, StopAcks, DrainAcks, Bhs, Same, SameVrings, SameBhs, rqVars
<1>3. Acks'
  BY <1>1, <1>2 DEF Acks
<1>4. MsgSet' = MsgSet /\ StopSet' = StopSet /\ InSet' = InSet
  BY <1>2 DEF MsgSet, StopSet, InSet
<1>5. Totals'
  BY <1>1, <1>4 DEF Totals, Same, Counts
<1>6. RingInv' /\ Quiet'
  BY <1>1 DEF RingInv, Quiet, Same, SameVrings, rqVars
<1> QED
  BY <1>3, <1>5, <1>6 DEF CountInv

\* Disconnecting does not disturb what the counters rest on.
LEMMA CalmStep ==
  ASSUME CountInv, Alive, TypeInv', Calm(vdev, vdev'),
         UNCHANGED <<rqVars, ctl_bh, ctl_batch>>
  PROVE  CountInv'
<1>1. CtlInv(vdev)
  BY DEF CountInv
<1>2. CtlInv(vdev)'
  BY <1>1 DEF CtlInv, DevInv, Calm, Same, Counts, SameVrings, Life, Idle
<1> QED
  BY <1>2, SameStep DEF Calm

-----------------------------------------------------------------------------
(* The control event loop. *)

\* The external context.
LEMMA ExternalCount ==
  ASSUME CountInv, TypeInv', External
  PROVE  CountInv'
<1>1. vdev \in VdevType /\ Alive /\ UNCHANGED <<rqVars, ctl_bh, ctl_batch>>
  BY DEF CountInv, TypeInv, TypeOK, External, vhd_vdev_stop_server, vhd_vdev_release
<1>2. CASE vhd_vdev_stop_server
  <2>1. Calm(vdev, vdev')
    BY <1>1, <1>2 DEF vhd_vdev_stop_server, Calm, Same, Counts, SameVrings, SameBhs,
                      Life, VdevType
  <2> QED
    BY <1>1, <2>1, CalmStep
<1>3. CASE vhd_vdev_release
  <2>1. Calm(vdev, vdev')
    BY <1>1, <1>3 DEF vhd_vdev_release, Calm, Same, Counts, SameVrings, SameBhs,
                      Life, VdevType
  <2> QED
    BY <1>1, <2>1, CalmStep
<1> QED
  BY <1>2, <1>3 DEF External

\* vdev_start and vdev_stop.
LEMMA WorkCount ==
  ASSUME CountInv, TypeInv', vdev_work_fn
  PROVE  CountInv'
<1>. DEFINE d == [vdev EXCEPT !.work_bh = FALSE, !.work = TRUE]
            a == [d EXCEPT !.listen_handler = "attached"]
            n == [d EXCEPT !.listen_handler = "null"]
            m == vdev_maybe_vrings_stopped(n)
<1>1. vdev \in VdevType /\ Alive /\ UNCHANGED <<rqVars, ctl_bh, ctl_batch>>
  BY DEF CountInv, TypeInv, TypeOK, vdev_work_fn
<1>2. /\ d \in VdevType /\ a \in VdevType /\ n \in VdevType
  BY <1>1, FieldType, Zenon DEF HandlerState
<1>3. Calm(vdev, d) /\ Calm(vdev, n)
  BY <1>1, <1>2 DEF Calm, Same, Counts, SameVrings, SameBhs, Life, Idle, VdevType
<1>4. PICK io \in IoResult :
        \/ vdev.user = "start_called" /\ vdev' = vdev_complete_work(a, "running")
        \/ vdev.user = "start_called" /\ vdev' = vdev_complete_work(d, "start_failed")
        \/ vdev' = Run(vdev_stop(d, io))
  BY Zenon DEF vdev_work_fn, vdev_start
<1>5. CASE vdev.user = "start_called" /\ vdev' = vdev_complete_work(a, "running")
  <2>1. Idle(vdev)
    BY <1>1, <1>5 DEF CountInv, CtlInv, DevInv, Idle
  <2>2. a.work /\ Same(vdev, a) /\ a.conn_handler = vdev.conn_handler
    BY <1>1 DEF Same, Counts, SameVrings, SameBhs, VdevType
  <2>. HIDE DEF a
  <2>3. Calm(vdev, vdev')
    BY <1>1, <1>2, <1>5, <2>1, <2>2
       DEF vdev_complete_work, Calm, Same, Counts, SameVrings, SameBhs, Life, Idle,
           Alive, VdevType
  <2> QED
    BY <1>1, <2>3, CalmStep
<1>6. CASE vdev.user = "start_called" /\ vdev' = vdev_complete_work(d, "start_failed")
  <2>1. d.work
    BY <1>1 DEF VdevType
  <2>. HIDE DEF d
  <2>2. Calm(vdev, vdev')
    BY <1>1, <1>2, <1>3, <1>6, <2>1
       DEF vdev_complete_work, Calm, Same, Counts, SameVrings, SameBhs, Life, Idle,
           VdevType
  <2> QED
    BY <1>1, <2>2, CalmStep
<1>7. CASE vdev' = Run(vdev_stop(d, io))
  <2>1. vdev_stop(d, io) \in {vdev_disconnect(n, io), vdev_maybe_drained(m, io)}
    BY Zenon DEF vdev_stop
  <2>. HIDE DEF n
  <2>2. m \in VdevType /\ Calm(vdev, m)
    BY <1>1, <1>2, <1>3, MaybeStoppedType, MaybeCalm, CalmTransitive
  <2>. HIDE DEF m
  <2>3. /\ vdev_disconnect(n, io) \in VdevType /\ Calm(vdev, vdev_disconnect(n, io))
        /\ vdev_maybe_drained(m, io) \in VdevType /\ Calm(vdev, vdev_maybe_drained(m, io))
    BY <1>1, <1>2, <1>3, <2>2, MaybeDrainedType, MaybeCalm, DisconnectType,
       DisconnectCalm, CalmTransitive
  <2>. DEFINE s == vdev_stop(d, io)
  <2>4. s \in VdevType /\ Calm(vdev, s)
    BY <2>1, <2>3, Zenon
  <2>. HIDE DEF s
  <2>5. Calm(s, Run(s)) /\ Run(s) \in VdevType
    BY <2>4, FaultCalm, RunType DEF Places
  <2>6. Calm(vdev, vdev')
    BY <1>1, <1>7, <2>4, <2>5, CalmTransitive DEF s
  <2> QED
    BY <1>1, <2>6, CalmStep
<1> QED
  BY <1>4, <1>5, <1>6, <1>7

\* A client connects.
LEMMA AcceptCount ==
  ASSUME CountInv, TypeInv', server_read
  PROVE  CountInv'
<1>1. vdev \in VdevType /\ Alive /\ UNCHANGED <<rqVars, ctl_bh, ctl_batch>>
      /\ vdev.listen_handler = "attached"
  BY DEF CountInv, TypeInv, TypeOK, server_read, HandlingEvents
<1>2. CASE vdev.connfd
  <2>1. vdev' = Fault(vdev, "server_read")
    BY <1>2 DEF server_read
  <2>2. Calm(vdev, vdev')
    BY <1>1, <2>1, FaultCalm DEF Places
  <2> QED
    BY <1>1, <2>2, CalmStep
<1>3. CASE ~vdev.connfd
  <2>1. /\ vdev' = [vdev EXCEPT !.listen_handler = "detached", !.connfd = TRUE,
                                !.conn_handler = "attached"]
    BY <1>3 DEF server_read
  <2>2. /\ Same(vdev, vdev')
        /\ vdev'.listen_handler = "detached" /\ vdev'.user = vdev.user
    BY <1>1, <2>1 DEF Same, Counts, SameVrings, SameBhs, VdevType
  <2>3. CtlInv(vdev) /\ RingInv
    BY <1>1 DEF CountInv
  <2>4. \A v \in Vring : ~vdev.on_drain_cb[v]
    BY <1>1, <2>3, NoneCounted DEF CtlInv, DevInv, RingInv
  <2>5. CtlInv(vdev)'
    BY <1>1, <2>2, <2>3, <2>4 DEF CtlInv, DevInv, Same, Counts, SameVrings
  <2> QED
    BY <1>1, <2>2, <2>5, SameStep
<1> QED
  BY <1>2, <1>3

\* The control event loop takes the BHs scheduled so far.
LEMMA PollCount ==
  ASSUME CountInv, TypeInv', CtlPoll
  PROVE  CountInv'
<1>1. /\ Alive /\ UNCHANGED <<rqVars, vdev>>
      /\ ctl_batch = NoBhs /\ ctl_batch' = ctl_bh /\ ctl_bh' = NoBhs
  BY DEF CtlPoll
<1>2. Acks /\ Totals /\ CtlInv(vdev) /\ RingInv /\ Quiet
  BY <1>1 DEF CountInv
<1>3. \A fn \in CtlFn, v \in Vring : Bhs(fn, v)' = Bhs(fn, v)
  BY <1>1, AckTypes DEF CountInv, Bhs, NoBhs, Zero
<1>4. {"vring_mark_msg_handled_bh", "vring_start_failed_bh",
       "vring_mark_stopped_bh", "vring_mark_drained_bh"} \subseteq CtlFn
  BY DEF CtlFn
<1>5. \A v \in Vring : /\ MsgAcks(v)' = MsgAcks(v) /\ StopAcks(v)' = StopAcks(v)
                       /\ DrainAcks(v)' = DrainAcks(v)
  BY <1>1, <1>3, <1>4 DEF MsgAcks, StopAcks, DrainAcks, rqVars
<1>6. Acks'
  BY <1>1, <1>2, <1>5 DEF Acks
<1>7. MsgSet' = MsgSet /\ StopSet' = StopSet /\ InSet' = InSet
  BY <1>1, <1>5 DEF MsgSet, StopSet, InSet
<1>8. Totals'
  BY <1>1, <1>2, <1>7 DEF Totals, Counts
<1>9. RingInv' /\ Quiet'
  BY <1>1, <1>2, <1>4 DEF RingInv, Quiet, rqVars, NoBhs, Zero
<1> QED
  BY <1>1, <1>2, <1>6, <1>8, <1>9 DEF CountInv

\* The message the device reads: none is being handled, and no vring is being
\* drained for GET_VRING_BASE.
Reading(d) ==
    /\ d \in VdevType /\ d.conn_handler = "detached" /\ d.fault = None
    /\ Same(vdev, d) /\ Life(vdev, d)
    /\ d.num_vrings_handling_msg = 0
    /\ \A v \in Vring : ~d.on_drain_cb[v]
    /\ d.listen_handler # "attached" /\ d.user # "start_called"

LEMMA StartReading ==
  ASSUME CountInv, HandlingEvents, vdev.conn_handler = "attached",
         NEW m \in AllMsgs, NEW ack \in BOOLEAN
  PROVE  Reading(vdev_handle_start(vdev, m, ack))
<1>. DEFINE d == vdev_handle_start(vdev, m, ack)
<1>1. vdev \in VdevType /\ Alive /\ CtlInv(vdev)
  BY DEF CountInv, TypeInv, TypeOK, HandlingEvents
<1>2. d \in VdevType
  BY <1>1, HandleStartType
<1>3. /\ d.conn_handler = "detached"
      /\ Same(vdev, d) /\ Life(vdev, d) /\ d.fault = None
      /\ d.listen_handler = vdev.listen_handler /\ d.user = vdev.user
  BY <1>1 DEF vdev_handle_start, Same, Counts, SameVrings, SameBhs, Life, Alive,
              VdevType
<1>. HIDE DEF d
<1>4. /\ d.num_vrings_handling_msg = 0
      /\ \A v \in Vring : ~d.on_drain_cb[v]
      /\ d.listen_handler # "attached" /\ d.user # "start_called"
  BY <1>1, <1>3 DEF CtlInv, DevInv, Same, Counts, SameVrings
<1>5. Reading(d)
  BY <1>2, <1>3, <1>4 DEF Reading
<1> QED
  BY <1>5 DEF d

\* A message that is refused, and a client that is gone.
LEMMA RejectCount ==
  ASSUME CountInv, TypeInv', NEW io \in IoResult,
         ConnHangup(io) \/ \E m \in Msgs, ack \in BOOLEAN : ConnReject(m, ack, io)
  PROVE  CountInv'
<1>1. vdev \in VdevType /\ Alive /\ UNCHANGED <<rqVars, ctl_bh, ctl_batch>>
      /\ HandlingEvents /\ vdev.conn_handler = "attached"
  BY DEF CountInv, TypeInv, TypeOK, ConnHangup, ConnReject, HandlingEvents
<1>2. CASE ConnHangup(io)
  BY <1>1, <1>2, DisconnectCalm, CalmStep DEF ConnHangup
<1>3. ASSUME NEW m \in Msgs, NEW ack \in BOOLEAN, ConnReject(m, ack, io)
      PROVE  CountInv'
  <2>. DEFINE d == vdev_handle_start(vdev, m, ack)
              f == vdev_handle_finish(d, io)
  <2>1. m \in AllMsgs
    BY MsgsAssumption
  <2>2. d \in VdevType /\ Same(vdev, d) /\ Life(vdev, d)
    BY <1>1, <2>1, StartReading DEF Reading
  <2>3. vdev' = vdev_disconnect(f, io)
    BY <1>3 DEF ConnReject
  <2>. HIDE DEF d
  <2>4. f \in VdevType /\ Replied(d, f)
    BY <2>1, <2>2, HandleFinishType, ReplyKeeps
  <2>. HIDE DEF f
  <2>5. Calm(f, vdev') /\ vdev'.conn_handler = "null"
    BY <2>3, <2>4, DisconnectCalm
  <2>6. Calm(vdev, vdev')
    BY <2>2, <2>4, <2>5 DEF Calm, Replied, Same, Counts, SameVrings, SameBhs, Life, Idle
  <2> QED
    BY <1>1, <2>6, CalmStep
<1> QED
  BY <1>2, <1>3

\* A message is answered or refused.
LEMMA AnswerCount ==
  ASSUME CountInv, TypeInv', Alive, vdev.conn_handler = "attached",
         UNCHANGED <<rqVars, ctl_bh, ctl_batch>>,
         Same(vdev, vdev'), Life(vdev, vdev')
  PROVE  CountInv'
<1>1. CtlInv(vdev)
  BY DEF CountInv
<1>2. /\ vdev.num_vrings_handling_msg = 0
      /\ \A v \in Vring : ~vdev.on_drain_cb[v]
      /\ vdev.listen_handler # "attached" /\ vdev.user # "start_called"
  BY <1>1 DEF CtlInv, DevInv
<1>3. CtlInv(vdev)'
  BY <1>2 DEF CtlInv, DevInv, Same, Counts, SameVrings, Life, Idle
<1> QED
  BY <1>3, SameStep

\* A message is handed to the vrings in T.
LEMMA HandCount ==
  ASSUME CountInv, TypeInv', Alive, NEW T \in SUBSET Vring, NEW d, Reading(d),
         UNCHANGED <<rqVars, ctl_bh, ctl_batch>>, HandedTo(d, vdev', T)
  PROVE  CountInv'
<1>1. Acks /\ Totals /\ RingInv /\ Quiet /\ TypeInv
  BY DEF CountInv
<1>2. /\ Same(vdev, d) /\ d.num_vrings_handling_msg = 0
      /\ vdev.num_vrings_handling_msg = 0
  BY DEF Reading, Same, Counts
<1>3. ASSUME NEW v \in Vring
      PROVE  /\ MsgAcks(v)' = IF v \in T THEN 1 ELSE 0
             /\ StopAcks(v)' = StopAcks(v) /\ DrainAcks(v)' = DrainAcks(v)
             /\ vdev'.started_in_ctl[v] = vdev.started_in_ctl[v]
  <2>1. MsgAcks(v) = 0 /\ StopAcks(v) \in Nat /\ DrainAcks(v) \in Nat
    <3>1. MsgAcks(v) \in Nat /\ StopAcks(v) \in Nat /\ DrainAcks(v) \in Nat
      BY <1>1, AckSums
    <3>2. MsgAcks(v) <= 1 /\ MsgAcks(v) # 1
      BY <1>1, <1>2, NoneCounted DEF Acks
    <3> QED
      BY <3>1, <3>2
  <2>. DEFINE j == IF v \in T THEN 1 ELSE 0
  <2>2. RqChange(v, 0, j) /\ CtlChange(v, 0, 0, 0, 0) /\ RingChange(v, 0, 0)
    <3>1. RqChange(v, 0, j)
      <4>1. /\ vdev.vring_start_bh[v] \in Nat /\ vdev.vring_sync_to_virtq_bh[v] \in Nat
            /\ SameBhs(vdev, d)
        BY <1>1, <1>2, AckTypes DEF Same, SameVrings
      <4>2. /\ vdev'.vring_start_bh = d.vring_start_bh
            /\ vdev'.vring_sync_to_virtq_bh[v] =
                 IF v \in T THEN d.vring_sync_to_virtq_bh[v] + 1
                            ELSE d.vring_sync_to_virtq_bh[v]
        BY DEF HandedTo
      <4> QED
        BY <4>1, <4>2 DEF SameBhs, RqChange
    <3>2. UNCHANGED <<vring, stopping, ctl_bh, ctl_batch>>
      BY DEF rqVars
    <3> QED
      BY <1>1, <3>1, <3>2, NoChange
  <2>3. Owes(v, j, 0, 0)
    BY <1>1, <2>2, AckChange
  <2>4. vdev'.started_in_ctl[v] = vdev.started_in_ctl[v]
    BY <1>2 DEF HandedTo, Same, SameVrings
  <2> QED
    BY <2>1, <2>3, <2>4 DEF Owes
<1>4. Acks'
  BY <1>1, <1>3 DEF Acks
<1>5. MsgSet' = T /\ StopSet' = StopSet /\ InSet' = InSet
  BY <1>3 DEF MsgSet, StopSet, InSet
<1>6. Totals'
  <2>1. Cardinality(T) \in Nat
    BY <1>1 DEF TypeInv, VringCounts
  <2> QED
    BY <1>1, <1>2, <1>5, <2>1 DEF Totals, Same, HandedTo, Counts
<1>7. CtlInv(vdev)'
  BY DEF CtlInv, DevInv, HandedTo, Still, Reading
<1>8. RingInv' /\ Quiet'
  BY <1>1, <1>2 DEF RingInv, Quiet, HandedTo, Same, SameVrings, rqVars
<1> QED
  BY <1>4, <1>6, <1>7, <1>8 DEF CountInv

\* SET_VRING_KICK starts v: it owes nothing from when it was started before.
LEMMA KickCount ==
  ASSUME CountInv, TypeInv', HandlingEvents, NEW v \in Vring, NEW d, Reading(d),
         UNCHANGED <<rqVars, ctl_bh, ctl_batch>>, Kicked(d, vdev', v)
  PROVE  CountInv'
<1>1. Acks /\ RingInv /\ Quiet /\ TypeInv /\ Alive
  BY DEF CountInv, HandlingEvents
<1>2. Same(vdev, d) /\ d \in VdevType /\ vdev.num_vrings_handling_msg = 0
  BY DEF Reading, Same, Counts
<1>3. ~vdev.started_in_ctl[v]
  BY <1>2 DEF Kicked, Same, SameVrings
<1>4. /\ \A w \in Vring : vdev'.vring_start_bh[w] =
               IF w = v THEN vdev.vring_start_bh[w] + 1 ELSE vdev.vring_start_bh[w]
      /\ \A w \in Vring : vdev'.started_in_ctl[w] =
               IF w = v THEN TRUE ELSE vdev.started_in_ctl[w]
      /\ vdev'.vring_sync_to_virtq_bh = vdev.vring_sync_to_virtq_bh
      /\ vdev'.on_drain_cb = vdev.on_drain_cb
  <2>1. d.started_in_ctl \in [Vring -> BOOLEAN] /\ d.vring_start_bh \in [Vring -> Nat]
    BY <1>2 DEF VdevType
  <2>2. /\ vdev'.vring_start_bh = [d.vring_start_bh EXCEPT ![v] = @ + 1]
        /\ vdev'.started_in_ctl = [d.started_in_ctl EXCEPT ![v] = TRUE]
        /\ d.vring_start_bh = vdev.vring_start_bh
        /\ d.started_in_ctl = vdev.started_in_ctl
    BY <1>2 DEF Kicked, Same, SameVrings, SameBhs
  <2>3. /\ vdev'.vring_sync_to_virtq_bh = vdev.vring_sync_to_virtq_bh
        /\ vdev'.on_drain_cb = vdev.on_drain_cb
    BY <1>2 DEF Kicked, Same, SameVrings, SameBhs
  <2>4. \A w \in Vring : vdev'.vring_start_bh[w] =
            IF w = v THEN vdev.vring_start_bh[w] + 1 ELSE vdev.vring_start_bh[w]
    BY <2>1, <2>2
  <2>5. \A w \in Vring : vdev'.started_in_ctl[w] =
            IF w = v THEN TRUE ELSE vdev.started_in_ctl[w]
    BY <2>1, <2>2
  <2> QED
    BY <2>3, <2>4, <2>5
<1>5. UNCHANGED <<vring, stopping, queued, canceled, ctl_bh, ctl_batch>>
  BY DEF rqVars
<1>6. \A w \in Vring : CtlChange(w, 0, 0, 0, 0) /\ RingChange(w, 0, 0)
  BY <1>1, <1>5, NoChange
<1>7. RqChange(v, 1, 0) /\ \A w \in Vring \ {v} : RqChange(w, 0, 0)
  BY <1>1, <1>4, AckTypes DEF RqChange
<1>8. \A w \in Vring \ {v} : Untouched(w)
  BY <1>4, <1>6, <1>7 DEF Untouched
<1>9. Owes(v, 1, 1, 1)
  BY <1>1, <1>6, <1>7, AckChange
<1>10. MsgAcks(v) = 0 /\ DrainAcks(v) = 0
  <2>1. MsgAcks(v) \in Nat /\ DrainAcks(v) \in Nat
    BY <1>1, AckSums
  <2>2. MsgAcks(v) <= 1 /\ MsgAcks(v) # 1 /\ DrainAcks(v) = 0
    BY <1>1, <1>2, <1>3, NoneCounted DEF Acks
  <2> QED
    BY <2>1, <2>2
<1>11. StopAcks(v) = 0
  <2>3. /\ vdev.vring_start_bh[v] = 0 /\ Bhs("vring_start_failed_bh", v) = 0
        /\ Busy(v) = 0
    BY <1>1, <1>10, Settled
  <2>4. Started(v) = 0
    BY <2>3 DEF Started, Busy
  <2>5. Bhs("vring_mark_stopped_bh", v) = 0
    BY <1>1, <1>3, AckTypes DEF RingInv, Bhs, HandlingEvents, NoBhs, Zero, CtlFn
  <2>6. StopAcks(v) = vdev.vring_start_bh[v] + Bhs("vring_start_failed_bh", v)
                      + Started(v) + Bhs("vring_mark_stopped_bh", v)
    BY <1>1, AckSums
  <2> QED
    BY <2>3, <2>4, <2>5, <2>6
<1>12. vdev'.started_in_ctl[v]
  BY <1>4
<1>13. Counts(vdev', vdev.num_vrings_handling_msg + 1, vdev.num_vrings_started + 1,
              vdev.num_vrings_in_flight + 1)
  BY <1>2 DEF Kicked, Same, Counts
<1>14. Acks' /\ Totals'
  BY <1>1, <1>8, <1>9, <1>10, <1>11, <1>12, <1>13, RingStep
<1>15. CtlInv(vdev)'
  BY <1>2, <1>4 DEF CtlInv, DevInv, Kicked, Still, Reading, Same, SameVrings
<1>16. RingInv' /\ Quiet'
  BY <1>1, <1>4, <1>5 DEF RingInv, Quiet
<1> QED
  BY <1>14, <1>15, <1>16 DEF CountInv

\* GET_VRING_BASE waits for v to drain.
LEMMA DrainingCount ==
  ASSUME CountInv, TypeInv', Alive, NEW v \in Vring, NEW d, Reading(d),
         UNCHANGED <<rqVars, ctl_bh, ctl_batch>>, Draining(d, vdev', v)
  PROVE  CountInv'
<1>1. Acks /\ Totals /\ RingInv /\ Quiet /\ TypeInv
  BY DEF CountInv
<1>2. Same(vdev, d) /\ d \in VdevType
  BY DEF Reading
<1>3. /\ vdev.started_in_ctl[v]
      /\ \A w \in Vring : vdev'.on_drain_cb[w] =
               IF w = v THEN TRUE ELSE vdev.on_drain_cb[w]
      /\ vdev'.started_in_ctl = vdev.started_in_ctl
      /\ SameBhs(vdev, vdev')
      /\ Counts(vdev', vdev.num_vrings_handling_msg, vdev.num_vrings_started,
                vdev.num_vrings_in_flight)
  <2>1. d.on_drain_cb \in [Vring -> BOOLEAN]
    BY <1>2 DEF VdevType
  <2>2. /\ vdev'.on_drain_cb = [d.on_drain_cb EXCEPT ![v] = TRUE]
        /\ d.on_drain_cb = vdev.on_drain_cb
    BY <1>2 DEF Draining, Same, SameVrings
  <2>3. /\ vdev.started_in_ctl[v]
        /\ vdev'.started_in_ctl = vdev.started_in_ctl
        /\ SameBhs(vdev, vdev')
        /\ Counts(vdev', vdev.num_vrings_handling_msg, vdev.num_vrings_started,
                  vdev.num_vrings_in_flight)
    BY <1>2 DEF Draining, Same, SameVrings, SameBhs, Counts
  <2> QED
    BY <2>1, <2>2, <2>3
<1>4. \A w \in Vring : /\ MsgAcks(w)' = MsgAcks(w) /\ StopAcks(w)' = StopAcks(w)
                       /\ DrainAcks(w)' = DrainAcks(w)
  BY <1>3 DEF MsgAcks, StopAcks, DrainAcks, Bhs, SameBhs, rqVars
<1>5. Acks'
  BY <1>1, <1>3, <1>4 DEF Acks
<1>6. MsgSet' = MsgSet /\ StopSet' = StopSet /\ InSet' = InSet
  BY <1>3, <1>4 DEF MsgSet, StopSet, InSet
<1>7. Totals'
  BY <1>1, <1>3, <1>6 DEF Totals, Counts
<1>8. CtlInv(vdev)'
  <2>1. /\ vdev'.conn_handler = "detached" /\ vdev'.listen_handler # "attached"
        /\ vdev'.user # "start_called"
    BY DEF Draining, Still, Reading
  <2>2. vdev'.num_vrings_handling_msg = 0
    BY DEF Draining, Counts, Reading
  <2>3. \A w \in Vring : vdev'.on_drain_cb[w] => w = v
    BY <1>2, <1>3 DEF Reading, Same, SameVrings
  <2> QED
    BY <2>1, <2>2, <2>3 DEF CtlInv, DevInv
<1>9. RingInv' /\ Quiet'
  BY <1>1, <1>3 DEF RingInv, Quiet, rqVars
<1> QED
  BY <1>5, <1>7, <1>8, <1>9 DEF CountInv

\* A message is read.
LEMMA ReadCount ==
  ASSUME CountInv, TypeInv', NEW m \in Msgs, NEW v \in Vring, NEW ack \in BOOLEAN,
         NEW io \in IoResult, conn_read(m, v, ack, io)
  PROVE  CountInv'
<1>. DEFINE d == vdev_handle_start(vdev, m, ack)
            r == vhost_handle_msg(d, m, v, io)
            f == vdev_handle_finish(r.dev, io)
<1>1. /\ HandlingEvents /\ Alive /\ vdev.conn_handler = "attached"
      /\ UNCHANGED <<rqVars, ctl_bh, ctl_batch>>
  BY DEF conn_read, HandlingEvents
<1>2. m \in AllMsgs /\ VringCounts
  BY MsgsAssumption DEF CountInv, TypeInv
<1>3. Reading(d)
  BY <1>1, <1>2, StartReading
<1>4. vdev' = IF r.ok THEN r.dev ELSE vdev_disconnect(f, io)
  BY Zenon DEF conn_read
<1>. HIDE DEF d
<1>5. d \in VdevType
  BY <1>3 DEF Reading
<1>6. r \in Result
  BY <1>2, <1>5, HandlersType
<1>7. \/ Replied(d, r.dev)
      \/ r.ok /\ \E T \in SUBSET Vring : HandedTo(d, r.dev, T)
      \/ r.ok /\ Kicked(d, r.dev, v)
      \/ r.ok /\ Draining(d, r.dev, v)
      \/ r.ok /\ r.dev.fault # None
  BY <1>2, <1>5, HandlerEffect
<1>. HIDE DEF r
<1>8. r.dev \in VdevType
  BY <1>6 DEF Result
<1>9. CASE Replied(d, r.dev)
  <2>1. Same(vdev, r.dev) /\ Life(vdev, r.dev)
    BY <1>3, <1>9 DEF Reading, Replied, Same, Counts, SameVrings, SameBhs, Life, Idle
  <2>2. CASE r.ok
    <3>1. vdev' = r.dev
      BY <1>4, <2>2
    <3> QED
      BY <1>1, <2>1, <3>1, AnswerCount
  <2>3. CASE ~r.ok
    <3>1. f \in VdevType /\ Replied(r.dev, f)
      BY <1>2, <1>8, HandleFinishType, ReplyKeeps
    <3>. HIDE DEF f
    <3>2. vdev' = vdev_disconnect(f, io) /\ f \in VdevType
      BY <1>4, <2>3, <3>1
    <3>3. Calm(f, vdev')
      BY <3>2, DisconnectCalm
    <3>4. Same(vdev, vdev')
      BY <2>1, <3>1, <3>3 DEF Calm, Replied, Same, Counts, SameVrings, SameBhs
    <3>5. Life(vdev, vdev')
      BY <2>1, <3>1, <3>3 DEF Calm, Replied, Same, Counts, Life, Idle
    <3> QED
      BY <1>1, <3>4, <3>5, AnswerCount
  <2> QED
    BY <2>2, <2>3
<1>10. CASE r.ok /\ \E T \in SUBSET Vring : HandedTo(d, r.dev, T)
  BY <1>1, <1>3, <1>4, <1>10, HandCount
<1>11. CASE r.ok /\ Kicked(d, r.dev, v)
  BY <1>1, <1>3, <1>4, <1>11, KickCount
<1>12. CASE r.ok /\ Draining(d, r.dev, v)
  BY <1>1, <1>3, <1>4, <1>12, DrainingCount
<1>13. CASE r.ok /\ r.dev.fault # None
  <2>1. ~Alive'
    BY <1>4, <1>13 DEF Alive
  <2> QED
    BY <2>1 DEF CountInv
<1> QED
  BY <1>7, <1>9, <1>10, <1>11, <1>12, <1>13
=============================================================================
