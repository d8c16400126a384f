--------------------------- MODULE VirtqInflight ---------------------------
(***************************************************************************)
(* Inflight tracking of a split virtqueue (virt_queue.c).  The device      *)
(* fetches requests from the avail ring and completes them, in any order,  *)
(* to the used ring; a region shared with the client records which are in  *)
(* flight.  The process that serves the device may die between any two     *)
(* stores.  The rings and the region survive; the next incarnation starts  *)
(* at the index of the used ring and resubmits what was in flight.         *)
(*                                                                         *)
(* Only the thread of the request queue writes the used ring and the       *)
(* region, in program order (barrier(), smp_wmb()).  So a step is one      *)
(* store, with the changes to private memory next to it.                   *)
(*                                                                         *)
(* Chains are well formed, VIRTIO_F_EVENT_IDX is not negotiated and the    *)
(* driver does not suppress interrupts.                                    *)
(***************************************************************************)
EXTENDS Integers, FiniteSets, SequencesExt

CONSTANTS
    QSize,          \* vq->qsz
    Wrap,           \* ring indices count modulo this (2^16 in the code)
    MaxRequests,    \* bound on the requests the driver makes
    MaxRestarts     \* bound on how often the vring is started again

ASSUME SizeAssumption ==
    /\ QSize \in Nat \ {0}
    /\ Wrap \in Nat /\ Wrap > QSize /\ Wrap % QSize = 0
    /\ MaxRequests \in Nat /\ MaxRestarts \in Nat

VARIABLES
    driver,     \* the guest: its free heads, the used entry it reads next, and
                \* the eventfds kick (signalled to the device) and call
    avail,      \* the avail ring: idx, and the heads in its slots
    used,       \* the used ring
    region,     \* struct inflight_split_region
    vq,         \* struct virtio_virtq
    iovs,       \* heads given to handle_buffers_cb and not completed, in order
    op,         \* where the thread is, except in virtq_push
    push,       \* where it is in virtq_push
    requests, restarts,     \* how many there were
    made        \* history: the number of the request last made with a head

vars == <<driver, avail, used, region, vq, iovs, op, push,
          requests, restarts, made>>
guest == <<driver, avail, requests, made>>

Heads == 0 .. QSize - 1
Index == 0 .. Wrap - 1

\* uint16_t arithmetic, and the slot of an entry.
Add(i, n) == (i + n) % Wrap
Diff(i, j) == (i - j) % Wrap
Slot(i) == i % QSize

\* down      there is no process, or the vring was not started
\* stopped   GET_VRING_BASE was answered; the client keeps vq.last_avail
\* init      in virtq_inflight_reconnect_update, before its last store
\* idle      in the event loop
\* avail     in virtq_dequeue_many, before avail->idx is read
\* fetch     in its loop, with op.left entries to fetch
\* counted   in virtq_inflight_avail_update, at the barrier
\* failed    an assertion failed, or virtq_dequeue_many returned an error
\* op.given are the requests handle_buffers_cb may complete at once.
OpPlaces == {"down", "stopped", "init", "idle", "avail", "fetch", "counted",
             "failed"}

\* The next store of virtq_push.
PushPlaces == {"none", "next", "last_batch_head", "idx", "inflight", "used_idx"}

At(p) == op.at = p /\ push.at = "none"
Goto(p) == op' = [op EXCEPT !.at = p]
Started == op.at \notin {"down", "stopped", "init", "failed"}

NoOp == [at |-> "down", left |-> 0, head |-> 0, given |-> {}]
NoPush == [at |-> "none", head |-> 0]
NoVq == [last_avail |-> 0, req_cnt |-> 0, inflight_check |-> FALSE,
         notify_fd |-> FALSE]

\* The region is fresh and the vring not started yet.
Init ==
    /\ driver = [free |-> Heads, used |-> 0, kick |-> FALSE, call |-> FALSE]
    /\ avail = [idx |-> 0, ring |-> [s \in Heads |-> 0]]
    /\ used = [idx |-> 0, ring |-> [s \in Heads |-> 0]]
    /\ region = [inflight |-> [h \in Heads |-> FALSE],
                 counter |-> [h \in Heads |-> 0],
                 next |-> [h \in Heads |-> 0],
                 last_batch_head |-> 0, used_idx |-> 0]
    /\ vq = NoVq /\ iovs = <<>> /\ op = NoOp /\ push = NoPush
    /\ requests = 0 /\ restarts = 0 /\ made = [h \in Heads |-> 0]

-----------------------------------------------------------------------------
(* The guest driver. *)

Submit(h) ==
    /\ requests < MaxRequests /\ h \in driver.free
    /\ avail' = [idx |-> Add(avail.idx, 1),
                 ring |-> [avail.ring EXCEPT ![Slot(avail.idx)] = h]]
    /\ driver' = [driver EXCEPT !.free = @ \ {h}, !.kick = TRUE]
    /\ requests' = requests + 1
    /\ made' = [made EXCEPT ![h] = requests']
    /\ UNCHANGED <<used, region, vq, iovs, op, push, restarts>>

\* The interrupt handler reads the used ring up to its index.
UsedEntries(i, j) == {used.ring[Slot(i + k)] : k \in 0 .. Diff(j, i) - 1}

Interrupt ==
    /\ driver.call
    /\ driver' = [driver EXCEPT
                     !.free = @ \cup UsedEntries(driver.used, used.idx),
                     !.used = used.idx, !.call = FALSE]
    /\ UNCHANGED <<avail, used, region, vq, iovs, op, push, requests, restarts,
                   made>>

-----------------------------------------------------------------------------
(* Fetching requests. *)

InflightHeads == {h \in Heads : region.inflight[h]}

\* (mutant) resubmit_array is not sorted.
ResubmitUnsorted == SetToSortSeq(InflightHeads, LAMBDA a, b : a < b)

\* resubmit_array of virtq_inflight_resubmit.
ResubmitArray ==
    SetToSortSeq(InflightHeads,
                 LAMBDA a, b : region.counter[a] < region.counter[b])

\* vring_kick, and virtq_dequeue_many up to its read of avail->idx.  Resubmitting
\* stores nothing; virtq_dequeue_one counts each request in last_avail.
Kick ==
    /\ At("idle") /\ driver.kick
    /\ driver' = [driver EXCEPT !.kick = FALSE]
    /\ LET again == IF vq.inflight_check THEN ResubmitArray ELSE <<>>
       IN  /\ iovs' = iovs \o again
           /\ vq' = [vq EXCEPT !.inflight_check = FALSE,
                               !.last_avail = Add(@, Len(again))]
           /\ op' = [op EXCEPT !.at = "avail", !.given = ToSet(again)]
    /\ UNCHANGED <<avail, used, region, push, requests, restarts, made>>

ReadAvailIdx ==
    /\ At("avail")
    /\ LET num_avail == Diff(avail.idx, vq.last_avail)
       IN  op' = IF num_avail > QSize
                     THEN [NoOp EXCEPT !.at = "failed"]
                     ELSE [op EXCEPT !.at = "fetch", !.left = num_avail,
                                     !.given = {}]
    /\ UNCHANGED <<guest, used, region, vq, iovs, push, restarts>>

DequeueDone ==
    /\ At("fetch") /\ op.left = 0
    /\ op' = [NoOp EXCEPT !.at = "idle"]
    /\ UNCHANGED <<guest, used, region, vq, iovs, push, restarts>>

\* virtq_dequeue_one of the next entry, up to the barrier.
StoreCounter ==
    /\ At("fetch") /\ op.left > 0
    /\ LET head == avail.ring[Slot(vq.last_avail)]
       IN  /\ region' = [region EXCEPT !.counter[head] = vq.req_cnt]
           /\ op' = [op EXCEPT !.at = "counted", !.head = head, !.given = {}]
    /\ UNCHANGED <<guest, used, vq, iovs, push, restarts>>

\* (mutant) The request is given to the handler without being recorded.
StoreInflightLost ==
    /\ At("counted")
    /\ vq' = [vq EXCEPT !.req_cnt = @ + 1, !.last_avail = Add(@, 1)]
    /\ iovs' = Append(iovs, op.head)
    /\ op' = [op EXCEPT !.at = "fetch", !.left = @ - 1, !.given = {op.head}]
    /\ UNCHANGED <<guest, used, region, push, restarts>>

\* The rest of it, up to the handler.
StoreInflight ==
    /\ At("counted")
    /\ region' = [region EXCEPT !.inflight[op.head] = TRUE]
    /\ vq' = [vq EXCEPT !.req_cnt = @ + 1, !.last_avail = Add(@, 1)]
    /\ iovs' = Append(iovs, op.head)
    /\ op' = [op EXCEPT !.at = "fetch", !.left = @ - 1, !.given = {op.head}]
    /\ UNCHANGED <<guest, used, push, restarts>>

-----------------------------------------------------------------------------
(* virtq_push of the i-th request given out, by the handler itself or later *)
(* from the event loop.                                                     *)

\* virtq_notify, without suppression, with or without an eventfd.
virtq_do_notify(fd) == driver' = [driver EXCEPT !.call = @ \/ fd]

StoreUsedElem(i) ==
    /\ push.at = "none"
    /\ op.at = "idle" \/ (op.at \in {"avail", "fetch"} /\ iovs[i] \in op.given)
    /\ used' = [used EXCEPT !.ring[Slot(used.idx)] = iovs[i]]
    /\ push' = [at |-> "next", head |-> iovs[i]]
    /\ iovs' = RemoveAt(iovs, i)
    /\ UNCHANGED <<guest, region, vq, op, restarts>>

\* The two stores of virtq_inflight_used_update.
StoreNext ==
    /\ push.at = "next"
    /\ region' = [region EXCEPT !.next[push.head] = region.last_batch_head]
    /\ push' = [push EXCEPT !.at = "last_batch_head"]
    /\ UNCHANGED <<guest, used, vq, iovs, op, restarts>>

StoreLastBatchHead ==
    /\ push.at = "last_batch_head"
    /\ region' = [region EXCEPT !.last_batch_head = push.head]
    /\ push' = [push EXCEPT !.at = "idx"]
    /\ UNCHANGED <<guest, used, vq, iovs, op, restarts>>

StoreUsedIdx ==
    /\ push.at = "idx"
    /\ used' = [used EXCEPT !.idx = Add(@, 1)]
    /\ push' = [push EXCEPT !.at = "inflight"]
    /\ UNCHANGED <<guest, region, vq, iovs, op, restarts>>

\* The two stores of virtq_inflight_used_commit; virtq_notify after the second.
ClearInflight ==
    /\ push.at = "inflight"
    /\ region' = [region EXCEPT !.inflight[push.head] = FALSE]
    /\ push' = [push EXCEPT !.at = "used_idx"]
    /\ UNCHANGED <<guest, used, vq, iovs, op, restarts>>

CommitUsedIdx ==
    /\ push.at = "used_idx"
    /\ region' = [region EXCEPT !.used_idx = used.idx]
    /\ virtq_do_notify(vq.notify_fd)
    /\ push' = NoPush
    /\ UNCHANGED <<avail, used, vq, iovs, op, requests, restarts, made>>

-----------------------------------------------------------------------------
(* Stopping and starting. *)

\* The process dies.  A client that disconnects has the same effect, when the
\* thread is idle: requests that are canceled are not pushed (complete_io).
Die ==
    /\ op.at \notin {"down", "stopped", "failed"} /\ restarts < MaxRestarts
    /\ restarts' = restarts + 1
    /\ vq' = NoVq /\ iovs' = <<>> /\ op' = NoOp /\ push' = NoPush
    /\ UNCHANGED <<guest, used, region>>

\* GET_VRING_BASE: once the requests given out are completed, last_avail is
\* answered and the virtqueue released.
vhost_get_vring_base ==
    /\ At("idle") /\ iovs = <<>> /\ restarts < MaxRestarts
    /\ restarts' = restarts + 1
    /\ vq' = [NoVq EXCEPT !.last_avail = vq.last_avail]
    /\ Goto("stopped")
    /\ UNCHANGED <<guest, used, region, iovs, push>>

\* SET_VRING_BASE: the client repeats the answer, or, when it has none, takes
\* the index of the used ring.
VringBase == IF op.at = "stopped" THEN vq.last_avail ELSE used.idx

\* (mutant) The last request used stays in flight.
ReconnectKeepsBatch ==
    /\ op.at \in {"down", "stopped"}
    /\ LET req_cnt == Max({region.counter[h] : h \in Heads})
       IN  vq' = [NoVq EXCEPT !.last_avail = VringBase, !.req_cnt = req_cnt + 1,
                              !.inflight_check = TRUE]
    /\ Goto("init")
    /\ UNCHANGED <<guest, used, region, iovs, push, restarts>>

\* SET_INFLIGHT_FD, SET_VRING_BASE, and SET_VRING_KICK up to the last store of
\* virtq_inflight_reconnect_update.
virtq_inflight_reconnect_update ==
    /\ op.at \in {"down", "stopped"}
    /\ LET req_cnt == Max({region.counter[h] : h \in Heads})
           batch_size == IF req_cnt = 0 THEN 0
                         ELSE Diff(used.idx, region.used_idx)
       IN  /\ vq' = [NoVq EXCEPT !.last_avail = VringBase,
                                 !.req_cnt = req_cnt + 1,
                                 !.inflight_check = TRUE]
           /\ region' = IF batch_size = 0 THEN region
                        ELSE [region EXCEPT
                                 !.inflight[region.last_batch_head] = FALSE]
           /\ Goto(IF batch_size > 1 THEN "failed" ELSE "init")
    /\ UNCHANGED <<guest, used, iovs, push, restarts>>

\* The last store, then vring_start_bh.  The client has set callfd, or not yet.
vring_start_bh ==
    /\ op.at = "init"
    /\ region' = [region EXCEPT !.used_idx = used.idx]
    /\ \E fd \in BOOLEAN :
           /\ vq' = [vq EXCEPT !.notify_fd = fd]
           /\ virtq_do_notify(fd)
    /\ Goto("idle")
    /\ UNCHANGED <<avail, used, iovs, push, requests, restarts, made>>

\* (mutant) A new callfd is not signalled.
SetNotifyFdSilent ==
    /\ At("idle") /\ ~vq.notify_fd
    /\ vq' = [vq EXCEPT !.notify_fd = TRUE]
    /\ UNCHANGED <<guest, used, region, iovs, op, push, restarts>>

\* SET_VRING_CALL of a started vring.
virtq_set_notify_fd ==
    /\ At("idle") /\ ~vq.notify_fd
    /\ vq' = [vq EXCEPT !.notify_fd = TRUE]
    /\ virtq_do_notify(TRUE)
    /\ UNCHANGED <<avail, used, region, iovs, op, push, requests, restarts, made>>

\* A client that starts a ring kicks it.
ClientKick ==
    /\ Started /\ vq.inflight_check /\ ~driver.kick
    /\ driver' = [driver EXCEPT !.kick = TRUE]
    /\ UNCHANGED <<avail, used, region, vq, iovs, op, push, requests, restarts,
                   made>>

-----------------------------------------------------------------------------

Dequeue == Kick \/ ReadAvailIdx \/ DequeueDone \/ StoreCounter \/ StoreInflight
Push == \/ StoreNext \/ StoreLastBatchHead \/ StoreUsedIdx \/ ClearInflight
        \/ CommitUsedIdx
Complete == \E i \in DOMAIN iovs : StoreUsedElem(i)
Start == virtq_inflight_reconnect_update \/ vring_start_bh

Next ==
    \/ \E h \in Heads : Submit(h)
    \/ Interrupt
    \/ Dequeue \/ Complete \/ Push
    \/ Die \/ vhost_get_vring_base
    \/ Start \/ ClientKick \/ virtq_set_notify_fd

Spec == Init /\ [][Next]_vars

\* The guest takes interrupts, the request queue goes on, the client connects
\* again, kicks the ring and sets callfd, and the backend completes the requests
\* it was given.
FairSpec ==
    /\ Spec
    /\ WF_vars(Interrupt) /\ WF_vars(Dequeue) /\ WF_vars(Push)
    /\ WF_vars(Start) /\ WF_vars(ClientKick) /\ SF_vars(virtq_set_notify_fd)
    /\ \A h \in Heads : SF_vars(\E i \in DOMAIN iovs :
                                    iovs[i] = h /\ StoreUsedElem(i))

-----------------------------------------------------------------------------

TypeOK ==
    /\ driver \in [free : SUBSET Heads, used : Index, kick : BOOLEAN,
                   call : BOOLEAN]
    /\ avail \in [idx : Index, ring : [Heads -> Heads]]
    /\ used \in [idx : Index, ring : [Heads -> Heads]]
    /\ region \in [inflight : [Heads -> BOOLEAN], counter : [Heads -> Nat],
                   next : [Heads -> Heads], last_batch_head : Heads,
                   used_idx : Index]
    /\ vq \in [last_avail : Index, req_cnt : Nat, inflight_check : BOOLEAN,
               notify_fd : BOOLEAN]
    /\ iovs \in Seq(Heads)
    /\ op \in [at : OpPlaces, left : 0 .. QSize, head : Heads,
               given : SUBSET Heads]
    /\ push \in [at : PushPlaces, head : Heads]
    /\ requests \in 0 .. MaxRequests /\ restarts \in 0 .. MaxRestarts
    /\ made \in [Heads -> 0 .. MaxRequests]

\* The requests made and not in the used ring.
Waiting == Heads \ (driver.free \cup UsedEntries(driver.used, used.idx))

\* The entries of the used ring that the driver has not read.
Unread == [k \in 1 .. Diff(used.idx, driver.used) |->
              used.ring[Slot(driver.used + k - 1)]]

\* The used ring returns only requests the driver is waiting for, so none twice,
\* however often and wherever the device dies (virtq_push, virtq_inflight_*):
\* each entry that virtq_push adds takes its head from those waited for.
Ring == INSTANCE VirtqRing WITH waiting <- Waiting, returned <- Unread
RingSpec == Ring!Spec

\* Requests are given to the handler in the order the driver made them, those
\* resubmitted after a restart included (inflight_resubmit_compare).
InOrder ==
    \A i, j \in DOMAIN iovs : i < j => made[iovs[i]] < made[iovs[j]]

\* What the process is to complete: the requests given out or being pushed, and
\* those it will resubmit, are all distinct and are the ones recorded in flight;
\* with the entries of the avail ring to be fetched they are what the driver is
\* waiting for.  And a restart always recovers: the used ring is at most one
\* request ahead of the region (VHD_ASSERT(batch_size == 1)), and the requests
\* to resubmit and to fetch fit the queue (-EOVERFLOW of virtq_dequeue_many).
Given == ToSet(iovs)
         \cup (IF push.at \in {"none", "inflight", "used_idx"} THEN {}
                                                               ELSE {push.head})
Again == IF vq.inflight_check THEN InflightHeads ELSE {}
Coming ==
    LET first == Add(vq.last_avail, Cardinality(Again))
    IN  {avail.ring[Slot(first + k)] : k \in 0 .. Diff(avail.idx, first) - 1}

OwnsAll ==
    /\ op.at # "failed"
    /\ Started =>
        /\ IsInjective(iovs) /\ Given \cap Again = {}
        /\ Given \cup Again
             = InflightHeads \ (IF push.at = "inflight" THEN {push.head} ELSE {})
        /\ (Given \cup Again) \cap Coming = {}
        /\ Given \cup Again \cup Coming = Waiting

\* The answer to GET_VRING_BASE leaves no requests in flight
\* (vring_mark_drained, vhost_get_vring_base).
BaseNoInflight == op.at = "stopped" => InflightHeads = {}

\* The driver gets every request back, when the vring is restarted finitely often.
RequestsReturn == \A h \in Heads : [](h \notin driver.free => <>(h \in driver.free))
=============================================================================
