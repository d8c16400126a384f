----------------------------- MODULE VirtqNotify -----------------------------
(***************************************************************************)
(* The notifications of a virtqueue (src/virtio/virt_queue.c): the driver  *)
(* kicks the device, the device interrupts the driver, and each tells the  *)
(* other when it need not.  With VIRTIO_F_RING_EVENT_IDX they do so by     *)
(* index (avail_event, used_event), without it by a flag.                  *)
(*                                                                         *)
(* Both sides run concurrently on x86: a store goes through the store      *)
(* buffer of its side, so it may pass a later load of the same side, unless*)
(* there is an smp_mb() between them.  The driver is external: it does what*)
(* the Virtio specification asks of it.  Requests are told apart by their  *)
(* index only, and completed in the order of the avail ring; VirtqInflight *)
(* has the rings' contents.                                                *)
(***************************************************************************)
EXTENDS Integers, Sequences

CONSTANTS
    QSize,          \* vq->qsz
    Wrap            \* ring indices count modulo this (2^16 in the code)

ASSUME SizeAssumption ==
    /\ QSize \in Nat \ {0}
    /\ Wrap \in Nat /\ Wrap > QSize /\ Wrap % QSize = 0

VARIABLES
    mem,            \* the fields of the rings in memory
    buffer,         \* store buffers: fields and values, oldest first
    has_event_idx,
    vq,             \* the device: last_avail, used (its used->idx), notify_fd
    dev,            \* where the device is, and the avail index it has read
    drv,            \* the driver: where it is, its avail index, that index at
                    \* the last kick, and the used index it has seen
    kick, call      \* the eventfds are signalled

vars == <<mem, buffer, has_event_idx, vq, dev, drv, kick, call>>

Index == 0 .. Wrap - 1

\* uint16_t arithmetic
Inc(i) == (i + 1) % Wrap
Diff(i, j) == (i - j) % Wrap

Side == {"dev", "drv"}
Field == {"avail_idx", "used_event", "no_interrupt", "used_idx", "avail_event"}

TypeOK ==
    /\ mem \in [Field -> Index]
    /\ buffer \in [Side -> Seq(Field \X Index)]
    /\ has_event_idx \in BOOLEAN
    /\ vq \in [last_avail : Index, used : Index, notify_fd : BOOLEAN]
    /\ dev \in [at : {"idle", "avail", "event", "reread", "fetch", "failed"},
                avail : Index, given : BOOLEAN, notify : BOOLEAN]
    /\ drv \in [at : {"idle", "kick", "get", "enable", "recheck"},
                avail : Index, kicked : Index, used : Index]
    /\ kick \in BOOLEAN /\ call \in BOOLEAN

\* A started vring; callfd may be set later.
Init ==
    /\ mem = [f \in Field |-> 0]
    /\ buffer = [s \in Side |-> <<>>]
    /\ has_event_idx \in BOOLEAN
    /\ \E fd \in BOOLEAN :
           vq = [last_avail |-> 0, used |-> 0, notify_fd |-> fd]
    /\ dev = [at |-> "idle", avail |-> 0, given |-> FALSE, notify |-> FALSE]
    /\ drv = [at |-> "idle", avail |-> 0, kicked |-> 0, used |-> 0]
    /\ kick = FALSE /\ call = FALSE

-----------------------------------------------------------------------------
Store(s, f, i) == buffer' = [buffer EXCEPT ![s] = Append(@, <<f, i>>)]

\* A store leaves the buffer of its side.
Flush(s) ==
    /\ buffer[s] # <<>>
    /\ mem' = [mem EXCEPT ![Head(buffer[s])[1]] = Head(buffer[s])[2]]
    /\ buffer' = [buffer EXCEPT ![s] = Tail(@)]
    /\ UNCHANGED <<has_event_idx, vq, dev, drv, kick, call>>

smp_mb(s) == buffer[s] = <<>>

-----------------------------------------------------------------------------
(***************************************************************************)
(* The device.  dev.given: the request just fetched may be completed by its*)
(* handler.  dev.notify: in virtq_push, before virtq_notify.               *)
(***************************************************************************)
DevAt(p) == dev.at = p /\ ~dev.notify

vring_kick ==
    /\ DevAt("idle")
    /\ kick
    /\ kick' = FALSE
    /\ dev' = [dev EXCEPT !.at = "avail"]
    /\ UNCHANGED <<mem, buffer, has_event_idx, vq, drv, call>>

\* virtq_dequeue_many: the first read of avail->idx
ReadAvailIdx ==
    /\ DevAt("avail")
    /\ dev' = [dev EXCEPT !.avail = mem["avail_idx"],
                          !.at = IF has_event_idx THEN "event" ELSE "fetch"]
    /\ UNCHANGED <<mem, buffer, has_event_idx, vq, drv, kick, call>>

virtq_set_avail_event ==
    /\ DevAt("event")
    /\ Store("dev", "avail_event", dev.avail)
    /\ dev' = [dev EXCEPT !.at = "reread"]
    /\ UNCHANGED <<mem, has_event_idx, vq, drv, kick, call>>

\* Mutant: there is no barrier before avail->idx is read again.
RereadAvailIdxAtOnce ==
    /\ DevAt("reread")
    /\ dev' = [dev EXCEPT !.avail = mem["avail_idx"],
                          !.at = IF mem["avail_idx"] = dev.avail THEN "fetch"
                                                                 ELSE "event"]
    /\ UNCHANGED <<mem, buffer, has_event_idx, vq, drv, kick, call>>

\* Mutant: the loop compares with the index it has fetched up to.
RereadAvailIdxForever ==
    /\ DevAt("reread")
    /\ smp_mb("dev")
    /\ dev' = [dev EXCEPT !.avail = mem["avail_idx"],
                          !.at = IF mem["avail_idx"] = vq.last_avail
                                 THEN "fetch" ELSE "event"]
    /\ UNCHANGED <<mem, buffer, has_event_idx, vq, drv, kick, call>>

\* The read of avail2: the loop ends when nothing was added since avail_event
\* was written.
RereadAvailIdx ==
    /\ DevAt("reread")
    /\ smp_mb("dev")
    /\ dev' = [dev EXCEPT !.avail = mem["avail_idx"],
                          !.at = IF mem["avail_idx"] = dev.avail THEN "fetch"
                                                                 ELSE "event"]
    /\ UNCHANGED <<mem, buffer, has_event_idx, vq, drv, kick, call>>

\* Mutant: the difference is not taken modulo 2^16.
num_avail_unwrapped ==
    IF dev.avail >= vq.last_avail THEN dev.avail - vq.last_avail ELSE Wrap

num_avail == Diff(dev.avail, vq.last_avail)

\* One round of the loop that fetches.  (num_avail is computed before the
\* loop, and i counts up to it.)  When it exceeds vq->qsz the vring is
\* suspended (-EOVERFLOW).
virtq_dequeue_one ==
    /\ DevAt("fetch")
    /\ num_avail # 0
    /\ IF num_avail > QSize
       THEN dev' = [dev EXCEPT !.at = "failed"] /\ UNCHANGED vq
       ELSE /\ vq' = [vq EXCEPT !.last_avail = Inc(@)]
            /\ dev' = [dev EXCEPT !.given = TRUE]
    /\ UNCHANGED <<mem, buffer, has_event_idx, drv, kick, call>>

DequeueDone ==
    /\ DevAt("fetch")
    /\ num_avail = 0
    /\ dev' = [dev EXCEPT !.at = "idle", !.avail = 0, !.given = FALSE]
    /\ UNCHANGED <<mem, buffer, has_event_idx, vq, drv, kick, call>>

\* virtq_push up to vq->used->idx++, called from the handler of the request
\* just fetched or from the event loop
virtq_push ==
    /\ DevAt("idle") \/ (DevAt("fetch") /\ dev.given)
    /\ vq.used # vq.last_avail
    /\ vq' = [vq EXCEPT !.used = Inc(@)]
    /\ Store("dev", "used_idx", vq'.used)
    /\ dev' = [dev EXCEPT !.given = FALSE, !.notify = TRUE]
    /\ UNCHANGED <<mem, has_event_idx, drv, kick, call>>

virtq_need_notify ==
    IF has_event_idx THEN Inc(mem["used_event"]) = vq.used
                     ELSE mem["no_interrupt"] = 0

\* Mutant: used_event is read before used->idx is visible.
virtq_notify_at_once ==
    /\ dev.notify
    /\ call' = (call \/ (virtq_need_notify /\ vq.notify_fd))
    /\ dev' = [dev EXCEPT !.notify = FALSE]
    /\ UNCHANGED <<mem, buffer, has_event_idx, vq, drv, kick>>

virtq_notify ==
    /\ dev.notify
    /\ smp_mb("dev")
    /\ call' = (call \/ (virtq_need_notify /\ vq.notify_fd))
    /\ dev' = [dev EXCEPT !.notify = FALSE]
    /\ UNCHANGED <<mem, buffer, has_event_idx, vq, drv, kick>>

\* SET_VRING_CALL of a started vring, in a BH
virtq_set_notify_fd ==
    /\ DevAt("idle")
    /\ ~vq.notify_fd
    /\ vq' = [vq EXCEPT !.notify_fd = TRUE]
    /\ call' = TRUE
    /\ UNCHANGED <<mem, buffer, has_event_idx, dev, drv, kick>>

-----------------------------------------------------------------------------
(***************************************************************************)
(* The driver, with the virtqueue locked.  It may add several requests     *)
(* before it decides whether to kick the device.                           *)
(***************************************************************************)
AddRequest ==
    /\ drv.at \in {"idle", "kick"}
    /\ Diff(drv.avail, drv.used) < QSize
    /\ drv' = [drv EXCEPT !.at = "kick", !.avail = Inc(@)]
    /\ Store("drv", "avail_idx", drv'.avail)
    /\ UNCHANGED <<mem, has_event_idx, vq, dev, kick, call>>

\* The avail index has passed avail_event since the last time.
NeedKick ==
    has_event_idx => Diff(drv.avail, mem["avail_event"] + 1)
                         < Diff(drv.avail, drv.kicked)

KickDevice ==
    /\ drv.at = "kick"
    /\ smp_mb("drv")
    /\ kick' = (kick \/ NeedKick)
    /\ drv' = [drv EXCEPT !.at = "idle", !.kicked = drv.avail]
    /\ UNCHANGED <<mem, buffer, has_event_idx, vq, dev, call>>

\* The interrupt handler: no interrupts while it takes what was used.
Interrupt ==
    /\ drv.at = "idle"
    /\ call
    /\ call' = FALSE
    /\ drv' = [drv EXCEPT !.at = "get"]
    /\ IF has_event_idx THEN UNCHANGED buffer
                        ELSE Store("drv", "no_interrupt", 1)
    /\ UNCHANGED <<mem, has_event_idx, vq, dev, kick>>

GetUsed ==
    /\ drv.at = "get"
    /\ drv' = [drv EXCEPT !.at = "enable", !.used = mem["used_idx"]]
    /\ UNCHANGED <<mem, buffer, has_event_idx, vq, dev, kick, call>>

EnableInterrupts ==
    /\ drv.at = "enable"
    /\ IF has_event_idx THEN Store("drv", "used_event", drv.used)
                        ELSE Store("drv", "no_interrupt", 0)
    /\ drv' = [drv EXCEPT !.at = "recheck"]
    /\ UNCHANGED <<mem, has_event_idx, vq, dev, kick, call>>

RecheckUsed ==
    /\ drv.at = "recheck"
    /\ smp_mb("drv")
    /\ drv' = [drv EXCEPT !.at = IF mem["used_idx"] = drv.used THEN "idle"
                                                               ELSE "get"]
    /\ UNCHANGED <<mem, buffer, has_event_idx, vq, dev, kick, call>>

-----------------------------------------------------------------------------
Dequeue ==
    \/ vring_kick \/ ReadAvailIdx \/ virtq_set_avail_event \/ RereadAvailIdx
    \/ virtq_dequeue_one \/ DequeueDone

DriverStep ==
    KickDevice \/ Interrupt \/ GetUsed \/ EnableInterrupts \/ RecheckUsed

Next ==
    \/ Dequeue \/ virtq_push \/ virtq_notify \/ virtq_set_notify_fd
    \/ AddRequest \/ DriverStep
    \/ \E s \in Side : Flush(s)

Spec == Init /\ [][Next]_vars

\* Stores become visible, the thread of the request queue and the driver go
\* on, and the client sets callfd.  Nobody has to add a request, and the
\* backend need not complete one.
FairSpec ==
    /\ Spec
    /\ \A s \in Side : WF_vars(Flush(s))
    /\ WF_vars(Dequeue) /\ WF_vars(virtq_notify) /\ WF_vars(DriverStep)
    /\ SF_vars(virtq_set_notify_fd)

-----------------------------------------------------------------------------
(***************************************************************************)
(* Properties                                                              *)
(***************************************************************************)

\* No kick is lost (avail_event is written, then avail->idx read again): when
\* the driver has decided whether to kick, the device is in its event loop and
\* kickfd is not signalled, then the device has fetched every request.
NoLostKick ==
    drv.at # "kick" /\ dev.at = "idle" /\ ~kick => vq.last_avail = drv.avail

\* No interrupt is lost (used->idx is written, then used_event read): when the
\* driver waits for an interrupt, virtq_push has returned and callfd is not
\* signalled, then the driver has seen every used request.
NoLostInterrupt ==
    drv.at \in {"idle", "kick"} /\ ~dev.notify /\ vq.notify_fd /\ ~call =>
        drv.used = vq.used

\* What is fetched is what the driver has added and no more, also when the
\* indices have wrapped: the device never takes its own arithmetic for an
\* error of the driver (-EOVERFLOW) and never passes the driver's index.
FetchesInRange ==
    /\ dev.at # "failed"
    /\ Diff(drv.avail, vq.used)
         = Diff(drv.avail, vq.last_avail) + Diff(vq.last_avail, vq.used)
    /\ Diff(drv.avail, vq.used) <= QSize

\* Every request is fetched, and every used request is seen by the driver,
\* however the two notifications interleave: the loop that writes avail_event
\* ends, since the driver runs out of descriptors.
Within(i, from, to) == Diff(i, from) < Diff(to, from)

NotificationsArrive ==
    \A i \in Index :
        /\ Within(i, vq.last_avail, drv.avail) ~> vq.last_avail = Inc(i)
        /\ Within(i, drv.used, vq.used) ~> ~Within(i, drv.used, vq.used)

=============================================================================
