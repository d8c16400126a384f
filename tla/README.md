# A TLA+ model of libvhost-server

libvhost-server lets a program serve virtio block and file-system devices to
virtual machines over the vhost-user protocol.  This directory holds TLA+
modules translated from its C sources, TLC configurations that check them on
small instances, and TLAPS proofs of what holds for every instance.

## The system

A *device* (`struct vhd_vdev`, `vdev.c`) listens on a socket, serves one client
at a time and owns a number of *vrings* (`struct vhd_vring`), each wrapping one
virtqueue.  Three kinds of threads act on it (`docs/architecture.md`):

* the **control event loop** accepts the client, reads its messages, and starts,
  stops and frees the device;
* the **request queue** (`server.c`): the user's thread calls `vhd_run_queue`,
  which runs one iteration of the queue's event loop, then takes requests with
  `vhd_dequeue_request` and gives them to the backend;
* **external contexts**: the caller of `vhd_register_*` and
  `vhd_unregister_*`, blocked until the control loop has done the work; and the
  backend, which calls `vhd_complete_bio` from any thread.

No locks are held.  The loops hand work to each other as *bottom halves* (BHs,
`event.c`): `bh_enqueue` pushes at the head of an atomic list, `bh_poll` takes
the whole list and runs it from the head, so the BHs of a batch run last in,
first out.  A device keeps three counters: vrings handling a message, vrings
that have not acknowledged a stop, and vrings that may have requests in flight.
Every transition of the device waits for one of them to reach zero.

### Inventory

| part | source | module | status |
|---|---|---|---|
| device lifecycle, messages, vring start/stop/drain | `vdev.c`, `vdev.h` | `Vdev` | modelled |
| memory maps and logs of a device | `vdev.c`, `objref.h` | `VdevMem` (composed with `Vdev`) | modelled |
| order of BHs, batches, completion list | `event.c`, `server.c` | `VdevSched` (composed with `Vdev`) | modelled |
| event loop: wakeup, BHs, io handlers, work, termination | `event.c` | `EventLoop`, `BottomHalf` | modelled |
| request queue: submission, cancel, completion list | `server.c`, `queue.h` | `RequestQueue`, `RequestLife` | modelled |
| inflight region and crash recovery | `virtio/virt_queue.c`, `vdev.c` | `VirtqInflight`, `VirtqRing` | modelled |
| notifications and their suppression | `virtio/virt_queue.c` | `VirtqNotify` | modelled |
| descriptor chains, life of a request | `virtio/virt_queue.c` | `VirtioReq` | modelled |
| virtio-blk, virtio-fs | `virtio/virtio_blk.c`, `virtio_fs.c`, `blockdev.c`, `fs.c` | `VirtioBlk`, `VirtioFs` (used by `VirtioReq`) | modelled |
| memory map, dirty log | `memmap.c`, `memlog.c` | `MemMap`, `MemLog` | modelled |
| socket I/O | `vdev.c` | outcomes only, in `Vdev` | partly |
| starting and stopping the server thread | `server.c` | termination only, in `EventLoop` | partly |
| logging, allocation, list macros, scripts | | none | no state |

`MC*` modules give the constants of a module values for TLC; `*Proofs` modules
hold theorems.  Operators marked as mutants change one definition the way a bug
would; they show which property notices.

## Modules

### Vdev

One action per callback of either loop.

| state | in the code |
|---|---|
| `vdev` | `struct vhd_vdev`, and as functions of the vring the fields of `struct vhd_vring` that the control loop owns (`started_in_ctl`, `disconnecting`, `on_drain_cb`); the BHs it has scheduled on the request queue (`vring_start_bh`, `vring_sync_to_virtq_bh`, `vring_stop_bh`) |
| `vring` | the fields the request queue owns: `started_in_rq`, `kick_handler`, `num_in_flight` |
| `ctl_bh`, `ctl_batch` | BHs scheduled on the control loop; those its `bh_poll` took and has still to run |
| `stopping` | a vring between the two `vhd_run_in_ctl` of `vring_stop_bh` |
| `queued`, `backend`, `completion` | numbers of requests, by vring |
| `canceled` | history: requests canceled since the vring was started |

`vdev.fault` records where the process would have died: a failed `VHD_ASSERT`,
a null pointer, or a callback that ran on a freed device.  A fault ends the
behaviour.

`io` says how the system calls of a callback end: whether its reply is sent, and
whether the io handler it attaches is added to the event loop.  A reply that is
not sent ends in a disconnect.  When `vdev_drained` cannot attach `listen_handler`
again, the device stays without it; when `vdev_handle_finish` cannot attach
`conn_handler`, which it does not look at, the client is not read any more.

The functions of `vdev.c` on the control state are operators with their names
(`vdev_disconnect`, `vring_mark_drained`, `vhost_set_mem_table`, ...), applied
to the device record; an action composes them as the callback does.  Payloads
are left out: `ConnReject` stands for every message a handler refuses before it
changes anything.  What a message parks until it completes (`old_memmap`,
`old_memlog`, `keep_fd`) is the field `held`.

BHs are numbers of instances: the control loop runs a batch in any order, the
request queue runs its BHs in any order.  This allows more behaviours than the
code has, so invariants of `Vdev` hold whatever the order of the BHs; a
behaviour that breaks one is confirmed in `VdevSched`.

### VdevSched

Extends `Vdev` with the exact order: the two BH lists, the batches being run,
and the completions `rq_complete_bh` took.  Every action is an action of `Vdev`
conjoined with what happens to the lists, so `SchedSpec` implies `Spec`.
Liveness is stated here, and findings are shown here.

### VirtqInflight and VirtqRing

`VirtqRing` is what a virtqueue promises its driver: a set of waiting requests,
each returned once for each time it was made available, and the sequence of those
returned that the driver has not looked at.  `VirtqInflight` implements it over the
rings and the inflight region: that sequence is the part of the used ring the
driver has still to read, so an entry too many is a step `VirtqRing` does not have.

| state | in the code |
|---|---|
| `avail`, `used` | the two rings; indices count modulo `Wrap` |
| `region` | `struct inflight_split_region`, shared with the client |
| `vq` | the private fields of `struct virtio_virtq`; lost when the process dies |
| `iovs` | requests given to `handle_buffers_cb` and not pushed, in order |
| `op`, `push` | where the thread is in `virtq_dequeue_many` and in `virtq_push` |
| `driver` | the guest: free heads, its place in the used ring, and the kick and call eventfds |
| `made` | history: the order in which the driver made its requests |

A step is one store to shared memory, with the private changes next to it:
`virtq_inflight_avail_update` is two steps, `virtq_push` six,
`virtq_inflight_reconnect_update` two.  `Die` may come between any two; it also
stands for a disconnect in which requests were canceled, since these are not
pushed.  The driver, the client's choice of the base (the index of the used
ring, as `test/virtio/qdata.h` does, or the answer to GET_VRING_BASE) and its
kick of a started ring (`docs/vhost-user.rst` line 320) are external.

### VdevMem

Adds to every callback of `Vdev` what it does to guest memory.

| state | in the code |
|---|---|
| `mem` | `memmap`, `old_memmap`, `memlog`, `old_memlog` of the device, whether `VHOST_F_LOG_ALL` is negotiated, the map and log in the `shadow_vq` of its vrings; reference counts of maps; the logs allocated and mapped |
| `vq` | `mm` and `log` of each `struct virtio_virtq` |
| `fetched` | requests in flight, by vring and by the map they hold |

`Settle` is what any control callback ends with: the message it may have
completed, the vrings it may have reset, the cleanup it may have done.  It reads
these off the step of `Vdev`.  SET_MEM_TABLE may fail after it has looked up some
of the vrings.  A client is taken to send its memory table before it starts a
vring.

### EventLoop and BottomHalf

`BottomHalf` is what users of BHs rely on: a scheduled BH stays so until it is
called, canceled or deleted, and one callback runs at a time.  `EventLoop`
implements it.  Every atomic operation on `flags`, `bh_list`, `notified` and the
eventfd is a step of its own, by the home thread or by others: `bh_enqueue` is
four steps (`bh_enqueue`, `Insert`, `evloop_notify`, `vhd_set_eventfd`),
`notify_accept` three.  Callbacks may schedule, cancel and delete BHs, attach,
detach and delete io handlers, and terminate the loop.  Freed memory stays in the
state as `"freed"`.  An abstract BH is scheduled at the `atomic_fetch_or` of
`bh_enqueue` and called at the `atomic_fetch_and` of `bh_dequeue`.  Who revokes a BH
is not told by `BottomHalf`, so a BH that is dropped is noticed by `BhServed`, not by
the refinement.  The function of a work may complete it, or return and leave that to
a later callback, as `vdev_stop` does (`handed`).  As `event.c`
(lines 373-378) asks, no thread is inside the loop's functions when the loop is
freed, and nobody schedules after terminating.

### RequestQueue and RequestLife

`RequestLife` is the life of requests: queued, in the backend, completed in some
order, reported once each in that order.  `RequestQueue` implements it: the
submission queue of several vrings with the list walk of
`vhd_cancel_queued_requests`, and the completion list as `queue.h` builds it, with
its `slh_first` and `sle_next` pointers, a read, a link and a compare-and-swap per
insertion.  The memory of a reported request is used again, so a pointer read
earlier may be to a new request.  `RequestLife` lets any of the queued requests be
canceled together, and so says nothing of those the walk skips.  Its BH is an instance of `BottomHalf`.  The walk
that follows a null pointer after the last request ends in the state `"fault"`.

### VirtqNotify

The device and the driver share four words: `avail->idx`, `used->idx`,
`avail_event` and `used_event` (or the driver's flag, without the event index).
Each side has a store buffer, so a store may pass a later load unless there is an
`smp_mb()`.  `virtq_dequeue_many` is `vring_kick`, `ReadAvailIdx`,
`virtq_set_avail_event`, `RereadAvailIdx` and one `virtq_dequeue_one` per
request; `virtq_push` and `virtq_notify` are apart.  The driver's side follows the
Virtio specification.

### VirtioReq, VirtioBlk and VirtioFs

`VirtioBlk` and `VirtioFs` are functions: what `handle_buffers` decides for the
buffers of a chain.  `VirtioReq` is the process around them: one step per
descriptor in `walk_chain` and `walk_indirect_table`, then `handle_buffers`,
dispatch, completion, or cancellation when the vring stops.  A descriptor says
whether its range is mapped, a buffer its length, direction and request header.
`Described` is the reference: the sequence of buffers a chain stands for in the
Virtio specification, defined without the walk.

### MemMap and MemLog

`MemMap` has the slots in `regions`, the addresses mapped (guard pages
included) and what the backend has registered with `map_cb`.  `map_cb`,
`unmap_cb` and `munmap` may fail.  Translations are operators on the slots.  `MemLog`
has the bits that `vhd_mark_gpa_range_dirty` sets, by longs, and `DirtyBits`, the
bits that `docs/vhost-user.rst` names, by bytes.

### The proof modules

`EventLoopProofs`, `EventLoopBhProofs`, `RequestQueueProofs`, `VirtqNotifyProofs`,
and for `Vdev` the chain `VdevProofs` (types, and what each control function may
change), `VdevCountProofs` (the invariant of the counters; messages), `VdevBhProofs`
and `VdevRqProofs` (the BHs of the two loops; the theorems).  See Proofs below.

## Constants and bounds

| run | constants | distinct states |
|---|---|---|
| `lifecycle` | two vrings, all 18 messages, one request in flight each; the user stops the device; sends and attaching a handler fail | 178 009 |
| `reply_fails` | one vring, one message of each kind; sends fail | until violated |
| `stop_releases`, `stale_stop` | one vring, one message of each kind; the user stops the device | until violated |
| `memory` | two vrings, three maps, two logs, one request in flight each; sends and attaching fail | 210 543 |
| `event_loop` | two threads and the home thread, a BH of each kind, an io handler, three calls | 157 976 |
| `request_queue` | two completing threads, three requests, two vrings | 69 390 |
| `recovery` | queue of two, indices modulo 4, four requests, two deaths or stops | 361 813 |
| `virtq_notify` | queue of two, indices modulo 4, requests without end | 16 192 |
| `requests` | two descriptors, chains of up to four buffers, tables of up to four, a disk of two sectors, sector numbers modulo 8 | 55 077 |
| `memmap` | addresses modulo 16, pages of 2, huge pages of 4, three slots at three adjacent places, a log of 6 pages | 35 090 |

Why these are enough for the interesting cases:

* Two vrings let one lag behind the other in every counter.  A vring that drains
  one request after the other is covered by the theorems of `Vdev`, which take any
  bound; two requests per vring and one message of each kind were run once, with all
  properties of `lifecycle` (309 840 states).  The kinds are: answered at once
  (GET_FEATURES), waiting for one vring (SET_VRING_KICK, GET_VRING_BASE) and waiting
  for all (SET_MEM_TABLE).
* Three maps: one in use, one held by a request, one being brought.  Larger
  instances that were run once: two requests per vring (2 665 447 states), the
  user stopping the device (1 347 847 states).
* Three calls into the event loop give every pair of calls on one BH together
  with the call that terminates the loop.  The io handler is deleted by BHs and by
  its own callback; two handlers, one deleting the other, were run once
  (408 726 states), and `MemorySafe` is proved for any number.
* Three requests and two threads give a compare-and-swap that fails, and a
  pointer to memory that was freed and used again.
* A queue of two gives completions out of order, and slots of the avail ring
  that are overwritten while an older request is in flight; four requests wrap
  the indices; two restarts let the process die while it recovers.  Three
  entries, four requests and one restart were run once (2 million states).
* In `virtq_notify` indices wrap again and again, as nothing counts requests.  A
  queue of four with indices modulo 8 was run once (215 219 states).
* Chains of up to four buffers fit every table; a chain that comes back to one
  of its descriptors is the one that reaches the limit on buffers.  Two sectors give requests that end at, cross, start at and
  start after the end of the device.
* Slots may touch, overlap in one of the two address spaces, or end at the end
  of the address space.  Four places were run once (679 602 states).

`StopServer`, `SendFails` and `AttachFails` say whether the user stops the
device, sends fail, and attaching a handler fails.  `LeavesQueued` says whether
`vhd_run_queue` may be called with requests still queued.  The users in the
repository (`test/server.cpp`, `test/aio_server.c`,
`test/virtiofs-server/fuse_virtio.c`) dequeue every request first; the listed runs
of `Vdev` assume that, `RequestQueue` and `VirtioReq` do not.

Deadlock is checked in `virtq_notify` and `memmap`.  The others end: a released
device, one that could not be started or that faulted, a loop that was freed, a
queue that was released, requests that are all answered.

Symmetry is used in `memory` and `unlogged`, which check no liveness.

## Runs

| run | property | shows |
|---|---|---|
| `lifecycle` | `CountersExact` | the counters count the vrings whose acknowledgement is outstanding |
| | `AssertionsHold` | no `VHD_ASSERT` fails, except the one of `reply_fails`, and no null callback is called |
| | `BaseAfterDrain` | GET_VRING_BASE is answered when no request of the vring is in flight |
| | `MessagesHandled` | every message ends: `req` is reset, unless the reply could not be sent and the client is disconnected |
| | `Relistens` | a device that lost its client drains and listens again, unless it is stopped or `listen_handler` cannot be attached |
| | `StopReturns` | `vhd_vdev_stop_server` returns |
| `memory` | `RequestsAccounted` | `num_in_flight` counts the requests in the queue, the backend and the completion list |
| | `ListenClean` | a listening device has no BH of its last client; for a device being stopped see `stale_stop` |
| | `MemoryAlive` | no virtq and no request uses a map or log that was let go |
| | `RefsExact` | the count of a map is the number of its users |
| | `ClosedUntouched` | when the connection is closed no map and no log of the client is left, and nothing to touch them; the inflight region and the pages of replaced logs are not part of it |
| | `MessageApplied` | SET_MEM_TABLE, SET_LOG_BASE and SET_FEATURES are answered when every started vring has switched |
| `event_loop` | `NoLostWakeup` | the loop does not block with BHs in its list |
| | `LinkedOnce` | a pending BH is in one list once, none is leaked |
| | `NoUseAfterFree` | no BH, io handler or work is used after it was freed, nor a work completed after its caller returned |
| | `StopDrains` | a loop that has stopped has run every BH scheduled before |
| | `BhSpec` | refinement of `BottomHalf` |
| | `BhServed`, `WorkReturns`, `TerminateStops` | BHs are called; waiting for work ends, unless the work is handed over and nobody completes it; termination ends the loop |
| `request_queue` | `FirstSchedules` | the BH is scheduled by exactly one of the threads that fill the list |
| | `ReleaseQuiet` | the asserts of `vhd_release_request_queue` hold, and nobody uses the queue afterwards |
| | `LifeSpec` | refinement of `RequestLife`: reported once, first in, first out |
| | `CompletionsReported` | completed requests are reported |
| `recovery` | `OwnsAll` | what is given out, to be resubmitted and to be fetched is, without overlap, what the driver waits for; restarts recover |
| | `InOrder` | the handler gets requests in the order they were made, resubmitted ones included |
| | `RingSpec` | refinement of `VirtqRing`: no request is put into the used ring twice |
| | `RequestsReturn` | the driver gets every request back |
| `virtq_notify` | `NoLostKick`, `NoLostInterrupt` | neither side waits for a notification the other decided not to send |
| | `FetchesInRange` | wrapped indices are never taken for an error, and no request is fetched before it is made |
| | `NotificationsArrive` | every request is fetched, every used one is seen |
| `requests` | `WalkCorrect` | a walk delivers what the chain describes, and breaks the queue only if it describes nothing |
| | `InDevice` | the backend of a disk gets requests inside the device, and no writes if read-only; except requests longer than the device, see below |
| | `WritesWritable` | only buffers the driver marked writable are written |
| | `AnsweredOnce`, `Answered` | no request is returned twice or both returned and canceled; every walk ends, and every request is answered |
| `memmap` | `SlotsIsolated` | slots are mapped between guard pages, what is registered is mapped, whatever fails |
| | `WritesLogged` | the bits set are exactly the pages of the guest that the buffer names; for buffers that are not empty |
| | `TranslationsAgree` | ring and buffer addresses lead to the same memory, and back |

`TypeOK` (`MemTypeOK`) of each module states the types of its variables.  It holds
on the instances above, and for `Vdev` and `EventLoop` it is proved.

Four runs are expected to find a violation: each states a line of the
documentation or an assertion that the code does not keep.

| run | what happens |
|---|---|
| `reply_fails` | the reply of a message completed by BHs cannot be sent; the client is disconnected, `req` is never reset, and once the vrings have drained `VHD_ASSERT(vdev->req == VHOST_USER_NONE)` of `vdev_cleanup` fails |
| `stop_releases` | stop during a message the vrings handle; its last report comes after the drain, and nobody checks again: the device is never released |
| `stale_stop` | disconnect schedules a second `vring_stop_bh` for a vring that GET_VRING_BASE already stopped; it outlives the device |
| `unlogged` | a vring started after logging was set up, or restarted after GET_VRING_BASE, has no log until SET_FEATURES or SET_LOG_BASE comes again |

### Further disagreements

Met while modelling.  Those with a configuration can be reproduced with
`tlc -config <cfg> <module>`; TLC finds the violation.

| configuration | what the code does |
|---|---|
| `MCVdevSched_drained_twice.cfg` | canceling the last requests inside `vring_stop_bh` schedules the drained BH twice |
| `MCVdevSched_cancel_skips.cfg` | `vhd_cancel_queued_requests` skips every other adjacent request, which reaches the backend after stop returned; after the last one it follows a null pointer |
| `MCVdevSched_base_canceled.cfg` | user stop between GET_VRING_BASE and its BH: requests are canceled and the message is still answered |
| `MCVirtqInflight_base_inflight.cfg` | GET_VRING_BASE between a reconnect and the first kick is answered while requests are still to be resubmitted |
| `MCVdevMem_detached.cfg` | `set_log_base_complete` frees a replaced log without unmapping its pages (`vdev.c` line 1298; `vdev_cleanup`, lines 1598-1602, does unmap) |
| `MCEventLoop_spins.cfg` | a thread has set `notified` and not yet written the eventfd when the loop resets `notified`: the eventfd stays set, and `epoll_wait` returns at once, until the next notification (`event.c` line 77) |
| (`SlotsDisjoint` of `MemMap`) | "check for intersection with existing slots" (`memmap.c` line 266) accepts slots that intersect in guest addresses as long as they do not in the client's, and conversely |
| (`is_valid_req` of `VirtioBlk`) | `capacity - nsectors` (`virtio_blk.c` line 123) wraps for a request longer than the device, which is then not refused, while `oob_request_test` (`test/virtio/virtio_blk_test.cpp` lines 495-557) expects requests past the end to fail; `InDevice` leaves requests longer than the device out |
| (not modelled) | `vhd_stop_queue` terminates the event loop for good, as `is_terminated` is never reset, while `server.h` lines 86-90 say that `vhd_run_queue` can then be reentered |

### Fairness

* The control thread loops on its event loop and so keeps running BHs (weak
  fairness).  The request queue's thread runs every BH of a batch it took (weak),
  and takes a new batch again and again, though not while requests wait to be
  dequeued (hence strong fairness of `RqTake`).  Its user dequeues what is queued and
  the backend completes what it took.  Nothing is assumed of the client, the
  guest or the caller of stop.
* `EventLoop`: the home thread and each thread inside a call go on; callbacks
  return.  Nobody has to call anything, and nobody has to complete a work.
* `RequestQueue`: the loop runs the BH once it is scheduled (this is `BhServed`
  of `EventLoop`), and threads inside `vhd_complete_bio` go on.  A
  compare-and-swap may fail again and again, but only while others succeed.
* `VirtqInflight`: the request queue's thread goes on, the guest takes its
  interrupts, and the client reconnects and kicks the ring (weak).  The client
  sets `callfd`, and the backend completes each request it is given: strong,
  since either must wait for the thread to be between two steps of a push.  The
  restarts are bounded: a process that dies for ever serves nobody.
* `VirtqNotify`: stores leave the store buffers, device and driver go on, and the
  client sets `callfd` (strong).  Nobody has to add or complete a request.
* `VirtioReq`: the event loop runs a handler that is ready, and the backend
  completes what it is given.

## Proofs

For every value of the constants that satisfies the `ASSUME`s of the module.  Each
inductive invariant was model-checked on the instance of its run before it was
proved.

### Vdev

* `VdevRqProofs!TypeCorrect`: `Spec => [](TypeOK /\ RequestsAccounted)`.  The two
  are proved together: the decrements of `num_in_flight` stay in the naturals
  because a request leaves a list it was counted in.  The control functions are
  covered by one lemma each (a function applied to a well-typed device returns
  one), then one lemma for the steps of the control loop, one for its BHs and one
  for the request queue.
* `VdevRqProofs!CountersCorrect`: `Spec => []CountersExact`, for any finite set of
  vrings, any messages and failures, if `LeavesQueued = FALSE`.  That hypothesis is
  needed: with requests left in the queue `vhd_cancel_queued_requests` can skip one
  and a vring drains twice.  The inductive invariant is `CountInv`:
  - `Acks` and `Totals`, the two halves of `CountersExact`: what each vring owes, and
    the counters as the number of vrings that owe it;
  - `CtlInv`: messages are read only while none is handled, at most one vring waits
    for its drain to answer GET_VRING_BASE, a listening device counts nothing;
  - `RingInv`: a stopped BH that the control loop has not taken belongs to a vring
    that is still started there, so its drained BH has not overtaken it; a kick
    handler belongs to a started vring; a vring whose stop BH is running has
    nothing in flight;
  - `Quiet`: nothing is canceled, and only started vrings have requests queued.

  Every handler is first reduced to its effect on the counters (the lemmas named
  `...Effect`, `...Calm`, `...Keeps` of `VdevProofs`); the acknowledgements a step
  moves from one BH to another are then sums (`Owes`, `AckChange`), and the three
  cardinalities follow from the one vring a step touches (`RingStep`).  Cardinality
  of finite sets enters once, through `VringsCounted`.
* `VdevRqProofs!BaseAnsweredDrained`: `Spec => BaseAfterDrain`, an action property,
  from `CountInv` and so under the same hypothesis.  Only `vring_mark_drained` clears
  an `on_drain_cb`, also when an assertion fails (the lemmas named `...DrainCb`); it is
  called from the drained BH of the vring or from its start-failed BH, and by `Acks` a
  vring that owes one of these owes nothing else and has nothing in flight
  (`DrainedEmpty`).

### EventLoop

* `EventLoopProofs!Typing`: `Spec => []TypeOK`.
* `EventLoopProofs!Wakeup`: `Spec => []NoLostWakeup`.  The property is about the
  moment before the loop blocks; the inductive form is `WakeInv`: a list that is
  not empty has a `notified` flag, a loop about to poll it or a thread about to
  notify; and a `notified` flag has a signalled eventfd, a loop about to reset the
  flag or a thread about to write.  One step per action; only the operations
  of `bh_enqueue`, `notify_accept` and `bh_poll` disturb it.
* `EventLoopBhProofs!LinkedOncePerBh`: `Spec => []LinkedOnce`.  `LinkInv` says it
  without counting: the two lists have no duplicates and no common element, a BH
  with `BH_PENDING` is in one of them or in the hands of one caller, and no other
  BH is.  The theorem turns that into the three cardinalities of `Linked`.
* `EventLoopBhProofs!MemorySafe`: `Spec => []NoUseAfterFree`, from `LifeInv` (a BH
  that is linked or being called has memory), `WorkInv` (a caller of
  `vhd_submit_work_and_wait` waits until its work is posted, whoever it was handed
  to) and `HandlerInv`
  (handlers deleted while on the ready list are freed after it).
* `EventLoopBhProofs!StopDrainsAll`: `Spec => []StopDrains`, from `StopInv`: no
  oneshot BH is inserted after the one that stops the loop, and `bh_poll` takes
  that one together with all that were inserted before it.
* `EventLoopBhProofs!Implements`: `Spec => BhSpec`, the refinement of
  `BottomHalf`.  Every step maps to a step of it or to a stutter (`NextAbstract`).  The
  hard case is the release of the loop, which forgets the BHs that remain: it is
  a stutter because no oneshot BH is scheduled then (`StopInv` again).

The kinds of BHs are disjoint (`KindAssumption`): how a BH is used is fixed by the
function that creates it.

### RequestQueue

* `RequestQueueProofs!FirstCompletionSchedules`: `Spec => []FirstSchedules`.  With
  types and `stolen => running # {}` it is inductive (`ScheduleInv`): a
  compare-and-swap that replaces a null head makes its thread the only scheduler,
  and only the running BH empties the list.
* `RequestQueueProofs!ReleasedQuietly`: `Spec => []ReleaseQuiet`, and
  `RequestQueueProofs!ImplementsLife`: `Spec => LifeSpec`, the refinement of
  `RequestLife`.  Both follow from `QueueInv`:
  - `InOnePlace`: a request in use is queued, with the backend, or completed and not
    yet reported, in one of these places and once;
  - `ThreadInv`: threads inside `vhd_complete_bio` hold different requests of the
    backend, and a thread at its compare-and-swap has linked its request to the head
    it will compare with.  So a swap that succeeds links the request to the list as it
    is then, also when the head was taken and came back in between;
  - `ListInv`: the pointers from the head on make a list that ends.  Freed bios keep
    stale pointers, which may form cycles, but no pointer is written on the list;
  - `Counted`: `num_in_flight` is the number of requests in use of each vring.

  The lemmas under them: a list is determined by its pointers (`LinksOnce`), a list
  without duplicates is not longer than `Bio` is large (`NotLonger`), and what the
  removal of canceled requests leaves (`InWithout`).  They need induction; it is done
  with sets, through the least element of a set of counterexamples (`Least`).

  Two definitions of the model are written so that this can be said: `Reversed` as the
  list that the pointers describe, which has a value whatever the stale pointers are,
  and `Without` as a function instead of `SelectSeq`, which the prover does not unfold.

### VirtqNotify

For every queue size and every larger multiple of it as the modulus of the
indices, with the store buffers of both sides:

* `VirtqNotifyProofs!KicksArrive`, `InterruptsArrive` and `NoOverflow`:
  `Spec => []NoLostKick`, `[]NoLostInterrupt`, `[]FetchesInRange`.  Indices wrap, so
  the invariant `Inv` never compares them: it measures how far each of them is
  `Behind` the driver's (`Order`), a number that is at most the size of the queue.
  `DevBuffer` and `DrvBuffer` say what may be in a store buffer at each point of the
  code, in particular that it is empty after a barrier; `Kicks` and `Calls` say who
  is about to notify when an index and an event index are apart.

### Only model-checked

* Liveness under fairness (`Relistens`, `MessagesHandled`, `BhServed`,
  `CompletionsReported`, `Answered`, `NotificationsArrive`...), which is out of the
  prover's reach.
* What recursive definitions compute: the reference walk of `VirtioReq` and the lists
  of `VirtqInflight`.
* The other properties of `Vdev`, and those of `VdevMem`, `VirtqInflight`,
  `VirtioReq` and `MemMap`.

## Not modelled

* Contents of messages and of requests, and the socket calls that carry them: a
  message is its kind and whether it is accepted.  The numbers that
  `vhost_set_vring_addr` and `vhost_set_vring_num` store are left out; whether the
  vring is started, and the BH this takes, are not.
* The configuration spaces of the devices (`vblk_get_config`, `vfs_get_config`,
  geometry and topology), which are written once and copied out; usage
  statistics; logging; allocation (`vhd_alloc` aborts on failure).
* Creating and joining the server thread, and the slow-message timer
  (`timer_read` only logs).
* Failures that change nothing: a `server_read` that fails and closes the socket
  it accepted, `eventfd`, `mmap`.  That an io handler cannot be added to an event
  loop is modelled where the code goes on without it (`vdev_start`, `vring_start_bh`,
  `vdev_handle_finish`, `vdev_drained`); removing one is taken to succeed.  When
  `map_cb` fails, the guard and tail pages of that slot stay mapped; `MemMap` has this.
* Empty buffers in the properties of `MemMap`; the life of the inflight region in
  `VdevMem`.
* Drivers that change a descriptor or a buffer the device owns.  Tables of
  65536 descriptors and more, whose length does not fit `table_len`.
* A dispatch that fails: `vhd_enqueue_block_request` always returns 0.
* Processors other than x86-64, the only one `catomic.h` builds on.  Outside
  `VirtqNotify` shared words are changed by atomic instructions, which are
  sequentially consistent there.

Assumed of the surroundings: a client sends its memory table before it starts a
vring; nobody calls into an event loop while it is freed (`event.c` lines 374-378);
and, in the runs of `Vdev`, the user leaves no request queued (`LeavesQueued`).
