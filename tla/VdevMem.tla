------------------------------ MODULE VdevMem ------------------------------
(***************************************************************************)
(* The guest memory of a device: the memory maps that SET_MEM_TABLE brings *)
(* and the dirty-page logs that SET_LOG_BASE brings (vdev.c), while the    *)
(* vrings run and requests are in flight.  Every callback is the one of    *)
(* Vdev, with what it does to maps and logs.                               *)
(*                                                                         *)
(* The control event loop records the map and the log a vring is to use in *)
(* its shadow_vq; a BH copies them to the virtq in rq; the message that    *)
(* brought them is complete, and what they replace is let go, once every   *)
(* started vring has done so.  A request keeps the map it was fetched      *)
(* with, by a reference (objref.h), for as long as it is in flight.        *)
(***************************************************************************)
EXTENDS Vdev, FiniteSetsExt

CONSTANTS
    Map,        \* addresses vhd_memmap_new may return
    Log,        \* addresses of logs and of their mappings
    NULL

ASSUME NullAssumption == NULL \notin Map \cup Log

VARIABLES
    mem,        \* the fields of struct vhd_vdev about guest memory, and the
                \* shadow_vq of its vrings
    vq,         \* the map and the log of struct virtio_virtq, by vring
    fetched     \* requests in flight, by vring and the map they refer to

memVars == <<mem, vq, fetched>>
allVars == <<vars, memVars>>

\* What vring_sync_to_virtq copies: a map and a log.
VirtqMem == [mm : Map \cup {NULL}, log : Log \cup {NULL}]
NoMem == [mm |-> NULL, log |-> NULL]

\*   refs     the reference count of each map: 0 when it is not allocated
\*   logs     the logs allocated
\*   log_maps the logs whose pages are mapped
MemType == [
    memmap     : Map \cup {NULL},
    old_memmap : Map \cup {NULL},
    memlog     : Log \cup {NULL},
    old_memlog : Log \cup {NULL},
    log_all    : BOOLEAN,
    shadow_vq  : [Vring -> VirtqMem],
    refs       : [Map -> Nat],
    logs       : SUBSET Log,
    log_maps   : SUBSET Log]

-----------------------------------------------------------------------------
(* What the functions of vdev.c do to maps and logs. *)

\* n times objref_put
vhd_memmap_unref(g, m, n) ==
    IF m = NULL THEN g ELSE [g EXCEPT !.refs[m] = @ - n]

vhd_memmap_new(g, m) == [g EXCEPT !.refs[m] = 1]

\* vring_update_shadow_vq_addrs of the vrings in S
vring_update_shadow_vq_addrs(g, S, m) ==
    [g EXCEPT !.shadow_vq = [v \in Vring |->
        IF v \in S THEN [@[v] EXCEPT !.mm = m] ELSE @[v]]]

update_shadow_vq_memlog(g) ==
    [g EXCEPT !.shadow_vq = [v \in Vring |->
        [@[v] EXCEPT !.log = IF g.log_all THEN g.memlog ELSE NULL]]]

Started == {v \in Vring : vdev.started_in_ctl[v]}

\* (mutant) The old map is let go before the vrings have switched.
vhost_set_mem_table_at_once(g, m) ==
    [vhd_memmap_unref(
         vring_update_shadow_vq_addrs(vhd_memmap_new(g, m), Started, m),
         g.memmap, 1)
        EXCEPT !.memmap = m]

\* The new map is looked up for the started vrings before it replaces the
\* old one.
vhost_set_mem_table_mm(g, m) ==
    [vring_update_shadow_vq_addrs(vhd_memmap_new(g, m), Started, m)
        EXCEPT !.old_memmap = g.memmap, !.memmap = m]

\* The addresses of one started vring are not in the new map: it is let go,
\* the shadow_vq of the vrings in S, looked up before, keep its address.
vhost_set_mem_table_failed(g, m, S) ==
    vhd_memmap_unref(
        vring_update_shadow_vq_addrs(vhd_memmap_new(g, m), S, m), m, 1)

vhost_set_log_base_mem(g, l) ==
    update_shadow_vq_memlog(
        [g EXCEPT !.old_memlog = g.memlog, !.memlog = l,
                  !.logs = @ \cup {l}, !.log_maps = @ \cup {l}])

\* Without a started vring only the features are recorded.
vhost_set_features_log(g, on) ==
    LET h == [g EXCEPT !.log_all = on]
    IN  IF Started = {} THEN h ELSE update_shadow_vq_memlog(h)

\* set_mem_table_complete and set_log_base_complete: the latter frees the log
\* but does not unmap its pages.
complete_msg_mem(g) ==
    [vhd_memmap_unref(g, g.old_memmap, 1)
        EXCEPT !.old_memmap = NULL,
               !.logs = @ \ {g.old_memlog}, !.old_memlog = NULL]

\* vring_reset of the vrings in S
vring_reset_mem(g, S) ==
    [g EXCEPT !.shadow_vq = [v \in Vring |-> IF v \in S THEN NoMem ELSE @[v]]]

\* (mutant) The log outlives the connection.
vdev_cleanup_map_only(g) ==
    [vhd_memmap_unref(g, g.memmap, 1) EXCEPT !.memmap = NULL]

vdev_cleanup_mem(g) ==
    [vhd_memmap_unref(g, g.memmap, 1)
        EXCEPT !.memmap = NULL,
               !.logs = @ \ {g.memlog}, !.log_maps = @ \ {g.memlog},
               !.memlog = NULL]

\* The vrings a control callback reset: those that drained, and those that
\* were not started when the device disconnected.
Drained == {v \in Started : ~vdev'.started_in_ctl[v]}
Reset == Drained \cup
    IF vdev.conn_handler # "null" /\ vdev'.conn_handler = "null"
    THEN Vring \ Started ELSE {}

\* What a control callback does to maps and logs, after its own part g: it
\* may complete the message, reset vrings and clean up.
Settle(g) ==
    LET c == IF vdev'.held = None THEN complete_msg_mem(g) ELSE g
        r == vring_reset_mem(c, Reset)
    IN  /\ mem' = IF vdev.connfd /\ ~vdev'.connfd THEN vdev_cleanup_mem(r)
                                                  ELSE r
        \* virtio_virtq_release
        /\ vq' = [v \in Vring |-> IF v \in Drained THEN NoMem ELSE vq[v]]
        /\ UNCHANGED fetched

-----------------------------------------------------------------------------
(* The control event loop. *)

MemServerRead == server_read /\ Settle([mem EXCEPT !.log_all = FALSE])

MemConnHangup(io) == ConnHangup(io) /\ Settle(mem)

\* A message that succeeds.  The client gives the device its memory before it
\* starts a vring.
MemConnRead(m, v, ack, io) ==
    /\ conn_read(m, v, ack, io)
    /\ \/ /\ m = "SET_MEM_TABLE"
          /\ \E new \in Map : /\ mem.refs[new] = 0
                               /\ Settle(vhost_set_mem_table_mm(mem, new))
       \/ /\ m = "SET_LOG_BASE"
          /\ \E new \in Log : /\ new \notin mem.logs \cup mem.log_maps
                               /\ Settle(vhost_set_log_base_mem(mem, new))
       \/ /\ m = "SET_FEATURES"
          /\ \E on \in BOOLEAN : Settle(vhost_set_features_log(mem, on))
       \/ /\ m = "SET_VRING_KICK" /\ mem.memmap # NULL
          /\ v \notin Started
          /\ mem' = vring_update_shadow_vq_addrs(mem, {v}, mem.memmap)
          /\ vq' = [vq EXCEPT ![v] = mem'.shadow_vq[v]]
          /\ UNCHANGED fetched
       \/ /\ m \notin {"SET_MEM_TABLE", "SET_LOG_BASE", "SET_FEATURES"}
          /\ m = "SET_VRING_KICK" => v \in Started
          /\ Settle(mem)

\* A message that fails: SET_MEM_TABLE may fail once the addresses of some of
\* the started vrings are looked up.
MemConnReject(m, ack, io) ==
    /\ ConnReject(m, ack, io)
    /\ \/ Settle(mem)
       \/ /\ m = "SET_MEM_TABLE"
          /\ \E new \in Map, S \in SUBSET Started :
                /\ mem.refs[new] = 0 /\ S # Started
                /\ Settle(vhost_set_mem_table_failed(mem, new, S))

MemCtlBhs(v) == CtlBhs(v) /\ Settle(mem)

-----------------------------------------------------------------------------
(* The request queue. *)

\* (mutant) The log is not copied.
vring_sync_map_only(v) == vq' = [vq EXCEPT ![v].mm = mem.shadow_vq[v].mm]

vring_sync_to_virtq(v) == vq' = [vq EXCEPT ![v] = mem.shadow_vq[v]]

MemStartBh(v) ==
    /\ vring_start_bh(v)
    /\ IF vring'[v].started_in_rq THEN vring_sync_to_virtq(v) ELSE UNCHANGED vq
    /\ UNCHANGED <<mem, fetched>>

MemSyncBh(v) ==
    /\ vring_sync_to_virtq_bh(v)
    /\ vring_sync_to_virtq(v)
    /\ UNCHANGED <<mem, fetched>>

\* (mutant) A request does not hold its map.
virtq_dequeue_one_unheld(v, n) ==
    IF n = 0 THEN UNCHANGED <<mem, fetched>>
    ELSE /\ fetched' = [fetched EXCEPT ![v][vq[v].mm] = @ + n]
         /\ UNCHANGED mem

\* virtq_dequeue_one refers to the map of the virtq, n times.
virtq_dequeue_one(v, n) ==
    IF n = 0 THEN UNCHANGED <<mem, fetched>>
    ELSE /\ mem' = [mem EXCEPT !.refs[vq[v].mm] = @ + n]
         /\ fetched' = [fetched EXCEPT ![v][vq[v].mm] = @ + n]

MemKick(v, n) ==
    /\ vring_kick(v, n)
    /\ virtq_dequeue_one(v, n)
    /\ UNCHANGED vq

\* virtio_free_iov of k requests of v, whichever they are: gone[m] of them were
\* fetched with the map m.
virtio_free_iov(v, k) ==
    \E gone \in [Map -> 0 .. k] :
        /\ MapThenSumSet(LAMBDA m : gone[m], Map) = k
        /\ \A m \in Map : gone[m] <= fetched[v][m]
        /\ mem' = [mem EXCEPT !.refs = [m \in Map |-> @[m] - gone[m]]]
        /\ fetched' = [fetched EXCEPT ![v] = [m \in Map |-> @[m] - gone[m]]]

\* A canceled request is freed, not returned to the guest.
MemStopBh(v) ==
    /\ vring_stop_bh(v)
    /\ virtio_free_iov(v, canceled'[v] - canceled[v])
    /\ UNCHANGED vq

MemComplete(v) ==
    /\ rq_complete_bh(v)
    /\ virtio_free_iov(v, 1)
    /\ UNCHANGED vq

-----------------------------------------------------------------------------

MemInit ==
    /\ Init
    /\ mem = [memmap |-> NULL, old_memmap |-> NULL,
              memlog |-> NULL, old_memlog |-> NULL, log_all |-> FALSE,
              shadow_vq |-> [v \in Vring |-> NoMem],
              refs |-> [m \in Map |-> 0], logs |-> {}, log_maps |-> {}]
    /\ vq = [v \in Vring |-> NoMem]
    /\ fetched = [v \in Vring |-> [m \in Map |-> 0]]

MemClient ==
    \/ MemServerRead
    \/ \E io \in IoResult :
          \/ MemConnHangup(io)
          \/ \E m \in Msgs, ack \in BOOLEAN :
                \/ MemConnReject(m, ack, io)
                \/ \E v \in Vring : MemConnRead(m, v, ack, io)

MemRq(v) ==
    \/ MemStartBh(v)
    \/ MemSyncBh(v)
    \/ MemStopBh(v)
    \/ MemComplete(v)
    \/ \E n \in 0 .. MaxInFlight : MemKick(v, n)

MemOther ==
    \/ CtlPoll
    \/ \E v \in Vring :
          StopBhDrained(v) \/ vhd_dequeue_request(v) \/ vhd_complete_bio(v)

MemNext ==
    \/ MemClient
    \/ vdev_work_fn /\ Settle(mem)
    \/ \E v \in Vring : MemCtlBhs(v) \/ MemRq(v)
    \/ (External \/ MemOther) /\ UNCHANGED memVars

MemSpec == MemInit /\ [][MemNext]_allVars

-----------------------------------------------------------------------------
(* Safety. *)

MemTypeOK ==
    /\ mem \in MemType
    /\ vq \in [Vring -> VirtqMem]
    /\ fetched \in [Vring -> [Map -> Nat]]

\* The vrings whose virtq may still be used in rq: requests are fetched, or
\* returned to the guest, with its map and its log.
InUse == {v \in Vring : vring[v].started_in_rq \/ vring[v].num_in_flight > 0}

\* The map and the log of a virtq in use exist, and so does the map of every
\* request in flight, whatever SET_MEM_TABLE and SET_LOG_BASE replace, succeed
\* or fail, and whoever disconnects.
MemoryAlive ==
    Alive => \A v \in InUse :
        /\ vq[v].mm \in Map /\ mem.refs[vq[v].mm] > 0
        /\ vq[v].log \in mem.logs \cup {NULL}
        /\ \A m \in Map : fetched[v][m] > 0 => mem.refs[m] > 0

\* The count of a map is the number of its users: the device, the message
\* that is replacing it and each request fetched with it.  So a map replaced
\* is unmapped when its last request is done, and not before.
RefsExact ==
    Alive => \A m \in Map :
        mem.refs[m] =
            Cardinality({f \in {"memmap", "old_memmap"} : mem[f] = m})
            + MapThenSumSet(LAMBDA v : fetched[v][m], Vring)

\* "The client doesn't expect us to touch its memory once the control
\* connection is closed" (vdev_disconnect): by then no map and no log is left,
\* no request, and no BH that starts or updates a vring.  Left out are the inflight
\* region, and the pages of a log that was replaced, which stay mapped.
ClosedUntouched ==
    Alive /\ ~vdev.connfd =>
        /\ \A m \in Map : mem.refs[m] = 0
        /\ mem.logs = {}
        /\ InUse = {}
        /\ \A v \in Vring : /\ vdev.vring_start_bh[v] = 0
                            /\ vdev.vring_sync_to_virtq_bh[v] = 0

\* When the client learns that SET_MEM_TABLE is done, every started vring uses
\* the new map; when SET_LOG_BASE or SET_FEATURES is done, it logs as they
\* say.
MessageApplied ==
    [][Alive' /\ vdev'.req = None /\ vdev'.conn_handler # "null" =>
         \A v \in {w \in Vring : vring[w].started_in_rq} :
            /\ vdev.req = "SET_MEM_TABLE" => vq[v].mm = mem.memmap
            /\ vdev.req \in {"SET_LOG_BASE", "SET_FEATURES"} =>
                   vq[v].log = IF mem.log_all THEN mem.memlog ELSE NULL]_allVars

\* "All the modifications to memory pointed by vring "descriptor" should be
\* marked" while VHOST_F_LOG_ALL is negotiated (docs/vhost-user.rst:377): with
\* a log at hand and no message in progress, a vring with requests in flight
\* logs to it.
ModificationsLogged ==
    Alive /\ vdev.req = None /\ vdev.conn_handler # "null"
          /\ mem.log_all /\ mem.memlog # NULL =>
        \A v \in InUse : vq[v].log = mem.memlog

\* "Closing the connection should go last, so that the client doesn't see the
\* need to reconnect until the server detaches from the client's mappings"
\* (vdev_cleanup): the pages of a log are such a mapping.
Detached == Alive /\ ~vdev.connfd => mem.log_maps = {}
=============================================================================
