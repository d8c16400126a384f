----------------------------- MODULE VirtioReq -----------------------------
(***************************************************************************)
(* The life of a request of a virtio-blk or virtio-fs device: the driver   *)
(* makes a descriptor chain available; a kick makes the thread of the      *)
(* request queue walk the chain (virt_queue.c) and hand its buffers to     *)
(* handle_buffers of the device, which aborts the request, completes it or *)
(* dispatches it to the backend; the backend completes it, or the vring is *)
(* stopped and it is canceled.                                             *)
(*                                                                         *)
(* The thread of the request queue runs one event or BH at a time: a kick  *)
(* is handled to its end before a completion is reported.  The descriptors *)
(* do not change while the device owns them.  VirtqInflight has the rings, *)
(* VirtqNotify the notifications, MemMap the translation of addresses: a   *)
(* descriptor only says here whether its range is mapped.                  *)
(***************************************************************************)
EXTENDS VirtioBlk, SequencesExt

CONSTANTS
    QSize,      \* vq->qsz
    MaxChain,   \* vq->max_chain_len
    Setups      \* the devices (kind, and readonly and capacity of a disk) with
                \* the descriptor tables of their drivers and the heads of the
                \* chains these make available, each once

ASSUME ReqAssumption ==
    /\ QSize \in Nat \ {0}
    /\ MaxChain \in Nat /\ MaxChain >= QSize

Fs == INSTANCE VirtioFs

VARIABLES
    setup,      \* the device and the descriptor table
    unused,     \* the heads the driver has not made available yet
    avail,      \* the heads in the avail ring from vq->last_avail on
    kicked,     \* kickfd
    vq,         \* broken, suspended (the kick handler is detached), stopped,
                \* and left: how many requests virtq_dequeue_many still fetches
    walk,       \* where walk_chain is
    buffers,    \* vq->buffers[0 .. next_buffer - 1]
    iovs,       \* dispatched requests: queued or in the backend
    used,       \* history: what was pushed onto the used ring
    canceled,   \* history: the heads whose requests were canceled
    written     \* history: the buffers the device wrote: <<head, position>>

vars == <<setup, unused, avail, kicked, vq, walk, buffers, iovs, used,
          canceled, written>>
driver == <<setup, unused>>

dev == setup.dev
desc == setup.desc      \* vq->desc

Heads == 0 .. QSize - 1

\* idle: virtq_dequeue_many has no chain.  chain, table: the loops of walk_chain
\* and walk_indirect_table.  handle: about to call handle_buffers.
NoWalk == [at |-> "idle", head |-> 0, idx |-> 0, table |-> <<>>]
NoVq == [broken |-> FALSE, suspended |-> FALSE, stopped |-> FALSE, left |-> 0]

Init ==
    /\ setup \in Setups /\ unused = setup.heads
    /\ avail = <<>> /\ kicked = FALSE
    /\ vq = NoVq /\ walk = NoWalk
    /\ buffers = <<>> /\ iovs = {}
    /\ used = <<>> /\ canceled = {} /\ written = {}

\* The thread of the request queue is in its event loop.
RqIdle == walk.at = "idle" /\ vq.left = 0

\* The driver makes a chain available and kicks.  QSize is an invalid head.
Submit(h) ==
    /\ h \in unused
    /\ unused' = unused \ {h}
    /\ avail' = Append(avail, h)
    /\ kicked' = TRUE
    /\ UNCHANGED <<setup, vq, walk, buffers, iovs, used, canceled, written>>

-----------------------------------------------------------------------------
(* Fetching requests. *)

\* vring_kick, virtq_dequeue_many up to its loop
vring_kick ==
    /\ RqIdle /\ kicked /\ ~vq.suspended /\ ~vq.stopped
    /\ kicked' = FALSE
    /\ vq' = [vq EXCEPT !.left = Len(avail)]
    /\ UNCHANGED <<driver, avail, walk, buffers, iovs, used, canceled, written>>

\* virtq_dequeue_many, virtq_dequeue_one: an iteration begins.  vring_kick
\* suspends the vring when virtq_dequeue_many fails.
NextHead ==
    /\ walk.at = "idle" /\ vq.left > 0
    /\ IF avail[1] >= QSize
       THEN /\ vq' = [vq EXCEPT !.left = 0, !.suspended = TRUE]
            /\ UNCHANGED <<walk, buffers>>
       ELSE /\ walk' = [NoWalk EXCEPT !.at = "chain", !.head = avail[1],
                                      !.idx = avail[1]]
            /\ buffers' = <<>>
            /\ UNCHANGED vq
    /\ UNCHANGED <<driver, avail, kicked, iovs, used, canceled, written>>

\* walk_chain or walk_indirect_table fails: queue_broken, and vring_kick.
Broken ==
    /\ vq' = [vq EXCEPT !.broken = TRUE, !.left = 0, !.suspended = TRUE]
    /\ walk' = NoWalk
    /\ UNCHANGED buffers

\* map_buffer, add_buffer succeed.
map_buffer(d) == d.maps /\ Len(buffers) # MaxChain

\* (mutant) The buffers that do not fit are left out.
MapAndFollowTruncated(d, n) ==
    \/ /\ ~d.maps \/ (d.next /\ d.to >= n)
       /\ Broken
    \/ /\ d.maps /\ (d.next => d.to < n)
       /\ buffers' = IF Len(buffers) = MaxChain THEN buffers
                     ELSE Append(buffers, d.buf)
       /\ walk' = IF d.next THEN [walk EXCEPT !.idx = d.to]
                  ELSE [walk EXCEPT !.at = "handle"]
       /\ UNCHANGED vq

\* The rest of an iteration of either loop, for a table of n descriptors.
MapAndFollow(d, n) ==
    \/ /\ ~map_buffer(d)
       /\ Broken
    \/ /\ map_buffer(d) /\ d.next /\ d.to >= n
       /\ Broken
    \/ /\ map_buffer(d) /\ (d.next => d.to < n)
       /\ buffers' = Append(buffers, d.buf)
       /\ walk' = IF d.next THEN [walk EXCEPT !.idx = d.to]
                  ELSE [walk EXCEPT !.at = "handle"]
       /\ UNCHANGED vq

\* (mutant) An indirect descriptor may have a next one, which is ignored.
IndirectRefusedLess(d) ==
    d.buf.len = 0 \/ d.buf.len % 16 # 0 \/ ~d.maps

\* walk_chain and walk_indirect_table refuse the descriptor of a table.
IndirectRefused(d) ==
    d.next \/ d.buf.len = 0 \/ d.buf.len % 16 # 0 \/ ~d.maps

walk_chain ==
    /\ walk.at = "chain"
    /\ LET d == desc[walk.idx]
       IN  \/ /\ d.indirect /\ IndirectRefused(d)
              /\ Broken
           \/ /\ d.indirect /\ ~IndirectRefused(d)
              /\ walk' = [walk EXCEPT !.at = "table", !.idx = 0,
                                      !.table = d.table]
              /\ UNCHANGED <<vq, buffers>>
           \/ /\ ~d.indirect
              /\ MapAndFollow(d, QSize)
    /\ UNCHANGED <<driver, avail, kicked, iovs, used, canceled, written>>

walk_indirect_table ==
    /\ walk.at = "table"
    /\ LET d == walk.table[walk.idx + 1]
       IN  IF d.indirect THEN Broken ELSE MapAndFollow(d, Len(walk.table))
    /\ UNCHANGED <<driver, avail, kicked, iovs, used, canceled, written>>

-----------------------------------------------------------------------------
(* Handling and completing them. *)

Outcome(iov) ==
    IF dev.kind = "blk" THEN handle_buffers(dev, iov) ELSE Fs!handle_buffers(iov)

\* virtq_push
virtq_push(h, status) == used' = Append(used, [head |-> h, status |-> status])

\* abort_request, complete_req, or dispatch to vhd_enqueue_block_request
Handled(h, o) ==
    IF o.op = "dispatch"
    THEN /\ iovs' = iovs \cup {[head |-> h, iov |-> buffers, at |-> "queued"]}
         /\ UNCHANGED used
    ELSE /\ virtq_push(h, o.status)
         /\ UNCHANGED iovs

\* virtq_dequeue_one calls handle_buffers_cb and advances vq->last_avail.
HandleBuffers ==
    /\ walk.at = "handle"
    /\ LET o == Outcome(buffers)
       IN  /\ Handled(walk.head, o)
           /\ written' = written \cup {<<walk.head, i>> :
                                         i \in WrittenAtOnce(buffers, o)}
    /\ avail' = Tail(avail)
    /\ vq' = [vq EXCEPT !.left = @ - 1]
    /\ walk' = NoWalk /\ buffers' = <<>>
    /\ UNCHANGED <<driver, kicked, canceled>>

\* The backend takes a request from the queue.
vhd_dequeue_request(r) ==
    /\ RqIdle /\ r \in iovs /\ r.at = "queued"
    /\ iovs' = (iovs \ {r}) \cup {[r EXCEPT !.at = "backend"]}
    /\ UNCHANGED <<driver, avail, kicked, vq, walk, buffers, used, canceled,
                   written>>

\* The buffers of a request that the backend and its completion write.
Answer(r) ==
    IF dev.kind = "fs" THEN Fs!OutBufs(r.iov)
    ELSE {Len(r.iov)} \cup
         IF r.iov[1].hdr.type = "IN" THEN DataBufs(r.iov) ELSE {}

PushAll(R, result) ==
    used' = used \o SetToSeq({[head |-> r.head,
                               status |-> IF dev.kind = "fs" THEN "none"
                                          ELSE translate_status(result)]
                              : r \in R})

\* (mutant) Canceled requests are pushed like any other.
complete_io_always(R, result) ==
    /\ PushAll(R, result)
    /\ written' = written \cup UNION {{r.head} \X Answer(r) : r \in R}
    /\ canceled' = IF result = "CANCELED"
                   THEN canceled \cup {r.head : r \in R} ELSE canceled

\* complete_io, complete_request, of each request of R
complete_io(R, result) ==
    IF result = "CANCELED"
    THEN /\ canceled' = canceled \cup {r.head : r \in R}
         /\ UNCHANGED <<used, written>>
    ELSE /\ PushAll(R, result)
         /\ written' = written \cup UNION {{r.head} \X Answer(r) : r \in R}
         /\ UNCHANGED canceled

\* The backend is done with a request, and rq_complete_bh reports it.
rq_complete_bh(r, result) ==
    /\ RqIdle /\ r \in iovs /\ r.at = "backend"
    /\ iovs' = iovs \ {r}
    /\ complete_io({r}, result)
    /\ UNCHANGED <<driver, avail, kicked, vq, walk, buffers>>

\* vring_stop_bh of a device that disconnects: no more kicks are handled, and
\* vhd_cancel_queued_requests completes some of the queued requests, the first
\* one among them (RequestQueue has which).
vring_stop_bh ==
    /\ RqIdle /\ ~vq.stopped
    /\ vq' = [vq EXCEPT !.stopped = TRUE]
    /\ LET queued == {r \in iovs : r.at = "queued"}
       IN  \E R \in SUBSET queued :
             /\ queued # {} => R # {}
             /\ iovs' = iovs \ R
             /\ complete_io(R, "CANCELED")
    /\ UNCHANGED <<driver, avail, kicked, walk, buffers>>

Rq == vring_kick \/ NextHead \/ walk_chain \/ walk_indirect_table \/ HandleBuffers

Backend ==
    \E r \in iovs : \/ vhd_dequeue_request(r)
                    \/ \E result \in {"SUCCESS", "IOERR"} : rq_complete_bh(r, result)

Next ==
    \/ \E h \in unused : Submit(h)
    \/ Rq
    \/ Backend
    \/ vring_stop_bh

Spec == Init /\ [][Next]_vars

\* The event loop runs handlers that are ready, and the backend completes what
\* it is given.
FairSpec == Spec /\ WF_vars(Rq) /\ WF_vars(Backend)

-----------------------------------------------------------------------------
(* Properties. *)

Descs(n) == 0 .. n - 1

\* The buffers along a path of descriptors of a table t (a function on Descs(n)),
\* from the descriptor `first' to one without a next.
Paths(t, n, first, len) ==
    {[i \in 1 .. len |-> t[p[i]].buf] :
       p \in {q \in [1 .. len -> Descs(n)] :
                /\ q[1] = first
                /\ \A i \in 1 .. len : /\ ~t[q[i]].indirect /\ t[q[i]].maps
                                       /\ t[q[i]].next <=> i < len
                                       /\ i < len => t[q[i]].to = q[i + 1]}}

\* Paths through the ring's descriptors to one that refers to a table.
ToTable(first, len) ==
    {p \in [1 .. len + 1 -> Heads] :
       /\ p[1] = first
       /\ \A i \in 1 .. len : /\ ~desc[p[i]].indirect /\ desc[p[i]].maps
                              /\ desc[p[i]].next /\ desc[p[i]].to = p[i + 1]
       /\ LET d == desc[p[len + 1]]
          IN  /\ d.indirect /\ d.maps /\ ~d.next
              /\ d.buf.len # 0 /\ d.buf.len % 16 = 0}

Indirect(first, len) ==
    UNION {LET t == desc[p[Len(p)]].table
               m == Len(p) - 1
           IN  {[i \in 1 .. m |-> desc[p[i]].buf] \o s :
                  s \in Paths([k \in Descs(Len(t)) |-> t[k + 1]], Len(t), 0,
                              len - m)}
           : p \in UNION {ToTable(first, k) : k \in 0 .. len - 1}}

\* The buffers that the chain of head h describes: one sequence, or none when
\* the chain is malformed or too long.
Described(h) ==
    UNION {Paths(desc, QSize, h, len) \cup Indirect(h, len) : len \in 1 .. MaxChain}

-----------------------------------------------------------------------------

\* The state is well typed: the buffers fit the array that virtio_virtq_init
\* allocates (add_buffer), and the requests fetched in one go are in the ring.
TypeOK ==
    /\ setup \in Setups
    /\ unused \subseteq Heads \cup {QSize}
    /\ \A i \in DOMAIN avail : avail[i] \in (Heads \cup {QSize}) \ unused
    /\ kicked \in BOOLEAN
    /\ vq \in [broken : BOOLEAN, suspended : BOOLEAN, stopped : BOOLEAN,
               left : 0 .. Len(avail)]
    /\ walk.at \in {"idle", "chain", "table", "handle"}
    /\ Len(buffers) <= MaxChain
    /\ canceled \subseteq Heads

\* walk_chain and walk_indirect_table read what the driver wrote: a request is
\* handed to handle_buffers with exactly the buffers its chain describes, direct
\* or through a table, and the queue is only marked broken by a chain that
\* describes none.
WalkCorrect ==
    /\ walk.at = "handle" => Described(walk.head) = {buffers}
    /\ vq.broken => Described(avail[1]) = {}

\* The requests a disk's backend is given stay inside the device and do not
\* write to a read-only one (is_valid_req, handle_inout).  This leaves out
\* requests longer than the whole device: for those the subtraction at
\* virtio_blk.c:123 wraps.
InDevice ==
    \A r \in iovs :
        LET hdr == r.iov[1].hdr
            total == DataLen(r.iov) \div SectorSize
        IN  dev.kind = "blk" =>
                /\ total > 0
                /\ total <= dev.capacity => hdr.sector + total <= dev.capacity
                /\ dev.readonly => hdr.type = "IN"

\* Whatever the chain looks like, the device writes only to buffers that the
\* driver marked writable: the status, the serial number, the data of a read,
\* the answer of the filesystem.
WritesWritable ==
    \A w \in written : \A b \in Described(w[1]) : b[w[2]].write

\* A request made available is in one place: in the ring, dispatched, returned
\* to the driver or canceled.  In particular it is returned at most once, and
\* not at all once canceled (complete_io): the next incarnation of the backend
\* will find it in the inflight region.
AnsweredOnce ==
    LET In(S, h) == Cardinality({x \in S : x = h})
        Returned(h) == Cardinality({i \in DOMAIN used : used[i].head = h})
        Dispatched(h) == Cardinality({r \in iovs : r.head = h})
    IN  \A h \in setup.heads \ {QSize} :
            In(unused, h) + In(ToSet(avail), h) + Dispatched(h) + Returned(h)
              + In(canceled, h) = 1

\* Every walk ends, even on a chain that loops: a request is answered, unless
\* the vring is suspended or stopped before it was fetched; and a dispatched
\* request is always returned or canceled.
Answered ==
    \A h \in Heads :
        LET done == h \in canceled \/ \E i \in DOMAIN used : used[i].head = h
        IN  /\ (h \in ToSet(avail)) ~> (done \/ vq.suspended \/ vq.stopped)
            /\ (\E r \in iovs : r.head = h) ~> done

=============================================================================
