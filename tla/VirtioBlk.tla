----------------------------- MODULE VirtioBlk -----------------------------
(***************************************************************************)
(* What virtio_blk.c does with a request: handle_buffers decides, from the *)
(* buffers of its descriptor chain, whether the request is aborted,        *)
(* completed at once or dispatched to the backend.                         *)
(*                                                                         *)
(* A buffer has a length, a direction (write: the device may only write    *)
(* it) and, when it holds a request header, the type and the sector there. *)
(* The driver leaves the buffers it made available alone.                  *)
(***************************************************************************)
EXTENDS Integers, Sequences, FiniteSetsExt

CONSTANT SectorWrap     \* sector numbers count modulo this (2^64 in the code)

ASSUME BlkAssumption == SectorWrap \in Nat \ {0}

SectorSize == 512       \* VIRTIO_BLK_SECTOR_SIZE
HdrSize == 16           \* sizeof(struct virtio_blk_req_hdr)
DiskIdLength == 20      \* VIRTIO_BLK_DISKID_LENGTH

\* config.capacity of a device of `blocks' physical blocks of 2^exp sectors.
\* The rest of the configuration (geometry, topology) is only shown to the driver.
virtio_blk_init_dev(blocks, exp) == (blocks * 2 ^ exp) % SectorWrap

\* (mutant) The last sector of the request is not looked at.
is_valid_req_start(sector, len, capacity) ==
    /\ len # 0 /\ len % SectorSize = 0
    /\ sector < capacity

\* The subtraction is one of unsigned numbers: it wraps when the request is
\* longer than the device.
is_valid_req(sector, len, capacity) ==
    /\ len # 0 /\ len % SectorSize = 0
    /\ sector <= capacity
    /\ sector <= (capacity - len \div SectorSize) % SectorWrap

check_status_buffer(buf) == buf.len = 1 /\ buf.write

DataBufs(iov) == 2 .. Len(iov) - 1
DataLen(iov) == MapThenSumSet(LAMBDA i : iov[i].len, DataBufs(iov))

Abort == [op |-> "abort", status |-> "none"]
Complete(status) == [op |-> "complete", status |-> status]
Dispatch == [op |-> "dispatch", status |-> "none"]

\* (mutant) The direction of the data buffers is not looked at.
handle_inout_any(dev, iov) ==
    IF /\ ~(dev.readonly /\ iov[1].hdr.type = "OUT")
       /\ Len(iov) >= 3
       /\ is_valid_req(iov[1].hdr.sector, DataLen(iov), dev.capacity)
    THEN Dispatch
    ELSE Complete("IOERR")

\* dispatch is vblk_handle_request, which never fails.
handle_inout(dev, iov) ==
    IF /\ ~(dev.readonly /\ iov[1].hdr.type = "OUT")
       /\ Len(iov) >= 3
       /\ \A i \in DataBufs(iov) : iov[i].write <=> iov[1].hdr.type = "IN"
       /\ is_valid_req(iov[1].hdr.sector, DataLen(iov), dev.capacity)
    THEN Dispatch
    ELSE Complete("IOERR")

handle_getid(iov) ==
    IF Len(iov) = 3 /\ iov[2].len = DiskIdLength /\ iov[2].write
    THEN "OK"
    ELSE "IOERR"

handle_buffers(dev, iov) ==
    IF \/ ~check_status_buffer(iov[Len(iov)])
       \/ iov[1].write
       \/ iov[1].len # HdrSize
    THEN Abort
    ELSE CASE iov[1].hdr.type \in {"IN", "OUT"} -> handle_inout(dev, iov)
           [] iov[1].hdr.type = "GET_ID" -> Complete(handle_getid(iov))
           [] OTHER -> Complete("UNSUPP")

translate_status(result) == IF result = "SUCCESS" THEN "OK" ELSE "IOERR"

\* The buffers that handle_buffers writes when it completes a request at once:
\* the status, and the serial number for GET_ID.
WrittenAtOnce(iov, outcome) ==
    IF outcome.op # "complete" THEN {}
    ELSE {Len(iov)} \cup
         IF iov[1].hdr.type = "GET_ID" /\ outcome.status = "OK" THEN {2} ELSE {}

=============================================================================
