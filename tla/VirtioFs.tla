------------------------------ MODULE VirtioFs ------------------------------
(***************************************************************************)
(* What virtio_fs.c does with a request: handle_buffers checks that the    *)
(* descriptor chain is a run of readable buffers followed by a run of      *)
(* writable ones, each beginning with a header, and dispatches it.  The    *)
(* second run is absent from requests that have no answer (FUSE_FORGET).   *)
(***************************************************************************)
EXTENDS Integers, Sequences

InHdrSize == 40         \* sizeof(struct virtio_fs_in_header)
OutHdrSize == 16        \* sizeof(struct virtio_fs_out_header)

\* The readable buffers that the chain begins with.
InBufs(iov) == {i \in DOMAIN iov : \A j \in 1 .. i : ~iov[j].write}
OutBufs(iov) == DOMAIN iov \ InBufs(iov)

IsFirst(i, S) == i \in S /\ \A j \in S : i <= j

\* dispatch is vfs_handle_request, which never fails.
handle_buffers(iov) ==
    IF /\ ~iov[1].write /\ iov[1].len >= InHdrSize
       /\ \A i \in OutBufs(iov) :
             /\ iov[i].write
             /\ IsFirst(i, OutBufs(iov)) => iov[i].len >= OutHdrSize
    THEN [op |-> "dispatch", status |-> "none"]
    ELSE [op |-> "abort", status |-> "none"]

=============================================================================
