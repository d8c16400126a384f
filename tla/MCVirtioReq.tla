---------------------------- MODULE MCVirtioReq ----------------------------
(***************************************************************************)
(* An instance of VirtioReq for TLC: two descriptors, chains of up to four *)
(* buffers.  Some of the set-ups vary how descriptors are linked, some the *)
(* buffers of one request, and some have two requests and an invalid head. *)
(***************************************************************************)
EXTENDS VirtioReq

NoHdr == [type |-> "none", sector |-> 0]
Buf(len, write) == [len |-> len, write |-> write, hdr |-> NoHdr]
Hdr(type, sector) ==
    [len |-> HdrSize, write |-> FALSE, hdr |-> [type |-> type, sector |-> sector]]

Plain(buf) == [buf |-> buf, maps |-> TRUE, next |-> FALSE, to |-> 0,
               indirect |-> FALSE, table |-> <<>>]
Link(d, to) == [d EXCEPT !.next = TRUE, !.to = to]
Unmapped(d) == [d EXCEPT !.maps = FALSE]
Table(t) == [Plain(Buf(16 * Len(t), FALSE)) EXCEPT !.indirect = TRUE, !.table = t]
BadLength(d, len) == [d EXCEPT !.buf.len = len]

\* A table of descriptors linked one after the other.
Chained(iov) ==
    Table([i \in DOMAIN iov |->
             IF i < Len(iov) THEN Link(Plain(iov[i]), i) ELSE Plain(iov[i])])

Status == Buf(1, TRUE)
Read == <<Hdr("IN", 0), Buf(512, TRUE), Status>>

\* How descriptors are linked, for descriptors of n, with an empty buffer so
\* that nothing but the links matters.
Links(n) ==
    LET d == Plain(Buf(0, TRUE))
    IN  {d, Unmapped(d)} \cup {Link(d, to) : to \in 0 .. n}

Nested == Table(<<Plain(Buf(0, TRUE))>>)

Indirects ==
    {Table(<<a, b>>) : a, b \in Links(2) \cup {Nested}}
      \cup {Link(Nested, 0), Unmapped(Nested), BadLength(Nested, 0),
            BadLength(Nested, 24)}

\* The buffers of requests.
BlkHdrs == {Hdr(t, s) : t \in {"IN", "OUT"}, s \in 0 .. 3}
             \cup {Hdr("GET_ID", 0), Hdr("FLUSH", 0), Buf(16, TRUE), Buf(8, FALSE)}
Data == {Buf(512, TRUE), Buf(512, FALSE), Buf(1024, TRUE), Buf(100, TRUE),
         Buf(0, TRUE), Buf(20, TRUE)}
BlkIovs == {<<h>> \o d \o s : h \in BlkHdrs, d \in SeqOf(Data, 2),
                              s \in {<<Status>>, <<Buf(1, FALSE)>>, <<>>}}

FsBufs == {Buf(40, FALSE), Buf(8, FALSE), Buf(16, TRUE), Buf(8, TRUE)}
FsIovs == SeqOf(FsBufs, 4) \ {<<>>}

Disk(readonly) == [kind |-> "blk", readonly |-> readonly,
                   capacity |-> virtio_blk_init_dev(1, 1)]
FsDev == [kind |-> "fs", readonly |-> FALSE, capacity |-> 0]

Setup(d, d0, d1, heads) ==
    [dev |-> d, desc |-> 0 :> d0 @@ 1 :> d1, heads |-> heads]

Linked == {Setup(Disk(FALSE), a, b, {0, 1}) :
             a \in Links(2), b \in Links(2) \cup Indirects}
Framed == {Setup(Disk(readonly), Chained(iov), Nested, {0}) :
             readonly \in BOOLEAN, iov \in BlkIovs}
            \cup {Setup(FsDev, Chained(iov), Nested, {0}) : iov \in FsIovs}
Two == {Setup(Disk(FALSE), Chained(iov), Chained(Read), {0, 1, 2}) :
          iov \in {Read, <<Hdr("FLUSH", 0), Status>>, <<Status>>}}

MCSetups == Linked \cup Framed \cup Two

=============================================================================
