------------------------------- MODULE MemLog -------------------------------
(***************************************************************************)
(* The dirty-page log of memlog.c: a bitmap shared with the client, which  *)
(* reads it by bytes, while the device sets its bits by longs.  Bits are   *)
(* named as the client sees them: <<byte, bit>>.                           *)
(***************************************************************************)
EXTENDS Integers

CONSTANTS
    Wrap,       \* 2^64: addresses are taken modulo Wrap
    LogPage,    \* VHOST_LOG_PAGE
    ByteBits,   \* bits in a byte of the log
    LongBytes,  \* bytes in the long that atomic_or works on
    LogSize     \* log->size, in bytes

ASSUME MemLogAssumption ==
    /\ {Wrap, LogPage, ByteBits, LongBytes, LogSize} \subseteq Nat \ {0}
    /\ LogSize % LongBytes = 0

LongBits == ByteBits * LongBytes

\* The bit of the log that bit b of the long at log_addr[chunk] is, on a
\* little-endian machine; a big-endian one swaps the bytes of the mask.
LongBit(chunk, b) == <<chunk * LongBytes + b \div ByteBits, b % ByteBits>>

\* The do-while loop: one atomic_or for each long that the pages touch.
MarkLongs(page, last_page) ==
    UNION {{LongBit(chunk, q % LongBits) :
              q \in {r \in page .. last_page : r \div LongBits = chunk}} :
           chunk \in (page \div LongBits) .. (last_page \div LongBits)}

\* The bits set for len bytes from gpa.  Pages past the log are left out; the
\* end of an empty range at gpa 0 wraps around.
vhd_mark_gpa_range_dirty(gpa, len) ==
    LET page == gpa \div LogPage
        last_page == ((gpa + len - 1) % Wrap) \div LogPage
        pages == LogSize * ByteBits
    IN  IF last_page < pages THEN MarkLongs(page, last_page)
        ELSE IF page >= pages THEN {}
        ELSE MarkLongs(page, pages - 1)

\* docs/vhost-user.rst, "log[page / 8] |= 1 << page % 8" for the page of each
\* address.
DirtyBits(addrs) ==
    {<<(a \div LogPage) \div ByteBits, (a \div LogPage) % ByteBits>> :
        a \in {b \in addrs : b \div LogPage < LogSize * ByteBits}}
=============================================================================
