------------------------------- MODULE MemMap -------------------------------
(***************************************************************************)
(* A map of the guest memory (memmap.c): the slots the client describes,   *)
(* their mapping in this process, the callbacks that let the backend       *)
(* register mapped memory, and the translation of guest and client         *)
(* addresses.  mmap, munmap and the callbacks may fail.                    *)
(***************************************************************************)
EXTENDS MemLog, Sequences, SequencesExt, FiniteSets

CONSTANTS
    Gpa, Uva, Size,     \* what the client asks for
    Ptr,                \* aligned addresses that mmap may find free
    HugePage,           \* HUGE_PAGE_SIZE
    SlotsMax            \* VHD_RAM_SLOTS_MAX

PageSize == LogPage     \* both are 4096

NULL == -1              \* a null pointer, and TRANSLATION_FAILED

ASSUME MemMapAssumption ==
    /\ Gpa \cup Uva \subseteq 0 .. Wrap - 1
    /\ HugePage \in Nat \ {0} /\ SlotsMax \in Nat
    \* slots are made of whole pages
    /\ Size \subseteq 0 .. Wrap - 1 /\ \A n \in Size : n % PageSize = 0
    /\ Ptr \subseteq Nat /\ \A p \in Ptr : p >= PageSize /\ p % HugePage = 0

VARIABLES
    live,       \* the map is allocated
    regions,    \* mm->regions[0 .. mm->num - 1]
    mapped,     \* addresses of this process that are mapped, guard pages
                \* included
    registered  \* (ptr, length) the backend has been given by map_cb and not
                \* been asked to give up by unmap_cb

vars == <<live, regions, mapped, registered>>

Region == [gpa : Gpa, uva : Uva, ptr : Ptr, size : Size]

\* VHD_ALIGN_PTR_UP(len, HUGE_PAGE_SIZE)
Aligned(len) == ((len + HugePage - 1) \div HugePage) * HugePage

-----------------------------------------------------------------------------
(* Translation. *)

\* The first region of s that fits, or none.
FirstRegion(s, Fits(_)) == SelectInSeq(s, Fits)

\* (mutant) The byte after a region belongs to it.
uva_to_ptr_past(s, uva) ==
    LET i == FirstRegion(s, LAMBDA r : uva >= r.uva /\ uva - r.uva <= r.size)
    IN  IF i = 0 THEN NULL ELSE s[i].ptr + (uva - s[i].uva)

uva_to_ptr(s, uva) ==
    LET i == FirstRegion(s, LAMBDA r : uva >= r.uva /\ uva - r.uva < r.size)
    IN  IF i = 0 THEN NULL ELSE s[i].ptr + (uva - s[i].uva)

ptr_to_gpa(s, ptr) ==
    LET i == FirstRegion(s, LAMBDA r : ptr >= r.ptr /\ ptr < r.ptr + r.size)
    IN  IF i = 0 THEN NULL ELSE (ptr - s[i].ptr) + s[i].gpa

\* (mutant) Only the start of the range is looked up.
gpa_to_ptr(s, gpa, len) ==
    LET i == FirstRegion(s, LAMBDA r : gpa >= r.gpa /\ gpa - r.gpa < r.size)
    IN  IF i = 0 THEN NULL ELSE s[i].ptr + (gpa - s[i].gpa)

gpa_range_to_ptr(s, gpa, len) ==
    LET i == FirstRegion(s, LAMBDA r : gpa >= r.gpa /\ gpa - r.gpa < r.size)
    IN  IF i = 0 \/ len > s[i].size \/ gpa - s[i].gpa + len > s[i].size
        THEN NULL ELSE s[i].ptr + (gpa - s[i].gpa)

vhd_mark_range_dirty(s, ptr, len) ==
    LET gpa == ptr_to_gpa(s, ptr)
    IN  IF gpa = NULL THEN {} ELSE vhd_mark_gpa_range_dirty(gpa, len)

-----------------------------------------------------------------------------
(* Mapping. *)

\* What map_memory leaves mapped for len bytes at ptr: a guard page, the bytes
\* up to a multiple of the huge page, a guard page.
Mapping(ptr, len) == (ptr - PageSize) .. (ptr + Aligned(len) + PageSize - 1)

\* (mutant) As many pages as map_memory reserved are unmapped.
unmap_memory_long(ptr, len) ==
    mapped \ ((ptr - PageSize) .. (ptr + Aligned(len) + HugePage - 1))

unmap_memory(ptr, len) == mapped \ Mapping(ptr, len)

\* map_region, when it succeeds
MapRegion(r) ==
    /\ mapped \cap Mapping(r.ptr, r.size) = {}
    /\ r.size # 0
    /\ mapped' = mapped \cup Mapping(r.ptr, r.size)
    /\ registered' = registered \cup {<<r.ptr, Aligned(r.size)>>}

\* map_cb refuses the memory: its pages are unmapped, but neither the guard
\* pages nor the rest of the last huge page.
MapRegionRefused(r) ==
    /\ mapped \cap Mapping(r.ptr, r.size) = {}
    /\ r.size # 0
    /\ mapped' = (mapped \cup Mapping(r.ptr, r.size))
                 \ (r.ptr .. r.ptr + r.size - 1)
    /\ UNCHANGED registered

Registered(r) == <<r.ptr, Aligned(r.size)>>

\* unmap_region: unmap_cb may refuse, then munmap may fail.
UnmapRegion(r) ==
    \/ UNCHANGED <<mapped, registered>>
    \/ /\ registered' = registered \ {Registered(r)}
       /\ mapped' \in {mapped, unmap_memory(r.ptr, r.size)}

Unmapped(r) == mapped' = unmap_memory(r.ptr, r.size) /\ mapped' # mapped

-----------------------------------------------------------------------------
(* The interface. *)

vhd_memmap_new ==
    /\ ~live
    /\ live' = TRUE /\ regions' = <<>>
    /\ UNCHANGED <<mapped, registered>>

Intersects(r, q) ==
    ~ \/ q.gpa + q.size <= r.gpa \/ r.gpa + r.size <= q.gpa
      \/ q.uva + q.size <= r.uva \/ r.uva + r.size <= q.uva

\* The checks of vhd_memmap_add_slot: neither range wraps around, there is a
\* spare slot, and no slot intersects the new one in both spaces.
Acceptable(r) ==
    /\ (r.gpa + r.size) % Wrap >= r.gpa /\ (r.uva + r.size) % Wrap >= r.uva
    /\ Len(regions) # SlotsMax
    /\ \A i \in 1 .. Len(regions) : ~Intersects(r, regions[i])

\* The search from the end for a slot with a smaller gpa: the new one follows
\* it.
Position(gpa) ==
    LET smaller == {i \in 1 .. Len(regions) : regions[i].gpa < gpa}
    IN  IF smaller = {} THEN 1
        ELSE 1 + CHOOSE i \in smaller : \A j \in smaller : j <= i

vhd_memmap_add_slot(r) ==
    /\ live /\ Acceptable(r)
    /\ \/ /\ MapRegion(r)
          /\ regions' = InsertAt(regions, Position(r.gpa), r)
       \/ /\ MapRegionRefused(r)
          /\ UNCHANGED regions
    /\ UNCHANGED live

\* A slot stays when it cannot be unmapped.
vhd_memmap_del_slot(r) ==
    /\ live /\ \E i \in 1 .. Len(regions) : regions[i] = r
    /\ UnmapRegion(r)
    /\ regions' = IF Unmapped(r)
                  THEN RemoveAt(regions, SelectInSeq(regions, LAMBDA q : q = r))
                  ELSE regions
    /\ UNCHANGED live

\* memmap_release, called with the last reference: what cannot be unmapped is
\* left behind.
memmap_release ==
    /\ live
    /\ \E end \in [ToSet(regions) -> {"unmapped", "refused", "munmap_failed"}] :
          /\ mapped' = mapped \ UNION {Mapping(r.ptr, r.size) :
                 r \in {q \in ToSet(regions) : end[q] = "unmapped"}}
          /\ registered' = registered \ {Registered(r) :
                 r \in {q \in ToSet(regions) : end[q] # "refused"}}
    /\ live' = FALSE /\ regions' = <<>>

Init == live = FALSE /\ regions = <<>> /\ mapped = {} /\ registered = {}

Next ==
    \/ vhd_memmap_new
    \/ \E r \in Region : vhd_memmap_add_slot(r)
    \/ \E r \in ToSet(regions) : vhd_memmap_del_slot(r)
    \/ memmap_release

Spec == Init /\ [][Next]_vars

-----------------------------------------------------------------------------
(* Properties. *)

TypeOK ==
    /\ live \in BOOLEAN
    /\ regions \in Seq(Region) /\ Len(regions) <= SlotsMax
    /\ mapped \subseteq Nat
    /\ registered \subseteq Ptr \X Nat

Memory(r) == r.ptr .. (r.ptr + Aligned(r.size) - 1)

\* Every slot is mapped as a whole between two guard pages of its own, so that
\* no access past its end reaches another one, whichever slots come and go and
\* whatever fails.  The memory that the backend has registered is mapped: map_cb
\* "gets called after mapping guest memory region", unmap_cb "before unmapping".
SlotsIsolated ==
    /\ \A i \in 1 .. Len(regions) :
        LET r == regions[i]
        IN  /\ Mapping(r.ptr, r.size) \subseteq mapped
            /\ \A j \in 1 .. Len(regions) \ {i} :
                   Mapping(r.ptr, r.size) \cap Memory(regions[j]) = {}
    /\ \A a \in registered : a[1] .. (a[1] + a[2] - 1) \subseteq mapped

\* A buffer that is not empty and translates lies in one slot, and what is written
\* to it is logged by the pages of the guest that the descriptor named: no page
\* is missed, none is added.
WritesLogged ==
    \A gpa \in 0 .. Wrap - 1, len \in 1 .. Wrap - 1 :
        LET ptr == gpa_range_to_ptr(regions, gpa, len)
        IN  ptr # NULL =>
              /\ \E i \in 1 .. Len(regions) :
                    ptr .. (ptr + len - 1) \subseteq
                        regions[i].ptr .. (regions[i].ptr + regions[i].size - 1)
              /\ vhd_mark_range_dirty(regions, ptr, len) =
                    DirtyBits(gpa .. (gpa + len - 1))

In(a, start, size) == start <= a /\ a < start + size

\* The ring addresses, which the client gives in its own address space, and
\* the buffer addresses, which the driver gives in guest space, lead to the
\* same memory: unless slots overlap, every address of a slot translates, to
\* the same place from either space and back.
TranslationsAgree ==
    \A i \in 1 .. Len(regions) : \A o \in 0 .. regions[i].size - 1 :
        LET r == regions[i]
            alone == \A j \in 1 .. Len(regions) \ {i} :
                        /\ ~In(r.gpa + o, regions[j].gpa, regions[j].size)
                        /\ ~In(r.uva + o, regions[j].uva, regions[j].size)
        IN  alone =>
              /\ uva_to_ptr(regions, r.uva + o) = r.ptr + o
              /\ gpa_range_to_ptr(regions, r.gpa + o, r.size - o) = r.ptr + o
              /\ ptr_to_gpa(regions, r.ptr + o) = r.gpa + o

\* "check for intersection with existing slots" (vhd_memmap_add_slot): a guest
\* address is in one slot at most.
SlotsDisjoint ==
    \A i, j \in 1 .. Len(regions) : i # j =>
        (regions[i].gpa .. (regions[i].gpa + regions[i].size - 1))
        \cap (regions[j].gpa .. (regions[j].gpa + regions[j].size - 1)) = {}
=============================================================================
