--------------------------- MODULE PlatformMemory ---------------------------
(***************************************************************************)
(* The physical memory description of the device tree made canonical       *)
(* (src/os/dtb/src/memory.rs) and admitted by the kernel                   *)
(* (src/os/kernel/src/board.rs): RAM, permanent reservations, the subset   *)
(* that must not be mapped, the kernel direct map, the device tree itself  *)
(* and the BootPackage window.                                             *)
(*                                                                         *)
(* Addresses are 0 .. Top (u64), a page has Page of them; a range is half  *)
(* open.  The ghost sets ram, kept and holes record, page by page, what    *)
(* the tuples of the tree said.                                            *)
(***************************************************************************)
EXTENDS Integers, Sequences, FiniteSets, TLC

CONSTANTS Top, Page, MaxMemories, MaxReservations

VARIABLES phase, memories, reservations, no_map, direct, dtb, package, ram, kept, holes
vars == <<phase, memories, reservations, no_map, direct, dtb, package, ram, kept, holes>>

Address == 0 .. Top
R(a, b) == [start |-> a, end |-> b]
None == R(0, 0)
Pages(r) == {x \in Address : r.start <= x * Page /\ x * Page < r.end}
PagesOf(s) == UNION {Pages(s[i]) : i \in DOMAIN s}

align_down(v) == v - (v % Page)

\* Both alignments are checked: an address above Top is an overflow.
align_up(v) == align_down(v + Page - 1)
Overflows(a, size) == a + size > Top \/ a + size + Page - 1 > Top

\* normalize_memory keeps whole pages only.
normalize_memory(a, size) == R(align_up(a), align_down(a + size))

\* normalize_reservation covers every page it touches.
normalize_reservation(a, size) == R(align_down(a), align_up(a + size))

\* page_cover of board.rs.
page_cover(a, len) == R(align_down(a), align_up(a + len))

Sorted(s) == SortSeq(s, LAMBDA x, y : x.start < y.start)

\* normalize_memories: adjacent ranges join, overlapping ones are an error.
Overlap(s) == \E i, j \in DOMAIN s : i # j /\ s[i].start < s[j].end /\ s[j].start < s[i].end

\* normalize_reservations: one pass over the sorted ranges.
Joined(out, r) ==
  IF out # <<>> /\ r.start <= out[Len(out)].end
  THEN [out EXCEPT ![Len(out)].end = IF @ < r.end THEN r.end ELSE @] ELSE Append(out, r)

RECURSIVE Normal(_, _)
Normal(out, s) == IF s = <<>> THEN out ELSE Normal(Joined(out, Head(s)), Tail(s))
normalize(s) == Normal(<<>>, Sorted(s))

Least(a, b) == IF a < b THEN a ELSE b
Greatest(a, b) == IF a < b THEN b ELSE a

\* build_direct_map_regions: [0, end) without the holes.
RECURSIVE build_direct_map(_, _, _)
build_direct_map(cursor, s, end) ==
  IF s = <<>> \/ cursor = end
  THEN IF cursor < end THEN <<R(cursor, end)>> ELSE <<>>
  ELSE LET at == Least(Head(s).start, end) IN
       (IF cursor < at THEN <<R(cursor, at)>> ELSE <<>>)
         \o build_direct_map(Greatest(cursor, Least(Head(s).end, end)), Tail(s), end)

\* contains_range.
contains(s, r) == \E i \in DOMAIN s : s[i].start <= r.start /\ r.end <= s[i].end
overlaps(x, y) == x.start < y.end /\ y.start < x.end

-----------------------------------------------------------------------------
Init == /\ phase = "memory"
        /\ memories = <<>> /\ reservations = <<>> /\ no_map = <<>> /\ direct = <<>>
        /\ dtb = None /\ package = None
        /\ ram = {} /\ kept = {} /\ holes = {}

Reject == phase' = "rejected" /\ UNCHANGED <<memories, reservations, no_map, direct, dtb, package, ram, kept, holes>>

\* One tuple of an available memory node.
memory_reg(a, size) ==
  /\ phase = "memory"
  /\ \E r \in {normalize_memory(a, size)} :
       IF a + size > Top \/ a + Page - 1 > Top \/ r.start >= r.end \/ Len(memories) = MaxMemories THEN Reject
       ELSE /\ memories' = Append(memories, r)
            /\ ram' = ram \cup {x \in Address : a <= x * Page /\ x * Page + Page <= a + size}
            /\ UNCHANGED <<phase, reservations, no_map, direct, dtb, package, kept, holes>>

memory_done ==
  /\ phase = "memory"
  /\ IF memories = <<>> \/ Overlap(memories) THEN Reject
     ELSE /\ memories' = normalize(memories)
          /\ phase' = "reserve"
          /\ UNCHANGED <<reservations, no_map, direct, dtb, package, ram, kept, holes>>

\* A tuple of the reservation block or of a static reserved-memory child.
reserve_reg(a, size, hidden) ==
  /\ phase = "reserve"
  /\ IF size = 0 \/ Overflows(a, size) \/ Len(reservations) = MaxReservations THEN Reject
     ELSE LET touched == {x \in Address : x * Page < a + size /\ a < x * Page + Page} IN
          /\ reservations' = Append(reservations, normalize_reservation(a, size))
          /\ no_map' = IF hidden THEN Append(no_map, normalize_reservation(a, size)) ELSE no_map
          /\ kept' = kept \cup touched
          /\ holes' = IF hidden THEN holes \cup touched ELSE holes
          /\ UNCHANGED <<phase, memories, direct, dtb, package, ram>>

\* A reusable, dynamic or malformed reservation is refused.
reserve_unsupported == phase = "reserve" /\ Reject

reserve_done ==
  /\ phase = "reserve"
  /\ reservations' = normalize(reservations)
  /\ no_map' = normalize(no_map)
  /\ phase' = "board"
  /\ UNCHANGED <<memories, direct, dtb, package, ram, kept, holes>>

\* parse_memory: the direct map, the device tree and the package window.
parse_memory(a, len, window) ==
  /\ phase = "board"
  /\ \E regions \in {build_direct_map(0, no_map, memories[Len(memories)].end)},
        tree \in {page_cover(a, len)}, cover \in {page_cover(window.start, window.end - window.start)} :
       IF \/ regions = <<>> \/ Overflows(a, len)
          \/ ~contains(memories, tree) \/ ~contains(regions, tree)
          \/ window # None /\ ~(contains(memories, cover) /\ contains(regions, cover))
       THEN Reject
       ELSE /\ direct' = regions /\ dtb' = tree /\ package' = window
            /\ phase' = IF window = None THEN "ready" ELSE "package"
            /\ UNCHANGED <<memories, reservations, no_map, ram, kept, holes>>

\* set_boot_package_len: the window is narrowed to the inspected length.
set_boot_package_len(actual) ==
  /\ phase = "package"
  /\ \E r \in {page_cover(package.start, actual)} :
       IF \/ actual = 0 \/ actual > package.end - package.start
          \/ ~contains(memories, r) \/ overlaps(dtb, r)
          \/ \E i \in DOMAIN reservations : overlaps(reservations[i], r) THEN Reject
       ELSE /\ package' = [package EXCEPT !.end = package.start + actual]
            /\ phase' = "ready"
            /\ UNCHANGED <<memories, reservations, no_map, direct, dtb, ram, kept, holes>>

Next ==
  \/ \E a \in Address, size \in Address :
       \/ memory_reg(a, size)
       \/ \E hidden \in BOOLEAN : reserve_reg(a, size, hidden)
  \/ memory_done \/ reserve_unsupported \/ reserve_done
  \/ \E a \in {Page, 2 * Page + 1} : \E w \in {None, R(Page + 1, 3 * Page), R(3 * Page, 4 * Page)} :
       parse_memory(a, 1, w)
  \/ \E actual \in {0, 1, Page, Top} : set_boot_package_len(actual)

Spec == Init /\ [][Next]_vars

-----------------------------------------------------------------------------
\* The canonical lists say exactly what the tuples said, however those were
\* ordered, overlapped or split: RAM is the pages lying wholly in a tuple,
\* reservations and holes the pages any tuple touches, and each list is sorted
\* with a gap between neighbours.
ListsExact ==
  phase \in {"board", "package", "ready"} =>
    /\ PagesOf(memories) = ram /\ PagesOf(reservations) = kept /\ PagesOf(no_map) = holes
    /\ \A s \in {memories, reservations, no_map} :
         \A i \in 1 .. Len(s) - 1 : s[i].start < s[i].end /\ s[i].end < s[i + 1].start

\* The direct map is everything below the end of RAM except the holes and fits
\* its array; the device tree lies in mapped RAM and the package that boots in
\* RAM that nobody keeps and the tree does not use.
PlacementSafe ==
  phase \in {"package", "ready"} =>
    /\ PagesOf(direct) = {x \in Address : \E y \in ram : x <= y} \ holes
    /\ Len(direct) <= MaxReservations + 1
    /\ Pages(dtb) \subseteq ram \ holes
    /\ phase = "ready" /\ package # None =>
         Pages(page_cover(package.start, package.end - package.start)) \subseteq ram \ (kept \cup Pages(dtb))
=============================================================================
