----------------------------- MODULE SupplyPlan -----------------------------
(***************************************************************************)
(* The boot-time planner of physical memory (memory_supply) and its caller *)
(* (frame::init): what the firmware and the boot hold is cut out of the    *)
(* managed ranges, the metadata of the inventory, the kernel heap chunks   *)
(* and the recovery tickets are placed first fit, and the rest becomes the *)
(* free user inventory.  Addresses count pages; a range is <<start, end>>, *)
(* half open.                                                              *)
(***************************************************************************)
EXTENDS Naturals, Sequences, FiniteSets, SequencesExt, FiniteSetsExt

CONSTANTS
    Memories,       \* lists of managed ranges
    Reservations,   \* lists of ranges: platform and kernel image, or held by the boot
    Metadata,       \* pages of inventory metadata
    HeapChunk,      \* pages of one chunk, a power of two
    HeapChunks, RecoveryTickets,
    MaxRanges       \* capacity of a range buffer

VARIABLES input, plan, heap_next, recovery_next

vars == <<input, plan, heap_next, recovery_next>>

NoPlan == [verdict |-> "none"]

Init ==
    /\ input \in [managed : Memories, permanent : Reservations, boot_held : Reservations]
    /\ plan = NoPlan /\ heap_next = 0 /\ recovery_next = 0

Least(a, b) == Min({a, b})
Greatest(a, b) == Max({a, b})

-----------------------------------------------------------------------------
(* Range buffers.                                                          *)

sort(ranges) == SortSeq(ranges, LAMBDA r, s : r[1] < s[1])

Join(out, r) ==
    IF out # <<>> /\ r[1] <= Last(out)[2]
    THEN [out EXCEPT ![Len(out)] = <<@[1], Greatest(@[2], r[2])>>]
    ELSE Append(out, r)

\* Sorted, with ranges that touch joined; also normalize_reservations of the caller.
normalize(ranges) == FoldLeft(Join, <<>>, sort(ranges))

bytes(ranges) == FoldLeft(LAMBDA n, r : n + (r[2] - r[1]), 0, ranges)

\* Every range cut down to the memories it meets.
clip_and_normalize_into(ranges, memories) ==
    LET cut(r, m) == <<Greatest(r[1], m[1]), Least(r[2], m[2])>>
        cuts(r) == SelectSeq([i \in DOMAIN memories |-> cut(r, memories[i])], LAMBDA c : c[1] < c[2])
    IN  normalize(FlattenSeq([i \in DOMAIN ranges |-> cuts(ranges[i])]))

\* The walk of one range over the sorted cuts: the gaps that are passed, and the cursor behind them.
Gaps(range, cuts) ==
    LET step(s, c) ==
            IF c[2] <= s.cursor \/ c[1] >= range[2] THEN s
            ELSE [gaps |-> IF s.cursor < Greatest(c[1], s.cursor) THEN Append(s.gaps, <<s.cursor, c[1]>>) ELSE s.gaps,
                  cursor |-> Least(c[2], range[2])]
        end == FoldLeft(step, [gaps |-> <<>>, cursor |-> range[1]], cuts)
    IN  IF end.cursor < range[2] THEN Append(end.gaps, <<end.cursor, range[2]>>) ELSE end.gaps

subtract_into(source, reserved) == FlattenSeq([i \in DOMAIN source |-> Gaps(source[i], reserved)])

align_up(n, alignment) == ((n + alignment - 1) \div alignment) * alignment

fit(gap, len, alignment) ==
    LET start == align_up(gap[1], alignment)
    IN  IF start + len <= gap[2] THEN {<<start, start + len>>} ELSE {}

\* First fit in the order of addresses: the place, or nothing.
place_one(memories, unavailable, len, alignment) ==
    LET gaps == subtract_into(memories, unavailable)
        good == {i \in DOMAIN gaps : fit(gaps[i], len, alignment) # {}}
    IN  IF good = {} THEN {} ELSE fit(gaps[Min(good)], len, alignment)

-----------------------------------------------------------------------------
(* plan                                                                    *)

\* The workspace, a Planner: what the inputs reserve, and nothing placed yet.
Reserved(memories, permanent, raw_boot, boot_held) ==
    [memories |-> memories, permanent |-> permanent, raw_boot |-> raw_boot, boot_held |-> boot_held,
     unavailable |-> normalize(permanent \o boot_held), verdict |-> "ok",
     metadata |-> <<>>, heap |-> <<>>, recovery |-> <<>>]
Clipped(memories, permanent, raw_boot) ==
    Reserved(memories, permanent, raw_boot, subtract_into(raw_boot, permanent))
Prepared(in, memories) ==
    Clipped(memories, clip_and_normalize_into(in.permanent, memories), clip_and_normalize_into(in.boot_held, memories))

\* One place of a class, unavailable to the next; a failure ends the plan.
Taken(s, class, verdict, place) ==
    IF s.verdict # "ok" THEN s
    ELSE IF place = {} THEN [s EXCEPT !.verdict = verdict]
    ELSE IF Len(s.unavailable) = MaxRanges THEN [s EXCEPT !.verdict = "CapacityExhausted"]
    ELSE [s EXCEPT ![class] = @ \o SetToSeq(place), !.unavailable = normalize(@ \o SetToSeq(place))]
Place(s, class, verdict, n, len, alignment) ==
    LET one(u, i) == Taken(u, class, verdict, place_one(u.memories, u.unavailable, len, alignment))
    IN  FoldLeft(one, s, [i \in 1 .. n |-> i])
Placed(s) ==
    Place(Place(Place(s, "metadata", "InsufficientMetadata", 1, Metadata, 1),
                "heap", "InsufficientHeap", HeapChunks, HeapChunk, HeapChunk),
          "recovery", "InsufficientRecovery", RecoveryTickets, 1, 1)

Overlap(ranges) == \E i \in 1 .. Len(ranges) - 1 : ranges[i][2] > ranges[i + 1][1]

\* What the planner returns; buffers hold MaxRanges.  Which of two refusals comes first is left open:
\* each of them ends the boot.
Classified(s, user_free) ==
    IF Overlap(s.memories) THEN [verdict |-> "MemoryOverlap"]
    ELSE IF \E b \in {s.memories, s.permanent, s.raw_boot, s.boot_held, s.permanent \o s.boot_held, user_free} : Len(b) > MaxRanges
         THEN [verdict |-> "CapacityExhausted"]
    ELSE IF s.verdict # "ok" THEN [verdict |-> s.verdict]
    ELSE IF bytes(s.permanent) + bytes(s.boot_held) + Metadata + HeapChunk * HeapChunks + RecoveryTickets + bytes(user_free)
            # bytes(s.memories)
         THEN [verdict |-> "ClassificationMismatch"]
    ELSE [verdict |-> "ok", permanent |-> s.permanent, boot_held |-> s.boot_held, user_free |-> user_free,
          metadata |-> s.metadata, heap |-> s.heap, recovery |-> s.recovery]
Finished(s) == Classified(s, subtract_into(s.memories, s.unavailable))
Planned(in) == Finished(Placed(Prepared(in, sort(in.managed))))

\* frame::init; anything but a plan is a panic.
init ==
    /\ plan = NoPlan
    /\ plan' = Planned(input)
    /\ UNCHANGED <<input, heap_next, recovery_next>>

\* Tickets are taken in the order of addresses and never come back.
take_heap_chunk ==
    /\ plan.verdict = "ok" /\ heap_next < HeapChunks
    /\ heap_next' = heap_next + 1
    /\ UNCHANGED <<input, plan, recovery_next>>

take_recovery_ticket ==
    /\ plan.verdict = "ok" /\ recovery_next < RecoveryTickets
    /\ recovery_next' = recovery_next + 1
    /\ UNCHANGED <<input, plan, heap_next>>

Next == init \/ take_heap_chunk \/ take_recovery_ticket

Spec == Init /\ [][Next]_vars

-----------------------------------------------------------------------------

PagesOf(ranges) == UNION {r[1] .. r[2] - 1 : r \in ToSet(ranges)}
AllParts == <<plan.permanent, plan.boot_held, plan.metadata, plan.heap, plan.recovery, plan.user_free>>
Runs(free, len, alignment) == {s \in free : s % alignment = 0 /\ s .. s + len - 1 \subseteq free}

\* A plan puts every managed page into exactly one class, whatever order and overlap the reserved
\* ranges come in: what the platform reserves is never handed out, what the boot holds is apart from
\* it, chunks are aligned to their size, and ranges of a class do not overlap.  The check of the
\* sums in the code never fails; and metadata is only refused when no run of pages would do.
PlanIsPartition ==
    /\ plan.verdict # "ClassificationMismatch"
    /\ plan.verdict = "ok" =>
          LET managed == PagesOf(input.managed)
              permanent == PagesOf(input.permanent) \cap managed
              parts == {PagesOf(AllParts[i]) : i \in 1 .. 6}
          IN  /\ UNION parts = managed
              /\ FoldLeft(LAMBDA n, p : n + bytes(p), 0, AllParts) = Cardinality(managed)
              /\ PagesOf(plan.permanent) = permanent
              /\ PagesOf(plan.boot_held) = (PagesOf(input.boot_held) \cap managed) \ permanent
              /\ \A i \in DOMAIN plan.heap : plan.heap[i][1] % HeapChunk = 0
    /\ plan.verdict = "InsufficientMetadata" =>
          LET held == PagesOf(input.permanent) \cup PagesOf(input.boot_held)
          IN  \A i \in DOMAIN input.managed : Runs(PagesOf(<<input.managed[i]>>) \ held, Metadata, 1) = {}

=============================================================================
