----------------------------- MODULE FramePool -----------------------------
(***************************************************************************)
(* The physical frame inventory (frame_pool): aligned arenas, each with a  *)
(* complete binary tree that records the largest order a subtree offers.   *)
(* A node that is taken whole leaves its descendants as they are, so a     *)
(* tree is full of stale values; what the inventory says is read along the *)
(* path from the root.                                                     *)
(*                                                                         *)
(* held is a ghost: the frames that are out.  Everything else is the data  *)
(* of the code, the node bytes in one metadata array included.             *)
(***************************************************************************)
EXTENDS Integers, Sequences, FiniteSets, SequencesExt, FiniteSetsExt

CONSTANTS
    Region,         \* ranges <<start, end>> of frame numbers a boot may register
    MaxArenas,
    MetadataBytes,
    MaxRun          \* frames of one request

VARIABLES arenas, metadata, free_frames, held

vars == <<arenas, metadata, free_frames, held>>

UNAVAILABLE == -1

\* FramePool::new
Init ==
    /\ arenas = <<>>
    /\ metadata = [i \in 0 .. MetadataBytes - 1 |-> UNAVAILABLE]
    /\ free_frames = 0 /\ held = {}

floor_order(n) == CHOOSE o \in 0 .. n : 2 ^ o <= n /\ n < 2 ^ (o + 1)
trailing_zeros(n) == CHOOSE o \in 0 .. n : n % (2 ^ o) = 0 /\ n % (2 ^ (o + 1)) # 0

\* The canonical decomposition of a range into aligned blocks <<base, order>>.
RECURSIVE for_each_block(_, _)
for_each_block(start, end) ==
    IF start >= end THEN <<>>
    ELSE LET length == floor_order(end - start)
             order == IF start = 0 THEN length ELSE Min({trailing_zeros(start), length})
         IN  <<<<start, order>>>> \o for_each_block(start + 2 ^ order, end)

-----------------------------------------------------------------------------
(* Trees.  Node 1 is the root of an arena, 2n and 2n + 1 the halves of n.  *)

End(a) == a.base + 2 ^ a.order
order_at(a, n) == a.order - floor_order(n)
NodeOf(a, base, order) == 2 ^ (a.order - order) + (base - a.base) \div 2 ^ order
\* From the root to the parent of n.
Above(n) == [i \in 1 .. floor_order(n) |-> n \div 2 ^ (floor_order(n) - i + 1)]
Path(n) == Append(Above(n), n)

State(m, a, n) == m[a.start + n]
set_state(m, a, n, s) == [m EXCEPT ![a.start + n] = s]
Whole(m, a, n) == State(m, a, n) = order_at(a, n)

\* Both halves whole: the node is whole; otherwise it offers what the better half does.
update_ancestors(m, a, n) ==
    FoldLeft(LAMBDA t, u :
                LET child == order_at(a, u) - 1
                    left == State(t, a, 2 * u)
                    right == State(t, a, 2 * u + 1)
                IN  set_state(t, a, u, IF left = child /\ right = child THEN child + 1 ELSE Max({left, right})),
             m, Reverse(Above(n)))

split_whole(m, a, n) ==
    IF Whole(m, a, n)
    THEN set_state(set_state(m, a, 2 * n, order_at(a, n) - 1), a, 2 * n + 1, order_at(a, n) - 1)
    ELSE m

\* Down to a block of the order that is free, left before right: the bytes and the node.
take_any(m, a, order) ==
    LET step(s, i) ==
            LET t == split_whole(s.m, a, s.n)
            IN  [m |-> t, n |-> IF State(t, a, 2 * s.n) >= order THEN 2 * s.n ELSE 2 * s.n + 1]
        end == FoldLeft(step, [m |-> m, n |-> 1], [i \in 1 .. a.order - order |-> i])
    IN  [m |-> update_ancestors(set_state(end.m, a, end.n, UNAVAILABLE), a, end.n),
         base |-> a.base + (end.n - 2 ^ (a.order - order)) * 2 ^ order]

take_at_block(m, a, base, order) ==
    LET n == NodeOf(a, base, order)
        t == FoldLeft(LAMBDA s, u : split_whole(s, a, u), m, Above(n))
    IN  update_ancestors(set_state(t, a, n, UNAVAILABLE), a, n)

\* The walk from the root ends at the first node that decides, or at the block.
Verdict(m, a, base, order) ==
    LET p == Path(NodeOf(a, base, order))
        decides == {i \in 1 .. Len(p) : Whole(m, a, p[i]) \/ State(m, a, p[i]) = UNAVAILABLE \/ i = Len(p)}
    IN  p[Min(decides)]

block_is_free(m, a, base, order) == Whole(m, a, Verdict(m, a, base, order))
block_has_free(m, a, base, order) == State(m, a, Verdict(m, a, base, order)) # UNAVAILABLE

\* Mutant: a taken node above the block is not written down to its halves.
Materialise_Not(m, a, n) == m

\* What an UNAVAILABLE node says of its halves, written down before one of them changes.
Materialise(m, a, n) ==
    IF State(m, a, n) = UNAVAILABLE
    THEN set_state(set_state(m, a, 2 * n, UNAVAILABLE), a, 2 * n + 1, UNAVAILABLE)
    ELSE m

release_block(m, a, base, order) ==
    LET n == NodeOf(a, base, order)
        t == FoldLeft(LAMBDA s, u : Materialise(s, a, u), m, Above(n))
    IN  update_ancestors(set_state(t, a, n, order), a, n)

-----------------------------------------------------------------------------
(* Ranges: cut at the ends of the arenas, each segment cut into blocks.    *)

ArenasOf(f) == {i \in DOMAIN arenas : arenas[i].base <= f /\ f < End(arenas[i])}
find_arena(f) == arenas[Min(ArenasOf(f))]
range_is_managed(start, end) == \A f \in start .. end - 1 : ArenasOf(f) # {}

RECURSIVE Segments(_, _)
Segments(start, end) ==
    IF start >= end THEN <<>>
    ELSE LET a == find_arena(start)
             stop == Min({end, End(a)})
         IN  [i \in DOMAIN for_each_block(start, stop) |-> <<a>> \o for_each_block(start, stop)[i]] \o Segments(stop, end)

range_is_free(start, end) ==
    range_is_managed(start, end) /\ \A b \in ToSet(Segments(start, end)) : block_is_free(metadata, b[1], b[2], b[3])
range_is_unavailable(start, end) ==
    range_is_managed(start, end) /\ \A b \in ToSet(Segments(start, end)) : ~block_has_free(metadata, b[1], b[2], b[3])
take_range(start, end) == FoldLeft(LAMBDA m, b : take_at_block(m, b[1], b[2], b[3]), metadata, Segments(start, end))
release_blocks(start, end) == FoldLeft(LAMBDA m, b : release_block(m, b[1], b[2], b[3]), metadata, Segments(start, end))

-----------------------------------------------------------------------------
(* The operations.                                                         *)

Used == FoldLeft(LAMBDA n, a : n + 2 * 2 ^ a.order, 0, arenas)

\* A region joins unavailable; overlap, too many arenas or too few bytes refuse it.
add_managed_region ==
    \E r \in Region :
        LET blocks == for_each_block(r[1], r[2])
            start(i) == Used + 2 * (blocks[i][1] - r[1])
        IN  /\ r[1] < r[2]
            /\ \A i \in DOMAIN arenas : ~(r[1] < End(arenas[i]) /\ arenas[i].base < r[2])
            /\ Len(arenas) + Len(blocks) <= MaxArenas
            /\ Used + 2 * (r[2] - r[1]) <= MetadataBytes
            /\ arenas' = arenas \o [i \in DOMAIN blocks |-> [base |-> blocks[i][1], order |-> blocks[i][2], start |-> start(i)]]
            /\ held' = held \cup r[1] .. r[2] - 1
            /\ UNCHANGED <<metadata, free_frames>>

Taken(a, order) ==
    LET t == take_any(metadata, a, order) IN
    /\ metadata' = t.m
    /\ free_frames' = free_frames - 2 ^ order
    /\ held' = held \cup t.base .. t.base + 2 ^ order - 1
    /\ UNCHANGED arenas

\* The first arena that has the order.
alloc_order ==
    \E order \in 0 .. floor_order(MaxRun) :
        LET fit == {i \in DOMAIN arenas : State(metadata, arenas[i], 1) >= order}
        IN  fit # {} /\ Taken(arenas[Min(fit)], order)

\* The first arena of those that offer the most.
BestOf(offers) == Min({i \in DOMAIN offers : \A j \in DOMAIN offers : offers[j] <= offers[i]})

\* The largest block of at most n frames.
alloc_largest ==
    \E n \in 1 .. MaxRun :
        LET avail == {i \in DOMAIN arenas : State(metadata, arenas[i], 1) # UNAVAILABLE}
            offers == [i \in avail |-> Min({State(metadata, arenas[i], 1), floor_order(n)})]
        IN  avail # {} /\ Taken(arenas[BestOf(offers)], offers[BestOf(offers)])

alloc_at ==
    \E start \in UNION {r[1] .. r[2] : r \in Region}, n \in 1 .. MaxRun :
        /\ range_is_free(start, start + n)
        /\ metadata' = take_range(start, start + n)
        /\ free_frames' = free_frames - n
        /\ held' = held \cup start .. start + n - 1
        /\ UNCHANGED arenas

\* dealloc, release_range and the second half of add_region: any run of frames that are out (an
\* owner may have been split); what overlaps a free frame is refused.
dealloc ==
    \E start \in held, n \in 1 .. MaxRun :
        /\ range_is_managed(start, start + n) /\ range_is_unavailable(start, start + n)
        /\ metadata' = release_blocks(start, start + n)
        /\ free_frames' = free_frames + n
        /\ held' = held \ (start .. start + n - 1)
        /\ UNCHANGED arenas

Next == add_managed_region \/ alloc_order \/ alloc_largest \/ alloc_at \/ dealloc

Spec == Init /\ [][Next]_vars

-----------------------------------------------------------------------------

Managed == UNION {a.base .. End(a) - 1 : a \in ToSet(arenas)}
Block(a, n) == LET o == order_at(a, n) IN a.base + (n - 2 ^ floor_order(n)) * 2 ^ o .. a.base + (n - 2 ^ floor_order(n) + 1) * 2 ^ o - 1

\* Whatever values earlier splits left behind, the trees tell exactly which frames are out: a block
\* is reported free when none of its frames is out, as having something free when not all are, and
\* the root names the largest block there is; the counter agrees.
InventoryExact ==
    /\ free_frames = Cardinality(Managed \ held)
    /\ \A a \in ToSet(arenas) :
          LET nodes == 1 .. 2 ^ (a.order + 1) - 1
              free == {n \in nodes : Block(a, n) \cap held = {}}
          IN  /\ \A n \in nodes :
                    LET b == Min(Block(a, n)) IN
                    /\ block_is_free(metadata, a, b, order_at(a, n)) <=> n \in free
                    /\ block_has_free(metadata, a, b, order_at(a, n)) <=> ~(Block(a, n) \subseteq held)
              /\ State(metadata, a, 1) = Max({order_at(a, n) : n \in free} \cup {UNAVAILABLE})

=============================================================================
