------------------------------ MODULE PageTable ------------------------------
(***************************************************************************)
(* The page-table tree of an address space, src/os/page_table/src/lib.rs:  *)
(* a radix tree of tables whose branch entries own the frames of the       *)
(* tables below them.  A change is planned under the tree lock             *)
(* (preflight), its table frames are obtained outside the lock, the plan   *)
(* is made again under the lock (prepare) and finally published without    *)
(* allocating and without failing.  A retired tree is drained one slot at  *)
(* a time.                                                                 *)
(*                                                                         *)
(* A table has Entries slots instead of 512 and a tree Levels levels.      *)
(* `view' is what the published changes promise of every page; `fault'     *)
(* records an assertion of the code that fails.                            *)
(***************************************************************************)
EXTENDS Integers, Sequences, FiniteSets, FiniteSetsExt, SequencesExt

CONSTANTS
    Entries, Levels,    \* slots of a table, levels of the tree
    Frames,             \* frames a table may live in; Root is the root's
    Root,
    Clients,            \* transactions in flight
    Scenarios,          \* records [shared: root slots of the kernel, work: batches of plans], a plan being
                        \* [op, vpn, count, ppn, from, to]: its pages, the rights it expects and gives
    MaxBegun            \* how many transactions are begun

VARIABLES
    t,          \* the tree: tables, owners of the branch tables, owned root slots, generation
    client,     \* per transaction: its batch, the preflights or the prepared translations
    free,       \* frames of the allocator
    view,       \* page -> what the published changes make of it
    cursor,     \* drain cursor
    fault,      \* an assertion failed
    begun,      \* transactions begun so far
    sc

vars == <<t, client, free, view, cursor, fault, begun, sc>>

Top == Levels - 1
Slots == 0..(Entries - 1)
pages_at(level) == Entries ^ level
max_vpn == pages_at(Levels)
index_at(vpn, level) == (vpn \div pages_at(level)) % Entries

\* Page-table entries.
Invalid == [kind |-> "invalid", n |-> 0, flags |-> "none"]
Leaf(ppn, flags) == [kind |-> "leaf", n |-> ppn, flags |-> flags]
Branch(frame) == [kind |-> "branch", n |-> frame, flags |-> "none"]
Empty == [i \in Slots |-> Invalid]
is_leaf(e) == e.kind = "leaf"
is_branch(e) == e.kind = "branch"

Unmapped == [ppn |-> 0, flags |-> "none"]

Idle == [at |-> "idle", batch |-> <<>>, owners |-> <<>>, required |-> <<>>, retired |-> <<>>, generation |-> 0]
NoCursor == [frames |-> [l \in 0..Top |-> 0], indices |-> [l \in 0..Top |-> 0], level |-> Top, state |-> "none"]

(***************************************************************************)
(* Walking the tree.                                                       *)
(***************************************************************************)
\* The entry a walk towards `vpn' stops at: the one of level `seg', or the first that is no branch.
RECURSIVE Descend(_, _, _, _, _)
Descend(tab, frame, level, vpn, seg) ==
    LET e == tab[frame][index_at(vpn, level)]
    IN IF level > seg /\ is_branch(e) THEN Descend(tab, e.n, level - 1, vpn, seg)
                                      ELSE [frame |-> frame, level |-> level, entry |-> e]

translate(tab, vpn) ==
    LET d == Descend(tab, Root, Top, vpn, 0)
    IN IF is_leaf(d.entry) THEN [ppn |-> d.entry.n + (vpn % pages_at(d.level)), flags |-> d.entry.flags]
                           ELSE Unmapped

leaf_matches_at(e, level, vpn, ppn, flags) ==
    is_leaf(e) /\ e.flags = flags /\ e.n + (vpn % pages_at(level)) = ppn

largest_segment_level(vpn, ppn, end) ==
    Max({0} \cup {l \in 1..Top : vpn % pages_at(l) = 0 /\ ppn % pages_at(l) = 0 /\ end - vpn >= pages_at(l)})

\* The leaves a Map is cut into.
RECURSIVE Segments(_, _, _)
Segments(vpn, ppn, end) ==
    IF vpn >= end THEN <<>>
    ELSE LET l == largest_segment_level(vpn, ppn, end)
         IN <<[vpn |-> vpn, ppn |-> ppn, level |-> l]>> \o Segments(vpn + pages_at(l), ppn + pages_at(l), end)

(***************************************************************************)
(* Preflight: what a plan needs of the tree as it is.                      *)
(***************************************************************************)
validate_map_segment(seg, flags) ==
    LET d == Descend(t.tab, Root, Top, seg.vpn, seg.level)
    IN IF index_at(seg.vpn, Top) \in sc.shared THEN [ok |-> FALSE, missing |-> {}]
       ELSE [ok |-> d.entry = Invalid \/ leaf_matches_at(d.entry, d.level, seg.vpn, seg.ppn, flags),
             missing |-> {<<l, seg.vpn \div pages_at(l + 1)>> : l \in seg.level..(d.level - 1)}]

preflight_map_requirements(p) ==
    LET segments == Segments(p.vpn, p.ppn, p.vpn + p.count)
        checks == [i \in DOMAIN segments |-> validate_map_segment(segments[i], p.to)]
    IN [ok |-> p.vpn + p.count <= max_vpn /\ \A i \in DOMAIN checks : checks[i].ok,
        required |-> Cardinality(UNION {checks[i].missing : i \in DOMAIN checks}),
        retired |-> 0]

Inside(base, level, s, e) == base >= s /\ base + pages_at(level) <= e
Outside(base, level, s, e) == base >= e \/ base + pages_at(level) <= s

RECURSIVE split_count_for_leaf(_, _, _, _)
split_count_for_leaf(level, base, s, e) ==
    IF Inside(base, level, s, e) THEN 0
    ELSE LET ChildBase(i) == base + i * pages_at(level - 1)
         IN 1 + MapThenSumSet(LAMBDA i : split_count_for_leaf(level - 1, ChildBase(i), s, e),
                              {i \in Slots : ~Outside(ChildBase(i), level - 1, s, e)})

\* Protect: every page of the range is mapped with the expected flags; the tables splitting takes.
RECURSIVE preflight_range(_, _, _, _, _, _)
preflight_range(frame, level, base, s, e, flags) ==
    LET SlotBase(i) == base + i * pages_at(level)
        touched == {i \in Slots : ~Outside(SlotBase(i), level, s, e)}
        Part(i) ==
            LET en == t.tab[frame][i]
            IN IF (level = Top /\ i \in sc.shared) \/ en = Invalid THEN [ok |-> FALSE, required |-> 0]
               ELSE IF is_leaf(en)
                    THEN [ok |-> en.flags = flags, required |-> split_count_for_leaf(level, SlotBase(i), s, e)]
                    ELSE preflight_range(en.n, level - 1, SlotBase(i), s, e, flags)
    IN [ok |-> \A i \in touched : Part(i).ok,
        required |-> MapThenSumSet(LAMBDA i : Part(i).required, touched)]

\* Unmap: holes are allowed; the tables splitting takes and the tables that become empty.
RECURSIVE preflight_unmap_range(_, _, _, _, _)
preflight_unmap_range(frame, level, base, s, e) ==
    LET SlotBase(i) == base + i * pages_at(level)
        Live(b) == [required |-> 0, retired |-> 0, live |-> b]
        Part(i) ==
            LET en == t.tab[frame][i]
            IN CASE level = Top /\ i \in sc.shared -> Live(TRUE)
                 [] Outside(SlotBase(i), level, s, e) -> Live(en # Invalid)
                 [] en = Invalid -> Live(FALSE)
                 [] is_leaf(en) ->
                        LET splits == split_count_for_leaf(level, SlotBase(i), s, e)
                        IN [required |-> splits, retired |-> 0, live |-> splits > 0]
                 [] OTHER ->
                        LET child == preflight_unmap_range(en.n, level - 1, SlotBase(i), s, e)
                        IN [child EXCEPT !.retired = IF child.live THEN @ ELSE @ + 1]
    IN [required |-> MapThenSumSet(LAMBDA i : Part(i).required, Slots),
        retired |-> MapThenSumSet(LAMBDA i : Part(i).retired, Slots),
        live |-> \E i \in Slots : Part(i).live]

preflight_plan(p) ==
    CASE p.op = "Map" -> preflight_map_requirements(p)
      [] p.op = "Unmap" ->
            LET r == preflight_unmap_range(Root, Top, 0, p.vpn, p.vpn + p.count)
            IN [ok |-> p.vpn + p.count <= max_vpn, required |-> r.required, retired |-> r.retired]
      [] p.op = "Protect" ->
            LET r == preflight_range(Root, Top, 0, p.vpn, p.vpn + p.count, p.from)
            IN [ok |-> p.vpn + p.count <= max_vpn /\ r.ok, required |-> r.required, retired |-> 0]

(***************************************************************************)
(* Publish.  `w' is the tree with the frames of the prepared translation:  *)
(* w.frames are still to be used and w.retired have left the tree.         *)
(***************************************************************************)
SetEntry(w, frame, i, e) == [w EXCEPT !.tab[frame][i] = e]
Owned(w, frame, i) == IF frame = Root THEN [w EXCEPT !.owned = @ \cup {i}] ELSE w
Disowned(w, frame, i) == IF frame = Root THEN [w EXCEPT !.owned = @ \ {i}] ELSE w
Checked(w, holds) == [w EXCEPT !.fault = @ \/ ~holds]

\* A branch to the next frame supplied, filled with `table'; with none left the expect fails.
install_owner(w, frame, i, table) ==
    IF w.frames = <<>> THEN Checked(w, FALSE)
    ELSE LET f == Last(w.frames)
         IN SetEntry([w EXCEPT !.frames = Front(@), !.owners = @ \cup {f}, !.tab[f] = table], frame, i, Branch(f))

take_owner(w, f) == Checked([w EXCEPT !.owners = @ \ {f}], f \in w.owners)

split_mega(w, frame, i, level) ==
    LET e == w.tab[frame][i]
        base == e.n - (e.n % pages_at(level))
    IN install_owner(w, frame, i, [j \in Slots |-> Leaf(base + j * pages_at(level - 1), e.flags)])

RECURSIVE publish_map_segment(_, _, _)
publish_map_segment(w, seg, flags) ==
    LET d == Descend(w.tab, Root, Top, seg.vpn, seg.level)
        i == index_at(seg.vpn, d.level)
        fits == /\ index_at(seg.vpn, Top) \notin sc.shared
                /\ d.entry = Invalid \/ leaf_matches_at(d.entry, d.level, seg.vpn, seg.ppn, flags)
        checked == Checked(w, fits)
    IN IF ~fits THEN checked
       ELSE IF d.level = seg.level THEN SetEntry(Owned(w, d.frame, i), d.frame, i, Leaf(seg.ppn, flags))
       ELSE LET grown == IF is_leaf(d.entry) THEN split_mega(w, d.frame, i, d.level)
                         ELSE install_owner(Owned(w, d.frame, i), d.frame, i, Empty)
            IN IF grown.fault THEN grown ELSE publish_map_segment(grown, seg, flags)

publish_map(w, p) ==
    FoldLeft(LAMBDA acc, seg : publish_map_segment(acc, seg, p.to), w, Segments(p.vpn, p.ppn, p.vpn + p.count))

SlotSeq == [i \in 1..Entries |-> i - 1]

\* Result: the tree and whether the table at `frame' still has a valid entry.
RECURSIVE unmap_range(_, _, _, _, _, _)
unmap_range(w, frame, level, base, s, e) ==
    LET Step(acc, i) ==
            LET at == base + i * pages_at(level)
                en == acc.w.tab[frame][i]
                Below(x, f) == unmap_range(x, f, level - 1, at, s, e)
            IN CASE level = Top /\ i \in sc.shared -> [acc EXCEPT !.live = TRUE]
                 [] Outside(at, level, s, e) -> [acc EXCEPT !.live = @ \/ en # Invalid]
                 [] en = Invalid -> acc
                 [] is_leaf(en) /\ Inside(at, level, s, e) ->
                        [acc EXCEPT !.w = Disowned(SetEntry(@, frame, i, Invalid), frame, i)]
                 [] is_leaf(en) /\ ~Inside(at, level, s, e) ->
                        LET split == split_mega(acc.w, frame, i, level)
                            below == Below(split, split.tab[frame][i].n)
                        IN [w |-> IF split.fault THEN split ELSE Checked(below.w, below.live), live |-> TRUE]
                 [] OTHER ->
                        LET below == Below(acc.w, en.n)
                            pruned == Disowned(SetEntry(below.w, frame, i, Invalid), frame, i)
                        IN IF below.live THEN [w |-> below.w, live |-> TRUE]
                           ELSE [w |-> [take_owner(pruned, en.n) EXCEPT !.retired = @ \cup {en.n}],
                                 live |-> acc.live]
    IN FoldLeft(Step, [w |-> w, live |-> FALSE], SlotSeq)

RECURSIVE protect_range(_, _, _, _, _, _)
protect_range(w, frame, level, base, p, end) ==
    LET Step(acc, i) ==
            LET at == base + i * pages_at(level)
                en == acc.tab[frame][i]
                split == split_mega(acc, frame, i, level)
            IN CASE Outside(at, level, p.vpn, end) -> acc
                 [] en = Invalid \/ (level = Top /\ i \in sc.shared) -> Checked(acc, FALSE)
                 [] is_branch(en) -> protect_range(acc, en.n, level - 1, at, p, end)
                 [] is_leaf(en) /\ en.flags # p.from -> Checked(acc, FALSE)
                 [] Inside(at, level, p.vpn, end) -> SetEntry(acc, frame, i, Leaf(en.n, p.to))
                 [] OTHER -> IF split.fault THEN split
                             ELSE protect_range(split, split.tab[frame][i].n, level - 1, at, p, end)
    IN FoldLeft(Step, w, SlotSeq)

\* One translation of a batch: it has its own frames and its own room for retired tables.
publish_inner(w, p, frames, room) ==
    LET start == [w EXCEPT !.frames = frames, !.retired = {}]
        end == CASE p.op = "Map" -> publish_map(start, p)
                 [] p.op = "Unmap" -> unmap_range(start, Root, Top, 0, p.vpn, p.vpn + p.count).w
                 [] p.op = "Protect" -> protect_range(start, Root, Top, 0, p, p.vpn + p.count)
    IN [Checked(end, Cardinality(end.retired) <= room) EXCEPT
            !.out = @ \cup Range(end.frames) \cup end.retired]

(***************************************************************************)
(* The transactions.                                                       *)
(***************************************************************************)
\* A new tree and the entries of the kernel, which lead to tables of no owner here.
attach_shared_root == [i \in Slots |-> IF i \in sc.shared THEN Branch(0) ELSE Invalid]

Init ==
    /\ sc \in Scenarios
    /\ t = [tab |-> [f \in Frames |-> IF f = Root THEN attach_shared_root ELSE Empty],
            owners |-> {}, owned |-> {}, generation |-> IF sc.shared = {} THEN 0 ELSE 1]
    /\ client = [c \in Clients |-> Idle]
    /\ free = Frames \ {Root}
    /\ view = [v \in 0..(max_vpn - 1) |-> Unmapped]
    /\ cursor = NoCursor
    /\ fault = FALSE
    /\ begun = 0

Plans(batch) == [i \in DOMAIN batch |-> preflight_plan(batch[i])]

\* preflight_map, preflight_unmap, preflight_protect: the plans of one change, under one lock.
preflight(c) ==
    /\ client[c].at = "idle" /\ begun < MaxBegun /\ cursor.state = "none"
    /\ \E batch \in sc.work :
        LET plans == Plans(batch)
        IN /\ \A i \in DOMAIN plans : plans[i].ok
           /\ client' = [client EXCEPT ![c] =
                  [Idle EXCEPT !.at = "planned", !.batch = batch, !.generation = t.generation,
                               !.required = [i \in DOMAIN plans |-> plans[i].required]]]
    /\ begun' = begun + 1
    /\ UNCHANGED <<t, free, view, cursor, fault, sc>>

\* Frames are interchangeable: the allocator hands out the lowest ones.
Lowest(frames, n) == [i \in 1..n |-> CHOOSE f \in frames : Cardinality({g \in frames : g < f}) = i - 1]

\* The frames of the allocator, cut into one zeroed supply per plan.
RECURSIVE Supplies(_, _)
Supplies(frames, required) ==
    IF required = <<>> THEN <<>>
    ELSE <<SubSeq(frames, 1, Head(required))>>
         \o Supplies(SubSeq(frames, Head(required) + 1, Len(frames)), Tail(required))

\* The owners are taken outside the tree lock; without enough frames the change is given up.
supply(c) ==
    /\ client[c].at = "planned"
    /\ LET total == FoldLeft(LAMBDA a, b : a + b, 0, client[c].required)
           taken == Lowest(free, total)
       IN IF total > Cardinality(free)
          THEN client' = [client EXCEPT ![c] = Idle] /\ UNCHANGED <<t, free>>
          ELSE /\ client' = [client EXCEPT ![c].at = "supplied", ![c].owners = Supplies(taken, client[c].required)]
               /\ free' = free \ Range(taken)
               /\ t' = [t EXCEPT !.tab = [f \in Frames |-> IF f \in Range(taken) THEN Empty ELSE t.tab[f]]]
    /\ UNCHANGED <<view, cursor, fault, begun, sc>>

Frames_of(c) == UNION {Range(client[c].owners[i]) : i \in DOMAIN client[c].owners}
GiveUp(c) == client' = [client EXCEPT ![c] = Idle] /\ free' = free \cup Frames_of(c)


\* The plans are made again; a plan that no longer fits or needs more frames fails with its owners.
prepare(c) ==
    /\ client[c].at = "supplied"
    /\ LET plans == Plans(client[c].batch)
       IN IF \A i \in DOMAIN plans : plans[i].ok /\ plans[i].required <= Len(client[c].owners[i])
          THEN /\ client' = [client EXCEPT ![c].at = "prepared", ![c].generation = t.generation,
                                           ![c].required = [i \in DOMAIN plans |-> plans[i].required],
                                           ![c].retired = [i \in DOMAIN plans |-> plans[i].retired]]
               /\ UNCHANGED free
          ELSE GiveUp(c)
    /\ UNCHANGED <<t, view, cursor, fault, begun, sc>>

prepared_is_current(c) == client[c].generation = t.generation

\* What a published plan promises of a page.
Applied(old, p, vpn) ==
    CASE vpn \notin p.vpn..(p.vpn + p.count - 1) -> old
      [] p.op = "Map" -> [ppn |-> p.ppn + (vpn - p.vpn), flags |-> p.to]
      [] p.op = "Unmap" -> Unmapped
      [] p.op = "Protect" -> [old EXCEPT !.flags = p.to]

\* publish, publish_batch: the check and the writes are under one lock.
publish_batch(c) ==
    /\ client[c].at = "prepared"
    /\ prepared_is_current(c)
    /\ LET b == client[c].batch
           start == [tab |-> t.tab, owners |-> t.owners, owned |-> t.owned, frames |-> <<>>, retired |-> {},
                     out |-> {}, fault |-> FALSE]
           w == FoldLeft(LAMBDA acc, i : publish_inner(acc, b[i], client[c].owners[i], client[c].retired[i]),
                         start, [i \in DOMAIN b |-> i])
       IN /\ t' = [tab |-> w.tab, owners |-> w.owners, owned |-> w.owned, generation |-> t.generation + 1]
          /\ fault' = w.fault
          /\ free' = free \cup w.out
          /\ view' = [v \in DOMAIN view |-> FoldLeft(LAMBDA old, p : Applied(old, p, v), view[v], b)]
    /\ client' = [client EXCEPT ![c] = Idle]
    /\ UNCHANGED <<cursor, begun, sc>>

\* A prepared change that is stale, or is not wanted any more, returns its owners.
rollback(c) ==
    /\ client[c].at \in {"supplied", "prepared"}
    /\ GiveUp(c)
    /\ UNCHANGED <<t, view, cursor, fault, begun, sc>>

(***************************************************************************)
(* The drain of a retired tree.                                            *)
(***************************************************************************)
begin_drain ==
    /\ cursor.state = "none" /\ \A c \in Clients : client[c] = Idle
    /\ cursor' = [NoCursor EXCEPT !.frames[Top] = Root, !.state = "scan"]
    /\ UNCHANGED <<t, client, free, view, fault, begun, sc>>

\* One slot: a shared slot is passed over, a branch is entered, a leaf is cleared.
drain_slot ==
    /\ cursor.state = "scan" /\ cursor.indices[cursor.level] < Entries
    /\ LET l == cursor.level
           f == cursor.frames[l]
           i == cursor.indices[l]
           e == t.tab[f][i]
           next == [cursor EXCEPT !.indices[l] = i + 1]
           cleared == Disowned(SetEntry(t, f, i, Invalid), f, i)
       IN CASE l = Top /\ i \in sc.shared -> cursor' = next /\ UNCHANGED <<t, fault>>
            [] is_branch(e) /\ ~(l = Top /\ i \in sc.shared) ->
                   /\ cursor' = [next EXCEPT !.frames[l - 1] = e.n, !.indices[l - 1] = 0, !.level = l - 1]
                   /\ UNCHANGED <<t, fault>>
            [] is_leaf(e) -> cursor' = next /\ t' = cleared /\ UNCHANGED fault
            [] OTHER -> cursor' = next /\ fault' = (l = Top /\ i \in t.owned) /\ UNCHANGED t
    /\ UNCHANGED <<client, free, view, begun, sc>>

\* The end of a table: its branch is removed and its owner handed out; the root's end completes.
drain_up ==
    /\ cursor.state = "scan" /\ cursor.indices[cursor.level] = Entries
    /\ LET l == cursor.level
           f == cursor.frames[l]
           parent == cursor.frames[l + 1]
           i == cursor.indices[l + 1] - 1
           cut == Disowned(SetEntry(t, parent, i, Invalid), parent, i)
       IN IF l = Top
          THEN cursor' = [cursor EXCEPT !.state = "complete"] /\ UNCHANGED <<t, free, fault>>
          ELSE /\ fault' = ~(t.tab[parent][i] = Branch(f) /\ f \in t.owners)
               /\ t' = [cut EXCEPT !.owners = @ \ {f}]
               /\ free' = free \cup {f}
               /\ cursor' = [cursor EXCEPT !.frames[l] = 0, !.indices[l] = 0, !.level = l + 1]
    /\ UNCHANGED <<client, view, begun, sc>>

\* finish_drain hands out the root; nothing of the tree may be left.
finish_drain ==
    /\ cursor.state = "complete"
    /\ cursor' = [NoCursor EXCEPT !.state = "finished"]
    /\ fault' = ~(t.owned = {} /\ t.owners = {})
    /\ free' = free \cup {Root}
    /\ UNCHANGED <<t, client, view, begun, sc>>

Next ==
    \/ \E c \in Clients : preflight(c) \/ supply(c) \/ prepare(c) \/ publish_batch(c) \/ rollback(c)
    \/ begin_drain \/ drain_slot \/ drain_up \/ finish_drain

Spec == Init /\ [][Next]_vars

(***************************************************************************)
(* Properties.                                                             *)
(***************************************************************************)
\* No assertion of the code fails: what was counted before the lock was dropped is enough to publish
\* without allocating, whatever was published in between and however the plans of a batch overlap.
NeverFails == ~fault

\* Until the tree is drained a walk finds at every page what the published changes promise.
WalksExact ==
    cursor.state = "none" =>
        \A v \in DOMAIN view : index_at(v, Top) \in sc.shared \/ translate(t.tab, v) = view[v]

\* A prepared change that is still current changes no page it did not plan for: a Map meets no other
\* mapping, a Protect only pages of the rights it was planned from.
PlansCurrent ==
    \A c \in Clients : client[c].at = "prepared" /\ prepared_is_current(c) =>
        \A i \in DOMAIN client[c].batch :
            LET p == client[c].batch[i]
            IN \A v \in p.vpn..(p.vpn + p.count - 1) :
                CASE p.op = "Map" -> view[v] \in {Unmapped, Applied(view[v], p, v)}
                  [] p.op = "Protect" -> view[v] # Unmapped /\ view[v].flags = p.from
                  [] p.op = "Unmap" -> TRUE

\* The frames that branches of the tree lead to.
RECURSIVE Below(_, _)
Below(frame, level) ==
    UNION {{e.n} \cup Below(e.n, level - 1) :
              e \in {t.tab[frame][i] : i \in {j \in Slots : is_branch(t.tab[frame][j])
                                                            /\ ~(level = Top /\ j \in sc.shared)}}}

\* Every frame has one holder: the allocator, a transaction, the tree or the root; the tree owns
\* exactly the tables its branches lead to, and none of them is empty unless it is being drained.
FramesOwned ==
    /\ t.owners = Below(Root, Top)
    /\ \A f \in Frames :
          Cardinality({h \in {"free"} : f \in free} \cup {c \in Clients : f \in Frames_of(c)}
                      \cup {h \in {"tree"} : f \in t.owners}
                      \cup {h \in {"root"} : f = Root /\ cursor.state # "finished"}) = 1
    /\ cursor.state = "none" => \A f \in t.owners : t.tab[f] # Empty
    /\ t.owned = {i \in Slots : i \notin sc.shared /\ t.tab[Root][i] # Invalid}

\* The drain leaves the shared slots to their owner and everything else to the allocator.
DrainWhole ==
    /\ \A i \in sc.shared : t.tab[Root][i] = Branch(0)
    /\ cursor.state = "finished" => free = Frames
=============================================================================
