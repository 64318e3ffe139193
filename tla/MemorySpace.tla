--------------------------- MODULE MemorySpace ---------------------------
(***************************************************************************)
(* The ledger of one address space (os/memory_space) with the kernel calls *)
(* that change it (task/proc.rs, task/memory_object.rs, task/tunnel.rs).   *)
(*                                                                         *)
(* A map, unmap or protect call runs through several locks.  The plan is   *)
(* validated under the AddressSpace lock, write permits are taken from the *)
(* object under the object's lock, the change is reserved and committed    *)
(* under the AddressSpace lock again, and what it replaced is retired      *)
(* piece by piece once every hart has dropped the old translations.        *)
(* Threads interleave between any two of these locks.  One action is one   *)
(* critical section.                                                       *)
(*                                                                         *)
(* A thread waits for the change it started, so the transaction record,    *)
(* the prepared plan and the retire batch of a change are kept in the      *)
(* record `call' of its thread.  Addresses are page numbers.  Failures of  *)
(* the allocators are choices.  How the harts are told is module Shootdown.*)
(***************************************************************************)
EXTENDS Integers, FiniteSets, FiniteSetsExt, SequencesExt

CONSTANTS
    Thread,          \* threads of the process
    Pages,           \* pages of the address space
    MapRequest,      \* what a map call may ask for, see Request below
    CallRange,       \* the ranges of pages an unmap or a protect may name
    InitialRegions,  \* the regions the process starts with
    Public,          \* a MemoryObject that handles name
    Connection,      \* the object under a Tunnel endpoint
    PublicPermits,   \* MAX_WRITE_VIEWS_PER_OBJECT
    MaxRegions,      \* Limits.max_regions
    MaxTransactions, \* Limits.max_transactions
    MaxChanges       \* bound: reservations made in a behaviour

Object == {Public, Connection}
\* MemoryObjectState.permit_limit: both sides of a Tunnel write.
permit_limit(o) == IF o = Connection THEN 2 ELSE PublicPermits

Page == 0 .. Pages - 1
Protection == {"RO", "RW", "RX"}

VARIABLES
    regions,      \* MemorySpace.regions
    next_region,  \* MemorySpace.next_region
    next_alloc,   \* MemorySpace.next_allocation (also the BackingId of a map)
    changes,      \* MemorySpace.next_change
    table_active, \* BoundAddressSpace.table_transaction_active
    backings,     \* BoundAddressSpace.backings: pages <<identity, offset>>
    views,        \* BoundAddressSpace.views: region_count, or Absent
    object,       \* MemoryObjectState of each object: state and permits
    leases,       \* ConnectionState.leases: the mappings Tunnel endpoints own
    call,         \* the call each thread is in
    closed        \* the process no longer runs user code

vars == <<regions, next_region, next_alloc, changes, table_active, backings, views,
          object, leases, call, closed>>
ledger == <<regions, next_region, next_alloc, changes, table_active>>

\* No view owner in the table.
Absent == -1

(***************************************************************************)
(* Regions.  A region is a record; a template of a plan is a region with   *)
(* key 0 whose permit field says that it succeeds a writable view.  The    *)
(* owner is 0 for the address space and the allocation for a lease.        *)
(***************************************************************************)
Span(r) == r.lo .. r.hi

permits(maximum, requested) ==
    <<maximum, requested>> \in
        {<<"RO", "RO">>, <<"RW", "RO">>, <<"RW", "RW">>, <<"RX", "RO">>, <<"RX", "RX">>}

Writable(r, o) == r.back = o /\ r.cur = "RW"
Guarded(r) == r.back = "Guard"

\* template_from_region: a part of a region, with its backing offset shifted.
Piece(r, pages, protection) ==
    [r EXCEPT !.key = 0, !.lo = Min(pages), !.hi = Max(pages), !.cur = protection,
              !.off = @ + (Min(pages) - r.lo), !.permit = r.permit /\ protection = "RW"]

\* What is left of a region around a range, on either side.
Rest(r, range) ==
    {Piece(r, side, r.cur) :
        side \in {{p \in Span(r) : p < Min(range)}, {p \in Span(r) : p > Max(range)}} \ {{}}}

Cut(r, range) == Span(r) \cap range

\* Anonymous memory is one backing for each allocation.
SameBacking(l, r) == l.back = r.back /\ r.off = l.off + (l.hi - l.lo + 1)

templates_compatible(l, r) ==
    /\ l.hi + 1 = r.lo
    /\ l.owner = r.owner /\ l.alloc = r.alloc
    /\ \/ Guarded(l) /\ Guarded(r)
       \/ /\ ~Guarded(l) /\ ~Guarded(r)
          /\ l.cur = r.cur /\ l.max = r.max
          /\ \A o \in Object : ~Writable(l, o)
          /\ SameBacking(l, r)

\* normalize_templates: neighbours that fit together become one.
normalize_templates(templates) ==
    LET join(done, t) ==
            IF done # <<>> /\ templates_compatible(Last(done), t)
            THEN [done EXCEPT ![Len(done)].hi = t.hi]
            ELSE Append(done, t)
    IN  ToSet(FoldLeft(join, <<>>, SetToSortSeq(templates, LAMBDA l, r : l.lo < r.lo)))

(***************************************************************************)
(* Transactions.                                                           *)
(***************************************************************************)
NoPermits == [o \in Object |-> 0]
\* A call: its plan (regions to remove, to add and to retire, pages it covers, result
\* slot, keys the plan was made from), the objects it retires views of (retiring_views) and
\* the permits in its hands.
Idle == [pc |-> "idle", req |-> {}, snapshot |-> {}, remove |-> {}, add |-> {},
         retire |-> {}, release |-> FALSE, foot |-> {}, lease |-> {}, growth |-> 0,
         objects |-> {}, held |-> NoPermits]

InLedger == {"reserved", "published", "retiring"}
Transactions == {t \in Thread : call[t].pc \in InLedger}
reserved_growth == MapThenSumSet(LAMBDA t : IF call[t].pc = "reserved" THEN call[t].growth ELSE 0,
                                 Thread)

\* ensure_no_transaction_conflict.
Conflict(foot, lease) ==
    \E t \in Transactions : (call[t].foot \cup call[t].lease) \cap (foot \cup lease) # {}

\* range_empty.
Empty(pages) ==
    /\ \A r \in regions : Span(r) \cap pages = {}
    /\ ~Conflict(pages, {})

\* find_hole: the lowest place where so many pages are free.
find_hole(size) ==
    LET starts == {s \in Page : s + size <= Pages /\ Empty(s .. s + size - 1)}
    IN  IF starts = {} THEN {} ELSE {Min(starts)}

\* validate_user_write_lease: the result slot lies in writable memory.
LeaseWritable(lease) ==
    \A p \in lease : \E r \in regions : p \in Span(r) /\ ~Guarded(r) /\ r.cur = "RW"

\* check_projected_regions.
Fits(growth) == Cardinality(regions) + reserved_growth + growth <= MaxRegions

\* The number of permits a set of templates needs, and how many are new.
Needs(templates, o) == Cardinality({r \in templates : Writable(r, o)})
NewWrites(templates, o) == Cardinality({r \in templates : Writable(r, o) /\ ~r.permit})

Growth(add, remove) == Max({0, Cardinality(add) - Cardinality(remove)})
Keys(rs) == {r.key : r \in rs}

\* validate_map: the plans (none or one) that a map request leads to.
validate_map(req) ==
    LET size == req.before + req.pages + req.after
        places == IF req.at = {} THEN find_hole(size) ELSE {p - req.before : p \in req.at}
        new(lo, hi, back) ==
            [key |-> 0, alloc |-> next_alloc, lo |-> lo, hi |-> hi,
             owner |-> IF req.back = Connection THEN next_alloc ELSE 0, back |-> back,
             off |-> 0, cur |-> req.cur, max |-> req.cur, permit |-> FALSE]
        plan(s) ==
            LET u == s + req.before
                add == {new(s, u - 1, "Guard"), new(u, u + req.pages - 1, req.back),
                        new(u + req.pages, s + size - 1, "Guard")}
            IN  [Idle EXCEPT !.add = {r \in add : r.lo <= r.hi}, !.foot = s .. s + size - 1,
                             !.lease = req.lease, !.req = {req},
                             !.growth = Cardinality({r \in add : r.lo <= r.hi})]
    IN  {plan(s) : s \in {s \in places : /\ s .. s + size - 1 \subseteq Page
                                         /\ Empty(s .. s + size - 1)
                                         /\ ~Conflict(s .. s + size - 1, req.lease)
                                         /\ LeaseWritable(req.lease)
                                         /\ Fits(plan(s).growth)}}

\* Mutant: a range is covered whoever owns its regions.
covered_Anyone(range, authority) == range \subseteq UNION {Span(r) : r \in regions}

\* covered_indices: the regions under a range, which has no gap.
covered(range, authority) ==
    /\ range \subseteq UNION {Span(r) : r \in regions}
    /\ \A r \in regions : Span(r) \cap range # {} => r.owner = authority

Under(range) == {r \in regions : Span(r) \cap range # {}}

\* validate_unmap.
validate_unmap(range, authority) ==
    LET under == Under(range)
        add == UNION {Rest(r, range) : r \in under}
        plan == [Idle EXCEPT !.snapshot = Keys(under), !.remove = Keys(under), !.add = add,
                             !.retire = {Piece(r, Cut(r, range), r.cur) : r \in under},
                             !.release = TRUE, !.foot = range, !.growth = Growth(add, under)]
    IN  {p \in {plan} : covered(range, authority) /\ ~Conflict(range, {}) /\ Fits(plan.growth)}

\* validate_protect: the pieces take the new protection, and a neighbour that fits joins.
validate_protect(range, protection) ==
    LET under == Under(range)
        changed == UNION {Rest(r, range) \cup {Piece(r, Cut(r, range), protection)} : r \in under}
        neighbours == {r \in regions \ under : /\ ~r.permit
                                               /\ \E t \in changed : \/ templates_compatible(r, t)
                                                                     \/ templates_compatible(t, r)}
        add == normalize_templates(changed \cup {Piece(r, Span(r), r.cur) : r \in neighbours})
        same == \A r \in under : r.cur = protection
        foot == Min({r.lo : r \in add}) .. Max({r.hi : r \in add})
        plan == IF same
                THEN [Idle EXCEPT !.snapshot = Keys(under), !.foot = range]
                ELSE [Idle EXCEPT !.snapshot = Keys(under \cup neighbours),
                                  !.remove = Keys(under \cup neighbours), !.add = add,
                                  !.retire = {Piece(r, Cut(r, range), r.cur) : r \in under},
                                  !.foot = foot, !.growth = Growth(add, under \cup neighbours)]
    IN  {p \in {plan} : /\ covered(range, 0)
                        /\ \A r \in under : ~Guarded(r) /\ permits(r.max, protection)
                        /\ ~Conflict(range, {}) /\ ~Conflict(p.foot, {})
                        /\ Fits(p.growth)}

\* snapshot_valid: every region the plan was made from is still there.
snapshot_valid(plan) == plan.snapshot \subseteq Keys(regions)

\* plan_still_valid: the pages of a map are free and its result slot writable.
plan_still_valid(plan) ==
    /\ plan.req # {} => Empty(plan.foot)
    /\ LeaseWritable(plan.lease)

\* check_reservation.
reservable(plan) ==
    /\ Cardinality(Transactions) < MaxTransactions
    /\ snapshot_valid(plan) /\ plan_still_valid(plan)
    /\ ~Conflict(plan.foot, plan.lease)
    /\ Fits(plan.growth)

\* materialize_reservation: the templates become regions with keys of their own, and a
\* writable view of an object takes its permit with it.
Materialized(templates) ==
    {[r EXCEPT !.key = next_region + Cardinality({l \in templates : l.lo < r.lo}),
               !.permit = \E o \in Object : Writable(r, o)] : r \in templates}

\* reserve: the plan enters the ledger, and the page tables are this change's alone.
reserve(t, plan) ==
    /\ ~table_active /\ table_active' = TRUE
    /\ changes < MaxChanges /\ changes' = changes + 1
    /\ reservable(plan)
    /\ call' = [call EXCEPT ![t] = [plan EXCEPT !.pc = "reserved", !.held = NoPermits,
                                                !.add = Materialized(plan.add)]]
    /\ next_region' = next_region + Cardinality(plan.add)

(***************************************************************************)
(* Objects: who may still write, and when the object may be executed.      *)
(***************************************************************************)
\* Mutant: permits are handed out whatever the state of the object.
MayWrite_Always(o, new) == TRUE

\* reserve_write_count: after the seal only views that succeed a writable one.
MayWrite(o, new) ==
    \/ object[o].state = "Mutable"
    \/ object[o].state = "Sealing" /\ new = 0

\* authorize_view.
authorize_view(o, maximum) ==
    CASE object[o].state = "Mutable" -> maximum # "RX"
      [] object[o].state = "Sealing" -> maximum = "RO"
      [] OTHER -> maximum # "RW"

\* reserve_writes, all or none of the permits.
reserve_writes(o, count, new) ==
    /\ MayWrite(o, new) /\ object[o].permits + count <= permit_limit(o)
    /\ object' = [object EXCEPT ![o].permits = @ + count]

\* release_one: the last permit of a sealed object makes it executable.
Released(o) ==
    [object EXCEPT ![o].permits = @ - 1,
                   ![o].state = IF @ = "Sealing" /\ object[o].permits = 1
                                THEN "Executable" ELSE @]

\* seal.
Seal ==
    /\ object[Public].state = "Mutable"
    /\ object' = [object EXCEPT ![Public].state =
                    IF object[Public].permits = 0 THEN "Executable" ELSE "Sealing"]
    /\ UNCHANGED <<ledger, backings, views, leases, call, closed>>

(***************************************************************************)
(* The calls.                                                              *)
(***************************************************************************)
\* A call that gives up returns its permits first, one at a time.
Returning(held) ==
    IF held = NoPermits THEN Idle ELSE [Idle EXCEPT !.pc = "cancelling", !.held = held]

\* Permits that sit in the regions of a set.
PermitsIn(rs) == [o \in Object |-> Cardinality({r \in rs : r.permit /\ r.back = o})]

\* map_anonymous_source: validated and reserved under one lock.
map_anonymous(t) ==
    /\ ~closed /\ call[t].pc = "idle"
    /\ \E req \in {q \in MapRequest : q.back = "Anon"} :
        \E plan \in validate_map(req) : reserve(t, plan)
    /\ next_alloc' = next_alloc + 1
    /\ UNCHANGED <<regions, backings, views, object, leases, closed>>

\* authorize_view and authorize_write_view.
authorize(t) ==
    /\ ~closed /\ call[t].pc = "idle" /\ changes < MaxChanges
    /\ \E req \in {q \in MapRequest : q.back \in Object} :
        LET writes == IF req.cur = "RW" THEN 1 ELSE 0
        IN  /\ authorize_view(req.back, req.cur)
            /\ \/ writes = 0 /\ UNCHANGED object
               \/ writes = 1 /\ reserve_writes(req.back, 1, 1)
            /\ call' = [call EXCEPT ![t] = [Idle EXCEPT !.pc = "authorized", !.req = {req},
                                                        !.held[req.back] = writes]]
    /\ UNCHANGED <<ledger, backings, views, leases, closed>>

\* plan_object_map.
plan_object_map(t) ==
    /\ call[t].pc = "authorized"
    /\ \E req \in call[t].req : \E plan \in validate_map(req) : reserve(t, plan)
    /\ next_alloc' = next_alloc + 1
    /\ UNCHANGED <<regions, backings, views, object, leases, closed>>

\* validate_user_unmap and validate_user_protect: a plan is made, nothing is reserved.
validate_existing(t) ==
    /\ ~closed /\ call[t].pc = "idle" /\ ~table_active /\ changes < MaxChanges
    /\ \E range \in CallRange :
        \E plan \in validate_unmap(range, 0)
                     \cup UNION {validate_protect(range, p) : p \in Protection} :
            call' = [call EXCEPT ![t] = [plan EXCEPT !.pc = "validated"]]
    /\ UNCHANGED <<ledger, backings, views, object, leases, closed>>

\* acquire_view_permits: what one source object has to give.
acquire_view_permits(t, o) ==
    /\ call[t].pc = "validated" /\ call[t].held[o] < Needs(call[t].add, o)
    /\ reserve_writes(o, Needs(call[t].add, o), NewWrites(call[t].add, o))
    /\ call' = [call EXCEPT ![t].held[o] = Needs(call[t].add, o)]
    /\ UNCHANGED <<ledger, backings, views, leases, closed>>

\* prepare_user_existing_change: the plan is checked again and reserved.
prepare_existing(t) ==
    /\ call[t].pc = "validated"
    /\ \A o \in Object : call[t].held[o] = Needs(call[t].add, o)
    /\ reserve(t, call[t])
    /\ UNCHANGED <<regions, next_alloc, backings, views, object, leases, closed>>

\* plan_object_unmap: the owner of a lease takes its mapping away, also while the process
\* is drained.
unmap_lease(t) ==
    /\ call[t].pc = "idle"
    /\ \E l \in leases : \E plan \in validate_unmap(l.lo .. l.hi, l.alloc) :
        reserve(t, plan)
    /\ UNCHANGED <<regions, next_alloc, backings, views, object, leases, closed>>


\* Every failure before the commit: denied permits, a stale plan, no memory for tables, a
\* shootdown that is busy or outdated.  A reserved change is rolled back.
abandon(t) ==
    /\ call[t].pc \in {"authorized", "validated", "reserved"}
    /\ table_active' = (table_active /\ call[t].pc # "reserved")
    /\ call' = [call EXCEPT ![t] =
                  Returning(IF @.pc = "reserved" THEN PermitsIn(@.add) ELSE @.held)]
    /\ UNCHANGED <<regions, next_region, next_alloc, changes, backings, views, object, leases,
                   closed>>

\* cancel_write.
cancel_write(t, o) ==
    /\ call[t].pc = "cancelling" /\ call[t].held[o] > 0
    /\ object' = Released(o)
    /\ call' = [call EXCEPT ![t] = Returning([@.held EXCEPT ![o] = @ - 1])]
    /\ UNCHANGED <<ledger, backings, views, leases, closed>>

\* Views of an object among fragments or regions.
ViewsIn(rs, o) == Cardinality({r \in rs : r.back = o})
BackingPages(r) == {<<r.alloc, r.off + i>> : i \in 0 .. r.hi - r.lo}

\* commit_inner: owners of new views are installed, the view counts move by what is added
\* and what is retired, and the ledger and the page tables change in one step.
commit(t) ==
    LET c == call[t]
        gone == {r \in regions : r.key \in c.remove}
        mapped == {o \in Object : \E req \in c.req : req.back = o}
    IN  /\ c.pc = "reserved"
        /\ table_active' = FALSE
        /\ regions' = (regions \ gone) \cup c.add
        /\ views' = [o \in Object |->
                        IF ViewsIn(c.add \cup c.retire, o) = 0 THEN views[o]
                        ELSE (IF views[o] = Absent /\ o \in mapped THEN 0 ELSE views[o])
                             - ViewsIn(c.retire, o) + ViewsIn(c.add, o)]
        /\ backings' = backings \cup UNION {BackingPages(r) :
                            r \in {r \in c.add : c.req # {} /\ r.back = "Anon"}}
        /\ leases' = {l \in leases : l.alloc \notin {r.owner : r \in gone}}
                        \cup {[alloc |-> r.alloc, lo |-> r.lo, hi |-> r.hi] :
                                r \in {r \in c.add : r.owner # 0}}
        /\ call' = [call EXCEPT ![t] =
                      [Idle EXCEPT !.pc = "published", !.foot = c.foot, !.retire = c.retire,
                                   !.release = c.release,
                                   !.objects = {o \in Object : ViewsIn(c.retire, o) > 0},
                                   !.held = PermitsIn(gone)]]
        /\ UNCHANGED <<next_region, next_alloc, changes, object, closed>>

\* MemoryChangeCompletion::complete: every hart has dropped the old translations
\* (synchronize, begin_retire).
complete(t) ==
    /\ call[t].pc = "published"
    /\ call' = [call EXCEPT ![t].pc = "retiring"]
    /\ UNCHANGED <<ledger, backings, views, object, leases, closed>>

\* RetiringSpaceChange::advance, a fragment: an unmap gives its backing pages back.
retire_fragment(t) ==
    LET c == call[t]
        f == CHOOSE f \in c.retire : \A g \in c.retire : g.lo <= f.lo
    IN  /\ c.pc = "retiring" /\ c.retire # {}
        /\ call' = [call EXCEPT ![t].retire = @ \ {f}]
        /\ backings' = IF c.release /\ f.back = "Anon" THEN backings \ BackingPages(f)
                                                       ELSE backings
        /\ UNCHANGED <<ledger, views, object, leases, closed>>

\* RetiringSpaceChange::advance, a permit.
retire_write(t, o) ==
    /\ call[t].pc = "retiring" /\ call[t].retire = {} /\ call[t].held[o] > 0
    /\ object' = Released(o)
    /\ call' = [call EXCEPT ![t].held[o] = @ - 1]
    /\ UNCHANGED <<ledger, backings, views, leases, closed>>

\* finish_retire, complete and release_view_region: the transaction leaves the ledger and
\* the owners of views that are all gone are handed over.
finish_retire(t) ==
    /\ call[t].pc = "retiring" /\ call[t].retire = {} /\ call[t].held = NoPermits
    /\ views' = [o \in Object |-> IF o \in call[t].objects /\ views[o] = 0 THEN Absent
                                                                     ELSE views[o]]
    /\ call' = [call EXCEPT ![t] = Idle]
    /\ UNCHANGED <<ledger, backings, object, leases, closed>>

\* The threads have left (module Lifecycle).
Close ==
    /\ ~closed /\ \A t \in Thread : call[t].pc = "idle"
    /\ closed' = TRUE
    /\ UNCHANGED <<ledger, backings, views, object, leases, call>>

\* drain_inner, stage Ledger: the handles are closed, so no lease is left, and the regions
\* go one by one with their view and their permit.
drain_one ==
    LET r == CHOOSE r \in regions : \A l \in regions : l.lo <= r.lo
    IN  /\ closed /\ leases = {} /\ regions # {} /\ Transactions = {}
        /\ regions' = regions \ {r}
        /\ IF r.back \in Object
           THEN /\ views' = [views EXCEPT ![r.back] = IF @ = 1 THEN Absent ELSE @ - 1]
                /\ object' = IF r.permit THEN Released(r.back) ELSE object
           ELSE UNCHANGED <<views, object>>
        /\ UNCHANGED <<next_region, next_alloc, changes, table_active, backings, leases, call,
                       closed>>

\* drain_inner, stage Backings.  The drain stops at the assertion if a view is left.
drain_backings ==
    /\ closed /\ leases = {} /\ regions = {} /\ Transactions = {} /\ backings # {}
    /\ \A o \in Object : views[o] = Absent
    /\ backings' = {}
    /\ UNCHANGED <<ledger, views, object, leases, call, closed>>

Init ==
    /\ regions = InitialRegions
    /\ next_region = 1 + Cardinality(InitialRegions)
    /\ next_alloc = 1 + Cardinality(InitialRegions)
    /\ changes = 0 /\ table_active = FALSE
    /\ backings = UNION {BackingPages(r) : r \in {r \in InitialRegions : r.back = "Anon"}}
    /\ views = [o \in Object |-> IF ViewsIn(InitialRegions, o) = 0 THEN Absent
                                                               ELSE ViewsIn(InitialRegions, o)]
    /\ object = [o \in Object |-> [state |-> "Mutable", permits |-> PermitsIn(InitialRegions)[o]]]
    /\ leases = {} /\ closed = FALSE
    /\ call = [t \in Thread |-> Idle]

Retire(t) ==
    \/ complete(t) \/ retire_fragment(t) \/ finish_retire(t)
    \/ \E o \in Object : cancel_write(t, o) \/ retire_write(t, o)

Next ==
    \/ Seal \/ Close \/ drain_one \/ drain_backings
    \/ \E t \in Thread :
        \/ map_anonymous(t) \/ authorize(t) \/ plan_object_map(t) \/ validate_existing(t)
        \/ prepare_existing(t) \/ unmap_lease(t) \/ abandon(t) \/ commit(t) \/ Retire(t)
        \/ \E o \in Object : acquire_view_permits(t, o)

Spec == Init /\ [][Next]_vars

(***************************************************************************)
(* Properties.                                                             *)
(***************************************************************************)
Pcs == {"idle", "authorized", "validated", "cancelling"} \cup InLedger

\* The variables have their types, an object never has more writers than it admits, and the
\* page tables are held by the one reserved change (proc.rs: "page-table transaction
\* installed twice", "lost exclusive generation").
TypeOK ==
    /\ \A r \in regions : /\ Span(r) \subseteq Page /\ Span(r) # {}
                           /\ r.key \in 1 .. next_region - 1 /\ r.alloc \in 1 .. next_alloc - 1
                           /\ r.back \in {"Guard", "Anon"} \cup Object
                           /\ permits(r.max, r.cur)
                           /\ r.permit = (r.back \in Object /\ r.cur = "RW")
    /\ changes \in 0 .. MaxChanges
    /\ \A o \in Object : /\ object[o].state \in {"Mutable", "Sealing", "Executable"}
                          /\ object[o].permits \in 0 .. permit_limit(o)
                          /\ views[o] \in {Absent} \cup Nat
    /\ \A t \in Thread : call[t].pc \in Pcs
    /\ Cardinality({t \in Thread : call[t].pc = "reserved"}) = IF table_active THEN 1 ELSE 0

\* No two regions of the ledger share a page, whatever splits and joins the changes of
\* several threads made, and the regions with those reserved stay within max_regions, so
\* the commit never allocates.
RegionsDisjoint ==
    /\ \A r, l \in regions : r # l => r.key # l.key /\ Span(r) \cap Span(l) = {}
    /\ Cardinality(regions) + reserved_growth <= MaxRegions

\* A reserved change can always be committed: every region it will remove is still there
\* (space.rs: "validated region key changed before Commit"), and its result slot is still
\* writable.
PlanCurrent ==
    \A t \in Thread : call[t].pc = "reserved" =>
        snapshot_valid(call[t]) /\ LeaseWritable(call[t].lease)

\* Permits are conserved: those an object has given out are exactly those in its writable
\* regions, in reserved plans, and in the hands of calls that acquire, cancel or retire.
PermitsExact ==
    \A o \in Object : object[o].permits =
        PermitsIn(regions)[o]
        + MapThenSumSet(LAMBDA t : call[t].held[o], Thread)
        + MapThenSumSet(LAMBDA t : IF call[t].pc = "reserved" THEN PermitsIn(call[t].add)[o]
                                                            ELSE 0, Thread)

\* An executable object is written by nobody: no region maps it writable, no reserved change
\* is about to, and no change whose old writable translation may still be cached on a hart
\* is waiting for the harts.
SealedNotWritable ==
    object[Public].state = "Executable" =>
        /\ \A r \in regions : ~Writable(r, Public)
        /\ \A t \in Thread :
            \A r \in CASE call[t].pc = "reserved" -> call[t].add
                       [] call[t].pc = "published" -> call[t].retire
                       [] OTHER -> {} : ~Writable(r, Public)

\* Fragments of unmaps that are not yet freed.
Unmapped == UNION {call[t].retire : t \in {t \in Thread : /\ call[t].release
                                                         /\ call[t].pc \in {"published", "retiring"}}}

\* Splits, joins and retirement never confuse the pages of a mapping: every page that is
\* mapped, or unmapped and not yet freed, shows a page of its own of what was mapped, and
\* exactly these anonymous pages are owned: none is freed while it is mapped and none is
\* lost ("retiring anonymous fragment lost its owned backing").
BackingOnce ==
    LET shown == {r \in regions \cup Unmapped : ~Guarded(r)}
        owned == UNION {BackingPages(r) : r \in {r \in shown : r.back = "Anon"}}
    IN  /\ \A r, l \in shown : r # l => BackingPages(r) \cap BackingPages(l) = {}
        /\ IF closed THEN owned \subseteq backings ELSE owned = backings

\* The pages of an unmap stay empty until its old translations and memory are gone.
StaleStaysEmpty ==
    \A t \in Thread : call[t].pc \in {"published", "retiring"} /\ call[t].release =>
        \A r \in regions : Span(r) \cap call[t].foot = {}

\* The mapping of a Tunnel endpoint stays as it was made until the endpoint is closed,
\* whatever the threads unmap and protect, so the close always finds it.
LeaseIntact ==
    \A l \in leases : \E r \in regions : /\ r.owner = l.alloc /\ r.lo = l.lo /\ r.hi = l.hi
                                         /\ r.back = Connection /\ r.cur = "RW" /\ r.off = 0

\* The owner that keeps an object alive is there while a region maps the object ("committed
\* object delta lost its view owner").
ViewsCoverRegions == \A o \in Object : ViewsIn(regions, o) > 0 => views[o] >= ViewsIn(regions, o)

\* When the last region has been drained no view owner is left, as the drain asserts:
\* "object view owners outlived their ledger regions".
DrainLeavesNoView ==
    closed /\ regions = {} => \A o \in Object : views[o] = Absent

\* A page has one use at a time: in the ledger, in what backs it, and while its old
\* translation is going away.
PagesOnce == RegionsDisjoint /\ BackingOnce /\ StaleStaysEmpty

\* What a Tunnel endpoint or an object view relies on in this space is still there.
OwnersKept == LeaseIntact /\ ViewsCoverRegions

===========================================================================
