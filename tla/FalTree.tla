------------------------------ MODULE FalTree ------------------------------
(***************************************************************************)
(* The tree of the file service's memory provider: the node store with its *)
(* link and pin counts and the bounded retirement queue                    *)
(* (libfal/src/store.rs), the backend's mutations (libfal/src/backend.rs), *)
(* the requests that drive them (srv_fs/src/server.rs) and the Retirement  *)
(* task that seals and empties the store (libfal/src/provider.rs).  One    *)
(* action is one advance of one task.  Create, Delete and Write prepare    *)
(* and commit in one advance; a Move walks the destination's ancestors     *)
(* over several and a Take keeps its reservation until its reply is sent,  *)
(* so both meet whatever the others do in between.  Rights, charges and    *)
(* the values' bytes are left out.                                         *)
(***************************************************************************)
EXTENDS Integers, Sequences, FiniteSets, SequencesExt

CONSTANTS Names,        \* the entry names, a subset of Nat (the table's order)
          MaxId,        \* node identities 1..MaxId; 1 is the root
          Grants,       \* grants on directories
          Ops,          \* 1..n: requests that live for several advances
          Budget,       \* work units of one advance
          PageLimit,    \* entries in one page of an enumeration
          Values,       \* how many capabilities a written property may hold
          Trees         \* initial trees: [nodes, grants, mood, mutations, requests]

VARIABLES t,            \* the backend
          r,            \* the Retirement task
          grants,       \* each grant's root node, 0 when it is gone
          ops,          \* the requests in progress
          lister,       \* a client that enumerates a directory page by page
          left,         \* mutations and long requests still to come
          sc            \* the initial tree and what may happen to it, frozen

vars == <<t, r, grants, ops, lister, left, sc>>

Id == 1..MaxId
None == [x \in Names |-> 0]
Node(kind, parent, entries) ==
  [live |-> TRUE, kind |-> kind, entries |-> entries, parent |-> parent, version |-> 1, taken |-> FALSE,
   value |-> IF kind = "prop" THEN 1 ELSE 0, links |-> 1, pins |-> 0, queued |-> FALSE]
Nothing == [Node("none", 0, None) EXCEPT !.live = FALSE, !.links = 0]
Idle == [kind |-> "idle", st |-> "idle", access |-> 0, dest |-> 0, parent |-> 0, name |-> 0, to |-> 0, target |-> 0,
         ancestor |-> 0, checked |-> FALSE, epoch |-> 0, versions |-> <<>>, value |-> 0]
NoList == [dir |-> 0, st |-> "idle", epoch |-> 0, index |-> 0, seen |-> <<>>, truth |-> {}]

Has(m) == m \in sc.mood

(*-- Leases: enqueue, NodeRef, link and unlink --*)
enqueue(s, n) ==
  IF s.nodes[n].live /\ s.nodes[n].links = 0 /\ s.nodes[n].pins = 0 /\ ~s.nodes[n].queued
  THEN [s EXCEPT !.nodes[n].queued = TRUE, !.queue = <<n>> \o @, !.signal = TRUE]
  ELSE s
pin(s, n) == [s EXCEPT !.nodes[n].pins = @ + 1]
drop_ref(s, n) == IF n = 0 THEN s ELSE enqueue([s EXCEPT !.nodes[n].pins = @ - 1], n)
drop_refs(s, refs) == FoldLeft(drop_ref, s, refs)
pin_refs(s, refs) == FoldLeft(pin, s, refs)
unlink(s, n) == enqueue([s EXCEPT !.nodes[n].links = @ - 1], n)
Linked(s, n) == n # 0 /\ s.nodes[n].live /\ s.nodes[n].links # 0     \* pin_linked gives a reference

\* The references an operation owns: its access and destination snapshots, and what prepare_move or prepare_take kept.
Owned(o) ==
  <<o.access, o.dest>> \o
  (IF o.st # "prepared" THEN <<>>
   ELSE IF o.kind = "move" THEN <<o.parent, o.target, o.parent, o.dest, o.target, o.ancestor>>
   ELSE <<o.target, o.target>>)
Refs(o) == SelectSeq(Owned(o), LAMBDA n : n # 0)

Held(n) == Cardinality({g \in Grants : grants[g] = n})

Init ==
  /\ sc \in Trees
  /\ grants = sc.grants
  /\ t = [nodes |-> [n \in Id |-> IF n \in DOMAIN sc.nodes
                                  THEN [sc.nodes[n] EXCEPT !.pins = Held(n) + (IF n = 1 THEN 1 ELSE 0)] ELSE Nothing],
          next |-> Cardinality(DOMAIN sc.nodes) + 1, queue |-> <<>>, current |-> 0, sealed |-> FALSE, epoch |-> 1,
          rootpin |-> TRUE, retiring |-> 0, signal |-> FALSE]
  /\ r = [src |-> TRUE, armed |-> TRUE, event |-> FALSE, rearm |-> FALSE, awake |-> FALSE, stopping |-> FALSE, done |-> FALSE]
  /\ ops = [o \in Ops |-> Idle]
  /\ lister = NoList
  /\ left = [mutations |-> sc.mutations, requests |-> sc.requests]

(*-- Resolution: lookup_child, resolve, target --*)
IsDir(s, n) == s.nodes[n].live /\ s.nodes[n].kind = "dir"
lookup_child(s, n, x) == IF IsDir(s, n) /\ Linked(s, s.nodes[n].entries[x]) THEN s.nodes[n].entries[x] ELSE 0
resolve(s, n, path) == IF path = 0 THEN n ELSE lookup_child(s, n, path)
\* A name that may be removed or moved: linked here and not reserved by a Take (Busy).
target(s, n, x) ==
  LET c == lookup_child(s, n, x) IN IF c # 0 /\ ~s.nodes[c].taken THEN c ELSE 0

(*-- Mutations prepared and committed in one advance --*)
Enter(s, n, x, c) == [s EXCEPT !.nodes[n].entries[x] = c, !.nodes[n].version = @ + 1]

\* prepare_create and its commit; the created reference goes back with the reply's metadata.
Created(s, n, x, kind) ==
  [Enter(s, n, x, s.next) EXCEPT !.nodes[s.next] = Node(kind, n, None), !.next = @ + 1, !.epoch = @ + 1]
Create(g, x, kind) ==
  /\ Has("create") /\ grants[g] # 0 /\ left.mutations > 0 /\ t.next \in Id
  /\ ~t.sealed /\ IsDir(t, grants[g]) /\ t.nodes[grants[g]].entries[x] = 0
  /\ t' = Created(t, grants[g], x, kind)
  /\ left' = [left EXCEPT !.mutations = @ - 1]
  /\ UNCHANGED <<r, grants, ops, lister, sc>>

\* prepare_delete and its commit; the target stays pinned until the advance ends.
Removable(s, c) == c # 0 /\ s.nodes[c].entries = None
Deleted(s, n, x, c) ==
  LET u == unlink(pin(Enter(s, n, x, 0), c), c)
  IN drop_ref([u EXCEPT !.nodes[c].parent = 0, !.nodes[c].version = @ + 1, !.epoch = @ + 1], c)
Delete(g, x) ==
  /\ Has("delete") /\ grants[g] # 0 /\ left.mutations > 0
  /\ ~t.sealed /\ IsDir(t, grants[g])
  /\ \E c \in {target(t, grants[g], x)} : Removable(t, c) /\ t' = Deleted(t, grants[g], x, c)
  /\ left' = [left EXCEPT !.mutations = @ - 1]
  /\ UNCHANGED <<r, grants, ops, lister, sc>>

\* prepare_property and its commit: the old value closes two capabilities here, the rest retire.
Replaced(s, c, v) ==
  LET old == s.nodes[c].value
      new == [s EXCEPT !.nodes[c].value = v, !.nodes[c].version = @ + 1]
  IN IF old > 2 THEN [new EXCEPT !.retiring = old - 2, !.signal = TRUE] ELSE new
Write(g, x, v) ==
  /\ Has("write") /\ grants[g] # 0 /\ left.mutations > 0
  /\ ~t.sealed /\ t.retiring = 0
  /\ \E c \in {target(t, grants[g], x)} : c # 0 /\ t.nodes[c].kind = "prop" /\ t' = Replaced(t, c, v)
  /\ left' = [left EXCEPT !.mutations = @ - 1]
  /\ UNCHANGED <<r, grants, ops, lister, sc>>

(*-- Move: drive_move, prepare_move, validate_move_step, commit --*)
Finish(s, o) == /\ t' = drop_refs(s, Refs(ops[o]))
                /\ ops' = [ops EXCEPT ![o] = Idle]

\* Ingress: the sender's and the destination's access snapshots pin their roots.
MoveStart(o, g, d) ==
  /\ Has("move") /\ ops[o] = Idle /\ left.requests > 0 /\ grants[g] # 0 /\ grants[d] # 0 /\ ~r.stopping
  /\ t' = pin_refs(t, <<grants[g], grants[d]>>)
  /\ ops' = [ops EXCEPT ![o] = [Idle EXCEPT !.kind = "move", !.st = "new", !.access = grants[g], !.dest = grants[d]]]
  /\ left' = [left EXCEPT !.requests = @ - 1]
  /\ UNCHANGED <<r, grants, lister, sc>>

Prepares(s, o, path, x, to) ==
  LET n == resolve(s, o.access, path)
  IN /\ n # 0 /\ ~s.sealed /\ IsDir(s, n) /\ target(s, n, x) # 0
     /\ IsDir(s, o.dest) /\ s.nodes[o.dest].entries[to] = 0
prepare_move(s, o, path, x, to) ==
  LET n == resolve(s, o.access, path)
      c == target(s, n, x)
      dir == s.nodes[c].kind = "dir"
  IN [o EXCEPT !.st = "prepared", !.parent = n, !.name = x, !.to = to, !.target = c,
               !.ancestor = IF dir THEN o.dest ELSE 0, !.checked = ~dir, !.epoch = s.epoch,
               !.versions = <<s.nodes[n].version, s.nodes[o.dest].version, s.nodes[c].version>>]
MovePrepare(o, path, x, to) ==
  /\ ops[o].kind = "move" /\ ops[o].st = "new"
  /\ IF Prepares(t, ops[o], path, x, to)
     THEN \E p \in {prepare_move(t, ops[o], path, x, to)} :
            /\ t' = drop_refs(pin_refs(t, Refs(p)), Refs(ops[o]))
            /\ ops' = [ops EXCEPT ![o] = p]
     ELSE Finish(t, o)
  /\ UNCHANGED <<r, grants, lister, left, sc>>

\* The structure the walk has seen is still the one it commits to.
\* Mutant: the epoch of the walk is not compared.
Current_Any(s, o) == TRUE
Current(s, o) == s.epoch = o.epoch

\* One unit of the walk: [at, res]; "ok" when the top was reached, "walk" while it goes on.
Step(s, o, w) ==
  CASE w.res # "walk" -> w
    [] w.at = 0 -> [w EXCEPT !.res = "ok"]
    [] w.at = o.target -> [w EXCEPT !.res = "cycle"]
    [] s.nodes[w.at].parent # 0 /\ ~Linked(s, s.nodes[w.at].parent) -> [w EXCEPT !.res = "conflict"]
    [] OTHER -> [w EXCEPT !.at = s.nodes[w.at].parent]
validate_move_step(s, o) ==
  IF ~Current(s, o) THEN [at |-> o.ancestor, res |-> "conflict"]
  ELSE LET w == FoldLeft(LAMBDA acc, k : Step(s, o, acc), [at |-> o.ancestor, res |-> IF o.checked THEN "ok" ELSE "walk"],
                         [k \in 1..Budget |-> k])
       IN IF w.res = "walk" /\ w.at = 0 THEN [w EXCEPT !.res = "ok"] ELSE w

Valid(s, o) ==
  /\ ~s.sealed /\ Current(s, o)
  /\ s.nodes[o.target].version = o.versions[3] /\ ~s.nodes[o.target].taken
  /\ s.nodes[o.parent].version = o.versions[1] /\ s.nodes[o.parent].entries[o.name] = o.target
  /\ s.nodes[o.dest].version = o.versions[2] /\ s.nodes[o.dest].entries[o.to] = 0
Moved(s, o) ==
  [s EXCEPT !.nodes = [[@ EXCEPT ![o.parent].entries[o.name] = 0, ![o.parent].version = o.versions[1] + 1]
                          EXCEPT ![o.dest].entries[o.to] = o.target, ![o.dest].version = o.versions[2] + 1,
                                 ![o.target].parent = o.dest, ![o.target].version = o.versions[3] + 1],
            !.epoch = @ + 1]
MoveAdvance(o) ==
  /\ ops[o].kind = "move" /\ ops[o].st = "prepared"
  /\ \E w \in {validate_move_step(t, ops[o])} :
       CASE w.res = "walk" -> /\ t' = drop_ref(pin(t, w.at), ops[o].ancestor)
                              /\ ops' = [ops EXCEPT ![o].ancestor = w.at]
         [] w.res = "ok" /\ Valid(t, ops[o]) -> Finish(Moved(t, ops[o]), o)
         [] OTHER -> Finish(t, o)
  /\ UNCHANGED <<r, grants, lister, left, sc>>

\* The reply found its end first (client gone, deadline, stop): the request is dropped with what it holds.
MoveDropped(o) ==
  /\ ops[o].kind = "move"
  /\ Finish(t, o)
  /\ UNCHANGED <<r, grants, lister, left, sc>>

(*-- Take: prepare_take, commit_take, rollback_take --*)
TakeStart(o, g, x) ==
  /\ Has("take") /\ ops[o] = Idle /\ left.requests > 0 /\ grants[g] # 0 /\ ~r.stopping /\ ~t.sealed
  /\ \E c \in {target(t, grants[g], x)} :
       /\ c # 0 /\ t.nodes[c].kind = "prop" /\ t.nodes[c].value > 0
       /\ \E p \in {[Idle EXCEPT !.kind = "take", !.st = "prepared", !.access = grants[g], !.target = c,
                                 !.versions = <<t.nodes[c].version>>, !.value = t.nodes[c].value]} :
            /\ ops' = [ops EXCEPT ![o] = p]
            /\ t' = [pin_refs(t, Refs(p)) EXCEPT !.nodes[c].value = 0, !.nodes[c].taken = TRUE]
  /\ left' = [left EXCEPT !.requests = @ - 1]
  /\ UNCHANGED <<r, grants, lister, sc>>
commit_take(s, o) == [s EXCEPT !.nodes[o.target].taken = FALSE, !.nodes[o.target].version = @ + 1]
rollback_take(s, o) == [s EXCEPT !.nodes[o.target].taken = FALSE, !.nodes[o.target].value = o.value]
TakeEnd(o) ==
  /\ ops[o].kind = "take"
  /\ \E sent \in BOOLEAN : Finish(IF sent THEN commit_take(t, ops[o]) ELSE rollback_take(t, ops[o]), o)
  /\ UNCHANGED <<r, grants, lister, left, sc>>

(*-- Enumeration: one page per request, the cursor carries the epoch --*)
Listing(s, n) == SetToSortSeq({x \in Names : s.nodes[n].entries[x] # 0}, <)
Fresh(s, l) == l.index = 0 \/ l.epoch = s.epoch
Page(s, l) ==
  LET all == Listing(s, l.dir)
      upto == IF l.index + PageLimit < Len(all) THEN l.index + PageLimit ELSE Len(all)
      page == SubSeq(all, l.index + 1, upto)
  IN IF ~Fresh(s, l) \/ \E k \in DOMAIN page : s.nodes[s.nodes[l.dir].entries[page[k]]].taken THEN NoList
     ELSE [l EXCEPT !.seen = @ \o page, !.index = upto, !.epoch = s.epoch,
                    !.st = IF upto < Len(all) THEN "more" ELSE "done",
                    !.truth = {x \in Names : s.nodes[l.dir].entries[x] # 0}]
Enumerate(g) ==
  /\ Has("list") /\ lister.st # "done" /\ grants[g] # 0 /\ lister.dir \in {0, grants[g]}
  /\ lister' = Page(t, [lister EXCEPT !.dir = grants[g]])
  /\ lister' # lister
  /\ UNCHANGED <<t, r, grants, ops, left, sc>>

(*-- Grants --*)
Derive(g, x, d) ==
  /\ Has("derive") /\ left.requests > 0 /\ grants[g] # 0 /\ grants[d] = 0 /\ ~r.stopping
  /\ \E c \in {lookup_child(t, grants[g], x)} :
       /\ c # 0 /\ t.nodes[c].kind = "dir"
       /\ t' = pin(t, c) /\ grants' = [grants EXCEPT ![d] = c]
  /\ left' = [left EXCEPT !.requests = @ - 1]
  /\ UNCHANGED <<r, ops, lister, sc>>

\* Grant's retirement: the table entry goes with its root reference and the Retirement task is woken.
GrantGone(g) ==
  /\ Has("close") \/ r.stopping
  /\ grants[g] # 0
  /\ t' = drop_ref(t, grants[g])
  /\ grants' = [grants EXCEPT ![g] = 0]
  /\ r' = [r EXCEPT !.awake = TRUE]
  /\ UNCHANGED <<ops, lister, left, sc>>

Stop ==
  /\ ~r.stopping
  /\ r' = [r EXCEPT !.stopping = TRUE, !.awake = TRUE]
  /\ UNCHANGED <<t, grants, ops, lister, left, sc>>

(*-- The Retirement task and the store's retire_step --*)
seal(s) == drop_ref([unlink(s, 1) EXCEPT !.sealed = TRUE, !.rootpin = FALSE], 1)
HasWork(s) == s.retiring # 0 \/ s.current # 0 \/ s.queue # <<>>
Empty(s) == s.retiring = 0 /\ \A n \in Id : ~s.nodes[n].live

\* Payload::retire by b units, then the record itself when a unit is left.
retire_node(s, n, b) ==
  LET all == Listing(s, n)
      taken == SubSeq(all, 1, IF b < Len(all) THEN b ELSE Len(all))
      emptied == FoldLeft(LAMBDA acc, x : unlink([acc EXCEPT !.nodes[n].entries[x] = 0], s.nodes[n].entries[x]), s, taken)
      closed == IF b < s.nodes[n].value THEN b ELSE s.nodes[n].value
      work == Len(taken) + closed
      after == [emptied EXCEPT !.nodes[n].value = @ - closed]
      over == after.nodes[n].entries = None /\ after.nodes[n].value = 0
  IN IF over /\ work < b THEN [after EXCEPT !.nodes[n] = Nothing, !.current = 0] ELSE after
store_retire(s, b) ==
  LET p == IF s.current = 0 /\ s.queue # <<>> THEN [s EXCEPT !.current = Head(s.queue), !.queue = Tail(@)] ELSE s
  IN IF p.current = 0 THEN p ELSE retire_node(p, p.current, b)
retire_step(s) ==
  IF s.retiring = 0 THEN store_retire(s, Budget)
  ELSE LET p == [s EXCEPT !.retiring = @ - 1]
       IN IF Budget > 1 /\ (p.current # 0 \/ p.queue # <<>>) THEN store_retire(p, Budget - 1) ELSE p

Deliver ==
  /\ r.src /\ r.armed /\ t.signal
  /\ r' = [r EXCEPT !.armed = FALSE, !.event = TRUE, !.awake = TRUE]
  /\ UNCHANGED <<t, grants, ops, lister, left, sc>>

seal_when_grants_drained(s) == IF r.stopping /\ ~s.sealed /\ \A g \in Grants : grants[g] = 0 THEN seal(s) ELSE s
RetireAdvance ==
  /\ r.awake /\ ~r.done
  /\ \E s \in {seal_when_grants_drained([t EXCEPT !.signal = @ /\ ~r.event])} :
     \E q \in {[r EXCEPT !.event = FALSE, !.rearm = @ \/ r.event]} :
       IF HasWork(s) THEN t' = retire_step(s) /\ r' = q
       ELSE /\ t' = s
            /\ r' = CASE q.stopping /\ s.sealed /\ Empty(s) /\ q.src -> [q EXCEPT !.src = FALSE, !.rearm = FALSE]
                      [] q.stopping /\ s.sealed /\ Empty(s) /\ ~q.src -> [q EXCEPT !.done = TRUE, !.awake = FALSE]
                      [] q.src /\ q.rearm -> [q EXCEPT !.rearm = FALSE, !.armed = TRUE]
                      [] OTHER -> [q EXCEPT !.awake = FALSE]
  /\ UNCHANGED <<grants, ops, lister, left, sc>>

Next ==
  \/ \E g \in Grants, x \in Names, kind \in {"dir", "prop"} : Create(g, x, kind)
  \/ \E g \in Grants, x \in Names : Delete(g, x)
  \/ \E g \in Grants, x \in Names, v \in Values : Write(g, x, v)
  \/ \E o \in Ops, g, d \in Grants : MoveStart(o, g, d)
  \/ \E o \in Ops, path \in Names \cup {0}, x, to \in Names : MovePrepare(o, path, x, to)
  \/ \E o \in Ops : MoveAdvance(o) \/ MoveDropped(o) \/ TakeEnd(o)
  \/ \E o \in Ops, g \in Grants, x \in Names : TakeStart(o, g, x)
  \/ \E g \in Grants : Enumerate(g) \/ GrantGone(g)
  \/ \E g, d \in Grants, x \in Names : Derive(g, x, d)
  \/ Stop \/ Deliver \/ RetireAdvance

Spec == Init /\ [][Next]_vars

(*-- Properties --*)
\* The directories form a tree whatever moves and deletions interleave (backend.rs commit): an entry names a resident
\* node that records this directory as its parent, a node's link count is the number of entries naming it, no two
\* entries name one node, and the way up through the parents ends: no directory is among its own ancestors.
Naming(n) == {<<d, x>> \in Id \X Names : t.nodes[d].live /\ t.nodes[d].entries[x] = n}
Climb(n) == FoldLeft(LAMBDA m, k : IF m = 0 THEN 0 ELSE t.nodes[m].parent, n, [k \in 1..MaxId |-> k])
TreeSound ==
  \A n \in Id : t.nodes[n].live =>
    /\ \E naming \in {Naming(n)} :
         /\ t.nodes[n].links = Cardinality(naming) + (IF n = 1 /\ ~t.sealed THEN 1 ELSE 0)
         /\ Cardinality(naming) <= 1
         /\ \A p \in naming : t.nodes[n].parent = p[1]
    /\ Climb(n) = 0
    /\ \A x \in Names : t.nodes[n].entries[x] # 0 => t.nodes[t.nodes[n].entries[x]].live

\* References keep nodes alive, and nothing else does (store.rs): every reference held by a grant, by a request in
\* progress or by the backend's root is counted and its node is resident; a node in retirement has no reference and no
\* link, is queued once, and a resident node without references and links is in retirement.
Held_by(refs, n) == Held(n) + (IF n = 1 /\ t.rootpin THEN 1 ELSE 0) + Cardinality({k \in DOMAIN refs : refs[k] = n})
InRetirement == {t.current} \cup {t.queue[k] : k \in DOMAIN t.queue}
LeasesExact ==
  /\ \E refs \in {FlattenSeq([k \in 1..Cardinality(Ops) |-> Refs(ops[k])])} :
       \A n \in Id : t.nodes[n].pins = Held_by(refs, n) /\ (t.nodes[n].pins > 0 => t.nodes[n].live)
  /\ \A n \in Id : t.nodes[n].live => (t.nodes[n].links = 0 /\ t.nodes[n].pins = 0 <=> n \in InRetirement)
  /\ IsInjective(t.queue) /\ t.current \notin {t.queue[k] : k \in DOMAIN t.queue}

\* What a Take has reserved is untouched when its reply decides (backend.rs commit_take, rollback_take): the node is
\* resident, still marked, still empty and of the version the reservation saw, so neither assertion can fail; and no two
\* Takes hold one node.
TakesKept ==
  \A o \in Ops : ops[o].kind = "take" =>
    LET n == t.nodes[ops[o].target]
    IN /\ n.live /\ n.taken /\ n.version = ops[o].versions[1] /\ n.value = 0
       /\ \A q \in Ops \ {o} : ops[q].kind = "take" => ops[q].target # ops[o].target

\* An enumeration that reached its end without a Conflict listed every entry of the directory exactly once, whatever
\* changed between its pages (backend.rs enumerate: the cursor carries the epoch).
ListsWhole == lister.st = "done" => IsInjective(lister.seen) /\ {lister.seen[k] : k \in DOMAIN lister.seen} = lister.truth

\* No retirement is forgotten (provider.rs Retirement, store.rs enqueue): when the task is parked and no event is on
\* its way, nothing waits to be retired; once stopped, without grants and requests, the backend has been emptied and
\* closed.
Quiet == ~r.awake /\ ~(r.src /\ r.armed /\ t.signal)
QuietRetired ==
  Quiet => /\ ~HasWork(t)
           /\ (r.stopping /\ (\A g \in Grants : grants[g] = 0) /\ (\A o \in Ops : ops[o] = Idle)) => r.done /\ Empty(t)
=============================================================================
