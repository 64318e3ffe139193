---------------------------- MODULE ProcessBuild ----------------------------
(***************************************************************************)
(* Assembling a process (kernel task/process.rs, task/proc.rs,             *)
(* task/resources.rs, shared/metadata_admission).  Threads of a caller run *)
(* the builder's system calls step by step: each step is one section under *)
(* a lock or one atomic counter update, and everything acquired on the way *)
(* is owned by the call until it is installed or dropped.  The bootstrap   *)
(* path (spawn_from_elf, launch_bootstrap) runs the same steps without a   *)
(* builder.  What is counted: metadata permits (local to the sponsor, then *)
(* global), pages charged to the Pool, Building operations.                *)
(***************************************************************************)
EXTENDS Integers, FiniteSets, Sequences

CONSTANTS
    Pids,       \* processes that can be created
    Threads,    \* threads issuing the calls
    Limit,      \* global limit of each permit class
    Local,      \* limit of each class within one sponsor
    PoolPages,  \* pages of the Pool every process is bound to
    MaxFaults,  \* allocation and output faults
    Casts,      \* what the threads call, frozen in the first state
    Loads       \* slots and pages that other processes of the system hold throughout

VARIABLES
    proc,    \* Process core, AddressSpace, target HandleTable, builder and control shells
    op,      \* the call each thread is executing and what it owns
    adm,     \* ADMISSION: slots in use per class
    pool,    \* the caller's Pool handle and the pages charged
    script,  \* calls not issued yet
    faults,
    load     \* the one of Loads this behaviour has

vars == <<proc, op, adm, pool, script, faults, load>>

Classes == {"core", "builder", "control", "space", "region", "slice"}

Zero == [c \in Classes |-> 0]

\* Text, stack and, for init, the startup block; the text is funded as two extents, an extent is a page here.
Windows == {1, 2, 3}

Extents(w) == IF w = 1 THEN 2 ELSE 1

Over(f, S) == LET g[R \in SUBSET S] == IF R = {} THEN 0 ELSE LET x == CHOOSE x \in R : TRUE IN f[x] + g[R \ {x}]
              IN  g[S]

NoProc == [st |-> "none", member |-> "none", sponsor |-> FALSE, keep |-> Zero, loc |-> Zero, ops |-> 0,
           reap |-> FALSE, debt |-> FALSE, unpub |-> FALSE, bound |-> FALSE, binding |-> FALSE, exec |-> FALSE,
           threads |-> 0, slots |-> 0, txn |-> FALSE, regions |-> {}, planned |-> {}, tables |-> 0,
           builder |-> "none", control |-> "none"]

NoOp == [k |-> "idle", pc |-> "idle", p |-> 0, w |-> 0, l |-> Zero, g |-> Zero, pages |-> 0, need |-> 0,
         core |-> FALSE, shell |-> FALSE, lease |-> FALSE, pin |-> FALSE, bind |-> FALSE, slot |-> FALSE, count |-> 0]

Call(k, p, w) == [k |-> k, p |-> p, w |-> w]

Init == /\ proc = [p \in Pids |-> NoProc]
        /\ op = [t \in Threads |-> NoOp]
        /\ load \in Loads
        /\ adm = load.adm
        /\ pool = [handle |-> [h \in {1, 2} |-> "held"], used |-> load.pages]
        /\ script \in Casts
        /\ faults = 0

-----------------------------------------------------------------------------
(* Lifecycle of the target.                                                *)

is_reapable(q) == q.st = "Terminating" /\ q.ops = 0 /\ q.threads = 0

publish_reapable(q) == [q EXCEPT !.reap = @ \/ is_reapable(q)]

\* request_termination and run_termination_todo: REAPABLE at once, or a debt over the member slots.
request_termination(q) ==
    IF q.st \in {"Terminating", "Dead"} THEN q
    ELSE LET z == [q EXCEPT !.st = "Terminating"]
         IN  publish_reapable([z EXCEPT !.debt = z.threads > 0])

leave_building_op(q) == publish_reapable([q EXCEPT !.ops = @ - 1])

-----------------------------------------------------------------------------
(* Metadata admission.                                                     *)

Fits(used, limit) == used + 1 <= limit

\* Everything the process still has an owner for: the permits its shells, core and space hold.
Users(p, o) == {t \in Threads : o[t].p = p}

CoreHeld(q, p, o) == q.member = "committed" \/ q.debt \/ q.unpub \/ \E t \in Users(p, o) : o[t].core

BuilderHeld(q, p, o) == q.builder \in {"held", "pinned"} \/ \E t \in Users(p, o) : o[t].shell

Gone(q, p, o) ==
    {c \in {"core", "builder", "control"} :
        /\ q.keep[c] = 1
        /\ CASE c = "core" -> ~CoreHeld(q, p, o)
             [] c = "builder" -> ~BuilderHeld(q, p, o)
             [] OTHER -> q.control = "gone"}

\* Permits that lost their last owner go back to both counters; the sponsor's own slot goes back with the last of them.
Settled(z, o, a, p) ==
    LET q == z[p]
        gone == Gone(q, p, o)
        left == [q EXCEPT !.keep = [c \in Classes |-> IF c \in gone THEN 0 ELSE @[c]],
                          !.loc = [c \in Classes |-> IF c \in gone THEN @[c] - 1 ELSE @[c]]]
        last == /\ left.sponsor /\ left.loc = Zero /\ ~CoreHeld(q, p, o)
                /\ \A t \in Users(p, o) : o[t].k \notin {"create", "boot"}
    IN  [z |-> [z EXCEPT ![p] = [left EXCEPT !.sponsor = @ /\ ~last]],
         a |-> [c \in DOMAIN a |-> a[c] - (IF c \in gone \/ (c = "sponsor" /\ last) THEN 1 ELSE 0)]]

\* What a returning call still owns is dropped: permits, the target's handle slot, the binding flag, the lease.
Released(q, x) ==
    LET z == [q EXCEPT !.loc = [c \in Classes |-> @[c] - x.l[c]], !.binding = @ /\ ~x.bind,
                       !.slots = @ - (IF x.slot THEN 1 ELSE 0)]
    IN  IF x.lease THEN leave_building_op(z) ELSE z

\* The call x of thread t returns; q is its target as the last section left it.
Return(t, x, q, handle) ==
    LET o == [op EXCEPT ![t] = NoOp]
        a == [c \in DOMAIN adm |-> adm[c] - (IF c = "sponsor" THEN 0 ELSE x.g[c])]
        r == Settled([proc EXCEPT ![x.p] = Released(q, x)], o, a, x.p)
    IN  /\ op' = o /\ proc' = r.z /\ adm' = r.a
        /\ pool' = [handle |-> handle, used |-> pool.used - x.pages]

\* UnpublishedBound::rollback: freeze Building, leave the drain to its prepaid debt.
rollback(q) == [request_termination(q) EXCEPT !.control = IF @ = "held" THEN "gone" ELSE @, !.unpub = TRUE]

\* What an error return does to the target: nothing but the pin, except that a half-made process goes.
Undone(x, q) ==
    CASE x.k = "create" -> [NoProc EXCEPT !.sponsor = q.sponsor, !.loc = q.loc, !.builder = "gone", !.control = "gone"]
      [] x.k = "boot" /\ ~q.bound -> [NoProc EXCEPT !.sponsor = q.sponsor, !.loc = q.loc]
      [] x.k = "boot" /\ q.bound -> rollback(q)
      [] OTHER -> [q EXCEPT !.builder = IF x.pin THEN "held" ELSE @]

\* Mutant: the pool handle of a failed bind stays pinned.
Unpinned_Forgot(x) == pool.handle

Unpinned(x) == IF x.pin /\ x.k = "bind" THEN [pool.handle EXCEPT ![x.w] = "held"] ELSE pool.handle

Fail(t, q) == Return(t, op[t], Undone(op[t], q), Unpinned(op[t]))

At(t, pc) == op[t].pc = pc

Q(t) == proc[op[t].p]

Fault == faults < MaxFaults /\ faults' = faults + 1

NoFault == UNCHANGED faults

\* Move n permits of class c from the call to the target.
Installed(q, c, n) == [q EXCEPT !.keep[c] = @ + n]

Given(x, c, n) == [x EXCEPT !.l[c] = @ - n, !.g[c] = @ - n]

Step(t, x, q) == op' = [op EXCEPT ![t] = x] /\ proc' = [proc EXCEPT ![x.p] = q]

\* SponsoredPermit::try_acquire: the sponsor's counter, then the global one; a refusal drops the first.
try_acquire(t, c, n, next) ==
    LET x == op[t]  q == Q(t) IN
    /\ At(t, c) /\ NoFault /\ UNCHANGED script
    /\ \/ /\ x.l[c] = x.g[c] /\ Fits(q.loc[c], Local[c])
          /\ Step(t, [x EXCEPT !.l[c] = @ + 1], [q EXCEPT !.loc[c] = @ + 1])
          /\ UNCHANGED <<adm, pool>>
       \/ /\ x.l[c] # x.g[c] /\ Fits(adm[c], Limit[c])
          /\ Step(t, [x EXCEPT !.g[c] = @ + 1, !.pc = IF x.l[c] = n THEN next ELSE c], q)
          /\ adm' = [adm EXCEPT ![c] = @ + 1]
          /\ UNCHANGED pool
       \/ /\ IF x.l[c] = x.g[c] THEN ~Fits(q.loc[c], Local[c]) ELSE ~Fits(adm[c], Limit[c])
          /\ Fail(t, q)

\* Pages are charged to the Pool before they are used.
charge(t, n, x, q, else) ==
    /\ UNCHANGED script
    /\ \/ /\ pool.used + n <= PoolPages /\ NoFault
          /\ Step(t, [x EXCEPT !.pages = @ + n], q)
          /\ pool' = [pool EXCEPT !.used = @ + n]
          /\ UNCHANGED adm
       \/ (IF pool.used + n <= PoolPages THEN Fault ELSE NoFault) /\ Fail(t, else)

-----------------------------------------------------------------------------
(* ProcessCreate, and the shared head of the bootstrap launch.              *)

\* gate_reserve_member: the Job entry is reserved before anything is built.
gate_reserve_member(t) ==
    /\ At(t, "gate") /\ NoFault
    /\ Step(t, [op[t] EXCEPT !.pc = "sponsor"], [Q(t) EXCEPT !.member = "reserved"])
    /\ UNCHANGED <<adm, pool, script>>

\* MetadataSponsor::try_new.
sponsor(t) ==
    /\ At(t, "sponsor") /\ NoFault /\ UNCHANGED script
    /\ \/ /\ Fits(adm["sponsor"], Limit["sponsor"])
          /\ Step(t, [op[t] EXCEPT !.pc = "core"], [Q(t) EXCEPT !.sponsor = TRUE])
          /\ adm' = [adm EXCEPT !["sponsor"] = @ + 1]
          /\ UNCHANGED pool
       \/ ~Fits(adm["sponsor"], Limit["sponsor"]) /\ Fail(t, Q(t))

\* Process::new and the two shells.
new_core(t) == try_acquire(t, "core", 1, IF op[t].k = "boot" THEN "unpub" ELSE "builder")

new_builder(t) == try_acquire(t, "builder", 1, "control")

new_control(t) == try_acquire(t, "control", 1, IF op[t].k = "boot" THEN "shell" ELSE "commit")

\* create_staged: the output is written, both handles and the Job member are committed under their locks.
create_commit(t) ==
    LET q == [Q(t) EXCEPT !.st = "Building", !.member = "committed", !.builder = "held", !.control = "held",
                          !.keep = [@ EXCEPT !["core"] = 1, !["builder"] = 1, !["control"] = 1]]
    IN
    /\ At(t, "commit") /\ UNCHANGED script
    /\ \/ NoFault /\ Return(t, [op[t] EXCEPT !.l = Zero, !.g = Zero], q, pool.handle)
       \/ Fault /\ Fail(t, Q(t))

-----------------------------------------------------------------------------
(* The calls on a builder.                                                  *)

First == [bind |-> "vacant", map |-> "check", exec |-> "exec", attach |-> "ready", start |-> "members"]

Made(p) == ~\E t \in Threads : \/ op[t].k \in {"create", "boot"} /\ op[t].p = p
                               \/ \E i \in DOMAIN script[t] : script[t][i].k \in {"create", "boot"} /\ script[t][i].p = p

\* enter_building_op.
enter(q) == q.st = "Building"

entered(q) == [q EXCEPT !.ops = @ + 1]

\* A call starts: the builder is resolved and its process entered, or the call returns an error.
Issue(t) ==
    /\ op[t].k = "idle" /\ script[t] # <<>> /\ NoFault
    /\ script' = [script EXCEPT ![t] = Tail(@)]
    /\ LET c == Head(script[t])
           q == proc[c.p]
           x == [NoOp EXCEPT !.k = c.k, !.p = c.p, !.w = c.w, !.core = TRUE]
       IN  \/ /\ c.k \in {"create", "boot"}
              /\ Step(t, [x EXCEPT !.pc = IF c.k = "boot" THEN "sponsor" ELSE "gate"], q)
              /\ UNCHANGED <<adm, pool>>
           \/ /\ c.k \in DOMAIN First /\ Made(c.p)
              /\ \/ /\ q.builder = "held" /\ enter(q)
                    /\ Step(t, [x EXCEPT !.pc = First[c.k], !.shell = TRUE, !.lease = TRUE], entered(q))
                 \/ (q.builder # "held" \/ ~enter(q)) /\ UNCHANGED <<op, proc>>
              /\ UNCHANGED <<adm, pool>>
           \/ /\ c.k = "close" /\ Made(c.p)
              /\ IF q.builder = "held"
                 THEN Step(t, [x EXCEPT !.pc = "abort", !.shell = TRUE], [q EXCEPT !.builder = "gone"])
                 ELSE UNCHANGED <<op, proc>>
              /\ UNCHANGED <<adm, pool>>
           \/ /\ c.k = "kill" /\ Made(c.p)
              /\ proc' = [proc EXCEPT ![c.p] = IF q.control = "held" THEN request_termination(q) ELSE q]
              /\ UNCHANGED <<op, adm, pool>>
           \/ /\ c.k = "drop" /\ Made(c.p)
              /\ LET r == Settled([proc EXCEPT ![c.p].control = IF @ = "held" THEN "gone" ELSE @], op, adm, c.p)
                 IN  proc' = r.z /\ adm' = r.a
              /\ UNCHANGED <<op, pool>>

\* ProcessBuilder::close_handle.
abort_builder(t) == At(t, "abort") /\ NoFault /\ UNCHANGED script /\ Return(t, op[t], request_termination(Q(t)), pool.handle)

\* bind_memory: is_bound, the one-at-a-time flag, is_bound again, then the pins.
bind_vacant(t) ==
    LET x == op[t]  q == Q(t) IN
    /\ At(t, "vacant") /\ NoFault /\ UNCHANGED script
    /\ \/ q.bound /\ Fail(t, q)
       \/ ~q.bound /\ x.bind /\ Step(t, [x EXCEPT !.pc = "pin"], q) /\ UNCHANGED <<adm, pool>>
       \/ ~q.bound /\ ~x.bind /\ Step(t, [x EXCEPT !.pc = "flag"], q) /\ UNCHANGED <<adm, pool>>

try_reserve_binding(t) ==
    LET x == op[t]  q == Q(t) IN
    /\ At(t, "flag") /\ NoFault /\ UNCHANGED script
    /\ \/ q.binding /\ Fail(t, q)
       \/ /\ ~q.binding
          /\ Step(t, [x EXCEPT !.pc = "vacant", !.bind = TRUE], [q EXCEPT !.binding = TRUE])
          /\ UNCHANGED <<adm, pool>>

\* The builder is protected, the Pool entry pinned for the move.
pin_transfer(t) ==
    LET x == op[t]  q == Q(t) IN
    /\ At(t, "pin") /\ x.k = "bind" /\ NoFault /\ UNCHANGED script
    /\ \/ /\ q.builder = "held" /\ pool.handle[x.w] = "held"
          /\ Step(t, [x EXCEPT !.pc = "space", !.pin = TRUE], [q EXCEPT !.builder = "pinned"])
          /\ pool' = [pool EXCEPT !.handle[x.w] = "pinned"]
          /\ UNCHANGED adm
       \/ ~(q.builder = "held" /\ pool.handle[x.w] = "held") /\ Fail(t, q)

\* reserve_address_space: the shell, then the prepaid planner capacity.
reserve_space(t) == try_acquire(t, "space", 1, "region")

reserve_region(t) == try_acquire(t, "region", 1, "root")

\* BoundAddressSpace::new: the root table is the first page charged.
new_bound(t) == At(t, "root") /\ charge(t, 1, [op[t] EXCEPT !.pc = "publish"], Q(t), Q(t))

BoundSpace(q) == Installed(Installed([q EXCEPT !.bound = TRUE], "space", 1), "region", 1)

Unowned(x) == [Given(Given(x, "space", 1), "region", 1) EXCEPT !.pages = 0]

\* Bound is published and the Pool entry consumed under both locks.
bind_publish(t) ==
    LET x == op[t]  q == Q(t) IN
    /\ At(t, "publish") /\ x.k = "bind" /\ NoFault /\ UNCHANGED script
    /\ IF q.bound THEN Fail(t, q)
       ELSE Return(t, Unowned(x), BoundSpace([q EXCEPT !.builder = "held"]), [pool.handle EXCEPT ![x.w] = "moved"])

-----------------------------------------------------------------------------
(* ProcessMap: validate, fund outside the lock, plan, fund tables, install. *)

Mappable(q, w) == q.bound /\ ~q.txn /\ w \notin q.regions

validate_building_anonymous(t) ==
    LET x == op[t] IN
    /\ At(t, "check") /\ NoFault /\ UNCHANGED script
    /\ \/ Mappable(Q(t), x.w) /\ Step(t, [x EXCEPT !.pc = "fund"], Q(t)) /\ UNCHANGED <<adm, pool>>
       \/ ~Mappable(Q(t), x.w) /\ Fail(t, Q(t))

fund_owned_backing(t) == At(t, "fund") /\ charge(t, Extents(op[t].w), [op[t] EXCEPT !.pc = "slice"], Q(t), Q(t))

assemble_prepared_backing(t) == try_acquire(t, "slice", Extents(op[t].w), "plan")

\* plan_bound_anonymous: the region is reserved, the table transaction taken, the missing tables counted.
plan_bound_anonymous(t) ==
    LET x == op[t]  q == Q(t) IN
    /\ At(t, "plan") /\ NoFault /\ UNCHANGED script
    /\ \/ /\ Mappable(q, x.w)
          /\ Step(t, [x EXCEPT !.pc = "tables", !.need = 1 - q.tables], [q EXCEPT !.txn = TRUE, !.planned = @ \cup {x.w}])
          /\ UNCHANGED <<adm, pool>>
       \/ ~Mappable(q, x.w) /\ Fail(t, q)

rollback_memory_change_plan(q, w) == [q EXCEPT !.txn = FALSE, !.planned = @ \ {w}]

fund_table_preflights(t) ==
    At(t, "tables") /\ charge(t, op[t].need, [op[t] EXCEPT !.pc = "install"], Q(t),
                              rollback_memory_change_plan(Q(t), op[t].w))

Bytes(w) == IF w = 3 THEN 2 ELSE Extents(w)

\* complete_bound_mapping: owners move into the space in one section, or all of them are handed back.
complete_bound_mapping(t) ==
    LET x == op[t]
        q == rollback_memory_change_plan(Q(t), x.w)
        z == Installed([q EXCEPT !.regions = @ \cup {x.w}, !.tables = @ + x.need], "slice", Extents(x.w))
        y == [Given(x, "slice", Extents(x.w)) EXCEPT !.pages = 0, !.need = 0]
        next == CASE x.w = 1 -> [pc |-> "fund", w |-> 2] [] x.w = 2 -> [pc |-> "control", w |-> 2] [] OTHER -> [pc |-> "domain", w |-> 3]
    IN
    /\ At(t, "install") /\ UNCHANGED script
    /\ \/ NoFault /\ x.k = "map" /\ Return(t, y, z, pool.handle)
       \/ NoFault /\ x.k = "boot" /\ Step(t, [y EXCEPT !.pc = next.pc, !.w = next.w], z) /\ UNCHANGED <<adm, pool>>
       \/ Fault /\ Fail(t, q)

-----------------------------------------------------------------------------
(* Execution, threads and start.                                            *)

bind_execution(t) ==
    LET q == Q(t) IN
    /\ At(t, "exec") /\ NoFault /\ UNCHANGED script
    /\ \/ q.bound /\ ~q.exec /\ Return(t, op[t], [q EXCEPT !.exec = TRUE], pool.handle)
       \/ ~(q.bound /\ ~q.exec) /\ Fail(t, q)

\* create_thread: ready capacity and a slot of the target's HandleTable are reserved first.
reserve_thread(t) ==
    LET x == op[t]  q == Q(t) IN
    /\ At(t, "ready") /\ UNCHANGED script
    /\ \/ /\ q.bound /\ q.exec /\ NoFault
          /\ Step(t, [x EXCEPT !.pc = "attach", !.slot = TRUE], [q EXCEPT !.slots = @ + 1])
          /\ UNCHANGED <<adm, pool>>
       \/ (IF q.bound /\ q.exec THEN Fault ELSE NoFault) /\ Fail(t, q)

\* attach_thread_with_control: the context is validated, a Created member inserted while Building.
attach_member(t) ==
    LET x == op[t]  q == Q(t)  fit == {1, 2} \subseteq q.regions /\ q.st = "Building" IN
    /\ At(t, "attach") /\ UNCHANGED script
    /\ \/ /\ fit /\ NoFault
          /\ Step(t, [x EXCEPT !.pc = IF x.k = "boot" THEN "member" ELSE "handle"], [q EXCEPT !.threads = @ + 1])
          /\ UNCHANGED <<adm, pool>>
       \/ (IF fit THEN Fault ELSE NoFault) /\ Fail(t, q)

\* The ThreadControl entry is committed into the target's table.
commit_thread(t) ==
    At(t, "handle") /\ NoFault /\ UNCHANGED script /\ Return(t, [op[t] EXCEPT !.slot = FALSE], Q(t), pool.handle)

start_members(t) ==
    LET x == op[t]  q == Q(t)  fit == q.bound /\ q.exec /\ q.threads > 0 IN
    /\ At(t, "members") /\ NoFault /\ UNCHANGED script
    /\ \/ fit /\ Step(t, [x EXCEPT !.pc = "pin", !.count = q.threads], q) /\ UNCHANGED <<adm, pool>>
       \/ ~fit /\ Fail(t, q)

pin_consume(t) ==
    LET x == op[t]  q == Q(t) IN
    /\ At(t, "pin") /\ x.k = "start" /\ NoFault /\ UNCHANGED script
    /\ \/ q.builder = "held" /\ Step(t, [x EXCEPT !.pc = "run", !.pin = TRUE], [q EXCEPT !.builder = "pinned"]) /\ UNCHANGED <<adm, pool>>
       \/ q.builder # "held" /\ Fail(t, q)

\* begin_running: the live gate, the expected members, no other Building operation.
Runnable(q, n) == q.st = "Building" /\ q.threads > 0 /\ q.threads = n /\ q.ops = 1

begin_running(t) ==
    LET x == op[t]  q == Q(t) IN
    /\ At(t, "run") /\ NoFault /\ UNCHANGED script
    /\ \/ /\ Runnable(q, x.count)
          /\ Step(t, [x EXCEPT !.pc = "consume", !.lease = FALSE], [q EXCEPT !.st = "Running", !.ops = @ - 1])
          /\ UNCHANGED <<adm, pool>>
       \/ ~Runnable(q, x.count) /\ Fail(t, q)

\* commit_pinned_consume and ProcessBuilder::consume.
consume(t) ==
    At(t, "consume") /\ NoFault /\ UNCHANGED script /\ Return(t, op[t], [Q(t) EXCEPT !.builder = "consumed"], pool.handle)

-----------------------------------------------------------------------------
(* Bootstrap: spawn_from_elf up to the image, launch_bootstrap from there.  *)

\* reserve_unpublished precedes the bind, so that a later failure has its drain.
reserve_unpublished(t) ==
    /\ At(t, "unpub") /\ UNCHANGED script
    /\ \/ NoFault /\ Step(t, [op[t] EXCEPT !.pc = "space"], [Q(t) EXCEPT !.st = "Building"]) /\ UNCHANGED <<adm, pool>>
       \/ Fault /\ Fail(t, Q(t))

\* bind_memory_internal; the core now has an UnpublishedBound owner.
bind_internal(t) ==
    LET x == op[t] IN
    /\ At(t, "publish") /\ x.k = "boot" /\ NoFault
    /\ Step(t, [Given(Unowned(x), "core", 1) EXCEPT !.pc = "fund", !.w = 1], Installed(BoundSpace([Q(t) EXCEPT !.unpub = TRUE]), "core", 1))
    /\ UNCHANGED <<adm, pool, script>>

\* ProcessControl::new, the other entries and the slots of init's HandleTable.
reserve_entries(t) ==
    LET x == op[t]  q == Installed([Q(t) EXCEPT !.control = "held"], "control", 1) IN
    /\ At(t, "shell")
    /\ \/ NoFault /\ Step(t, [Given(x, "control", 1) EXCEPT !.pc = "payload", !.slot = TRUE, !.w = 3], [q EXCEPT !.slots = @ + 1]) /\ UNCHANGED <<adm, pool, script>>
       \/ Fault /\ Fail(t, Q(t)) /\ UNCHANGED script

\* fund_boot_held: the boot package's extent is charged before the block that shows it is mapped.
fund_boot_held(t) == At(t, "payload") /\ charge(t, 1, [op[t] EXCEPT !.pc = "fund"], Q(t), Q(t))

\* resolve_domain, reserve_ready, bind_execution.
bind_domain(t) ==
    /\ At(t, "domain") /\ UNCHANGED script
    /\ \/ NoFault /\ Step(t, [op[t] EXCEPT !.pc = "attach"], [Q(t) EXCEPT !.exec = TRUE]) /\ UNCHANGED <<adm, pool>>
       \/ Fault /\ Fail(t, Q(t))

\* prepare_commit, reserve_member and the commit section: handles, Job member and Running together.
launch(t) ==
    LET q == [Q(t) EXCEPT !.member = "committed", !.st = "Running", !.unpub = FALSE] IN
    /\ At(t, "member") /\ UNCHANGED script
    /\ \/ NoFault /\ Return(t, [op[t] EXCEPT !.slot = FALSE], q, pool.handle)
       \/ Fault /\ Fail(t, Q(t))

-----------------------------------------------------------------------------
(* Deferred work and the drain of a REAPABLE process.                       *)

\* advance_termination_cleanup takes Created members; running ones leave at their next trap.
cleanup(p) ==
    /\ proc[p].debt
    /\ LET r == Settled([proc EXCEPT ![p] = publish_reapable([@ EXCEPT !.debt = FALSE, !.threads = 0])], op, adm, p)
       IN  proc' = r.z /\ adm' = r.a
    /\ UNCHANGED <<op, pool, script, faults>>

Charged(q) == (IF q.bound THEN 1 + q.tables ELSE 0) + Over([w \in Windows |-> Bytes(w)], q.regions)

\* drain_batch: handles, then regions, backings and tables, then the root with its PoolBinding, then Dead.
drain_batch(p) ==
    LET q == proc[p]
        n == q.keep["slice"]
        z == CASE q.slots > 0 -> [q EXCEPT !.slots = 0]
               [] q.slots = 0 /\ q.regions # {} ->
                  [q EXCEPT !.regions = {}, !.tables = 0, !.keep["slice"] = 0, !.loc["slice"] = @ - n]
               [] q.slots = 0 /\ q.regions = {} /\ q.bound ->
                  [q EXCEPT !.bound = FALSE, !.tables = 0, !.keep["space"] = 0, !.keep["region"] = 0,
                            !.loc["space"] = @ - 1, !.loc["region"] = @ - 1]
               [] OTHER -> [q EXCEPT !.st = "Dead", !.member = "none", !.unpub = FALSE]
        a == [c \in DOMAIN adm |-> adm[c] - (IF c \in Classes THEN q.loc[c] - z.loc[c] ELSE 0)]
        r == Settled([proc EXCEPT ![p] = z], op, a, p)
    IN
    /\ q.reap /\ q.st = "Terminating" /\ (q.member = "committed" \/ q.unpub)
    /\ proc' = r.z /\ adm' = r.a
    /\ pool' = [pool EXCEPT !.used = @ - (Charged(q) - Charged(z))]
    /\ UNCHANGED <<op, script, faults>>

Next ==
    /\ UNCHANGED load
    /\ \/ \E t \in Threads :
             \/ Issue(t) \/ gate_reserve_member(t) \/ sponsor(t) \/ new_core(t) \/ new_builder(t) \/ new_control(t)
             \/ create_commit(t) \/ abort_builder(t)
             \/ bind_vacant(t) \/ try_reserve_binding(t) \/ pin_transfer(t) \/ reserve_space(t) \/ reserve_region(t)
             \/ new_bound(t) \/ bind_publish(t)
             \/ validate_building_anonymous(t) \/ fund_owned_backing(t) \/ assemble_prepared_backing(t)
             \/ plan_bound_anonymous(t) \/ fund_table_preflights(t) \/ complete_bound_mapping(t)
             \/ bind_execution(t) \/ reserve_thread(t) \/ attach_member(t) \/ commit_thread(t)
             \/ start_members(t) \/ pin_consume(t) \/ begin_running(t) \/ consume(t)
             \/ reserve_unpublished(t) \/ bind_internal(t) \/ reserve_entries(t) \/ fund_boot_held(t)
             \/ bind_domain(t) \/ launch(t)
       \/ \E p \in Pids : cleanup(p) \/ drain_batch(p)

Spec == Init /\ [][Next]_vars

-----------------------------------------------------------------------------
(* Properties.                                                              *)

States == {"none", "Building", "Running", "Terminating", "Dead"}

\* The records keep their shape; counters stay within their limits and never underflow (the asserts of
\* Permit::drop, leave_building_op and the Pool).
TypeOK ==
    /\ \A p \in Pids : /\ proc[p].st \in States /\ proc[p].ops \in 0..Cardinality(Threads)
                       /\ proc[p].threads \in Nat /\ proc[p].slots \in Nat /\ proc[p].tables \in 0..1
                       /\ \A c \in Classes : proc[p].loc[c] \in 0..Local[c] /\ proc[p].keep[c] \in 0..Local[c]
    /\ \A c \in DOMAIN adm : adm[c] \in 0..Limit[c]
    /\ pool.used \in 0..PoolPages

\* Every counter equals what its owners hold, at each step of every call and after each failure: the global and the
\* sponsor's slots, the sponsor's own slot, the pages charged to the Pool, the Building operations, and the Pool
\* handle that a bind consumes exactly when it publishes Bound (SponsoredPermit, PoolBinding, BuildingLease, bind_memory).
OwnersExact ==
    /\ \A c \in Classes : adm[c] = load.adm[c] + Over([t \in Threads |-> op[t].g[c]], Threads) + Over([p \in Pids |-> proc[p].keep[c]], Pids)
    /\ \A p \in Pids, c \in Classes :
          proc[p].loc[c] = proc[p].keep[c] + Over([t \in Threads |-> IF op[t].p = p THEN op[t].l[c] ELSE 0], Threads)
    /\ adm["sponsor"] = load.adm["sponsor"] + Cardinality({p \in Pids : proc[p].sponsor})
    /\ pool.used = load.pages + Over([p \in Pids |-> Charged(proc[p])], Pids) + Over([t \in Threads |-> op[t].pages], Threads)
    /\ \A p \in Pids : /\ proc[p].ops = Cardinality({t \in Threads : op[t].p = p /\ op[t].lease})
                       /\ proc[p].keep["space"] = IF proc[p].bound THEN 1 ELSE 0
                       /\ (\E c \in Classes : proc[p].loc[c] > 0) => proc[p].sponsor
    /\ \A h \in DOMAIN pool.handle :
          (pool.handle[h] = "pinned") <=> \E t \in Threads : op[t].k = "bind" /\ op[t].w = h /\ op[t].pin

\* Nothing is added to a process once REAPABLE is out or it was started: spaces, regions, target handles and members
\* only ever grow inside a registered Building operation, so the drain sees a closed inventory (BuildingLease, begin_running).
InventoryStep ==
    \A p \in Pids : proc[p].reap \/ proc[p].st = "Running" =>
        /\ proc[p]'.regions \subseteq proc[p].regions
        /\ proc[p]'.bound => proc[p].bound
        /\ proc[p]'.slots <= proc[p].slots /\ proc[p]'.threads <= proc[p].threads
        /\ proc[p]'.planned = {}
InventoryClosed == [][InventoryStep]_vars

Quiet == /\ \A t \in Threads : op[t].k = "idle" /\ script[t] = <<>>
         /\ \A p \in Pids : ~proc[p].debt /\ ~(proc[p].reap /\ proc[p].st = "Terminating")

\* When every call has returned and the deferred work is done, no process is stuck Terminating, no pin, flag, plan or
\* table transaction is left behind, and a process that failed, was abandoned or died keeps nothing but the shells
\* whose handles somebody still holds.
QuietSettled ==
    Quiet => /\ \A p \in Pids :
                   LET q == proc[p] IN
                   /\ q.st # "Terminating" /\ ~q.txn /\ q.planned = {} /\ ~q.binding /\ q.builder # "pinned"
                   /\ q.member # "reserved" /\ ~q.unpub
                   /\ q.st \in {"none", "Dead"} =>
                         /\ \A c \in Classes : q.loc[c] = IF (c = "control" /\ q.control = "held") \/ (c = "builder" /\ q.builder = "held") THEN 1 ELSE 0
                         /\ q.control # "held" /\ q.builder # "held" => ~q.sponsor
                         /\ ~q.bound /\ q.slots = 0
             /\ \A h \in DOMAIN pool.handle : pool.handle[h] # "pinned"
=============================================================================
