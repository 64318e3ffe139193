# A TLA+ verification of Halcyon

Halcyon is a capability microkernel for RV64 (eRhino, under `src/os`), the pure-logic
crates it is built from (`src/os/*`, `src/shared/*`) and the user-space services and
libraries that run on it (`src/user`).  This directory holds TLA+ models of its parts, the
TLC configurations that check them on small instances, and TLAPS proofs of the results
that hold for instances of any size.

`PROJECT.json` is the index: components, runs, the map from every definition to the source
lines it stands for, the mutants that show that each property can fail, the hazards the
properties were written against, findings and theorems.

    tlc -workers 2 -config MCWaitCore.cfg MCWaitCore      # any run of PROJECT.json
    tlapm WaitCore_proofs.tla                             # any *_proofs module

Conventions.  A definition keeps the name of the function it models; the comment above it
says what the code does there.  What the code does under one lock, or with one successful
compare-and-exchange, is one action; where the code gives a lock up between two steps, so
does the model.  Definitions called `x_Y` (`take_Unlinked`, ...) are mutated forms of `x`:
they model nothing, no specification uses them, and each stands before the definition it
mutates.  Assertions of the code (`assert!`, `expect`, `unreachable!`) are not guards: where
one could fail, a property says that it does not.

## 1. The system

### 1.1 Inventory

| part | state | operations | who meets whom |
|---|---|---|---|
| wait core (`os/wait_context`) | phase word (stage, abandoned, epoch), outcome word, outcome cell | offer, abandon, finish_installing, arm, mark_done, restart | every blocking call against every completer, timer and terminator |
| work debts (`os/work_debt`, `work_ledger`) | slots with phase, generation, chain links; counters | reserve, cancel, publish, take, requeue, finish, rearm, arm_wake, park, wake | any hart publishes, the owner hart drains |
| safe-point drains (`deferred_work`, `notify_work`) | shared budget, four classes each | drain_current, class turns, doorbells | runs on each hart before it picks a thread |
| scheduler (`sched`, `trap`, `runtime_stop`, `ready_queue`, `sched_domain`, `registry`) | per-hart position, current thread, idle bits, ready queues, timers, stop word | pick, enter, trap, block, idle, wake_one, stop | harts of a domain, IPIs, timer interrupts |
| lifecycle (`task/lifecycle`, `thread`, `process`) | process state, member table, leases, outstanding changes, control shell | create, bind, start, depart, terminate, cursor, drain, mint shell | threads of a process, its parent, the terminator |
| address space (`os/memory_space`, `task/proc`, `task/memory_object`) | regions, transactions, views, permits, seals | map, unmap, protect, seal, reserve, commit, retire, drain | threads of a process; objects mapped by several |
| remote calls and epochs (`os/remote_call`, `kernel/remote_call`, `task/proc`) | call slots, batches, local epochs, active set, TLBs | enter, leave, reserve, commit, drain, acknowledge, retire, reap | harts that change a space and harts that run it |
| object signals and observers (`task/object`, `task/wait`, `task/retirement`) | level, observer list, cursor, pending notification | update, subscribe, rearm, cancel, advance_waiter, retire | producers, waiters, wait sets, closers |
| wait sets (`task/wait_set`) | registrations, arm cycles, ready ring | register, rearm, remove, receive, retire | sources against the receiver |
| notifications (`task/notification`) | pending bits, owner | signal, take, close | signallers against waiters and the owner |
| mailboxes, requests, tunnels | queues, credits, two ends with attach state | send, receive, begin, attach, close | two processes |
| memory pools, jobs, handle tables, frames | credits, delegations, quotas, slots | reserve, commit, rollback, split, return, derive, close | a tree of processes |
| execution runtime (`libexecution`), threads (`libthread`) | task slots, ready FIFO, sources, deadlines | spawn, turn, add/rearm/remove source, wake, shutdown | one actor, its sources, late events |
| RPC (`librpc`), runnel (`librunnel`) | calls by phase, routes by txid; ring indices and flags in shared memory | begin, advance, cancel, take; write, read, finish | client and server |
| services (`libservice`, `libprocess`, `libfal`, `libfs`, `srv_init`, `srv_pm`, `srv_fs`) | registrations, supervised processes, nodes, grants, streams | register, publish, drain, supervise, collect, lookup, take, read | clients, children, providers |
| boot and board (`rt`, `main`, `boot`, `board`, `dtb`, `mm`, `page_table`, `heap`, `frame*`) | page tables, frame pools, device tree | discovery, construction of the kernel map | one hart, before anything runs |

### 1.2 What is hard about it

* **Two lock-free words decide who completes a wait.**  The waiter installs, the completers
  offer, a terminator abandons and the next round reuses the words.  Each side rechecks the
  word the other writes.
* **Sleep against wake.**  A hart publishes its idle bit and looks again before `wfi`; a
  waker queues the thread first and reads the idle bits then.
* **A thread between two lives.**  It leaves its hart, its wait is published, another hart
  completes the wait and runs the thread, while its process is terminated.
* **Decisions under one lock, publication after it.**  REAPABLE, the shells, the ready
  batch of a new thread, plans of memory changes and target sets of shootdowns are all
  computed in one lock section and used in a later one.
* **Bounded work.**  Drains are bounded by units, classes and slots; what is left over has
  to be announced, and no class may be starved.
* **An event on its way to a receiver.**  A level becomes a publication, a notification debt, an
  offer, a completion debt, a record of a wait set and a level again, each step under another
  lock; rearming, removal and close meet it at any of them.
* **Generations and epochs.**  Slots, tokens, rounds and address-space epochs are numbered;
  a stale number must be refused and the last one must not wrap.

## 2. Plan

The modules are built from the bottom of the kernel upwards, each with its own run.  A
composed module is added only where the property is about the interaction; elsewhere a
component sees its neighbours through what they may do to it (in `HartLoop`, for example, the
ready queue receives any blocked thread at any time).

1. *Kernel core*: `WaitCore`/`WaitOnce`, `WorkDebts`, `SafePoint`, `HartLoop`, `Lifecycle`,
   `MemorySpace`, `Shootdown`, and `ObjectWaits`/`WaitSets` for signals, waits, notifications
   and wait sets.  Done; sections 3 to 5.
2. *Rest of IPC*: mailboxes, requests and tunnels, one module each over `ObjectWaits`.  Question:
   a message or a credit is in one place, and what a closed end leaves behind is retired.
3. *Accounting*: memory pools (credits, delegations, rollback of children), jobs, handle
   tables with reservations, frame pools.  Pure ledgers: conservation invariants with proofs
   for any tree.
4. *User libraries*: the execution runtime, RPC dispatcher and outbox, result cells of
   `libthread`, the runnel ring, refined to an abstract bounded stream.
5. *Services*: registry and authority, process supervision and job collection, FAL store,
   provider and watch, the stream and registration parts of `srv_fs`, supervisor of `srv_init`.
6. *Proofs*: the type and safety invariants of `SafePoint`, `Shootdown` and the ledgers of 3.

Runs share an MC module where the questions concern the same components.  Abstract
specifications are planned where a client relies on a promise and not on the mechanism:
`WaitOnce` (here), a bounded byte stream for the runnel, an at-most-once call for RPC.

## 3. The modules and the code

### WaitCore and WaitOnce (`os/wait_context/src/lib.rs`)

`phase`, `outcome_state` and `cell` are the two atomic words and the outcome cell; the epoch
packed into both words is a field.  Every atomic access of `offer_in`, `abandon`,
`finish_installing_in`, `arm_in`, `mark_done_in` and `restart_done` is an action; `pc` says which
access a thread makes next.  A compare-exchange loop is one action, at its last access.
`buffer` is the store buffer of an offerer: the code stores READY with `Release` and then loads
the phase with `Acquire`, which orders neither before the other.  `weak`, fixed in the initial
state, says whether the buffer may delay; both machines are in every run.

`WaitOnce` is what a wait promises to its callers: in each round at most one outcome is chosen,
one owner consumes it, rounds follow each other.  `WaitCore` implements it under the mapping
`Abstract` (the chosen outcome is the cell once READY is published; the owner is the thread
that moved the stage to FINISHING).

### WorkDebts (`os/work_debt`, `kernel/work_ledger.rs`)

Slots with phase, generation, owner and chain link; heads and tails of the chains; the ledger's
`pending` counters.  Tokens are affine values in Rust, so sets of tokens stand for those that
exist.  Each call is made under the ledger's lock and is one action, counter included.  The
panics of the ledger on a refused token are the property `TokensMatch`.

### SafePoint (`kernel/deferred_work.rs`, `task/notify_work.rs`, `FairBudget`)

Both `drain_current` functions (frozen choice `drain`), their four classes in order, the
reservation of one unit for every later class pending on entry, turns of at most `TURN` units,
requeueing and parking, and the doorbell rung for leftovers.  A debt is the number of units it
still needs.

### HartLoop (`kernel/sched.rs`, `trap.rs`, `runtime_stop.rs`, `registry.rs`)

The loop of every hart: drain, pick, gate, user, trap, block, idle double check, sleep; ready
queues and idle bits per domain; doorbells as a set of IPIs yet to be sent; a timer per hart
that an interrupt switches off; deadlines of waiting threads; termination of a thread's
process; the runtime stop.

### Lifecycle (`task/lifecycle.rs`, `thread.rs`, `process.rs`, `proc.rs`)

One process: state, member table of stable slots with generations, Building leases,
`mandatory_ops` of committed memory changes, what holds the strong reference of each thread
(`at`), the two-sided departure (thread end and result obligations), the termination todo with
its cursor, REAPABLE publication and the control shell with revival and drain.

### MemorySpace (`os/memory_space`, `task/proc.rs`, `task/memory_object.rs`)

Regions, transaction records, backing pages, view owners with region counts, write permits and
seal of each object, and mappings owned by a Tunnel.  A map, unmap or protect call is a
sequence of lock sections (validate, permits, reserve, commit, retire); each is an action and
threads interleave between them.  Failure of an allocator is a choice at each place where
the code can meet it.

### Shootdown (`os/remote_call`, `kernel/remote_call.rs`, `task/proc.rs`, `sched.rs`, `trap.rs`)

Call slots of every hart, batches and their completion, the translation and instruction epochs
of every space, the local record of every hart, the execution gate and the active set, the
teardown barrier.  The contents of a page table are its version.  `tlb` and `icache` hold the
oldest version a hart can still use.  A fill takes place right after each fence, which
is the worst case.

### ObjectWaits and WaitSets (`task/object.rs`, `wait.rs`, `wait_set.rs`, `notification.rs`, `retirement.rs`)

`ObjectWaits` has the wait state every object embeds in its lock, as a record, and each of
its methods as an operator on it; `WaitSets` has a notification as the source, a wait set that observes
it, and threads that use both and wait for both.  Each critical section is an action.  The
notification scans, the completions and the retirement actor are debts that advance on their
own (that the ledgers run them is `WorkDebts` and `SafePoint`); `todo` holds what a section leaves
to be notified after its lock, in any order.

Generations are represented by the set of publications a waiter has not seen, their order by a
sequence of signals, and the cursor of a scan by the set of waiters still ahead of it.  The
arbitration of a sink is `WaitOnce`, so finding 1 is not repeated here.  Some neighbouring accesses
that nobody can tell apart are one action: the swap of a subscription id with the unsubscription
in `finish_step`, the load of the id with `rearm_observer`, the return of a completion slot with
`mark_done`.  An allocation, or a subscription slot, may fail wherever the code asks for one.  A
take that leaves some bits behind changes nothing and is left out.  A wait abandoned by its terminating process and
the close by an exiting process are left out; `Lifecycle` has the process side.

## 4. Runs

| run | instance | what it shows |
|---|---|---|
| `wait_core` | two offerers, an installer, two rounds, stores immediate or delayed | `OneCompletionOwner`, `NoneLostWhenVisible`, refinement of `WaitOnce`, `RoundsEnd` |
| `wait_core_lost` | one round, delayed stores | finding 1 |
| `work_debts` | two slots, two overlapping ranges, two owners, two generations | `TokensMatch`, `QueuesExact` (chains and counters), `DebtsRun` |
| `safe_point` | budget 4, turns of 2, two debts of up to two units, either drain | `BudgetShared`, `LeftoverRung`, `ClassesServed` |
| `hart_loop` | two harts in one domain, two threads, one deadline, one parked debt | `HeldOnce`, `NoSleepOnWork` |
| `hart_loop_live` | one hart in each of two domains, a runtime stop | `ThreadsProgress`, `StopParksAll` |
| `lifecycle` | three threads over the life, two at a time, one lease | `AssertionsHold`, `LevelKept`, `ReadyIsQueued`, `Reaped` |
| `lifecycle_early_start` | siblings may use a control before ThreadCreate returns | finding 2 |
| `memory_space` | four pages, two threads, two objects, three changes | `PlanCurrent`, `PermitsExact`, `SealedNotWritable`, `PagesOnce`, `OwnersKept` |
| `memory_space_drain` | the same, two changes | finding 3 |
| `shootdown` | two harts, two spaces, two slots a hart, epochs up to the last | `NoStaleCaches`, `CompletionSound`, `RecordsCurrent`, `ReapedIsQuiet` |
| `wait_sets` | two threads with short programs, two registrations, two epochs, two publications | `SlotsHeld`, `NothingMissed`, `ReadyExact`, `RetiredIsGone`, `QuietIsSettled` |

*Bounds.*  Two offerers suffice for a race of offers, and a third actor, the installer, for a
race with arming; two rounds let a thread of the first meet the second, and the second is
the last epoch the word can hold.  Two slots in ranges that overlap give a full range, a wrapped
cursor and chains longer than one; two generations reach retirement.  A budget of four units is
one for every class, the smallest at which the reservation matters.  Two harts and two threads let a
thread be woken while one hart falls asleep and the other runs.  Three threads over two slots
make a member key stale.  Four pages let a range be split on both sides, two threads
interleave any two lock sections, and three changes let a third be planned between the
reservation and the commit of the others.  In `shootdown` one space begins one version short of
its end and the other at its last, so that exhaustion, reuse of slots, migration of a hart
between spaces, and teardown all occur; two slots make order by slot differ from order by epoch.  In `wait_sets` the threads run one of
seven programs, each a sequence of choices between calls, and may stop anywhere in it: full freedom of
two threads is beyond TLC, and the programs pair the calls that meet (a removal or a close with
each step of a registration and a rearm; signals with receive, take and rearm; waits with the
use and close of a set; exhaustion of the serial with a wait or a registration).

*Fairness.*  `wait_core`: every thread inside a call takes its next step and store buffers
drain; nobody is obliged to start a call.  `work_debts`: an owner with a runnable debt
takes it (its loop drains before it sleeps, checked in `hart_loop`), registered wakes
come.  `safe_point`: a hart that has work or a doorbell enters the drain and leaves it.
`hart_loop`: harts execute, the clock advances, user code traps in the end because of its
quantum.  `lifecycle`: calls in progress return and cleanup debts are served; threads need not exit
unless terminated.  Nothing is assumed about what programs choose to do.

*Deadlock* is checked except where the modelled part may rest: all harts parked after a stop,
the bound on changes used up, or the programs of `wait_sets` at their end.  There
`QuietIsSettled` takes the place of a liveness property: whenever no debt, call or notification is
under way, nothing that should have happened is outstanding.

## 5. Proofs

`WaitCore_proofs` holds for any set of offerers, any number of rounds, with and without
delayed stores.  `OneCompletionOwner` is not inductive: that only one thread wins the
exchange to FINISHING depends on who may be at which access with which epoch.  The inductive
invariant `IInv` joins `TypeOK` with `InstallerInv` (where the installer can be in each stage),
`EpochInv` (no identity is from a later round; the outcome word is never ahead of the phase
except inside a restart), `WriterInv` (a WRITING word has exactly one writer), `CellInv` (READY
implies that the cell was written for that round), `ReadyInv` (in the strong machine READY and
ARMED imply a claimant) and `OneCompletionOwner`.  From it follow `UniqueOwner`,
`OwnerReadsItsOutcome`, `CellWrittenOnce`, `NoCompletionLost` (immediate stores),
`PhaseMovesForward` and `Refinement` of `WaitOnce`: one lemma per action maps it to a step
of the abstract wait or to a stutter.

`WorkDebts_proofs` holds for any number of slots, generations, owners and ranges.  `IInv` is
`SlotType` (types), `LinksInv` (heads, tails and links form one chain per owner over
exactly its pending slots: the ends are pending or absent, links are injective, nothing links to a
head) and `SlotTokens` (a slot's phase determines which tokens exist for it).  `TokensAlwaysMatch`
follows; `CountInv` adds that each counter is the cardinality of the owner's live debts, hence
`PendingCounterExact`, and that the counter never wraps below zero.  `NoGenerationReused` is an
action property from the same invariant.

Assumptions are the named `ASSUME`s of the modules: disjoint names, at least one slot,
positive bounds.  TLC evaluates them on every run.

*Only model-checked*: liveness in all modules (fairness is outside the prover), that a chain
reaches each of its slots (induction over data), and all properties of `SafePoint`, `HartLoop`,
`Lifecycle`, `MemorySpace`, `Shootdown` and `WaitSets`.

## 6. Findings

1. `wait_core_lost`.  `offer_in` stores READY (Release) and loads the phase (Acquire); `arm_in`
   exchanges the phase (AcqRel) and loads the outcome (Acquire).  Store and later load of
   another address are unordered, so the offer can see INSTALLING and `arm_in` WRITING: the
   offer answers Deferred, the installer Armed, and nobody completes the wait, against the
   comment in `arm_in`.  It would take a store of READY ordered before the
   load of the phase (sequentially consistent accesses, or a fence between the two).
2. `lifecycle_early_start`.  ThreadCreate commits the control handle before it binds the thread and
   installs its ready batch; a sibling that starts it in between leaves a Ready member in no queue,
   and the process can never be reaped.
3. `memory_space_drain`.  A protect that joins a neighbouring region raises the view's region count by
   one too many, so the view outlives its regions and the drain meets its assertion.

Also noted while modelling, and covered by no run of their own:

* Closing the last control before a created thread is bound leaves a Created member that only
  termination removes (`task/lifecycle.rs:490` speaks of the last control).
* The termination cursor takes Created members although the comments at `task/lifecycle.rs:24`
  and `:447` list only waiting ones.
* `notify_work` rings for leftovers of its first two classes before the last two have run; what these
  publish to the first two is announced by the publication itself.
* A hart can leave the active set of a process with an older call still pending in a higher slot,
  when reused lower slots use up its drain.  It does no harm: the call is executed at the top of the loop,
  before another space is synchronized, and `mandatory_ops` holds the reap back.

## 7. What is not modelled

`PROJECT.json` lists every part with its status.  Outside the plan are: assembly, CSR access,
SBI calls, the console and the trampoline (hardware effects with no state of their own);
device tree parsing, the boot page tables and the heap (one hart, before concurrency);
self-tests and test programs; wire encodings.  Doorbells are assumed to arrive in `HartLoop`
(the code only warns when an IPI fails), while `Shootdown` does not rely on them at all.
Memory ordering is modelled where two words are accessed without a lock and without
sequentially consistent accesses, in `WaitCore`.  Elsewhere the accesses are ordered by a lock, or
are `SeqCst` as those of the idle mask, and the models interleave whole accesses.
