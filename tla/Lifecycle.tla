----------------------------- MODULE Lifecycle -----------------------------
(***************************************************************************)
(* The life of one process: Building, Running, Terminating, Dead, with its *)
(* member table, its Building leases, its committed memory transactions,   *)
(* the departure of its threads, the termination cursor, and the control   *)
(* shell on which REAPABLE and CLOSED are published (task/lifecycle.rs,    *)
(* task/thread.rs, and their callers in task/process.rs, task/proc.rs,     *)
(* task/wait.rs and sched.rs).                                             *)
(*                                                                         *)
(* One action is one critical section of the lifecycle lock, of a control  *)
(* or of a departure; what the code does between two of them is a state of *)
(* its own.  A thread occupies one hart while it executes, so the active   *)
(* mask is a set of threads.  Address-space epochs belong to Shootdown.    *)
(***************************************************************************)
EXTENDS Naturals, Sequences, FiniteSets

CONSTANTS
    Lease,      \* the calls that may hold a Building operation at once
    MaxTid,     \* bound: threads of the process over its life
    MaxThreads, \* PROCESS_MAX_THREADS
    ShellMembers, \* bound: the shell may go once no more members than this are left
    EarlyUse    \* whether a sibling uses a control before its ThreadCreate returns

ASSUME BoundAssumption == MaxTid \in Nat /\ MaxThreads \in Nat \ {0} /\ ShellMembers \in Nat
ASSUME LeaseAssumption == IsFiniteSet(Lease)
ASSUME UseAssumption == EarlyUse \in BOOLEAN

Tid == 1..MaxTid
None == 0
MemberState == {"Ready", "Created", "Running", "Waiting", "Exiting"}

VARIABLES
    state,
    members,        \* the stable slots: a tid, or None
    generation,     \* of every slot
    next_tid,
    mst,            \* the member state of a thread
    key,            \* its MemberKey: slot and generation
    active,         \* threads on a hart, in the active mask
    building_ops, mandatory_ops,
    at,             \* what holds the thread's strong reference
    bound, batch,   \* threads bound to their control; threads holding a ready batch
    control,        \* unborn, staged, visible, closed: the handle of the control
    making,         \* the thread a running thread is creating, or None
    mapping,        \* the committed memory change of a thread
    result_obligations, departure,
    lease, expected,
    todo,           \* the one termination todo: none, reapable, cleanup, cursor, done
    cursor, taken,
    rings,          \* publish_reapable calls that have been decided and not made
    shell,          \* the ProcessControl shell: none or live
    signals, reviving, draining

table == <<members, generation, next_tid, mst, key>>
ops == <<building_ops, mandatory_ops>>
handle == <<bound, batch, control, making>>
leaving == <<mapping, result_obligations, departure>>
building == <<lease, expected>>
ending == <<todo, cursor, taken>>
shells == <<shell, signals, reviving, draining>>
vars == <<state, table, active, ops, at, handle, leaving, building, ending, rings, shells>>

is_terminating == state \in {"Terminating", "Dead"}

member_count == Cardinality({s \in DOMAIN members : members[s] # None})

is_reapable ==
    /\ is_terminating
    /\ member_count = 0
    /\ active = {}
    /\ building_ops = 0
    /\ mandatory_ops = 0

Init ==
    /\ state = "Building"
    /\ members = <<>> /\ generation = <<>> /\ next_tid = 1
    /\ mst = [t \in Tid |-> "Exiting"]
    /\ key = [t \in Tid |-> [slot |-> 0, generation |-> 0]]
    /\ active = {} /\ building_ops = 0 /\ mandatory_ops = 0
    /\ at = [t \in Tid |-> "none"]
    /\ bound = {} /\ batch = {}
    /\ control = [t \in Tid |-> "unborn"]
    /\ making = [t \in Tid |-> None]
    /\ mapping = [t \in Tid |-> "none"]
    /\ result_obligations = [t \in Tid |-> 0]
    /\ departure = [t \in Tid |-> "live"]
    /\ lease = [l \in Lease |-> "idle"] /\ expected = [l \in Lease |-> 0]
    /\ todo = "none" /\ cursor = 0 /\ taken = None
    /\ rings = 0
    /\ shell = "live" /\ signals = {} /\ reviving = "no" /\ draining = "no"

----------------------------------------------------------------------------
(* The member table. *)

FreeSlots == {s \in DOMAIN members : members[s] = None}

\* The slot a new member gets: the first vacant one, or a new one.
NewSlot ==
    IF FreeSlots = {} THEN Len(members) + 1
    ELSE CHOOSE s \in FreeSlots : \A u \in FreeSlots : s <= u

prepare_member == next_tid \in Tid /\ member_count < MaxThreads

install_member(t, s) ==
    /\ next_tid' = t + 1
    /\ IF s > Len(members)
       THEN /\ members' = Append(members, t)
            /\ generation' = Append(generation, 1)
            /\ key' = [key EXCEPT ![t] = [slot |-> s, generation |-> 1]]
       ELSE /\ members' = [members EXCEPT ![s] = t]
            /\ UNCHANGED generation
            /\ key' = [key EXCEPT ![t] = [slot |-> s, generation |-> generation[s]]]
    /\ mst' = [mst EXCEPT ![t] = "Created"]
    /\ at' = [at EXCEPT ![t] = "table"]

remove_member(t) ==
    /\ members' = [members EXCEPT ![key[t].slot] = None]
    /\ generation' = [generation EXCEPT ![key[t].slot] = @ + 1]

\* The key of a thread still names its entry: what member_mut asserts.
Keyed(t) ==
    /\ key[t].slot \in DOMAIN members
    /\ members[key[t].slot] = t
    /\ generation[key[t].slot] = key[t].generation

----------------------------------------------------------------------------
(* Building. *)

enter_building_op(l) ==
    /\ lease[l] = "idle" /\ state = "Building"
    /\ building_ops' = building_ops + 1
    /\ lease' = [lease EXCEPT ![l] = "open"]
    /\ UNCHANGED <<state, table, active, mandatory_ops, at, handle, leaving,
                   expected, ending, rings, shells>>

\* Mutant: the ready batch is not installed.
attach_member_Unadmitted(l) ==
    /\ lease[l] = "open" /\ state = "Building" /\ prepare_member
    /\ install_member(next_tid, NewSlot)
    /\ bound' = bound \cup {next_tid}
    /\ control' = [control EXCEPT ![next_tid] = "visible"]
    /\ lease' = [lease EXCEPT ![l] = "attached"]
    /\ UNCHANGED <<state, active, ops, batch, making, leaving, expected, ending, rings, shells>>

\* ThreadCreate on a builder: the member, its binding, its batch and its handle are all in place
\* while the lease keeps ProcessStart out.
attach_member(l) ==
    /\ lease[l] = "open" /\ state = "Building" /\ prepare_member
    /\ install_member(next_tid, NewSlot)
    /\ bound' = bound \cup {next_tid}
    /\ batch' = batch \cup {next_tid}
    /\ control' = [control EXCEPT ![next_tid] = "visible"]
    /\ lease' = [lease EXCEPT ![l] = "attached"]
    /\ UNCHANGED <<state, active, ops, making, leaving, expected, ending, rings, shells>>

\* ProcessStart reads the member count, then commits under the lifecycle lock.
CountMembers(l) ==
    /\ lease[l] = "open" /\ member_count > 0
    /\ lease' = [lease EXCEPT ![l] = "counted"]
    /\ expected' = [expected EXCEPT ![l] = member_count]
    /\ UNCHANGED <<state, table, active, ops, at, handle, leaving, ending, rings, shells>>

begin_running(l) ==
    /\ lease[l] = "counted"
    /\ state = "Building" /\ member_count = expected[l] /\ building_ops = 1
    /\ building_ops' = building_ops - 1
    /\ state' = "Running"
    /\ LET created == {t \in Tid : Keyed(t)} IN
          /\ mst' = [t \in Tid |-> IF t \in created THEN "Ready" ELSE mst[t]]
          /\ at' = [t \in Tid |-> IF t \in created THEN "starting" ELSE at[t]]
    /\ lease' = [lease EXCEPT ![l] = "idle"]
    /\ expected' = [expected EXCEPT ![l] = 0]
    /\ UNCHANGED <<members, generation, next_tid, key, active, mandatory_ops, handle,
                   leaving, ending, rings, shells>>

\* The lease is dropped: after its work, or on any error (a sealed Job, a stale count).
leave_building_op(l) ==
    /\ lease[l] # "idle"
    /\ building_ops' = building_ops - 1
    /\ rings' = IF is_terminating /\ member_count = 0 /\ active = {} /\ building_ops = 1
                   /\ mandatory_ops = 0
                THEN rings + 1 ELSE rings
    /\ lease' = [lease EXCEPT ![l] = "idle"]
    /\ expected' = [expected EXCEPT ![l] = 0]
    /\ UNCHANGED <<state, table, active, mandatory_ops, at, handle, leaving, ending, shells>>

----------------------------------------------------------------------------
(* Threads of a Running process: creation, start, and the last control. *)

User(c) == at[c] = "user" /\ making[c] = None

\* ThreadCreate holds the handle table from here to CommitHandle.
create_running(c) ==
    /\ User(c) /\ state = "Running" /\ prepare_member
    /\ \A d \in Tid : making[d] # None => control[making[d]] # "staged"
    /\ install_member(next_tid, NewSlot)
    /\ control' = [control EXCEPT ![next_tid] = "staged"]
    /\ making' = [making EXCEPT ![c] = next_tid]
    /\ UNCHANGED <<state, active, ops, bound, batch, leaving, building, ending, rings, shells>>

CommitHandle(c) ==
    /\ making[c] # None /\ control[making[c]] = "staged"
    /\ control' = [control EXCEPT ![making[c]] = "visible"]
    /\ UNCHANGED <<state, table, active, ops, at, bound, batch, making, leaving, building,
                   ending, rings, shells>>

bind_thread(c) ==
    /\ making[c] # None /\ control[making[c]] # "staged" /\ making[c] \notin bound
    /\ bound' = bound \cup {making[c]}
    /\ UNCHANGED <<state, table, active, ops, at, batch, control, making, leaving, building,
                   ending, rings, shells>>

install_ready_batch(c) ==
    /\ making[c] # None /\ making[c] \in bound
    /\ batch' = batch \cup {making[c]}
    /\ making' = [making EXCEPT ![c] = None]
    /\ UNCHANGED <<state, table, active, ops, at, bound, control, leaving, building, ending,
                   rings, shells>>

\* The handle of a control can be used: by anyone once its ThreadCreate has returned, before that
\* by a sibling thread, which finds it in the result already written.
Usable(t) ==
    /\ control[t] = "visible"
    /\ \/ \A c \in Tid : making[c] # t
       \/ EarlyUse /\ \E s \in Tid : User(s)

\* ThreadStart by thread c.  Nothing changes when the process is not Running or t not Created.
start_created(c, t) ==
    /\ User(c) /\ Usable(t) /\ t \in bound
    /\ state = "Running" /\ mst[t] = "Created" /\ Keyed(t)
    /\ mst' = [mst EXCEPT ![t] = "Ready"]
    /\ at' = [at EXCEPT ![t] = "starting"]
    /\ UNCHANGED <<state, members, generation, next_tid, key, active, ops, handle, leaving,
                   building, ending, rings, shells>>

\* The rest of Thread::start: without a batch it fails with InternalError, and the reference the
\* table gave up is dropped.
publish_one(t) ==
    /\ at[t] = "starting"
    /\ at' = [at EXCEPT ![t] = IF t \in batch THEN "queue" ELSE "lost"]
    /\ batch' = batch \ {t}
    /\ UNCHANGED <<state, table, active, ops, bound, control, making, leaving, building,
                   ending, rings, shells>>

\* The last capability goes: a thread never started is taken out of the table.
release_capability(t) ==
    /\ Usable(t) /\ state # "Building"
    /\ control' = [control EXCEPT ![t] = "closed"]
    /\ IF t \in bound /\ at[t] = "table" /\ mst[t] = "Created"
       THEN /\ mst' = [mst EXCEPT ![t] = "Exiting"]
            /\ at' = [at EXCEPT ![t] = "released"]
       ELSE UNCHANGED <<mst, at>>
    /\ UNCHANGED <<state, members, generation, next_tid, key, active, ops, bound, batch,
                   making, leaving, building, ending, rings, shells>>

----------------------------------------------------------------------------
(* Execution: the scheduler's gates and the wait a thread parks in. *)

pick(t) ==
    /\ at[t] = "queue"
    /\ at' = [at EXCEPT ![t] = "picked"]
    /\ UNCHANGED <<state, table, active, ops, handle, leaving, building, ending, rings, shells>>

enter_running_if(t) ==
    /\ at[t] = "picked"
    /\ IF is_terminating
       THEN /\ at' = [at EXCEPT ![t] = "released"]
            /\ UNCHANGED <<mst, active>>
       ELSE /\ mst' = [mst EXCEPT ![t] = "Running"]
            /\ active' = active \cup {t}
            /\ at' = [at EXCEPT ![t] = "user"]
    /\ UNCHANGED <<state, members, generation, next_tid, key, ops, handle, leaving, building,
                   ending, rings, shells>>

on_requeue_if(t) ==
    /\ User(t)
    /\ active' = active \ {t}
    /\ mst' = IF ~is_terminating /\ mst[t] = "Running" THEN [mst EXCEPT ![t] = "Ready"] ELSE mst
    /\ at' = [at EXCEPT ![t] = "requeued"]
    /\ UNCHANGED <<state, members, generation, next_tid, key, ops, handle, leaving, building,
                   ending, rings, shells>>

Requeue(t) ==
    /\ at[t] = "requeued"
    /\ at' = [at EXCEPT ![t] = IF is_terminating THEN "released" ELSE "queue"]
    /\ UNCHANGED <<state, table, active, ops, handle, leaving, building, ending, rings, shells>>

\* ThreadExit, or a trap that finds the process terminating.
Killed(t) ==
    /\ User(t)
    /\ active' = active \ {t}
    /\ at' = [at EXCEPT ![t] = "released"]
    /\ UNCHANGED <<state, table, ops, handle, leaving, building, ending, rings, shells>>

\* A memory change commits before its thread parks, a Map owing its thread a result besides; any
\* other wait just parks.
commit_running(t) ==
    /\ User(t) /\ state = "Running" /\ mapping[t] = "none"
    /\ mandatory_ops' = mandatory_ops + 1
    /\ mapping' = [mapping EXCEPT ![t] = "committed"]
    /\ \E owed \in {0, 1} : result_obligations' = [result_obligations EXCEPT ![t] = @ + owed]
    /\ at' = [at EXCEPT ![t] = "parking"]
    /\ active' = active \ {t}
    /\ UNCHANGED <<state, table, building_ops, handle, departure, building, ending, rings,
                   shells>>

Park(t) ==
    /\ User(t)
    /\ active' = active \ {t}
    /\ at' = [at EXCEPT ![t] = "parking"]
    /\ UNCHANGED <<state, table, ops, handle, leaving, building, ending, rings, shells>>

park_waiting(t) ==
    /\ at[t] = "parking"
    /\ IF is_terminating
       THEN at' = [at EXCEPT ![t] = "abandoned"] /\ UNCHANGED mst
       ELSE at' = [at EXCEPT ![t] = "context"] /\ mst' = [mst EXCEPT ![t] = "Waiting"]
    /\ UNCHANGED <<state, members, generation, next_tid, key, active, ops, handle, leaving,
                   building, ending, rings, shells>>

\* The wait is completed: a memory change only when its result has been released.
offer(t) ==
    /\ at[t] = "context" /\ mapping[t] \in {"none", "released"}
    /\ at' = [at EXCEPT ![t] = "finished"]
    /\ mapping' = [mapping EXCEPT ![t] = "none"]
    /\ UNCHANGED <<state, table, active, ops, handle, result_obligations, departure, building,
                   ending, rings, shells>>

\* The last step of the finish: back to its queue, or out of the process.
complete_finish(t) ==
    /\ at[t] \in {"finished", "abandoned"}
    /\ at' = [at EXCEPT ![t] =
                IF at[t] = "abandoned" \/ is_terminating THEN "released" ELSE "queue"]
    /\ UNCHANGED <<state, table, active, ops, handle, leaving, building, ending, rings, shells>>

\* Mutant: the completion does not look at whether it was the last obligation.
complete_mandatory_Silent(t) ==
    /\ mapping[t] = "committed"
    /\ mandatory_ops' = mandatory_ops - 1
    /\ mapping' = [mapping EXCEPT ![t] = "settled"]
    /\ UNCHANGED <<state, table, active, building_ops, at, handle, result_obligations,
                   departure, building, ending, rings, shells>>

complete_mandatory(t) ==
    /\ mapping[t] = "committed"
    /\ mandatory_ops' = mandatory_ops - 1
    /\ mapping' = [mapping EXCEPT ![t] = "settled"]
    /\ rings' = IF is_terminating /\ member_count = 0 /\ active = {} /\ building_ops = 0
                   /\ mandatory_ops = 1
                THEN rings + 1 ELSE rings
    /\ UNCHANGED <<state, table, active, building_ops, at, handle, result_obligations,
                   departure, building, ending, shells>>

----------------------------------------------------------------------------
(* Departure: once the strong reference is gone and no result is owed. *)

claim_finalize(t, requested, obligations) ==
    departure' = [departure EXCEPT ![t] =
                    IF requested /\ obligations = 0 /\ @ \in {"live", "requested"} THEN "finalizing"
                    ELSE IF requested /\ @ = "live" THEN "requested" ELSE @]

request(t) ==
    /\ at[t] = "released"
    /\ at' = [at EXCEPT ![t] = "none"]
    /\ claim_finalize(t, TRUE, result_obligations[t])
    /\ UNCHANGED <<state, table, active, ops, handle, mapping, result_obligations, building,
                   ending, rings, shells>>

complete_result(t) ==
    /\ mapping[t] = "settled"
    /\ mapping' = [mapping EXCEPT ![t] = "released"]
    /\ result_obligations' = [result_obligations EXCEPT ![t] = 0]
    /\ IF result_obligations[t] = 1 THEN claim_finalize(t, departure[t] # "live", 0)
       ELSE UNCHANGED departure
    /\ UNCHANGED <<state, table, active, ops, at, handle, building, ending, rings, shells>>

\* The member leaves the table; its handle, binding and batch no longer matter.
Depart(t) ==
    /\ departure[t] = "finalizing"
    /\ departure' = [departure EXCEPT ![t] = "departed"]
    /\ remove_member(t)
    /\ mst' = [mst EXCEPT ![t] = "Exiting"]
    /\ key' = [key EXCEPT ![t] = [slot |-> 0, generation |-> 0]]
    /\ control' = [control EXCEPT ![t] = "closed"]
    /\ bound' = bound \ {t} /\ batch' = batch \ {t}
    /\ UNCHANGED <<next_tid, active, ops, at, making, mapping, result_obligations, building,
                   cursor, taken, shells>>

\* Mutant: committed memory changes are not counted.
thread_departed_Hasty(t) ==
    /\ Depart(t)
    /\ LET last == member_count = 1
           completed == state = "Running" /\ last
           reapable == (is_terminating \/ completed) /\ last /\ active = {} /\ building_ops = 0
       IN /\ state' = IF completed THEN "Terminating" ELSE state
          /\ todo' = IF ~completed THEN todo ELSE IF reapable THEN "reapable" ELSE "cleanup"
          /\ rings' = IF reapable /\ ~completed THEN rings + 1 ELSE rings

\* The last thread of a Running process ends it.
thread_departed(t) ==
    /\ Depart(t)
    /\ LET last == member_count = 1
           completed == state = "Running" /\ last
           reapable == (is_terminating \/ completed) /\ last /\ active = {} /\ building_ops = 0
                       /\ mandatory_ops = 0
       IN /\ state' = IF completed THEN "Terminating" ELSE state
          /\ todo' = IF ~completed THEN todo ELSE IF reapable THEN "reapable" ELSE "cleanup"
          /\ rings' = IF reapable /\ ~completed THEN rings + 1 ELSE rings

----------------------------------------------------------------------------
(* Termination. *)

request_termination ==
    /\ ~is_terminating
    /\ state' = "Terminating"
    /\ todo' = IF member_count = 0 /\ active = {} /\ building_ops = 0 /\ mandatory_ops = 0
               THEN "reapable" ELSE "cleanup"

\* ProcessKill from outside, and the last builder of a process that never ran.
Kill ==
    /\ request_termination
    /\ UNCHANGED <<table, active, ops, at, handle, leaving, building, cursor, taken, rings, shells>>

\* Exit or a fatal trap of thread t.
Exit(t) ==
    /\ User(t)
    /\ request_termination
    /\ mst' = [mst EXCEPT ![t] = "Exiting"]
    /\ UNCHANGED <<members, generation, next_tid, key, active, ops, at, handle, leaving, building,
                   cursor, taken, rings, shells>>

run_termination_todo ==
    /\ todo \in {"reapable", "cleanup"}
    /\ IF todo = "reapable"
       THEN todo' = "done" /\ rings' = rings + 1 /\ UNCHANGED cursor
       ELSE /\ UNCHANGED rings
            /\ IF Len(members) = 0 THEN todo' = "done" /\ UNCHANGED cursor
               ELSE todo' = "cursor" /\ cursor' = 1
    /\ UNCHANGED <<state, table, active, ops, at, handle, leaving, building, taken, shells>>

\* Mutant: Created members are left to whoever created them.
take_termination_slot_Waiting ==
    /\ todo = "cursor" /\ taken = None /\ cursor <= Len(members)
    /\ cursor' = cursor + 1
    /\ LET t == members[cursor] IN
       IF t # None /\ mst[t] = "Waiting"
       THEN mst' = [mst EXCEPT ![t] = "Exiting"] /\ taken' = t
       ELSE UNCHANGED <<mst, taken>>
    /\ UNCHANGED <<state, members, generation, next_tid, key, active, ops, at, handle,
                   leaving, building, todo, rings, shells>>

\* One slot per work unit: waiting and created members are taken, the others come by themselves.
take_termination_slot ==
    /\ todo = "cursor" /\ taken = None /\ cursor <= Len(members)
    /\ cursor' = cursor + 1
    /\ LET t == members[cursor] IN
       IF t # None /\ mst[t] \in {"Waiting", "Created"}
       THEN /\ mst' = [mst EXCEPT ![t] = "Exiting"]
            /\ IF mst[t] = "Created"
               THEN at' = [at EXCEPT ![t] = "released"] /\ UNCHANGED taken
               ELSE taken' = t /\ UNCHANGED at
       ELSE UNCHANGED <<mst, at, taken>>
    /\ UNCHANGED <<state, members, generation, next_tid, key, active, ops, handle, leaving,
                   building, todo, rings, shells>>

\* The wait of the taken member is abandoned, unless it has completed by itself.
abandon ==
    /\ taken # None
    /\ at' = [at EXCEPT ![taken] = IF @ = "context" THEN "abandoned" ELSE @]
    /\ taken' = None
    /\ UNCHANGED <<state, table, active, ops, handle, leaving, building, todo, cursor, rings,
                   shells>>

CleanupDone ==
    /\ todo = "cursor" /\ taken = None /\ cursor > Len(members)
    /\ todo' = "done"
    /\ rings' = IF is_reapable THEN rings + 1 ELSE rings
    /\ UNCHANGED <<state, table, active, ops, at, handle, leaving, building, cursor, taken,
                   shells>>

----------------------------------------------------------------------------
(* The control shell: REAPABLE, CLOSED, and a shell minted again from the core. *)

Publish(sig) ==
    signals' = IF "CLOSED" \in signals THEN signals
               ELSE IF sig = "CLOSED" THEN {"CLOSED"} ELSE signals \cup {sig}

publish_reapable ==
    /\ rings > 0
    /\ rings' = rings - 1
    /\ IF shell = "live" THEN Publish("REAPABLE") ELSE UNCHANGED signals
    /\ UNCHANGED <<state, table, active, ops, at, handle, leaving, building, ending, shell,
                   reviving, draining>>

\* The last handle goes; a drain request and a reviving call keep the shell.  Nothing looks at
\* the shell before termination, so it need not go any earlier.
CloseShell ==
    /\ is_terminating /\ member_count <= ShellMembers
    /\ shell = "live" /\ reviving = "no" /\ draining = "no"
    /\ shell' = "none" /\ signals' = {}
    /\ UNCHANGED <<state, table, active, ops, at, handle, leaving, building, ending, rings,
                   reviving, draining>>

revive_control ==
    /\ \/ /\ shell = "none"
          /\ shell' = "live" /\ reviving' = "minted" /\ UNCHANGED signals
       \/ /\ reviving = "minted"
          /\ reviving' = IF state = "Dead" THEN "dead" ELSE "alive"
          /\ UNCHANGED <<shell, signals>>
       \/ /\ reviving = "dead"
          /\ Publish("CLOSED") /\ reviving' = "no" /\ UNCHANGED shell
       \/ /\ reviving = "alive"
          /\ reviving' = IF is_reapable THEN "reapable" ELSE "no"
          /\ UNCHANGED <<shell, signals>>
       \/ /\ reviving = "reapable"
          /\ Publish("REAPABLE") /\ reviving' = "no" /\ UNCHANGED shell
    /\ UNCHANGED <<state, table, active, ops, at, handle, leaving, building, ending, rings,
                   draining>>

\* ProcessDrain: admitted on REAPABLE; the last batch freezes the shell, then marks the core Dead.
drain ==
    /\ shell = "live" /\ draining = "no" /\ "REAPABLE" \in signals
    /\ draining' = "batch"
    /\ UNCHANGED <<state, table, active, ops, at, handle, leaving, building, ending, rings,
                   shell, signals, reviving>>

publish_dead ==
    /\ draining = "batch" /\ state # "Dead"
    /\ Publish("CLOSED")
    /\ draining' = "frozen"
    /\ UNCHANGED <<state, table, active, ops, at, handle, leaving, building, ending, rings,
                   shell, reviving>>

mark_dead ==
    /\ draining = "frozen"
    /\ state' = "Dead"
    /\ draining' = "no"
    /\ UNCHANGED <<table, active, ops, at, handle, leaving, building, ending, rings, shell,
                   signals, reviving>>

\* The caller's budget is spent, or the caller goes away.
DrainStops ==
    /\ draining = "batch"
    /\ draining' = "no"
    /\ UNCHANGED <<state, table, active, ops, at, handle, leaving, building, ending, rings,
                   shell, signals, reviving>>

----------------------------------------------------------------------------
Assembly(l) ==
    enter_building_op(l) \/ attach_member(l) \/ CountMembers(l) \/ begin_running(l)

\* What user code decides.
Syscall(t) ==
    \/ create_running(t) \/ commit_running(t) \/ Park(t) \/ Exit(t) \/ release_capability(t)
    \/ \E u \in Tid : start_created(t, u)

\* What the kernel owes a thread.
Advance(t) ==
    \/ CommitHandle(t) \/ bind_thread(t) \/ install_ready_batch(t) \/ publish_one(t)
    \/ pick(t) \/ enter_running_if(t) \/ Requeue(t) \/ park_waiting(t)
    \/ complete_finish(t) \/ complete_mandatory(t) \/ complete_result(t)
    \/ request(t) \/ thread_departed(t)

Cleanup == run_termination_todo \/ take_termination_slot \/ abandon \/ CleanupDone

Shell == CloseShell \/ revive_control \/ drain \/ publish_dead \/ mark_dead \/ DrainStops

Core ==
    \/ \E l \in Lease : Assembly(l) \/ leave_building_op(l)
    \/ \E t \in Tid : Syscall(t) \/ Advance(t) \/ on_requeue_if(t) \/ Killed(t) \/ offer(t)
    \/ Kill \/ Cleanup \/ publish_reapable

Next == Core \/ Shell

\* The kernel finishes what it has begun, a timer takes every thread off its hart, and a
\* terminating process has its threads absorbed at their next trap.
Fairness ==
    /\ \A l \in Lease : WF_vars(leave_building_op(l))
    /\ \A t \in Tid : WF_vars(Advance(t)) /\ WF_vars(is_terminating /\ Killed(t))
    /\ WF_vars(Cleanup) /\ WF_vars(publish_reapable)

Spec == Init /\ [][Next]_vars /\ Fairness

----------------------------------------------------------------------------
Containers ==
    {"none", "table", "starting", "queue", "picked", "user", "requeued", "parking", "context",
     "finished", "abandoned", "released", "lost"}

\* The variables of the process, its members and its shell keep their types.
TypeOK ==
    /\ state \in {"Building", "Running", "Terminating", "Dead"}
    /\ members \in Seq(Tid \cup {None}) /\ Len(generation) = Len(members)
    /\ next_tid \in 1..(MaxTid + 1)
    /\ mst \in [Tid -> MemberState] /\ at \in [Tid -> Containers]
    /\ active \subseteq Tid /\ bound \subseteq Tid /\ batch \subseteq Tid
    /\ building_ops \in 0..Cardinality(Lease) /\ mandatory_ops \in 0..MaxTid
    /\ result_obligations \in [Tid -> 0..1]
    /\ departure \in [Tid -> {"live", "requested", "finalizing", "departed"}]
    /\ todo \in {"none", "reapable", "cleanup", "cursor", "done"}
    /\ rings \in Nat /\ signals \subseteq {"REAPABLE", "CLOSED"}
    /\ draining \in {"no", "batch", "frozen"}

\* A thread that anything still holds, or whose departure is being finalised, is in the member
\* table under its own key: no assertion of member_mut or remove_member can fail, and no slot is
\* given to a second thread while the first is about.
KeysFresh ==
    \A t \in Tid :
       (at[t] # "none" \/ departure[t] \in {"requested", "finalizing"}) => Keyed(t)

\* A process is being drained, or is Dead, only when it has no member, no hart, no Building
\* operation and no committed memory change left, so mark_dead's assertion cannot fail.
DrainedEmpty == (draining # "no" \/ state = "Dead" \/ "REAPABLE" \in signals) => is_reapable

\* Whatever made the process reapable last, the level is not lost: once no publication and no
\* minting is under way, a live shell shows REAPABLE or, when Dead, CLOSED.
LevelKept ==
    is_reapable /\ rings = 0 /\ todo # "reapable" /\ shell = "live" /\ reviving = "no"
       => \/ state = "Terminating" /\ signals # {}
          \/ state = "Dead" /\ signals = {"CLOSED"}

\* A Ready member is in a ready queue or in the hands of the code that queues or runs it.
ReadyIsQueued ==
    \A t \in Tid : Keyed(t) /\ mst[t] = "Ready"
       => at[t] \in {"starting", "queue", "picked", "requeued", "released", "none"}

\* A terminating process becomes reapable: every member departs, whatever it was doing.
Reaped == (state = "Terminating") ~> is_reapable

\* The assertions of the member table and of mark_dead hold in every order of departure,
\* completion and teardown.
AssertionsHold == KeysFresh /\ DrainedEmpty

=============================================================================
