----------------------------- MODULE Shootdown -----------------------------
(***************************************************************************)
(* Changing the page table of a running process: the active set of the     *)
(* process, the epochs of its address space, the remote call slots of      *)
(* every hart and the completion that retires the old pages                *)
(* (remote_call.rs, os/remote_call, AddressSpace in task/proc.rs, the      *)
(* execution gate of task/lifecycle.rs and its callers in sched.rs and     *)
(* trap.rs).                                                               *)
(*                                                                         *)
(* What a page table says is abstracted to its epoch: every commit makes a *)
(* new version.  A hart under the table of a process caches after every    *)
(* fence the version it finds, the oldest it can hold until the next one,  *)
(* so a cache that fills later holds nothing older.  Doorbells are left out, so a hart meets its calls at its next   *)
(* safe point, which is what happens when a doorbell fails.  Slot          *)
(* generations are left out: reservations and tokens are affine here.      *)
(* A call whose target set is empty does not occur: every change is made   *)
(* by a thread of the process it changes.                                  *)
(***************************************************************************)
EXTENDS Integers, FiniteSets

CONSTANTS
    Hart,
    Space,            \* address spaces, one per process
    NoSpace,
    SLOTS_PER_HART,   \* also the number of calls one safe point executes
    FirstEpoch,       \* the epoch of every space in the initial state
    MaxEpoch,         \* u64::MAX: no commit beyond it
    CodeChange,       \* the versions whose change adds code
    Mortal            \* the spaces whose process may end

Slot == 1 .. SLOTS_PER_HART
MAX_DRAIN_PER_SAFE_POINT == SLOTS_PER_HART
Epoch == 0 .. MaxEpoch
Epochs == [translation : Epoch, instruction : Epoch]
NoEpochs == [translation |-> 0, instruction |-> 0]
FenceRequest == [space : Space, translation : Epoch, instruction : Epoch]

VARIABLES
    pc,            \* where every hart is
    space,         \* the space of the thread a hart has picked
    drained,       \* calls executed in this safe point
    expected,      \* the epochs a hart has synchronized to before the gate
    local,         \* LOCAL_EPOCHS
    tlb, icache,   \* the oldest versions a hart may have cached, as <<space, version>>
    phase, value,  \* the slots of every hart
    taken,         \* the slot and call a hart is executing
    batch,         \* ReservedBatch: the slots a hart has reserved
    snapshot,      \* ExecutionSnapshot: the active set a hart has seen
    fresh,         \* harts whose snapshot has the current execution_sequence
    active,        \* Lifecycle: the harts executing a process
    epochs,        \* the translation and instruction epochs of every space
    stage,         \* what has become of the change that made a version
    remaining,     \* BatchCompletion: the harts yet to acknowledge it
    kind,          \* its instruction epoch, or 0 if it changes no code
    owner,         \* the hart that has yet to install it, later the one with its work debt
    terminating, reaped

hartVars == <<pc, space, drained, expected>>
caches == <<local, tlb, icache>>
calls == <<phase, value, taken, batch>>
gate == <<snapshot, fresh, active>>
changes == <<epochs, stage, remaining, kind, owner>>
ends == <<terminating, reaped>>
vars == <<hartVars, caches, calls, gate, changes, ends>>

Points == {"loop", "picked", "gate", "entered", "user", "trap", "snapshot",
           "reserved", "committed", "out", "park", "leave"}
\* Where a hart drains its calls.
SafePoints == {"loop", "trap", "out", "park", "leave"}
\* Where the page table of the picked thread is in satp.
UserTable == {"user", "trap", "snapshot", "reserved", "committed", "out", "park"}
\* Where the hart is in the active set of the process.
Executing == UserTable \cup {"entered", "leave"}

Stages == {"none", "committed", "installed", "retiring", "done"}
InFlight == {"committed", "installed", "retiring"}

Init ==
    /\ pc = [h \in Hart |-> "loop"]
    /\ space = [h \in Hart |-> NoSpace]
    /\ drained = [h \in Hart |-> 0]
    /\ expected = [h \in Hart |-> NoEpochs]
    /\ local = [h \in Hart |-> [identity |-> NoSpace, epochs |-> NoEpochs]]
    /\ tlb = [h \in Hart |-> {}]
    /\ icache = [h \in Hart |-> {}]
    /\ phase = [h \in Hart |-> [i \in Slot |-> "Empty"]]
    /\ value = [h \in Hart |-> [i \in Slot |-> {}]]
    /\ taken = [h \in Hart |-> {}]
    /\ batch = [h \in Hart |-> {}]
    /\ snapshot = [h \in Hart |-> {}]
    /\ fresh = {}
    /\ active = [s \in Space |-> {}]
    /\ epochs = [s \in Space |-> [translation |-> FirstEpoch[s], instruction |-> FirstEpoch[s]]]
    /\ stage = [s \in Space |-> [e \in Epoch |-> "none"]]
    /\ remaining = [s \in Space |-> [e \in Epoch |-> {}]]
    /\ kind = [s \in Space |-> [e \in Epoch |-> 0]]
    /\ owner = [s \in Space |-> [e \in Epoch |-> {}]]
    /\ terminating = {} /\ reaped = {}

-----------------------------------------------------------------------------
(* The local epoch of a hart and its fences.                               *)

\* Every safe point starts with a new budget.
go(h, l) ==
    /\ pc' = [pc EXCEPT ![h] = l]
    /\ drained' = [drained EXCEPT ![h] = 0]

\* The space whose table is in satp at l.
satp(h, l) == IF l \in UserTable THEN {space[h]} ELSE {}

\* sfence.vma, and fence.i when asked, of a hart that is at l afterwards.
fence_local(h, l, instruction) ==
    /\ tlb' = [tlb EXCEPT ![h] = {<<s, epochs[s].translation>> : s \in satp(h, l)}]
    /\ icache' = [icache EXCEPT ![h] =
          IF instruction THEN {<<s, epochs[s].instruction>> : s \in satp(h, l)} ELSE @]

AtLeast(e, f) == e.translation >= f.translation /\ e.instruction >= f.instruction

local_observes(h, s, e) == local[h].identity = s /\ AtLeast(local[h].epochs, e)

Max2(a, b) == IF a >= b THEN a ELSE b

\* The epochs of the same space only grow; a new space replaces them.
publish_local(h, s, e) ==
    local' = [local EXCEPT ![h] =
        [identity |-> s,
         epochs |-> IF @.identity = s
                    THEN [translation |-> Max2(@.epochs.translation, e.translation),
                          instruction |-> Max2(@.epochs.instruction, e.instruction)]
                    ELSE e]]

synchronize_local(h, s, e) ==
    IF local_observes(h, s, e)
    THEN UNCHANGED caches
    ELSE /\ fence_local(h, pc[h], local[h].identity # s \/ local[h].epochs.instruction < e.instruction)
         /\ publish_local(h, s, e)

\* The recheck under the lifecycle lock.
local_is_current(h, s, e) == epochs[s] = e /\ local_observes(h, s, e)

\* advance_execution: the active set changed, so no earlier snapshot is current.
advance_execution(s) == fresh' = {h \in fresh : space[h] # s}

-----------------------------------------------------------------------------
(* A safe point: remote_call::drain_current, then the work debt.           *)

Pending(h) == {i \in Slot : phase[h][i] = "Pending"}
LowestOf(S) == CHOOSE i \in S : \A j \in S : i <= j

execute_fence(h, request) ==
    /\ fence_local(h, pc[h], request.instruction # 0)
    /\ publish_local(h, request.space,
           [translation |-> request.translation, instruction |-> request.instruction])

\* take, then the fence, which only this hart sees.
Take(h) ==
    /\ pc[h] \in SafePoints /\ taken[h] = {}
    /\ drained[h] < MAX_DRAIN_PER_SAFE_POINT
    /\ Pending(h) # {}
    /\ LET i == LowestOf(Pending(h))
           request == CHOOSE r \in FenceRequest : value[h][i] = {r}
       IN  /\ taken' = [taken EXCEPT ![h] = {[slot |-> i, call |-> request]}]
           /\ phase' = [phase EXCEPT ![h][i] = "Taken"]
           /\ value' = [value EXCEPT ![h][i] = {}]
           /\ execute_fence(h, request)
    /\ UNCHANGED <<hartVars, batch, gate, changes, ends>>

\* The last acknowledgement moves the published change to Retiring and
\* leaves its debt to this hart (MemoryChangeCompletion::complete).
complete(h, s, e) ==
    IF remaining[s][e] = {h}
    THEN /\ stage' = [stage EXCEPT ![s][e] = "retiring"]
         /\ owner' = [owner EXCEPT ![s][e] = {h}]
    ELSE UNCHANGED <<stage, owner>>

acknowledge(h, s, e) == remaining' = [remaining EXCEPT ![s][e] = @ \ {h}]

\* acknowledge, finish and complete.
Finish(h) ==
    \E t \in taken[h] :
        /\ acknowledge(h, t.call.space, t.call.translation)
        /\ phase' = [phase EXCEPT ![h][t.slot] = "Empty"]
        /\ taken' = [taken EXCEPT ![h] = {}]
        /\ drained' = [drained EXCEPT ![h] = @ + 1]
        /\ complete(h, t.call.space, t.call.translation)
        /\ UNCHANGED <<pc, space, expected, caches, value, batch, gate, epochs, kind, ends>>

\* No call is left: the drain is over whatever is published from here on.
DrainEmpty(h) ==
    /\ pc[h] \in SafePoints /\ taken[h] = {}
    /\ drained[h] < MAX_DRAIN_PER_SAFE_POINT
    /\ Pending(h) = {}
    /\ drained' = [drained EXCEPT ![h] = MAX_DRAIN_PER_SAFE_POINT]
    /\ UNCHANGED <<pc, space, expected, caches, calls, gate, changes, ends>>

Drained(h) == taken[h] = {} /\ drained[h] = MAX_DRAIN_PER_SAFE_POINT

\* advance_retire to its end: the pages go back and the mandatory operation ends.
Retire(h) ==
    /\ pc[h] \in SafePoints /\ Drained(h)
    /\ \E s \in Space, e \in Epoch :
          /\ h \in owner[s][e] /\ stage[s][e] = "retiring"
          /\ stage' = [stage EXCEPT ![s][e] = "done"]
          /\ owner' = [owner EXCEPT ![s][e] = {}]
    /\ UNCHANGED <<hartVars, caches, calls, gate, epochs, remaining, kind, ends>>

mandatory_ops(s) == {e \in Epoch : stage[s][e] \in InFlight}

-----------------------------------------------------------------------------
(* The scheduling loop.                                                    *)

\* A ready thread of some process.
Pick(h) ==
    /\ pc[h] = "loop" /\ Drained(h)
    /\ \E s \in Space \ reaped : space' = [space EXCEPT ![h] = s]
    /\ go(h, "picked")
    /\ UNCHANGED <<expected, caches, calls, gate, changes, ends>>

\* Nothing to run: idle, then the loop from its top.
Again(h) ==
    /\ pc[h] = "loop" /\ Drained(h)
    /\ go(h, "loop")
    /\ UNCHANGED <<space, expected, caches, calls, gate, changes, ends>>

Synchronize(h) ==
    /\ pc[h] = "picked"
    /\ expected' = [expected EXCEPT ![h] = epochs[space[h]]]
    /\ synchronize_local(h, space[h], epochs[space[h]])
    /\ go(h, "gate")
    /\ UNCHANGED <<space, calls, gate, changes, ends>>

\* enter_running_if: Closed, Retry or Entered.
EnterRunning(h) ==
    LET s == space[h] IN
    /\ pc[h] = "gate"
    /\ expected' = [expected EXCEPT ![h] = NoEpochs]
    /\ \/ /\ s \in terminating
          /\ go(h, "loop")
          /\ space' = [space EXCEPT ![h] = NoSpace]
          /\ UNCHANGED gate
       \/ /\ s \notin terminating /\ ~ local_is_current(h, s, expected[h])
          /\ go(h, "picked")
          /\ UNCHANGED <<space, gate>>
       \/ /\ s \notin terminating /\ local_is_current(h, s, expected[h])
          /\ active' = [active EXCEPT ![s] = @ \cup {h}]
          /\ advance_execution(s)
          /\ go(h, "entered")
          /\ UNCHANGED <<space, snapshot>>
    /\ UNCHANGED <<caches, calls, changes, ends>>

\* _ret_to_user: the page table of the process, sfence.vma and fence.i.
RetToUser(h) ==
    /\ pc[h] = "entered"
    /\ fence_local(h, "user", TRUE)
    /\ go(h, "user")
    /\ UNCHANGED <<space, expected, local, calls, gate, changes, ends>>

-----------------------------------------------------------------------------
(* Traps.                                                                  *)

Trap(h) ==
    /\ pc[h] = "user"
    /\ go(h, "trap")
    /\ UNCHANGED <<space, expected, caches, calls, gate, changes, ends>>

\* The assembly exit of every outcome but Resume: kernel satp and sfence.vma.
Switch(h) == fence_local(h, "leave", FALSE)

\* A terminating process does not return to user mode.
TrapKilled(h) ==
    /\ pc[h] \in {"trap", "out", "park"} /\ Drained(h)
    /\ space[h] \in terminating
    /\ go(h, "leave")
    /\ Switch(h)
    /\ UNCHANGED <<space, expected, local, calls, gate, changes, ends>>

\* Interrupts and calls that change no page table.
OtherHandler(h) ==
    /\ pc[h] = "trap" /\ Drained(h)
    /\ space[h] \notin terminating
    /\ go(h, "out")
    /\ UNCHANGED <<space, expected, caches, calls, gate, changes, ends>>

\* Resume, or a switch away: requeue, or the park of a change that was committed.
TrapOut(h) ==
    /\ pc[h] \in {"out", "park"} /\ Drained(h)
    /\ space[h] \notin terminating
    /\ \/ pc[h] = "out" /\ go(h, "user") /\ UNCHANGED <<tlb, icache>>
       \/ go(h, "leave") /\ Switch(h)
    /\ UNCHANGED <<space, expected, local, calls, gate, changes, ends>>

\* on_requeue_if and clear_active_if, with the epochs read before the gate; a
\* commit between the two is one more round.
ClearActive(h) ==
    LET s == space[h] IN
    /\ pc[h] = "leave" /\ Drained(h)
    /\ IF local_is_current(h, s, epochs[s])
       THEN /\ active' = [active EXCEPT ![s] = @ \ {h}]
            /\ advance_execution(s)
            /\ space' = [space EXCEPT ![h] = NoSpace]
            /\ go(h, "loop")
            /\ UNCHANGED snapshot
       ELSE /\ go(h, "leave")
            /\ UNCHANGED <<space, gate>>
    /\ UNCHANGED <<expected, caches, calls, changes, ends>>

-----------------------------------------------------------------------------
(* A memory change of the calling thread: start_running_memory_change.     *)

\* snapshot_running; a process that ends between the check of the trap and this
\* one is refused, which is an OtherHandler.
Snapshot(h) ==
    LET s == space[h] IN
    /\ pc[h] = "trap" /\ Drained(h)
    /\ s \notin terminating
    /\ snapshot' = [snapshot EXCEPT ![h] = active[s]]
    /\ fresh' = fresh \cup {h}
    /\ go(h, "snapshot")
    /\ UNCHANGED <<space, expected, caches, calls, active, changes, ends>>

\* Every hart of the snapshot, the calling one included.
targets(h) == snapshot[h]

Empty(t) == {i \in Slot : phase[t][i] = "Empty"}

\* A full target, or no memory for the batch: what was reserved is cancelled.
Busy(h) == phase' = phase

\* One slot of every target under one lock, or none.
Reserve(h) ==
    LET found == {<<t, LowestOf(Empty(t))>> : t \in targets(h)} IN
    /\ pc[h] = "snapshot"
    /\ \/ /\ \A t \in targets(h) : Empty(t) # {}
          /\ phase' = [t \in Hart |-> [i \in Slot |->
                          IF <<t, i>> \in found THEN "Reserved" ELSE phase[t][i]]]
          /\ batch' = [batch EXCEPT ![h] = found]
          /\ go(h, "reserved")
          /\ UNCHANGED <<snapshot, fresh>>
       \/ /\ Busy(h)
          /\ go(h, "out")
          /\ snapshot' = [snapshot EXCEPT ![h] = {}]
          /\ fresh' = fresh \ {h}
          /\ UNCHANGED batch
    /\ UNCHANGED <<space, expected, caches, value, taken, active, changes, ends>>

\* The slots of a batch, all moved to one phase.
Move(b, p) == phase' = [t \in Hart |-> [i \in Slot |-> IF <<t, i>> \in b THEN p ELSE phase[t][i]]]

\* Mutant: the set may have changed since the snapshot.
commit_running_Stale(h) == space[h] \notin terminating

\* commit_running: the process runs and the snapshot is current.
commit_running(h) ==
    /\ space[h] \notin terminating
    /\ h \in fresh /\ active[space[h]] = snapshot[h]

\* An epoch that cannot advance refuses the commit.
Exhausted(s, instruction) ==
    \/ epochs[s].translation = MaxEpoch
    \/ instruction = 1 /\ epochs[s].instruction = MaxEpoch

\* commit_shootdown and, when it refuses, the drop of the batch.
Commit(h) ==
    LET s == space[h]
        new == epochs[s].translation + 1
        code == IF new \in CodeChange THEN 1 ELSE 0
        next == [translation |-> new, instruction |-> epochs[s].instruction + code]
        request == [space |-> s, translation |-> new, instruction |-> code * next.instruction]
    IN
    /\ pc[h] = "reserved"
    /\ \/ /\ ~ Exhausted(s, code) /\ commit_running(h)
          /\ epochs' = [epochs EXCEPT ![s] = next]
          /\ Move(batch[h], "Pending")
          /\ value' = [t \in Hart |-> [i \in Slot |->
                         IF <<t, i>> \in batch[h] THEN {request} ELSE value[t][i]]]
          /\ stage' = [stage EXCEPT ![s][new] = "committed"]
          /\ remaining' = [remaining EXCEPT ![s][new] = targets(h)]
          /\ kind' = [kind EXCEPT ![s][new] = request.instruction]
          /\ owner' = [owner EXCEPT ![s][new] = {h}]
          /\ go(h, "committed")
       \/ /\ Exhausted(s, code) \/ ~ commit_running(h)
          /\ Move(batch[h], "Empty")
          /\ go(h, "out")
          /\ UNCHANGED <<epochs, value, stage, remaining, kind, owner>>
    /\ batch' = [batch EXCEPT ![h] = {}]
    /\ snapshot' = [snapshot EXCEPT ![h] = {}]
    /\ fresh' = fresh \ {h}
    /\ UNCHANGED <<space, expected, caches, taken, active, ends>>

\* install, then the wait of the calling thread.
Install(h) ==
    LET s == space[h] IN
    /\ pc[h] = "committed"
    /\ \E e \in Epoch :
          /\ stage[s][e] = "committed" /\ h \in owner[s][e]
          /\ stage' = [stage EXCEPT ![s][e] = "installed"]
          /\ owner' = [owner EXCEPT ![s][e] = {}]
    /\ go(h, "park")
    /\ UNCHANGED <<space, expected, caches, calls, gate, epochs, remaining, kind, ends>>

-----------------------------------------------------------------------------
(* The end of a process.                                                   *)

Terminate(s) ==
    /\ s \in Mortal \ terminating
    /\ terminating' = terminating \cup {s}
    /\ UNCHANGED <<hartVars, caches, calls, gate, changes, reaped>>

\* No member is left: no hart holds a thread of the process.
is_reapable(s) ==
    /\ s \in terminating /\ active[s] = {} /\ \A h \in Hart : space[h] # s
    /\ mandatory_ops(s) = {}

\* The page table and every page of the space are released.
Reap(s) ==
    /\ s \notin reaped /\ is_reapable(s)
    /\ reaped' = reaped \cup {s}
    /\ UNCHANGED <<hartVars, caches, calls, gate, changes, terminating>>

HartStep(h) ==
    \/ Take(h) \/ Finish(h) \/ DrainEmpty(h) \/ Retire(h)
    \/ Pick(h) \/ Again(h) \/ Synchronize(h) \/ EnterRunning(h) \/ RetToUser(h)
    \/ Trap(h) \/ TrapKilled(h) \/ OtherHandler(h) \/ TrapOut(h)
    \/ ClearActive(h)
    \/ Snapshot(h) \/ Reserve(h) \/ Commit(h) \/ Install(h)

Next ==
    \/ \E h \in Hart : HartStep(h)
    \/ \E s \in Space : Terminate(s) \/ Reap(s)

Spec == Init /\ [][Next]_vars

-----------------------------------------------------------------------------
(* Properties.                                                             *)

\* A reserved slot belongs to exactly one batch that is yet to commit, and a
\* batch holds one slot of every target: a refused batch leaks none.
ReservationsExact ==
    \A t \in Hart :
        /\ \A i \in Slot : phase[t][i] = "Reserved" =>
              Cardinality({h \in Hart : <<t, i>> \in batch[h]}) = 1
        /\ \A h \in Hart : pc[h] = "reserved" =>
              Cardinality({i \in Slot : <<t, i>> \in batch[h]}) = (IF t \in snapshot[h] THEN 1 ELSE 0)

\* The ranges of the state; an executing hart is in the active set of the
\* space it has picked and in no other, and slots match their contents and holders.
TypeOK ==
    /\ pc \in [Hart -> Points]
    /\ space \in [Hart -> Space \cup {NoSpace}]
    /\ drained \in [Hart -> 0 .. MAX_DRAIN_PER_SAFE_POINT]
    /\ expected \in [Hart -> Epochs]
    /\ local \in [Hart -> [identity : Space \cup {NoSpace}, epochs : Epochs]]
    /\ \A h \in Hart : tlb[h] \subseteq Space \X Epoch /\ icache[h] \subseteq Space \X Epoch
    /\ phase \in [Hart -> [Slot -> {"Empty", "Reserved", "Pending", "Taken"}]]
    /\ \A h \in Hart, i \in Slot :
          /\ value[h][i] \subseteq FenceRequest
          /\ phase[h][i] = "Pending" <=> value[h][i] # {}
          /\ phase[h][i] = "Taken" <=> \E t \in taken[h] : t.slot = i
    /\ \A h \in Hart : batch[h] \subseteq Hart \X Slot /\ snapshot[h] \subseteq Hart
    /\ ReservationsExact
    /\ epochs \in [Space -> Epochs]
    /\ stage \in [Space -> [Epoch -> Stages]]
    /\ \A s \in Space : active[s] = {h \in Hart : space[h] = s /\ pc[h] \in Executing}
    /\ fresh \subseteq Hart /\ reaped \subseteq terminating /\ terminating \subseteq Space

Released(s, e) == stage[s][e] \in {"retiring", "done"}

\* Once the last target of a change has acknowledged it and its pages are being
\* released, no hart holds a translation older than the change
\* (BatchCompletion, commit_shootdown against enter_running_if).
NoStaleTranslation ==
    \A h \in Hart, s \in Space, e \in Epoch :
        Released(s, e) => \A c \in tlb[h] : c[1] = s => c[2] >= e

\* And no hart that executes the process fetches code older than a released
\* change of code: every target ran fence.i, or enters through _ret_to_user.
NoStaleCode ==
    \A h \in Hart, s \in Space, e \in Epoch :
        Released(s, e) /\ pc[h] \in UserTable /\ space[h] = s =>
            \A c \in icache[h] : c[1] = s => c[2] >= kind[s][e]

\* All spaces share ASID 0: a hart holds translations of the process it
\* executes and of no other, and none while it is in the loop.
NoForeignTranslation ==
    \A h \in Hart : \A c \in tlb[h] : c[1] = space[h] /\ pc[h] \in UserTable

\* The last acknowledgement finds the published change installed ("memory
\* completion ran before Commit publication" never fires): the calling hart is
\* itself a target and only acknowledges after install.
InstalledBeforeComplete ==
    \A s \in Space, e \in Epoch : stage[s][e] = "committed" => remaining[s][e] # {}

Calls(h) == UNION {value[h][i] : i \in Slot} \cup {t.call : t \in taken[h]}

\* A hart meets a call only while its local record still names the space of the
\* call, although it may leave the active set with calls still pending; a later
\* call would take the record to a space the hart no longer executes.
CallMatchesRecord ==
    \A h \in Hart : \A c \in Calls(h) : local[h].identity = c.space

\* The exit loops of sched.rs only drain: with no call left the gate must
\* accept the hart, or it would never leave.
ExitCanPass ==
    \A h \in Hart :
        pc[h] = "leave" /\ Calls(h) = {} => local_is_current(h, space[h], epochs[space[h]])

\* Every target of a change in flight still has its call, and every call its
\* change: no acknowledgement is lost, none comes twice.
CallsMatchChanges ==
    \A h \in Hart, s \in Space, e \in Epoch :
        h \in remaining[s][e] <=>
            \E c \in Calls(h) : c.space = s /\ c.translation = e

\* A reaped space is in no cache of a hart and in no call: the barrier of the
\* teardown covers changes that are still in flight.
ReapedIsQuiet ==
    \A s \in reaped, h \in Hart :
        /\ \A c \in tlb[h] : c[1] # s
        /\ \A c \in Calls(h) : c.space # s

\* No cache of a hart outlives the change that made it stale, nor the stay in the process.
NoStaleCaches == NoStaleTranslation /\ NoStaleCode /\ NoForeignTranslation

\* The record a hart keeps of its epochs never holds it in the process it leaves.
RecordsCurrent == CallMatchesRecord /\ ExitCanPass

\* The completion of a change runs once, after install, when every target has fenced.
CompletionSound == InstalledBeforeComplete /\ CallsMatchChanges

=============================================================================
