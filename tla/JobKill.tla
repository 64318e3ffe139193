------------------------------ MODULE JobKill ------------------------------
(***************************************************************************)
(* The recursive JobKill of user space (libprocess: JobCollector, its      *)
(* Collector for one process, the ObservationSlot of its driver) over the  *)
(* Job tree of the kernel.  One kill of one Job; other threads create,     *)
(* start, end and drain processes meanwhile.  A step of the machine makes  *)
(* at most one system call.                                                *)
(***************************************************************************)
EXTENDS Naturals, Sequences, FiniteSets, FiniteSetsExt

-----------------------------------------------------------------------------
(***************************************************************************)
(* The Job tree of the kernel (task/job.rs): reservations of members and   *)
(* children, the gates that check every ancestor for a seal, and the       *)
(* completion that climbs the tree.  A gate holds the locks of the chain   *)
(* from the root to the owner and is one action; commit, rollback, seal    *)
(* and removal hold one lock each; a completion cursor takes one lock per  *)
(* step.  What a process does between Start and its end is in Lifecycle:   *)
(* here it is killed, becomes reapable, and is drained.                    *)
(***************************************************************************)

CONSTANTS
    Job,        \* identities in the order of allocation, 1 is the root
    Proc,       \* identities in the order of allocation
    Maker,      \* threads in JobCreate or ProcessCreate
    MaxDepth

VARIABLES job, proc, maker, sealer

kernel == <<job, proc, maker, sealer>>

NoJob == [made |-> FALSE, parent |-> 0, members |-> {}, children |-> {}, reserved |-> {}, expected |-> {},
          sealed |-> FALSE, dead |-> FALSE, closed |-> FALSE]
NoCursor == [child |-> 0, published |-> FALSE]
NoProc == [st |-> "none", job |-> 0, removed |-> FALSE, cursor |-> NoCursor]
Idle == [kind |-> "idle", job |-> 0, id |-> 0]

\* members and children are the visible entries of the two tables, reserved and expected the markers
\* of creations that are under way; sealer is the cursor of a seal that completed its Job.
KernelInit ==
    /\ job = [j \in Job |-> IF j = 1 THEN [NoJob EXCEPT !.made = TRUE] ELSE NoJob]
    /\ proc = [p \in Proc |-> NoProc]
    /\ maker = [m \in Maker |-> Idle]
    /\ sealer = NoCursor

\* collect_chain: the Job and its ancestors.
Chain(j) == {j} \cup {k \in Job : k = job[j].parent \/ (job[j].parent # 0 /\ k = job[job[j].parent].parent)}
Sealed(j) == \E k \in Chain(j) : job[k].sealed

\* Mutant: only visible entries keep a Job from completing.
complete_if_ready_Visible(t) == t.sealed /\ ~t.dead /\ t.members \cup t.children = {}

complete_if_ready(t) == t.sealed /\ ~t.dead /\ t.members \cup t.reserved \cup t.children \cup t.expected = {}
\* The table, and the cursor of the completion if there is one.
Completed(t) == IF complete_if_ready(t) THEN [t EXCEPT !.dead = TRUE] ELSE t
CursorOf(t, j) == IF complete_if_ready(t) THEN [child |-> j, published |-> FALSE] ELSE NoCursor

-----------------------------------------------------------------------------
(* Creation.                                                               *)

Unused(S, used) == IF S \subseteq used THEN {} ELSE {Min(S \ used)}
Pids == {p \in Proc : proc[p].job # 0}
Jids == {j \in Job : job[j].parent # 0 \/ j = 1}

\* Identity and marker come in the critical section that checked the chain.
gate_reserve_member(m) ==
    /\ maker[m] = Idle
    /\ \E j \in Job, p \in Unused(Proc, Pids) :
          /\ job[j].made /\ ~Sealed(j)
          /\ job' = [job EXCEPT ![j].reserved = @ \cup {p}]
          /\ proc' = [proc EXCEPT ![p].job = j]
          /\ maker' = [maker EXCEPT ![m] = [kind |-> "process", job |-> j, id |-> p]]
    /\ UNCHANGED sealer

gate_reserve_child(m) ==
    /\ maker[m] = Idle
    /\ \E j \in Job, c \in Unused(Job, Jids) :
          /\ job[j].made /\ Cardinality(Chain(j)) < MaxDepth /\ ~Sealed(j)
          /\ job' = [job EXCEPT ![j].expected = @ \cup {c}, ![c].parent = j]
          /\ maker' = [maker EXCEPT ![m] = [kind |-> "job", job |-> j, id |-> c]]
    /\ UNCHANGED <<proc, sealer>>

\* The object is visible in the table when its Handle is; a seal that came in between changes nothing.
commit_member_with(m) ==
    /\ maker[m].kind = "process"
    /\ LET j == maker[m].job p == maker[m].id IN
          /\ job' = [job EXCEPT ![j].reserved = @ \ {p}, ![j].members = @ \cup {p}]
          /\ proc' = [proc EXCEPT ![p].st = "building"]
    /\ maker' = [maker EXCEPT ![m] = Idle]
    /\ UNCHANGED sealer

commit_child(m) ==
    /\ maker[m].kind = "job"
    /\ LET j == maker[m].job c == maker[m].id IN
          job' = [job EXCEPT ![j].expected = @ \ {c}, ![j].children = @ \cup {c}, ![c].made = TRUE]
    /\ maker' = [maker EXCEPT ![m] = Idle]
    /\ UNCHANGED <<proc, sealer>>

\* rollback_member and rollback_child take the marker out, and nothing else.
rollback(m) ==
    /\ maker[m] # Idle
    /\ LET j == maker[m].job i == maker[m].id IN
          job' = IF maker[m].kind = "process" THEN [job EXCEPT ![j].reserved = @ \ {i}]
                                              ELSE [job EXCEPT ![j].expected = @ \ {i}]
    /\ maker' = [maker EXCEPT ![m] = Idle]
    /\ UNCHANGED <<proc, sealer>>

\* Building becomes Running under the locks of the chain.
start_commit_gate ==
    /\ \E p \in Proc :
          /\ proc[p].st = "building" /\ ~Sealed(proc[p].job)
          /\ proc' = [proc EXCEPT ![p].st = "running"]
    /\ UNCHANGED <<job, maker, sealer>>

-----------------------------------------------------------------------------
(* The end of a process and of a Job.                                      *)

\* A kill, an exit, or the loss of the builder.
Terminated(p) == [proc EXCEPT ![p].st = IF @ \in {"building", "running"} THEN "reapable" ELSE @]

terminate ==
    /\ \E p \in Proc : proc[p].st \in {"building", "running"} /\ proc' = Terminated(p)
    /\ UNCHANGED <<job, maker, sealer>>

\* One step of a cursor: publish, or leave the parent and go on with it if that completes it.
Published(c) == [job EXCEPT ![c.child].closed = TRUE]
Left(c) == LET k == job[c.child].parent IN [job[k] EXCEPT !.children = @ \ {c.child}]

AdvanceTo(c) ==
    IF ~c.published THEN [c EXCEPT !.published = TRUE]
    ELSE IF job[c.child].parent = 0 THEN NoCursor
    ELSE CursorOf(Left(c), job[c.child].parent)
JobsAfter(c) ==
    IF ~c.published THEN Published(c)
    ELSE IF job[c.child].parent = 0 THEN job
    ELSE [job EXCEPT ![job[c.child].parent] = Completed(Left(c))]

\* A seal, and the propagation it runs to the end; one seal at a time.
Seal(j) ==
    LET t == [job[j] EXCEPT !.sealed = TRUE] IN
    /\ sealer = NoCursor
    /\ IF job[j].dead THEN UNCHANGED <<job, sealer>>
       ELSE job' = [job EXCEPT ![j] = Completed(t)] /\ sealer' = CursorOf(t, j)
    /\ UNCHANGED <<proc, maker>>

seal == \E j \in Job : job[j].made /\ ~job[j].sealed /\ Seal(j)

finish_completion ==
    /\ sealer # NoCursor
    /\ job' = JobsAfter(sealer) /\ sealer' = AdvanceTo(sealer)
    /\ UNCHANGED <<proc, maker>>

\* A dead process leaves its Job; the completion this causes belongs to its drain.
remove_member(p) ==
    LET j == proc[p].job
        t == [job[j] EXCEPT !.members = @ \ {p}]
    IN  /\ job' = [job EXCEPT ![j] = Completed(t)]
        /\ proc' = [proc EXCEPT ![p].removed = TRUE, ![p].cursor = CursorOf(t, j)]

\* One unit of a ProcessDrain: the end is published, the member removed, the cursor advanced.
DrainStep(p) ==
    /\ \/ /\ proc[p].st = "reapable"
          /\ proc' = [proc EXCEPT ![p].st = "dead"] /\ UNCHANGED job
       \/ /\ proc[p].st = "dead" /\ ~proc[p].removed
          /\ remove_member(p)
       \/ /\ proc[p].cursor # NoCursor
          /\ job' = JobsAfter(proc[p].cursor)
          /\ proc' = [proc EXCEPT ![p].cursor = AdvanceTo(@)]
    /\ UNCHANGED <<maker, sealer>>

Drained(p) == proc[p].removed /\ proc[p].cursor = NoCursor

-----------------------------------------------------------------------------

\* A page: visible entries behind the cursor, in order, up to the first marker.
scan_visible(visible, hidden, cursor, cap) ==
    LET above == {i \in visible \cup hidden : i > cursor}
        got == {i \in above \ hidden : /\ \A h \in hidden \cap above : i < h
                                       /\ Cardinality({k \in above : k <= i}) <= cap}
    IN  [ids |-> got, more |-> above # got]

enumerate(j, kind, cursor, cap) ==
    IF kind = "members" THEN scan_visible(job[j].members, job[j].reserved, cursor, cap)
                        ELSE scan_visible(job[j].children, job[j].expected, cursor, cap)

KernelNext ==
    \/ \E m \in Maker : gate_reserve_member(m) \/ gate_reserve_child(m) \/ commit_member_with(m) \/ commit_child(m)
                        \/ rollback(m)
    \/ start_commit_gate \/ terminate \/ seal \/ finish_completion
    \/ \E p \in Proc : DrainStep(p)

-----------------------------------------------------------------------------

\* A Job that is sealed and has nothing left in its tables is dead.
SealedEmptyIsDead ==
    \A j \in Job : job[j].sealed /\ job[j].members \cup job[j].reserved \cup job[j].children \cup job[j].expected = {}
                       => job[j].dead

-----------------------------------------------------------------------------
CONSTANTS
    Target,     \* the Job that is killed
    PageSize,   \* identities of one enumeration
    Stalls,     \* enumerations without progress, timeouts and drains that are allowed
    Renewals    \* times the budgets are replenished

VARIABLES frames, slot, failed, renewals

kill == <<frames, slot, failed, renewals>>
vars == <<job, proc, maker, sealer, frames, slot, failed, renewals>>

NoPage == [ids |-> {}, cursor |-> 0, more |-> FALSE, stalls |-> 0]
NoMember == [pid |-> 0, phase |-> "none", drains |-> 0]
NewFrame(j) == [job |-> j, phase |-> "Seal", page |-> NoPage, member |-> NoMember, timeouts |-> 0]
NoSlot == [request |-> FALSE, source |-> "none", result |-> "none"]

Init ==
    /\ KernelInit
    /\ frames = <<NewFrame(Target)>> /\ slot = NoSlot /\ failed = "no" /\ renewals = Renewals

Top == frames[Len(frames)]
TopTo(f) == frames' = [frames EXCEPT ![Len(frames)] = f]
\* The machine moves when it has not failed and no observation is open.
Active(phase) == Top.phase = phase /\ failed = "no" /\ ~slot.request
Fail(stage) == failed' = stage /\ UNCHANGED frames

-----------------------------------------------------------------------------
(* JobCollector::step                                                      *)

step_seal ==
    /\ Active("Seal") /\ job[Target].made
    /\ Seal(Top.job)
    /\ TopTo([Top EXCEPT !.phase = "Sealing"])
    /\ UNCHANGED <<slot, failed, renewals>>

\* The call returns behind the propagation.
step_sealed ==
    /\ Active("Sealing") /\ sealer = NoCursor
    /\ TopTo([Top EXCEPT !.phase = "Members"])
    /\ UNCHANGED <<kernel, slot, failed, renewals>>

\* A page replaces the one that was worked off; a page that is empty and not the last is a stall.
Accept(f, scan, next) ==
    LET stall == scan.ids = {} /\ scan.more IN
    [f EXCEPT !.page = [ids |-> scan.ids, more |-> scan.more, cursor |-> IF scan.ids = {} THEN @.cursor ELSE Max(scan.ids),
                        stalls |-> IF stall THEN @.stalls + 1 ELSE 0],
              !.phase = IF stall THEN @ ELSE next]

step_enumerate ==
    /\ Active("Members") \/ Active("Children")
    /\ LET members == Top.phase = "Members"
           scan == enumerate(Top.job, IF members THEN "members" ELSE "children", Top.page.cursor, PageSize)
           f == Accept(Top, scan, IF members THEN "DeriveMember" ELSE "DeriveChild")
       IN  /\ TopTo(f)
           /\ failed' = IF f.page.stalls = Stalls THEN "enumerate" ELSE failed
    /\ UNCHANGED <<kernel, slot, renewals>>

Next1(f) == [f EXCEPT !.page.ids = @ \ {Min(@)}]

\* The next of the page: a control of it, or it is gone already; behind the last page the children.
step_derive_member ==
    /\ Active("DeriveMember")
    /\ IF Top.page.ids = {}
       THEN TopTo(IF Top.page.more THEN [Top EXCEPT !.phase = "Members"]
                                   ELSE [Top EXCEPT !.page = NoPage, !.phase = "Children"])
       ELSE LET p == Min(Top.page.ids) IN
            TopTo(IF p \in job[Top.job].members THEN [Top EXCEPT !.member = [NoMember EXCEPT !.pid = p], !.phase = "KillMember"]
                                                ELSE Next1(Top))
    /\ UNCHANGED <<kernel, slot, failed, renewals>>

step_kill_member ==
    /\ Active("KillMember")
    /\ proc' = Terminated(Top.member.pid)
    /\ TopTo([Top EXCEPT !.phase = "CollectMember", !.member.phase = "Waiting"])
    /\ UNCHANGED <<job, maker, sealer, slot, failed, renewals>>

step_derive_child ==
    /\ Active("DeriveChild")
    /\ IF Top.page.ids = {}
       THEN TopTo([Top EXCEPT !.phase = IF Top.page.more THEN "Children" ELSE "WaitClosed"])
       ELSE LET c == Min(Top.page.ids) IN
            IF c \in job[Top.job].children
            THEN frames' = Append([frames EXCEPT ![Len(frames)].phase = "CloseChild"], NewFrame(c))
            ELSE TopTo(Next1(Top))
    /\ UNCHANGED <<kernel, slot, failed, renewals>>

\* A child that is done is popped; its control is closed by the frame that derived it.
step_pop ==
    /\ Active("Done") /\ Len(frames) > 1
    /\ frames' = SubSeq(frames, 1, Len(frames) - 1)
    /\ UNCHANGED <<kernel, slot, failed, renewals>>

step_close_child ==
    /\ Active("CloseChild")
    /\ TopTo([Next1(Top) EXCEPT !.phase = "DeriveChild"])
    /\ UNCHANGED <<kernel, slot, failed, renewals>>

step_verify_dead ==
    /\ Active("VerifyDead")
    /\ IF job[Top.job].dead THEN TopTo([Top EXCEPT !.phase = "Done"]) /\ UNCHANGED failed ELSE Fail("inconsistent")
    /\ UNCHANGED <<kernel, slot, renewals>>

-----------------------------------------------------------------------------
(* Collector::step for the member at hand.                                 *)

Collecting(phase) == Active("CollectMember") /\ Top.member.phase = phase

\* A drain does some of the work, or meets another one; it is complete when nothing is left.
step_drain ==
    /\ Collecting("Draining")
    /\ \E p \in {Top.member.pid} :
       IF Top.member.drains = Stalls THEN Fail("drain") /\ UNCHANGED kernel
       ELSE \/ /\ DrainStep(p)
               /\ TopTo([Top EXCEPT !.member.phase = IF Drained(p)' THEN "Verifying" ELSE @, !.member.drains = @ + 1])
               /\ UNCHANGED failed
            \/ /\ TopTo([Top EXCEPT !.member.phase = IF Drained(p) THEN "Verifying" ELSE @, !.member.drains = @ + 1])
               /\ UNCHANGED <<kernel, failed>>
    /\ UNCHANGED <<slot, renewals>>

step_verify ==
    /\ Collecting("Verifying")
    /\ IF proc[Top.member.pid].st = "dead" THEN TopTo([Top EXCEPT !.member.phase = "Closing"]) /\ UNCHANGED failed
                                           ELSE Fail("snapshot")
    /\ UNCHANGED <<kernel, slot, renewals>>

step_close ==
    /\ Collecting("Closing")
    /\ TopTo([Next1(Top) EXCEPT !.member = NoMember, !.phase = "DeriveMember"])
    /\ UNCHANGED <<kernel, slot, failed, renewals>>

-----------------------------------------------------------------------------
(* Observations: the request of the machine and the slot of its driver.    *)

Waiting == Collecting("Waiting") \/ Active("WaitClosed")
Level == IF Top.phase = "WaitClosed" THEN job[Top.job].closed ELSE proc[Top.member.pid].st \in {"reapable", "dead"}

\* begin
observe_begin ==
    /\ Waiting
    /\ IF Top.timeouts = Stalls THEN Fail("wait") /\ UNCHANGED slot
       ELSE slot' = [NoSlot EXCEPT !.request = TRUE, !.source = "installing"] /\ UNCHANGED <<frames, failed>>
    /\ UNCHANGED <<kernel, renewals>>

observe_registered ==
    /\ slot.source = "installing"
    /\ slot' = [slot EXCEPT !.source = "active"]
    /\ UNCHANGED <<kernel, frames, failed, renewals>>

\* The source reports the level, or the deadline passes and the level is probed once.
observe_event ==
    /\ slot.request /\ slot.result = "none"
    /\ \/ slot.source = "active" /\ Level /\ slot' = [slot EXCEPT !.result = "ready"]
       \/ slot' = [slot EXCEPT !.result = IF Level THEN "ready" ELSE "timeout"]
    /\ UNCHANGED <<kernel, frames, failed, renewals>>

\* A result waits for the registration, asks for the removal, and is given out on its receipt.
observe_remove ==
    /\ slot.result # "none" /\ slot.source = "active"
    /\ slot' = [slot EXCEPT !.source = "removing"]
    /\ UNCHANGED <<kernel, frames, failed, renewals>>

observe_unregistered ==
    /\ slot.source = "removing"
    /\ slot' = [slot EXCEPT !.source = "none"]
    /\ UNCHANGED <<kernel, frames, failed, renewals>>

Given == slot.request /\ slot.result # "none" /\ slot.source = "none"

\* accept: ready moves the machine on, a timeout is counted.
observe_accept ==
    /\ Given
    /\ slot' = [slot EXCEPT !.request = FALSE, !.result = "none"]
    /\ TopTo(IF slot.result = "timeout" THEN [Top EXCEPT !.timeouts = @ + 1]
             ELSE IF Top.phase = "WaitClosed" THEN [Top EXCEPT !.timeouts = 0, !.phase = "VerifyDead"]
             ELSE [Top EXCEPT !.timeouts = 0, !.member.phase = "Draining"])
    /\ UNCHANGED <<kernel, failed, renewals>>

\* A failure keeps the machine; the manager may give it new budgets.
replenish ==
    /\ failed \in {"enumerate", "drain", "wait"} /\ renewals # 0
    /\ renewals' = renewals - 1 /\ failed' = "no"
    /\ TopTo([Top EXCEPT !.timeouts = 0, !.page.stalls = 0, !.member.drains = 0])
    /\ UNCHANGED <<kernel, slot>>

KillNext ==
    \/ step_seal \/ step_sealed \/ step_enumerate \/ step_derive_member \/ step_kill_member \/ step_derive_child \/ step_pop
    \/ step_close_child \/ step_verify_dead \/ step_drain \/ step_verify \/ step_close
    \/ observe_begin \/ observe_registered \/ observe_event \/ observe_remove \/ observe_unregistered \/ observe_accept
    \/ replenish

Next == (KernelNext /\ UNCHANGED kill) \/ KillNext

Spec == Init /\ [][Next]_vars

-----------------------------------------------------------------------------

Under(j) == {k \in Job : job[k].made /\ j \in Chain(k)}

\* A Job is only dead when all below it are, and CLOSED is only published for a dead Job; a dead Job
\* that nobody is carrying up the tree any more has been published and has left its parent.
DeathIsBelow ==
    \A j \in Job :
        /\ job[j].dead => /\ job[j].sealed /\ job[j].members \cup job[j].reserved \cup job[j].children \cup job[j].expected = {}
                          /\ \A k \in Under(j) : job[k].dead
                          /\ \A p \in Proc : proc[p].job \in Under(j) /\ proc[p].st # "none" => proc[p].st = "dead"
        /\ job[j].closed => job[j].dead
        /\ job[j].dead /\ sealer = NoCursor /\ (\A p \in Proc : proc[p].cursor = NoCursor)
               => job[j].closed /\ (job[j].parent # 0 => j \notin job[job[j].parent].children)

\* Under a seal nothing begins: no new entry, no start, in the Job or below.
SealStep ==
    \A j \in Job : (\E k \in Chain(j) : job[k].sealed) =>
        /\ job'[j].reserved \subseteq job[j].reserved /\ job'[j].expected \subseteq job[j].expected
        /\ \A p \in Proc : proc[p].job = j /\ proc'[p].st = "running" => proc[p].st = "running"
SealHolds == [][SealStep]_vars

\* When a frame has seen its last page, nothing in its Job is alive or under way: what was being
\* created while it was sealed was waited for, and is dead or was never made.  The two verifications
\* of the machine do not fail, and it is done only with a Job that is dead and CLOSED.
KillIsComplete ==
    /\ \A i \in DOMAIN frames : frames[i].phase \in {"WaitClosed", "VerifyDead", "Done"} =>
          LET t == job[frames[i].job] IN
          t.reserved \cup t.expected = {} /\ (\A p \in t.members : proc[p].st = "dead") /\ (\A c \in t.children : job[c].dead)
    /\ failed \notin {"inconsistent", "snapshot"}
    /\ frames[1].phase = "Done" => job[Target].dead /\ job[Target].closed

\* A control is only given back when no source of the WaitSet still names it.
SourceGoneFirst ==
    Top.phase \in {"Done", "CloseChild"} \/ Top.member.phase \in {"Draining", "Verifying", "Closing"}
        => slot.source = "none"

=============================================================================
