------------------------------ MODULE HartLoop ------------------------------
(***************************************************************************)
(* The scheduling loop of every hart, its idle path and its traps: ready   *)
(* queues, doorbells, per-hart debts, per-hart timers and the runtime stop *)
(* (sched.rs, trap.rs, runtime_stop.rs, registry::try_ipi_slots).          *)
(*                                                                         *)
(* A process has one thread here.  A debt is the thread whose wait it      *)
(* completes, or WORK, a parked debt of one hart that any hart may wake; a *)
(* drain takes one debt, the least that SafePoint guarantees.  Address     *)
(* space epochs are the subject of Shootdown, wait arbitration of WaitCore.*)
(***************************************************************************)
EXTENDS Naturals, SequencesExt

CONSTANTS
    Hart, Thread, Domain,
    DomainOf,    \* the scheduling domain of every hart and thread
    NoThread,    \* the empty execution point of a hart
    WORK,        \* a debt that is not a finished wait
    WorkHart,    \* the hart that owns it
    MaxTime,     \* bound: the clock stops here
    Until,       \* bound: the deadlines of waits, one past the clock's end for none
    CanStop,     \* whether a runtime stop may be requested
    CanMiss      \* whether the firmware may fail to send a doorbell

ASSUME DomainAssumption == DomainOf \in [Hart \cup Thread -> Domain]
ASSUME WorkAssumption == WorkHart \in Hart /\ WORK \notin Thread /\ NoThread \notin Thread
ASSUME TimeAssumption == MaxTime \in Nat /\ MaxTime + 1 \in Until /\ Until \subseteq 0..MaxTime + 1
ASSUME FaultAssumption == CanStop \in BOOLEAN /\ CanMiss \in BOOLEAN

Never == MaxTime + 1
NoHome == CHOOSE h \in Hart : TRUE


VARIABLES
    pc,         \* where every hart is
    cur,        \* the thread a hart has picked
    ready,      \* the ready queue of every domain
    idle_mask,  \* the harts registered as idle in every domain
    st,         \* where every thread is
    debts,      \* the runnable debts of every hart, oldest first
    bell,       \* doorbells a hart has yet to send: harts, and domains whose idle harts it wakes
    ssip,       \* harts with a pending doorbell
    missed,     \* registered idle harts a doorbell was sent to in vain
    now,
    timer,      \* when the timer of every hart fires
    deadline,   \* the deadline of a waiting thread
    home,       \* the hart whose timer queue holds it
    terminating,
    REQUESTED, STOPPED

vars == <<pc, cur, ready, idle_mask, st, debts, bell, ssip, missed, now, timer, deadline,
          home, terminating, REQUESTED, STOPPED>>
sched == <<ready, idle_mask, st, debts>>
time == <<timer, deadline, home>>
stop == <<REQUESTED, STOPPED>>

Init ==
    /\ pc = [h \in Hart |-> "loop"]
    /\ cur = [h \in Hart |-> NoThread]
    /\ \E order \in SetToSeqs(Thread) :
          ready = [d \in Domain |-> SelectSeq(order, LAMBDA t : DomainOf[t] = d)]
    /\ idle_mask = [d \in Domain |-> {}]
    /\ st = [t \in Thread |-> "ready"]
    /\ debts = [h \in Hart |-> <<>>]
    /\ bell = [h \in Hart |-> {}]
    /\ ssip = {} /\ missed = {}
    /\ now = 0
    /\ timer = [h \in Hart |-> Never]
    /\ deadline = [t \in Thread |-> Never]
    /\ home = [t \in Thread |-> NoHome]
    /\ terminating = {}
    /\ REQUESTED = FALSE /\ STOPPED = FALSE

-----------------------------------------------------------------------------
(* Steps of a hart.                                                        *)

go(h, l) == pc' = [pc EXCEPT ![h] = l]

\* A hart is at l and has no doorbell left to send.
At(h, l) == pc[h] = l /\ bell[h] = {}

\* Mutant: the doorbell for a ready thread reaches the idle harts of the sender's domain.
Targets_Own(h) == bell[h] \cup (IF bell[h] \cap Domain # {} THEN idle_mask[DomainOf[h]] ELSE {})

\* The harts a doorbell reaches, by the idle mask at the time it is sent.
Targets(h) == bell[h] \cup UNION {idle_mask[d] : d \in bell[h] \cap Domain}

\* The doorbells of the targets, some of which the firmware may fail to send: that undoes nothing
\* and is not tried again.  Those of served are taken.  Bound: one idle hart at a time is missed.
Ring(targets, served) ==
    \E failed \in SUBSET targets :
        /\ failed # {} => CanMiss /\ missed = {}
        /\ ssip' = (ssip \cup (targets \ failed)) \ served
        /\ missed' = missed \cup {h \in failed : h \in idle_mask[DomainOf[h]]}

try_ipi_slots(h) ==
    /\ bell[h] # {}
    /\ Ring(Targets(h) \cap Hart, {})
    /\ bell' = [bell EXCEPT ![h] = {}]
    /\ UNCHANGED <<pc, cur, sched, now, time, terminating, stop>>

\* Complete the oldest debt of h, its deadline unregistered with it; what is left
\* may or may not be announced.
drain_current(h) ==
    IF debts[h] = <<>>
    THEN UNCHANGED <<ready, st, debts, bell, ssip, deadline, home>>
    ELSE LET t == Head(debts[h]) IN
         /\ debts' = [debts EXCEPT ![h] = Tail(@)]
         /\ ssip' \in {ssip, IF Len(debts[h]) > 1 THEN ssip \cup {h} ELSE ssip}
         /\ IF t = WORK
            THEN UNCHANGED <<deadline, home>>
            ELSE /\ deadline' = [deadline EXCEPT ![t] = Never]
                 /\ home' = [home EXCEPT ![t] = NoHome]
         /\ \/ t = WORK /\ UNCHANGED <<ready, st, bell>>
            \/ /\ t \in terminating
               /\ st' = [st EXCEPT ![t] = "gone"]
               /\ UNCHANGED <<ready, bell>>
            \/ /\ t \in Thread \ terminating
               /\ st' = [st EXCEPT ![t] = "ready"]
               /\ ready' = [ready EXCEPT ![DomainOf[t]] = Append(@, t)]
               /\ bell' = [bell EXCEPT ![h] = {DomainOf[t]}]

\* runtime_stop::check parks the hart; the first one to see the request tells all.
check(h) ==
    /\ REQUESTED \/ STOPPED
    /\ STOPPED' = TRUE
    /\ Ring(IF STOPPED THEN {} ELSE Hart, {h})
    /\ go(h, "stopped")

Running == ~REQUESTED /\ ~STOPPED

\* Every point where the loop, the idle path or a trap checks for the stop.
Stop(h) ==
    /\ \E l \in {"loop", "gate", "idle", "woken", "ecall", "timer", "soft", "Resume", "Requeue", "Killed", "Park"} : At(h, l)
    /\ check(h)
    /\ UNCHANGED <<cur, sched, bell, now, time, terminating, REQUESTED>>

\* The top of the loop: both drains.
Loop(h) ==
    /\ At(h, "loop") /\ Running
    /\ drain_current(h)
    /\ go(h, "pick")
    /\ UNCHANGED <<cur, idle_mask, now, timer, terminating, stop, missed>>

pick(h) ==
    /\ At(h, "pick")
    /\ LET d == DomainOf[h] IN
       IF ready[d] = <<>>
       THEN go(h, "idle") /\ UNCHANGED <<cur, ready, st>>
       ELSE /\ cur' = [cur EXCEPT ![h] = Head(ready[d])]
            /\ ready' = [ready EXCEPT ![d] = Tail(@)]
            /\ st' = [st EXCEPT ![Head(ready[d])] = "picked"]
            /\ go(h, "gate")
    /\ UNCHANGED <<idle_mask, debts, bell, ssip, now, time, terminating, stop, missed>>

\* The deadlines in the timer queue of h, and the earliest of them.
Deadlines(h) == {deadline[t] : t \in {x \in Thread : st[x] = "waiting" /\ home[x] = h}}
peek_expires_at(h) == Min(Deadlines(h) \cup {Never})

arm_quantum(h) == timer' = [timer EXCEPT ![h] = Min({now + 1, MaxTime, peek_expires_at(h)})]

reap(t) == st' = [st EXCEPT ![t] = "gone"]

\* The lifecycle gate: a terminating thread is reaped instead of entering.
enter_running_if(h) ==
    /\ At(h, "gate") /\ Running
    /\ IF cur[h] \in terminating
       THEN /\ reap(cur[h]) /\ go(h, "loop")
            /\ cur' = [cur EXCEPT ![h] = NoThread]
            /\ UNCHANGED timer
       ELSE /\ st' = [st EXCEPT ![cur[h]] = "running"] /\ go(h, "user")
            /\ arm_quantum(h)
            /\ UNCHANGED cur
    /\ UNCHANGED <<ready, idle_mask, debts, bell, ssip, now, deadline, home, terminating, stop, missed>>

-----------------------------------------------------------------------------
(* Idle.                                                                   *)

RegisterIdle(h) ==
    /\ At(h, "idle") /\ Running
    /\ idle_mask' = [idle_mask EXCEPT ![DomainOf[h]] = @ \cup {h}]
    /\ go(h, "idle ready")
    /\ UNCHANGED <<cur, ready, st, debts, bell, ssip, now, time, terminating, stop, missed>>

LeaveIdle(h, l) ==
    /\ idle_mask' = [idle_mask EXCEPT ![DomainOf[h]] = @ \ {h}]
    /\ missed' = missed \ {h}
    /\ go(h, l)

\* The double check: the queue first, then the debts.
CheckReady(h) ==
    /\ At(h, "idle ready")
    /\ IF ready[DomainOf[h]] # <<>>
       THEN LeaveIdle(h, "loop")
       ELSE go(h, "idle debts") /\ UNCHANGED <<idle_mask, missed>>
    /\ UNCHANGED <<cur, ready, st, debts, bell, ssip, now, time, terminating, stop>>

\* Mutant: debts are not part of the double check.
CheckDebts_Skipped(h) ==
    /\ At(h, "idle debts")
    /\ go(h, "arm")
    /\ UNCHANGED <<cur, sched, bell, ssip, now, time, terminating, stop, missed>>

CheckDebts(h) ==
    /\ At(h, "idle debts")
    /\ IF debts[h] # <<>>
       THEN LeaveIdle(h, "loop")
       ELSE go(h, "arm") /\ UNCHANGED <<idle_mask, missed>>
    /\ UNCHANGED <<cur, ready, st, debts, bell, ssip, now, time, terminating, stop>>

Arm(h) ==
    /\ At(h, "arm")
    /\ timer' = [timer EXCEPT ![h] = peek_expires_at(h)]
    /\ go(h, "wfi")
    /\ UNCHANGED <<cur, sched, bell, ssip, now, deadline, home, terminating, stop, missed>>

stip(h) == timer[h] <= now

Wake(h) ==
    /\ At(h, "wfi") /\ (h \in ssip \/ stip(h))
    /\ go(h, "woken")
    /\ UNCHANGED <<cur, sched, bell, ssip, now, time, terminating, stop, missed>>

clear_ssip(h) ==
    /\ At(h, "woken") /\ Running
    /\ ssip' = ssip \ {h}
    /\ go(h, "busy")
    /\ UNCHANGED <<cur, sched, bell, now, time, terminating, stop, missed>>

\* Expired waits become finish debts of this hart; the timer is off afterwards.
wake_expired(h) ==
    \E due \in SetToSeqs({t \in Thread : st[t] = "waiting" /\ home[t] = h /\ deadline[t] <= now}) :
        /\ st' = [t \in Thread |-> IF t \in ToSet(due) THEN "offered" ELSE st[t]]
        /\ debts' = [debts EXCEPT ![h] = @ \o due]
        /\ timer' = [timer EXCEPT ![h] = Never]

Busy(h) ==
    /\ At(h, "busy")
    /\ LeaveIdle(h, "loop")
    /\ IF stip(h) THEN wake_expired(h) ELSE UNCHANGED <<st, debts, timer>>
    /\ UNCHANGED <<cur, ready, bell, ssip, now, deadline, home, terminating, stop>>

-----------------------------------------------------------------------------
(* Traps from user code.                                                   *)

Interrupted(h) == h \in ssip \/ stip(h)

\* A trap begins with the deferred drain; a pending interrupt comes before the
\* next user instruction.
Trap(h, cause) ==
    /\ At(h, "user")
    /\ cause = "ecall" => ~Interrupted(h)
    /\ cause = "timer" => stip(h)
    /\ cause = "soft" => h \in ssip
    /\ IF debts[h] # <<>> /\ Head(debts[h]) = WORK
       THEN drain_current(h)
       ELSE UNCHANGED <<ready, st, debts, bell, ssip, deadline, home>>
    /\ go(h, cause)
    /\ UNCHANGED <<cur, idle_mask, now, timer, terminating, stop, missed>>

\* A trap of a thread whose process is terminating never returns to user code.
Absorbed(h) ==
    /\ \E l \in {"ecall", "timer", "soft"} : At(h, l)
    /\ Running /\ cur[h] \in terminating
    /\ go(h, "killed")
    /\ UNCHANGED <<cur, sched, bell, ssip, now, time, terminating, stop, missed>>

Handles(h, l) == At(h, l) /\ Running /\ cur[h] \notin terminating

on_timer(h) ==
    /\ Handles(h, "timer")
    /\ wake_expired(h)
    /\ go(h, "Requeue")
    /\ UNCHANGED <<cur, ready, idle_mask, bell, ssip, now, deadline, home, terminating, stop, missed>>

\* A doorbell: switch only if the domain has a ready thread.
Soft(h) ==
    /\ Handles(h, "soft")
    /\ ssip' = ssip \ {h}
    /\ go(h, IF ready[DomainOf[h]] # <<>> THEN "Requeue" ELSE "Resume")
    /\ UNCHANGED <<cur, sched, bell, now, time, terminating, stop, missed>>

\* System calls: one that completes or yields,
Complete(h) ==
    /\ Handles(h, "ecall")
    /\ \E outcome \in {"Resume", "Requeue"} : go(h, outcome)
    /\ UNCHANGED <<cur, sched, bell, ssip, now, time, terminating, stop, missed>>

\* Mutant: the wait is published while the thread is still on its hart.
park_request_wait_Early(h) ==
    /\ Handles(h, "ecall")
    /\ \E d \in Until : d >= now /\ deadline' = [deadline EXCEPT ![cur[h]] = d]
    /\ st' = [st EXCEPT ![cur[h]] = "waiting"]
    /\ home' = [home EXCEPT ![cur[h]] = h]
    /\ go(h, "Park")
    /\ UNCHANGED <<cur, ready, idle_mask, debts, bell, ssip, now, timer, terminating, stop, missed>>

\* one that waits: the plan stays with the hart until the thread has left it,
park_request_wait(h) ==
    /\ Handles(h, "ecall")
    /\ \E d \in Until : d >= now /\ deadline' = [deadline EXCEPT ![cur[h]] = d]
    /\ go(h, "Park")
    /\ UNCHANGED <<cur, sched, bell, ssip, now, timer, home, terminating, stop, missed>>

\* one that completes the wait of another thread,
Signal(h, t) ==
    /\ Handles(h, "ecall") /\ st[t] = "waiting"
    /\ st' = [st EXCEPT ![t] = "offered"]
    /\ debts' = [debts EXCEPT ![h] = Append(@, t)]
    /\ go(h, "Resume")
    /\ UNCHANGED <<cur, ready, idle_mask, bell, ssip, now, time, terminating, stop, missed>>

\* one that wakes a parked debt, on whichever hart owns it,
wake_raw(h) ==
    /\ Handles(h, "ecall") /\ WORK \notin ToSet(debts[WorkHart])
    /\ debts' = [debts EXCEPT ![WorkHart] = Append(@, WORK)]
    /\ bell' = [bell EXCEPT ![h] = {WorkHart}]
    /\ go(h, "Resume")
    /\ UNCHANGED <<cur, ready, idle_mask, st, ssip, now, time, terminating, stop, missed>>

\* and one that terminates a process: running members get a doorbell, a waiting
\* one is offered its end.
request_termination(h, t) ==
    /\ Handles(h, "ecall") /\ t \notin terminating /\ st[t] # "gone"
    /\ terminating' = terminating \cup {t}
    /\ bell' = [bell EXCEPT ![h] = {g \in Hart \ {h} : cur[g] = t /\ st[t] = "running"}]
    /\ IF st[t] = "waiting"
       THEN st' = [st EXCEPT ![t] = "offered"] /\ debts' = [debts EXCEPT ![h] = Append(@, t)]
       ELSE UNCHANGED <<st, debts>>
    /\ go(h, IF t = cur[h] THEN "Killed" ELSE "Resume")
    /\ UNCHANGED <<cur, ready, idle_mask, ssip, now, time, stop, missed>>

\* The end of a trap: both drains, and once more the termination check.
Leave(h, outcome) ==
    /\ At(h, outcome) /\ Running
    /\ drain_current(h)
    /\ go(h, CASE cur[h] \in terminating -> "killed"
               [] cur[h] \notin terminating /\ outcome = "Resume" -> "user"
               [] cur[h] \notin terminating /\ outcome = "Requeue" -> "requeue"
               [] OTHER -> "park")
    /\ UNCHANGED <<cur, idle_mask, now, timer, terminating, stop, missed>>

-----------------------------------------------------------------------------
(* Back in the loop: the thread leaves its hart, after one more drain.     *)

Switch(h, from, to) ==
    /\ At(h, from)
    /\ drain_current(h)
    /\ go(h, to)
    /\ UNCHANGED <<cur, idle_mask, now, timer, terminating, stop, missed>>

\* Rotation rings no doorbell: this hart picks next.
Requeue(h) ==
    /\ At(h, "enqueue")
    /\ IF cur[h] \in terminating
       THEN reap(cur[h]) /\ UNCHANGED ready
       ELSE /\ st' = [st EXCEPT ![cur[h]] = "ready"]
            /\ ready' = [ready EXCEPT ![DomainOf[cur[h]]] = Append(@, cur[h])]
    /\ cur' = [cur EXCEPT ![h] = NoThread]
    /\ go(h, "loop")
    /\ UNCHANGED <<idle_mask, debts, bell, ssip, now, time, terminating, stop, missed>>

Reap(h) ==
    /\ At(h, "reap")
    /\ reap(cur[h])
    /\ cur' = [cur EXCEPT ![h] = NoThread]
    /\ go(h, "loop")
    /\ UNCHANGED <<ready, idle_mask, debts, bell, ssip, now, time, terminating, stop, missed>>

\* The wait is published and its deadline armed, or the thread ends here.
install(h) ==
    /\ At(h, "install")
    /\ IF cur[h] \in terminating
       THEN reap(cur[h]) /\ UNCHANGED <<timer, home>>
       ELSE /\ st' = [st EXCEPT ![cur[h]] = "waiting"]
            /\ home' = [home EXCEPT ![cur[h]] = h]
            /\ LET earliest == Min({deadline[cur[h]], peek_expires_at(h)}) IN
               timer' = IF earliest = Never THEN timer ELSE [timer EXCEPT ![h] = earliest]
    /\ cur' = [cur EXCEPT ![h] = NoThread]
    /\ go(h, "loop")
    /\ UNCHANGED <<ready, idle_mask, debts, bell, ssip, now, deadline, terminating, stop, missed>>

\* The clock can no longer be read: the hart asks everyone to stop.
request(h) ==
    /\ CanStop /\ At(h, "gate") /\ ~REQUESTED
    /\ REQUESTED' = TRUE
    /\ bell' = [bell EXCEPT ![h] = Hart]
    /\ UNCHANGED <<pc, cur, sched, ssip, now, time, terminating, STOPPED, missed>>

\* A clock read of a handler fails: a flag every check looks at, and no doorbell.
clock_failed(h) ==
    /\ CanStop /\ Handles(h, "ecall")
    /\ REQUESTED' = TRUE
    /\ go(h, "Resume")
    /\ UNCHANGED <<cur, sched, bell, ssip, now, time, terminating, STOPPED, missed>>

Tick ==
    /\ now < MaxTime
    /\ now' = now + 1
    /\ UNCHANGED <<pc, cur, sched, bell, ssip, time, terminating, stop, missed>>

\* The steps a hart takes by itself, and those user code chooses to take.
Kernel(h) ==
    \/ try_ipi_slots(h) \/ Stop(h) \/ Loop(h) \/ pick(h) \/ enter_running_if(h)
    \/ RegisterIdle(h) \/ CheckReady(h) \/ CheckDebts(h) \/ Arm(h) \/ Wake(h)
    \/ clear_ssip(h) \/ Busy(h)
    \/ Trap(h, "timer") \/ Trap(h, "soft")
    \/ Absorbed(h) \/ on_timer(h) \/ Soft(h)
    \/ \E outcome \in {"Resume", "Requeue", "Park", "Killed"} : Leave(h, outcome)
    \/ Switch(h, "requeue", "enqueue") \/ Switch(h, "killed", "reap") \/ Switch(h, "park", "install")
    \/ Requeue(h) \/ Reap(h) \/ install(h)

Syscall(h) ==
    \/ Complete(h) \/ park_request_wait(h) \/ wake_raw(h) \/ clock_failed(h)
    \/ \E t \in Thread : Signal(h, t) \/ request_termination(h, t)

Next ==
    \/ \E h \in Hart : Kernel(h) \/ Trap(h, "ecall") \/ Syscall(h) \/ request(h)
    \/ Tick

\* Harts run, the clock advances, and a handler that has begun ends.
Fairness == WF_vars(Tick) /\ \A h \in Hart : WF_vars(Kernel(h) \/ Syscall(h))

Spec == Init /\ [][Next]_vars
FairSpec == Spec /\ Fairness

-----------------------------------------------------------------------------
(* Properties.                                                             *)

\* The variables have their types.
TypeOK ==
    /\ cur \in [Hart -> Thread \cup {NoThread}]
    /\ \A d \in Domain : ready[d] \in Seq(Thread) /\ idle_mask[d] \subseteq Hart
    /\ st \in [Thread -> {"ready", "picked", "running", "waiting", "offered", "gone"}]
    /\ \A h \in Hart : debts[h] \in Seq(Thread \cup {WORK}) /\ bell[h] \subseteq Hart \cup Domain
    /\ ssip \cup missed \subseteq Hart /\ now \in 0..MaxTime /\ terminating \subseteq Thread
    /\ timer \in [Hart -> 0..Never] /\ deadline \in [Thread -> 0..Never] /\ home \in [Thread -> Hart]
    /\ STOPPED => REQUESTED

\* How often t is held: on a hart, in a ready queue or in a debt.
Holders(t) ==
    Cardinality({h \in Hart : cur[h] = t})
    + Cardinality({<<d, i>> \in Domain \X (1..Cardinality(Thread)) : i <= Len(ready[d]) /\ ready[d][i] = t})
    + Cardinality({<<h, i>> \in Hart \X (1..Cardinality(Thread) + 1) : i <= Len(debts[h]) /\ debts[h][i] = t})

\* A thread that is alive and not waiting is held exactly once, a waiting one not at
\* all: whoever completes a wait never meets a thread still on its hart, and no
\* two harts run the same thread.
HeldOnce ==
    \A t \in Thread : Holders(t) = IF st[t] \in {"waiting", "gone"} THEN 0 ELSE 1

Asleep(h) == pc[h] = "wfi" /\ h \notin ssip /\ ~stip(h) /\ \A g \in Hart : h \notin Targets(g)

\* A hart asleep with no doorbell on its way, and none missed, has no debt, its timer fires no
\* later than the earliest deadline it keeps, and no hart has parked for a stop.
NoSleepOnDebts ==
    \A h \in Hart : Asleep(h) =>
        /\ timer[h] <= peek_expires_at(h)
        /\ h \notin missed => debts[h] = <<>> /\ ~STOPPED

\* The harts of a domain are not all asleep while a thread is ready in it, unless one of them
\* has missed a doorbell.
NoSleepOnReady ==
    \A d \in Domain : ready[d] # <<>> => \E h \in Hart : DomainOf[h] = d /\ (~Asleep(h) \/ h \in missed)

Due(t) == st[t] \in {"ready", "offered"} \/ (st[t] = "waiting" /\ deadline[t] # Never)
Runs(t) == st[t] \in {"running", "gone"} \/ REQUESTED

\* A thread that is ready, whose wait has ended or whose wait has a deadline runs, or ends.
DueRuns == \A t \in Thread : Due(t) ~> Runs(t)

AllLeft == (\A t \in terminating : st[t] = "gone") \/ REQUESTED

\* A process that is told to terminate leaves, wherever its thread was.
TerminatedLeaves == terminating # {} ~> AllLeft

AllParked == \A h \in Hart : pc[h] = "stopped"

\* A requested stop parks every hart, the sleeping ones included.
StopParksAll == REQUESTED ~> AllParked

\* No hart sleeps on work: neither on its own debts and deadlines, nor, with all the harts
\* of its domain, on a ready thread.  A doorbell the firmware did not send delays the work of
\* the hart it was for only until anything else wakes that hart.
NoSleepOnWork == NoSleepOnDebts /\ NoSleepOnReady

\* No thread is forgotten: it runs when it is ready, wakes at its deadline and leaves when
\* its process terminates, unless the machine is stopped.
ThreadsProgress == DueRuns /\ TerminatedLeaves

=============================================================================
