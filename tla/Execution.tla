----------------------------- MODULE Execution -----------------------------
(***************************************************************************)
(* The single-actor runtime of the user services (libexecution): tasks, a  *)
(* ready FIFO, sources registered with a wait set, deadlines, and the gate *)
(* that applies the requests of a task after its advance.                  *)
(*                                                                         *)
(* The runtime is one record, rt, and every unit of work of a turn one     *)
(* action; what a unit does is a function of rt.  A task is what it asks   *)
(* for: a member of Behaviour, chosen anew at every advance.  The wait set *)
(* and the clock are the environment (WaitSets models the wait set).       *)
(* Time zero stands for no deadline.                                       *)
(***************************************************************************)
EXTENDS Naturals, Sequences, FiniteSets, SequencesExt, FiniteSetsExt

CONSTANTS
    TaskId,         \* identities of tasks, in the order they are allocated: 1 .. n
    Token,          \* tokens of registrations, likewise
    MaxSources,     \* of a task
    Behaviour,      \* what an advance can do: ops, step, eat, deadline
    MaxAdvances, MaxSignals, MaxFailures, MaxTime

VARIABLES rt, set, clock, spent

vars == <<rt, set, clock, spent>>

NoTask == [life |-> "none", sources |-> {}, retiring |-> 0, inputs |-> <<>>, timedOut |-> FALSE,
           deadline |-> 0, due |-> FALSE, suspended |-> FALSE, retry |-> 0, stopping |-> FALSE]
NewTask == [NoTask EXCEPT !.life = "Active"]
NoSource == [task |-> 0, armed |-> FALSE, removing |-> FALSE, pending |-> FALSE, at |-> 0]
NoGate == [task |-> 0, ops |-> <<>>, step |-> "Parked", pending |-> FALSE, refused |-> FALSE, rejected |-> FALSE, at |-> 0]

\* The first task has been spawned.
Init ==
    /\ rt = [task |-> [i \in TaskId |-> IF i = 1 THEN NewTask ELSE NoTask], next |-> 2,
             ready |-> <<1>>, source |-> [k \in Token |-> NoSource],
             gate |-> NoGate, phase |-> 0, mphase |-> 0, rphase |-> FALSE,
             cursor |-> 0, scan |-> 0, stop |-> 0,
             unmarked |-> 0, retireReady |-> 0, now |-> 0, notified |-> FALSE, sealed |-> FALSE, failed |-> 0]
    /\ set = [token |-> 1, armed |-> {}, ready |-> {}]
    /\ clock = 0 /\ spent = [advances |-> 0, signals |-> 0, failures |-> 0]

Live(r) == {i \in TaskId : r.task[i].life # "none"}
Owned(r) == {k \in Token : r.source[k].task # 0}

\* The next instant; at the bound of the clock a delay is over at once.
Later(t) == IF t < MaxTime THEN t + 1 ELSE t

\* The successor of a cursor in a table, from the start when there is none.
After(S, c) == IF \E x \in S : x > c THEN Min({x \in S : x > c}) ELSE Min(S)

-----------------------------------------------------------------------------
(* The ready FIFO and the deadlines (work_queue.rs).                       *)

schedule(r, id) ==
    IF r.task[id].life # "Active" \/ r.task[id].suspended \/ Contains(r.ready, id) THEN r
    ELSE [r EXCEPT !.ready = Append(@, id)]

unschedule(r, id) == [r EXCEPT !.ready = SelectSeq(@, LAMBDA x : x # id)]

\* The task is told of its own deadline before it runs, whatever the timer queue got to.
mature_deadline(r, id) ==
    IF r.task[id].due /\ r.task[id].deadline <= r.now
    THEN [r EXCEPT !.task[id].due = FALSE, !.task[id].timedOut = TRUE] ELSE r

\* A deadline that was delivered is not armed again.
update_deadline(r, id, at) ==
    IF r.task[id].deadline = at THEN r
    ELSE [r EXCEPT !.task[id].deadline = at, !.task[id].due = at # 0]

insert(r) == schedule([r EXCEPT !.task[r.next] = NewTask, !.next = @ + 1], r.next)
Insertable(r) == ~r.sealed /\ r.next \in TaskId

\* defer_failed_task
defer(r, id, at) ==
    [unschedule(r, id) EXCEPT !.task[id].suspended = TRUE, !.task[id].retry = at]

begin_finalizing(r, id) ==
    [unschedule(r, id) EXCEPT
        !.task[id].life = "Finalizing", !.task[id].due = FALSE,
        !.unmarked = @ + Cardinality(r.task[id].sources),
        !.retireReady = @ + (IF r.task[id].sources = {} /\ r.task[id].retiring = 0 THEN 1 ELSE 0)]

finish_advance(r, id, at, step, pending) ==
    IF step = "Complete" THEN begin_finalizing(r, id)
    ELSE LET u == update_deadline(r, id, at)
         IN  IF step = "Runnable" \/ pending THEN schedule(u, id) ELSE u

\* stop: an Active task is told once, and scheduled, deferred or not.
stop(r, id) ==
    IF r.task[id].life # "Active" THEN r
    ELSE schedule([r EXCEPT !.task[id].suspended = FALSE, !.task[id].retry = 0, !.task[id].stopping = TRUE], id)

-----------------------------------------------------------------------------
(* Sources (runtime.rs).                                                   *)

\* An event reaches its preallocated slot and the input list of its task.
enqueue_input(r, k, front) ==
    LET id == r.source[k].task
    IN  [r EXCEPT !.source[k].pending = TRUE, !.source[k].armed = FALSE,
                  !.task[id].inputs = IF front THEN <<k>> \o @ ELSE Append(@, k)]

\* A record of a source that is gone or being removed is dropped.
route(r, k) ==
    IF r.source[k].task = 0 \/ r.source[k].removing \/ r.source[k].pending THEN r
    ELSE schedule(enqueue_input(r, k, FALSE), r.source[k].task)

\* Mutant: a source that the task itself removed is forgotten when the task ends.
detach_Uncounted(r, id, k) ==
    [r EXCEPT !.task[id].sources = @ \ {k},
              !.unmarked = IF r.task[id].life = "Finalizing" THEN @ - 1 ELSE @]

\* detach_source
detach(r, id, k) ==
    [r EXCEPT !.task[id].sources = @ \ {k}, !.task[id].retiring = @ + 1,
              !.unmarked = IF r.task[id].life = "Finalizing" THEN @ - 1 ELSE @]

begin_remove(r, k) ==
    IF r.source[k].removing THEN r
    ELSE LET id == r.source[k].task
         IN  [detach(r, id, k) EXCEPT
                 !.task[id].inputs = SelectSeq(@, LAMBDA x : x # k),
                 !.source[k] = [@ EXCEPT !.removing = TRUE, !.pending = FALSE, !.armed = FALSE, !.at = r.now]]

\* source_retired, the callback and the wake of the task.
source_retired(r, k) ==
    LET id == r.source[k].task
        left == r.task[id].retiring - 1
    IN  schedule([r EXCEPT !.source[k] = NoSource, !.task[id].retiring = left,
                           !.retireReady = @ + (IF r.task[id].life = "Finalizing" /\ r.task[id].sources = {} /\ left = 0
                                                THEN 1 ELSE 0)], id)

\* A deregistration that fails is tried again later.
drop_source(r, k, ok) ==
    IF r.source[k].task = 0 THEN r
    ELSE IF ok THEN source_retired(begin_remove(r, k), k)
    ELSE [begin_remove(r, k) EXCEPT !.source[k].at = Later(r.now)]

add_source(r, id, k) ==
    [r EXCEPT !.source[k] = [NoSource EXCEPT !.task = id, !.armed = TRUE], !.task[id].sources = @ \cup {k}]

-----------------------------------------------------------------------------
(* The driver: turn, drive_state, run.                                     *)

Due(r) == {i \in TaskId : r.task[i].due /\ r.task[i].deadline <= r.now}
Retry(r) == {i \in TaskId : r.task[i].retry # 0 /\ r.task[i].retry <= r.now}
Retiring(r) == {k \in Token : r.source[k].removing /\ r.source[k].at <= r.now}

maintenance_ready(r) == r.unmarked # 0 \/ r.retireReady # 0 \/ Retiring(r) # {}

\* drive_state
Drained(r) == Live(r) = {} /\ Owned(r) = {} /\ r.gate = NoGate
Runnable(r) == ~Drained(r) /\ (r.ready # <<>> \/ r.gate # NoGate \/ r.notified \/ maintenance_ready(r))
Waiting(r) == ~Drained(r) /\ ~Runnable(r)

\* next_deadline
Deadlines(r) ==
    {r.task[i].deadline : i \in {j \in TaskId : r.task[j].due}}
    \cup {r.task[i].retry : i \in {j \in TaskId : r.task[j].retry # 0}}
    \cup {r.source[k].at : k \in {x \in Token : r.source[x].removing}}

\* Every face of the rota spends at least one unit.
Face(r, n) == [r EXCEPT !.phase = (n + 1) % 3]

\* Between two units a failed task waits for the decision of the driver.
Turn(n) == Runnable(rt) /\ rt.phase = n /\ rt.failed = 0

\* Face 0: one timer.
expire ==
    /\ Turn(0)
    /\ LET r == [Face(rt, 0) EXCEPT !.now = clock] IN
       \/ Due(r) \cup Retry(r) = {} /\ rt' = r
       \/ \E i \in Due(r) : rt' = schedule(mature_deadline(r, i), i)
       \/ \E i \in Retry(r) : rt' = schedule([r EXCEPT !.task[i].retry = 0, !.task[i].suspended = FALSE], i)
    /\ UNCHANGED <<set, clock, spent>>

\* Face 1: receive, retry a removal, retire a task, in turn.
Maintain(n) == Turn(1) /\ rt.mphase = n

Faced(r) == [Face(r, 1) EXCEPT !.mphase = (@ + 1) % 3]

receive ==
    /\ Maintain(0)
    /\ IF set.ready = {}
       THEN rt' = [Faced(rt) EXCEPT !.notified = FALSE] /\ UNCHANGED set
       ELSE \E k \in set.ready :
               /\ rt' = route([Faced(rt) EXCEPT !.notified = TRUE], k)
               /\ set' = [set EXCEPT !.ready = @ \ {k}]
    /\ UNCHANGED <<clock, spent>>

\* Whether the kernel deregisters is its choice, up to a bound of failures.
Fails(ok) ==
    /\ ok \/ spent.failures < MaxFailures
    /\ spent' = IF ok THEN spent ELSE [spent EXCEPT !.failures = @ + 1]

Forget(k, ok) == set' = IF ok THEN [set EXCEPT !.armed = @ \ {k}, !.ready = @ \ {k}] ELSE set

\* retry_removals: the discovery of sources of ended tasks and the removals alternate.
retry_removals ==
    /\ Maintain(1)
    /\ LET r == [Faced(rt) EXCEPT !.rphase = ~@] IN
       IF r.rphase /\ r.unmarked # 0
       THEN LET k == After(Owned(r), r.cursor)
                c == [r EXCEPT !.cursor = k]
            IN  /\ rt' = IF ~r.source[k].removing /\ r.task[r.source[k].task].life = "Finalizing"
                         THEN begin_remove(c, k) ELSE c
                /\ UNCHANGED <<set, spent>>
       ELSE \/ Retiring(r) = {} /\ rt' = r /\ UNCHANGED <<set, spent>>
            \/ \E k \in Retiring(r), ok \in BOOLEAN :
                  rt' = drop_source(r, k, ok) /\ Fails(ok) /\ Forget(k, ok)
    /\ UNCHANGED clock

retire_one ==
    /\ Maintain(2)
    /\ LET r == Faced(rt) IN
       IF r.retireReady = 0 THEN rt' = r
       ELSE LET id == After(Live(r), r.scan)
                c == [r EXCEPT !.scan = id]
            IN  rt' = IF r.task[id].life = "Finalizing" /\ r.task[id].sources = {} /\ r.task[id].retiring = 0
                      THEN [unschedule(c, id) EXCEPT !.task[id] = NoTask, !.retireReady = @ - 1]
                      ELSE c
    /\ UNCHANGED <<set, clock, spent>>

\* Face 2 without a gate and without a ready task.
idle ==
    /\ Turn(2) /\ rt.gate = NoGate /\ rt.ready = <<>>
    /\ rt' = [Face(rt, 2) EXCEPT !.now = clock]
    /\ UNCHANGED <<set, clock, spent>>

\* A task that is stopping completes; nothing else is known of it.
Advances(r, id) == {b \in Behaviour : r.task[id].stopping => b.step = "Complete"}

\* The requests of a behaviour, with the source they are about.
Operations(b, k) == [i \in DOMAIN b.ops |-> [kind |-> b.ops[i], source |-> k]]

\* The outcome of an advance: finished at once, or held in the gate while requests are open.
Outcome(r, id, b, k) ==
    LET pending == r.task[id].inputs # <<>> \/ r.task[id].timedOut
        at == IF b.deadline THEN Later(r.now) ELSE 0
        held == [r EXCEPT !.gate = [task |-> id, ops |-> Operations(b, k), step |-> b.step,
                                    pending |-> pending, refused |-> FALSE, rejected |-> FALSE, at |-> at]]
    IN  IF b.step = "Error"
        THEN LET u == [update_deadline(r, id, at) EXCEPT !.failed = id]
             IN  IF b.ops = <<>> THEN schedule(u, id)
                 ELSE [u EXCEPT !.gate = [held.gate EXCEPT !.step = "Runnable", !.rejected = TRUE]]
        ELSE IF b.ops = <<>> THEN finish_advance(r, id, at, b.step, pending)
        ELSE held

\* advance_one: one event is offered; what the task does not consume is put back in front.  When
\* the bound on advances is reached every task completes.
advance_one ==
    /\ Turn(2) /\ rt.gate = NoGate /\ rt.ready # <<>>
    /\ LET id == Head(rt.ready)
           r == mature_deadline([unschedule(Face(rt, 2), id) EXCEPT !.now = clock], id)
           event == IF r.task[id].inputs = <<>> THEN 0 ELSE Head(r.task[id].inputs)
       IN  \E b \in Advances(r, id), k \in Owned(r) \cup {0} :
              /\ spent.advances < MaxAdvances \/ (b.step = "Complete" /\ b.ops = <<>>)
              /\ rt' = Outcome(IF ~b.eat THEN r
                               ELSE IF event = 0 THEN [r EXCEPT !.task[id].timedOut = FALSE]
                               ELSE [r EXCEPT !.task[id].inputs = Tail(@), !.task[id].timedOut = FALSE,
                                              !.source[event].pending = FALSE], id, b, k)
    /\ spent' = [spent EXCEPT !.advances = IF @ < MaxAdvances THEN @ + 1 ELSE @]
    /\ UNCHANGED <<set, clock>>

-----------------------------------------------------------------------------
(* The gate applies one request per unit.                                  *)

\* What an operation makes of r, and whether it was refused.
Applied(r, refused) == [rt |-> r, refused |-> refused]

Foreign(r, id, k) == r.source[k].task \notin {0, id}

\* reject_operation, and the part of apply_operation that needs no answer of the kernel.
Refuse(r) == Applied(r, TRUE)

apply_spawn(r) == IF Insertable(r) THEN Applied(insert(r), FALSE) ELSE Refuse(r)

apply_wake(r, id) == IF r.task[id].life = "none" THEN Refuse(r) ELSE Applied(schedule(r, id), FALSE)

\* The end of a gate, or its next operation.
Gated(r, refused) ==
    LET g == [r.gate EXCEPT !.ops = Tail(@), !.refused = @ \/ refused]
        closed == [r EXCEPT !.gate = NoGate]
    IN  IF g.ops # <<>> THEN [r EXCEPT !.gate = g]
        ELSE finish_advance(closed, g.task, g.at, IF g.refused THEN "Runnable" ELSE g.step,
                            g.pending \/ r.task[g.task].timedOut)

GateTurn(op) == Turn(2) /\ op = Head(rt.gate.ops)

Gate == mature_deadline([Face(rt, 2) EXCEPT !.now = clock], rt.gate.task)

\* Spawn, wake, and every request of an advance that failed but the removals.
gate_local ==
    \E op \in ToSet(rt.gate.ops) :
        LET r == Gate IN
        /\ GateTurn(op)
        /\ op.kind \in {"spawn", "wake"} \/ (r.gate.rejected /\ op.kind # "remove")
        /\ \E target \in IF op.kind = "wake" THEN TaskId ELSE {0} :
              LET a == CASE r.gate.rejected -> Refuse(r)
                         [] ~r.gate.rejected /\ op.kind = "spawn" -> apply_spawn(r)
                         [] ~r.gate.rejected /\ op.kind = "wake" -> apply_wake(r, target)
              IN  rt' = Gated(a.rt, a.refused)
        /\ UNCHANGED <<set, clock, spent>>

\* add_source; the kernel may refuse.
gate_register ==
    \E op \in ToSet(rt.gate.ops) :
        LET r == Gate
            id == r.gate.task
            k == set.token
        IN  /\ GateTurn(op) /\ op.kind = "register" /\ ~r.gate.rejected
            /\ \/ /\ r.gate.step # "Complete" /\ Cardinality(r.task[id].sources) < MaxSources /\ k \in Token
                  /\ rt' = Gated(add_source(r, id, k), FALSE)
                  /\ set' = [set EXCEPT !.token = @ + 1, !.armed = @ \cup {k}]
               \/ rt' = Gated(r, TRUE) /\ UNCHANGED set
            /\ UNCHANGED <<clock, spent>>

\* rearm_source: a failure becomes an event of the source.
gate_rearm ==
    \E op \in ToSet(rt.gate.ops) :
        LET r == Gate
            id == r.gate.task
            k == op.source
        IN  /\ GateTurn(op) /\ op.kind = "rearm" /\ ~r.gate.rejected
            /\ IF k = 0 \/ r.gate.step = "Complete"
               THEN rt' = Gated(r, TRUE) /\ UNCHANGED <<set, spent>>
               ELSE IF Foreign(r, id, k) \/ r.source[k].task = 0
               THEN rt' = Gated(r, TRUE) /\ UNCHANGED <<set, spent>>
               ELSE IF r.source[k].armed \/ r.source[k].removing \/ r.source[k].pending
               THEN rt' = Gated(r, FALSE) /\ UNCHANGED <<set, spent>>
               ELSE \/ /\ rt' = Gated([r EXCEPT !.source[k].armed = TRUE], FALSE)
                       /\ set' = [set EXCEPT !.armed = @ \cup {k}] /\ UNCHANGED spent
                    \/ /\ rt' = Gated(schedule(enqueue_input(r, k, FALSE), id), FALSE)
                       /\ Fails(FALSE) /\ UNCHANGED set
            /\ UNCHANGED clock

\* Also of an advance that failed or is complete.
gate_remove ==
    \E op \in ToSet(rt.gate.ops), ok \in BOOLEAN :
        LET r == Gate
            k == op.source IN
        /\ GateTurn(op) /\ op.kind = "remove"
        /\ IF k = 0 THEN rt' = Gated(r, r.gate.rejected) /\ ok /\ UNCHANGED <<set, spent>>
           ELSE IF Foreign(r, r.gate.task, k) THEN rt' = Gated(r, TRUE) /\ ok /\ UNCHANGED <<set, spent>>
           ELSE rt' = Gated(drop_source(r, k, ok), r.gate.rejected) /\ Fails(ok) /\ Forget(k, ok)
        /\ UNCHANGED clock

-----------------------------------------------------------------------------

\* The driver lets a failed task be, or defers it to a time or until it is stopped.
decide ==
    /\ rt.failed # 0
    /\ LET r == [rt EXCEPT !.failed = 0] IN
       \/ rt' = r
       \/ rt' = defer(r, rt.failed, Later(clock))
       \/ rt' = defer(r, rt.failed, 0)
    /\ UNCHANGED <<set, clock, spent>>

\* seal, and the stops of shutdown_turn.
seal ==
    /\ ~rt.sealed
    /\ rt' = [rt EXCEPT !.sealed = TRUE]
    /\ UNCHANGED <<set, clock, spent>>

stop_next ==
    /\ rt.sealed /\ rt.failed = 0 /\ Live(rt) # {}
    /\ \E i \in Live(rt) : rt.task[i].life = "Active" /\ ~rt.task[i].stopping
    /\ LET id == After(Live(rt), rt.stop) IN rt' = stop([rt EXCEPT !.stop = id], id)
    /\ UNCHANGED <<set, clock, spent>>

\* The wait of run returns: a record, or the nearest deadline.
notified ==
    /\ Waiting(rt) /\ rt.failed = 0
    /\ set.ready # {} \/ \E d \in Deadlines(rt) : d <= clock
    /\ rt' = [rt EXCEPT !.notified = TRUE]
    /\ UNCHANGED <<set, clock, spent>>

\* External: an armed registration is signalled.
signal ==
    /\ spent.signals < MaxSignals
    /\ \E k \in set.armed : set' = [set EXCEPT !.armed = @ \ {k}, !.ready = @ \cup {k}]
    /\ spent' = [spent EXCEPT !.signals = @ + 1]
    /\ UNCHANGED <<rt, clock>>

tick ==
    /\ clock < MaxTime
    /\ clock' = clock + 1
    /\ UNCHANGED <<rt, set, spent>>

Drive ==
    \/ expire \/ receive \/ retry_removals \/ retire_one \/ idle \/ advance_one
    \/ gate_local \/ gate_register \/ gate_rearm \/ gate_remove
    \/ decide \/ stop_next \/ notified

Next == Drive \/ seal \/ signal \/ tick

\* The thread of the runtime runs, is sealed at some time, and time passes.
Spec == Init /\ [][Next]_vars /\ WF_vars(Drive) /\ WF_vars(seal) /\ WF_vars(stop_next) /\ WF_vars(tick)

-----------------------------------------------------------------------------

\* The counters that decide whether the runtime may sleep agree with the tables, the input list
\* of a task holds exactly its undelivered events, and no source outlives its task.
TablesAgree ==
    /\ rt.unmarked = Cardinality({k \in Token : k \in Owned(rt) /\ ~rt.source[k].removing
                                                /\ rt.task[rt.source[k].task].life = "Finalizing"})
    /\ rt.retireReady = Cardinality({i \in TaskId : rt.task[i].life = "Finalizing"
                                                /\ \A k \in Owned(rt) : rt.source[k].task # i})
    /\ \A k \in Owned(rt) :
          LET id == rt.source[k].task IN
          /\ rt.task[id].life # "none"
          /\ k \in rt.task[id].sources <=> ~rt.source[k].removing
          /\ rt.source[k].pending <=> Contains(rt.task[id].inputs, k)
          /\ rt.source[k].armed => k \in set.armed \cup set.ready
    /\ \A i \in TaskId : rt.task[i].retiring = Cardinality({k \in Owned(rt) : rt.source[k].task = i /\ rt.source[k].removing})

\* An event or a deadline that a task has not consumed is never forgotten: unless the task is
\* deferred, it is queued or in the gate.
InputsWake ==
    \A i \in TaskId :
        rt.task[i].life = "Active" /\ ~rt.task[i].suspended /\ (rt.task[i].inputs # <<>> \/ rt.task[i].timedOut) =>
            Contains(rt.ready, i) \/ rt.gate.task = i

\* A deadline is reported once: it is never pending and delivered at the same time.
DeadlineOnce == \A i \in TaskId : ~(rt.task[i].due /\ rt.task[i].timedOut /\ rt.task[i].deadline <= rt.now)

\* Once it is sealed the runtime drains: every task ends, every source is deregistered although
\* deregistrations fail and tasks were deferred without a time.
SealedDrains == rt.sealed ~> Drained(rt)

=============================================================================
