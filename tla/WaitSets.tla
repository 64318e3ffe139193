----------------------------- MODULE WaitSets ------------------------------
(***************************************************************************)
(* A wait set (task/wait_set.rs) that observes a notification object       *)
(* (task/notification.rs), and the threads that use both: they register,   *)
(* rearm, receive, remove and close, signal and take, and wait for either  *)
(* object or both (task/wait.rs).                                          *)
(*                                                                         *)
(* A registration is a persistent sink of the source; it is called a cycle *)
(* after its ArmCycle.  Every critical section is one action: a call of a  *)
(* thread advances through pc, the debts (notification scans, completions, *)
(* the retirement of the set) advance on their own.  What a section leaves *)
(* to be notified without a lock is in todo: take_notification of an       *)
(* object, or the notify of the retirement dependency.  A finish_cycle     *)
(* that follows mark_done is in late.                                      *)
(*                                                                         *)
(* The wait state every waitable object embeds in its lock                 *)
(* (ObjectWaitState, task/object.rs) is a record and every method an       *)
(* operator from the record before to the record after.  A wait is         *)
(* arbitrated as its users see it (WaitOnce; WaitCore shows that the code  *)
(* provides it).  Three representations are relative:                      *)
(*   - a waiter keeps the signals published since it last looked (unseen)  *)
(*     where the code compares the generation of every signal with the one *)
(*     the waiter has seen;                                                *)
(*   - an object keeps its signals in the order of their last publication  *)
(*     (history) where the code compares serials.  The serial remains, for *)
(*     its exhaustion;                                                     *)
(*   - the slots still ahead of the cursor of a scan are a set of waiters  *)
(*     (ahead), visited in any order.                                      *)
(* The serial of the last scan is left out: it differs from the serial     *)
(* only while dirty is set.                                                *)
(***************************************************************************)
EXTENDS Naturals, Sequences, FiniteSets, FiniteSetsExt

CONSTANTS
    Sink,                \* those who wait
    Interest,            \* the signals every sink is interested in
    Persistent,          \* the sinks that stay registered after an outcome
    MaxSerial,           \* u64::MAX: publications of one object
    OBJECT_WAIT_LIMIT,
    Thread, Cycle, Actor, NoThread, MaxEpoch,
    Programs    \* what the threads may do: for every thread a sequence of sets of calls

Signal == {"READABLE", "CLOSED"}

\* ObjectWaitState::new
NewWaitState ==
    [signals |-> {}, serial |-> 0, history |-> <<>>, snapshot |-> [b \in Signal |-> {}],
     waiters |-> {}, unseen |-> [s \in Sink |-> {}], ahead |-> {}, active_waiters |-> 0,
     dirty |-> FALSE, scheduled |-> FALSE, notification |-> FALSE]

-----------------------------------------------------------------------------
(* Arbitration.  No outcome is the empty set.                              *)

NewCore == [epoch |-> 1, stage |-> "INSTALLING", outcome |-> {}]

OfferResult(c) ==
    CASE c.outcome # {} \/ c.stage \in {"FINISHING", "DONE"} -> "Lost"
      [] c.outcome = {} /\ c.stage = "INSTALLING" -> "Deferred"
      [] c.outcome = {} /\ c.stage = "ARMED" -> "Complete"

Offered(c, outcome) ==
    CASE OfferResult(c) = "Lost" -> c
      [] OfferResult(c) = "Deferred" -> [c EXCEPT !.outcome = outcome]
      [] OfferResult(c) = "Complete" -> [c EXCEPT !.outcome = outcome, !.stage = "FINISHING"]

\* finish_installing_in and arm_in: an outcome that is there is completed by the installer.
Armed(c) == [c EXCEPT !.stage = IF c.outcome = {} THEN "ARMED" ELSE "FINISHING"]

-----------------------------------------------------------------------------
(* Publication.                                                            *)

\* Every activated signal keeps the level that was published with it.  Its generation cannot
\* overflow: it never exceeds the serial.
record_activated(w, activated) ==
    LET b == CHOOSE x \in activated : TRUE IN
    [w EXCEPT
       !.history = Append(SelectSeq(@, LAMBDA x : x # b), b),
       !.snapshot[b] = w.signals,
       !.unseen = [s \in Sink |-> IF s \in w.waiters THEN @[s] \cup {b} ELSE @[s]],
       !.dirty = TRUE]

\* A closed object is frozen; the last serial closes the object.  At most one signal is set at
\* a time.
update(w, clear, set) ==
    LET level == (w.signals \ clear) \cup set
        activated == level \ w.signals
    IN  IF "CLOSED" \in w.signals THEN w
        ELSE IF activated = {}
        THEN [w EXCEPT !.signals = level, !.dirty = @ \/ (w.scheduled /\ level # w.signals)]
        ELSE IF w.serial = MaxSerial
        THEN record_activated([w EXCEPT !.signals = {"CLOSED"}], {"CLOSED"})
        ELSE record_activated([w EXCEPT !.signals = level, !.serial = @ + 1], activated)

\* The oldest publication of interest that a waiter has not seen, or the terminal level.
select_snapshot(w, s) ==
    LET unseen == SelectSeq(w.history, LAMBDA b : b \in w.unseen[s] \cap (Interest[s] \cup {"CLOSED"}))
    IN  IF unseen # <<>> THEN w.snapshot[Head(unseen)]
        ELSE IF "CLOSED" \in w.signals THEN w.signals ELSE {}

\* Subscription::outcome
outcome(s, level) ==
    IF "CLOSED" \in level \/ level \cap Interest[s] # {}
    THEN level \cap (Interest[s] \cup {"CLOSED"}) ELSE {}

-----------------------------------------------------------------------------
(* Registration.                                                           *)

\* subscribe is answered at once: one-shot sinks by any level, persistent ones by a closed object.
Immediate(w, s) ==
    /\ outcome(s, w.signals) # {}
    /\ s \notin Persistent \/ "CLOSED" \in w.signals

\* subscribe registers, with the notification slot if this is the first waiter.
Subscribed(w, s) ==
    [w EXCEPT
       !.waiters = @ \cup {s},
       !.active_waiters = @ + 1,
       !.notification = @ \/ (w.active_waiters = 0 /\ ~w.scheduled),
       !.dirty = @ \/ w.scheduled]

\* A slot becomes vacant.
Dropped(w, s) ==
    [w EXCEPT !.waiters = @ \ {s}, !.ahead = @ \ {s}, !.unseen[s] = {}, !.active_waiters = @ - 1]

\* unsubscribe, cancel_observer, retire_closed_step: the last one gives the notification slot
\* back.
Unsubscribed(w, s) ==
    IF s \in w.waiters
    THEN [Dropped(w, s) EXCEPT !.notification = @ /\ (w.active_waiters # 1 \/ w.scheduled)]
    ELSE w

Seen(w, s) == [w EXCEPT !.unseen[s] = {}]

-----------------------------------------------------------------------------
(* The notification debt.                                                  *)

Schedulable(w) == ~w.scheduled /\ w.dirty /\ w.active_waiters # 0

Rescan(w) == [w EXCEPT !.ahead = w.waiters, !.dirty = FALSE]

\* take_notification: the debt leaves with the slot.
Scheduled(w) == Rescan([w EXCEPT !.scheduled = TRUE, !.notification = FALSE])

\* advance_waiter: the scan goes on, begins again, or has nothing more to do.
Advancing(w) == IF w.ahead = {} /\ w.dirty THEN Rescan(w) ELSE w
ScanDone(w) == ~w.scheduled \/ w.active_waiters = 0 \/ (w.ahead = {} /\ ~w.dirty)

\* A waiter whose offer was answered stays if it is persistent, or (a deferred one) if it is
\* still being installed, as long as the object is open.
StaysRegistered(w, s, result) ==
    /\ "CLOSED" \notin w.signals
    /\ s \in Persistent \/ result = "Deferred"

\* Mutant: what was published after the end of the scan is not looked at.
DrainCompleted_Forgets(w) ==
    IF w.active_waiters = 0 THEN [w EXCEPT !.scheduled = FALSE, !.ahead = {}]
    ELSE [w EXCEPT !.scheduled = FALSE, !.ahead = {}, !.notification = TRUE]

\* complete_notification: release the slot, scan again, or hold it for the next publication.
DrainCompleted(w) ==
    IF w.active_waiters = 0 THEN [w EXCEPT !.scheduled = FALSE, !.ahead = {}]
    ELSE IF w.dirty THEN Rescan(w)
    ELSE [w EXCEPT !.scheduled = FALSE, !.ahead = {}, !.notification = TRUE]

-----------------------------------------------------------------------------
(* The objects and the threads.                                            *)

Source == "source"
Set == "set"
Object == {Source, Set}
Progress == "progress"
Proc == Thread \cup {Actor}
NoCycle == 0
NoEpoch == 0

ASSUME CycleAssumption == Cycle \subseteq Nat \ {0} /\ Persistent = Cycle /\ Sink = Thread \cup Cycle
ASSUME BoundAssumption == MaxSerial \in Nat \ {0} /\ MaxEpoch \in Nat \ {0}

VARIABLES
    program,    \* what every thread may still do
    obj,        \* the wait state of every object
    pending,    \* the notification has undelivered bits
    closed,     \* its owner closed it
    core,       \* the arbitration of every sink
    fin,        \* the completion slot of every sink: held, queued, returning, none
    debt,       \* the notification debt of every object: none, scan, complete
    todo,       \* what a call or a completion has still to notify, without a lock
    late,
    entry,      \* the registrations
    source_id,  \* the cycles that know their subscription
    ready,      \* the ready queue
    retire,     \* the retirement queue
    closing,
    closer,     \* the thread whose close waits for the retirement
    work,       \* the thread that carries the retirement slot to its ledger
    pc, token, ret,
    op,         \* the threads inside an Operation
    failed,     \* the threads whose registration failed
    groups,     \* the objects a waiting thread still has to subscribe to
    remembered  \* the objects it has subscribed to

source == <<pending, closed>>
threads == <<op, failed, groups, remembered>>
set == <<entry, source_id, ready, retire, closing, closer, work>>
calls == <<pc, token, ret>>
vars == <<program, obj, source, core, fin, debt, todo, late, set, calls, threads>>

Done(c) == core[c].stage = "DONE"
Present(c) == entry[c].phase = "present"
Queued(c) == \E i \in DOMAIN ready : ready[i].cycle = c
NewRegistration ==
    [phase |-> "present", completed |-> NoEpoch, operations |-> 1,
     removing |-> FALSE, consumed |-> FALSE]

Init ==
    /\ program \in Programs
    /\ obj = [o \in Object |-> NewWaitState]
    /\ pending = FALSE /\ closed = FALSE
    /\ core = [s \in Sink |-> NewCore]
    /\ fin = [s \in Sink |-> "none"]
    /\ debt = [o \in Object |-> "none"]
    /\ todo = [p \in Proc \cup Cycle |-> {}] /\ late = {}
    /\ entry = [c \in Cycle |-> [NewRegistration EXCEPT !.phase = "absent", !.operations = 0]]
    /\ source_id = {} /\ ready = <<>> /\ retire = <<>>
    /\ closing = FALSE /\ closer = NoThread /\ work = NoThread
    /\ pc = [p \in Proc |-> IF p = Actor THEN "idle" ELSE "user"]
    /\ token = [p \in Proc |-> NoCycle]
    /\ ret = [p \in Proc |-> "user"]
    /\ op = {} /\ failed = {}
    /\ groups = [t \in Thread |-> {}]
    /\ remembered = [t \in Thread |-> {}]

Goto(p, l) == pc' = [pc EXCEPT ![p] = l]
Jump(p, l) == Goto(p, l) /\ UNCHANGED <<token, ret>>
Return(p) ==
    /\ Goto(p, "user")
    /\ token' = [token EXCEPT ![p] = NoCycle]
    /\ ret' = [ret EXCEPT ![p] = "user"]

\* Whoever moves a sink to FINISHING publishes its completion (finish_offered, publish_finish).
OfferTo(s, o) ==
    /\ core' = [core EXCEPT ![s] = Offered(@, o)]
    /\ fin' = [fin EXCEPT ![s] = IF OfferResult(core[s]) = "Complete" THEN "queued" ELSE @]

Arm(s) ==
    /\ core' = [core EXCEPT ![s] = Armed(@)]
    /\ fin' = [fin EXCEPT ![s] = IF core[s].outcome # {} THEN "queued" ELSE @]

Notify(p, what) == todo' = [todo EXCEPT ![p] = @ \cup what]

\* p is at l and has nothing left to notify.
At(p, l) == pc[p] = l /\ todo[p] = {}

-----------------------------------------------------------------------------
(* The notification object.                                                *)

signal(t) ==
    /\ At(t, "user") /\ ~closed
    /\ pending' = TRUE
    /\ obj' = [obj EXCEPT ![Source] = update(@, {}, {"READABLE"})]
    /\ Notify(t, {Source})
    /\ UNCHANGED <<closed, core, fin, debt, late, set, calls, threads>>

\* A take that leaves some bits changes nothing here.
take(t) ==
    /\ At(t, "user") /\ ~closed /\ pending
    /\ pending' = FALSE
    /\ obj' = [obj EXCEPT ![Source] = update(@, {"READABLE"}, {})]
    /\ UNCHANGED <<closed, core, fin, debt, todo, late, set, calls, threads>>

close_owner(t) ==
    /\ At(t, "user") /\ ~closed
    /\ closed' = TRUE /\ pending' = FALSE
    /\ obj' = [obj EXCEPT ![Source] = update(@, {"READABLE"}, {"CLOSED"})]
    /\ Notify(t, {Source})
    /\ UNCHANGED <<core, fin, debt, late, set, calls, threads>>

-----------------------------------------------------------------------------
(* Notification debts.                                                     *)

take_notification(p, o) ==
    /\ o \in todo[p]
    /\ todo' = [todo EXCEPT ![p] = @ \ {o}]
    /\ IF Schedulable(obj[o])
       THEN /\ obj' = [obj EXCEPT ![o] = Scheduled(@)]
            /\ debt' = [debt EXCEPT ![o] = "scan"]
       ELSE UNCHANGED <<obj, debt>>
    /\ UNCHANGED <<source, core, fin, late, set, calls, threads>>

advance_waiter(o) ==
    LET w == Advancing(obj[o]) IN
    /\ debt[o] = "scan" /\ ~ScanDone(obj[o])
    /\ \E s \in w.ahead :
         LET snapshot == select_snapshot(w, s)
             seen == [Seen(w, s) EXCEPT !.ahead = @ \ {s}]
         IN  IF snapshot = {}
             THEN obj' = [obj EXCEPT ![o] = seen] /\ UNCHANGED <<core, fin>>
             ELSE /\ OfferTo(s, outcome(s, snapshot))
                  /\ obj' = [obj EXCEPT ![o] = IF StaysRegistered(seen, s, OfferResult(core[s]))
                                               THEN seen ELSE Dropped(seen, s)]
    /\ UNCHANGED <<source, debt, todo, late, set, calls, threads>>

scan_done(o) ==
    /\ debt[o] = "scan" /\ ScanDone(obj[o])
    /\ debt' = [debt EXCEPT ![o] = "complete"]
    /\ UNCHANGED <<obj, source, core, fin, todo, late, set, calls, threads>>

complete_notification(o) ==
    /\ debt[o] = "complete"
    /\ obj' = [obj EXCEPT ![o] = DrainCompleted(@)]
    /\ debt' = [debt EXCEPT ![o] = IF DrainCompleted(obj[o]).scheduled THEN "scan" ELSE "none"]
    /\ UNCHANGED <<source, core, fin, todo, late, set, calls, threads>>

-----------------------------------------------------------------------------
(* A thread waits (WaitMany).                                              *)

Handle(o) == IF o = Source THEN ~closed ELSE ~closing

\* prepare_items: no level answers at once.
prepare(t) ==
    /\ At(t, "user")
    /\ \E items \in SUBSET Object \ {{}} :
         /\ \A o \in items : Handle(o) /\ outcome(t, obj[o].signals) = {}
         /\ groups' = [groups EXCEPT ![t] = items]
    /\ core' = [core EXCEPT ![t] = NewCore]
    /\ fin' = [fin EXCEPT ![t] = "held"]
    /\ Jump(t, "install")
    /\ UNCHANGED <<obj, source, debt, todo, late, set, op, failed, remembered>>

\* One turn of the loop of install; the slot or its memory may not be had.
install(t) ==
    /\ At(t, "install") /\ core[t].outcome = {}
    /\ \E o \in groups[t] :
         /\ groups' = [groups EXCEPT ![t] = @ \ {o}]
         /\ \/ /\ Immediate(obj[o], t)
               /\ OfferTo(t, outcome(t, obj[o].signals))
               /\ UNCHANGED <<obj, remembered>>
            \/ /\ ~Immediate(obj[o], t)
               /\ OfferTo(t, {"Error"})
               /\ UNCHANGED <<obj, remembered>>
            \/ /\ ~Immediate(obj[o], t) /\ obj[o].active_waiters < OBJECT_WAIT_LIMIT
               /\ obj' = [obj EXCEPT ![o] = Subscribed(@, t)]
               /\ remembered' = [remembered EXCEPT ![t] = @ \cup {o}]
               /\ UNCHANGED <<core, fin>>
    /\ UNCHANGED <<source, debt, todo, late, set, calls, op, failed>>

park(t) ==
    /\ At(t, "install") /\ (groups[t] = {} \/ core[t].outcome # {})
    /\ Arm(t)
    /\ groups' = [groups EXCEPT ![t] = {}]
    /\ Jump(t, "parked")
    /\ UNCHANGED <<obj, source, debt, todo, late, set, op, failed, remembered>>

expire(t) ==
    /\ pc[t] \in {"install", "parked"} /\ OfferResult(core[t]) # "Lost"
    /\ OfferTo(t, {"Timeout"})
    /\ UNCHANGED <<obj, source, debt, todo, late, set, calls, threads>>

\* finish_step of a thread's context: one registration, or the delivery (complete_finish).
finish_registration(t) ==
    /\ fin[t] = "queued"
    /\ \E o \in remembered[t] :
         /\ obj' = [obj EXCEPT ![o] = Unsubscribed(@, t)]
         /\ remembered' = [remembered EXCEPT ![t] = @ \ {o}]
    /\ UNCHANGED <<source, core, fin, debt, todo, late, set, calls, op, failed, groups>>

complete_finish(t) ==
    /\ fin[t] = "queued" /\ remembered[t] = {}
    /\ core' = [core EXCEPT ![t] = [NewCore EXCEPT !.stage = "DONE"]]
    /\ fin' = [fin EXCEPT ![t] = "none"]
    /\ Return(t)
    /\ UNCHANGED <<obj, source, debt, todo, late, set, threads>>

-----------------------------------------------------------------------------
(* The set.                                                                *)

\* SetState::publish, with the ready queue q.
Publish(w, q, shut) ==
    update(w, Signal, CASE shut -> {"CLOSED"}
                        [] ~shut /\ q # <<>> -> {"READABLE"}
                        [] ~shut /\ q = <<>> -> {})

\* begin_remove, by whoever is entitled to: off the ready queue, on the retirement queue.
BeginRemove(c) ==
    LET q == SelectSeq(ready, LAMBDA r : r.cycle # c) IN
    /\ entry' = [entry EXCEPT ![c].removing = TRUE]
    /\ ready' = q
    /\ retire' = Append(retire, c)
    /\ obj' = [obj EXCEPT ![Set] = Publish(@, q, closing)]

\* start_actor: the first one to need the actor takes its slot along; pc' of t is l.
StartActor(t, l) ==
    IF pc[Actor] = "idle"
    THEN work' = t /\ pc' = [pc EXCEPT ![t] = l, ![Actor] = "launching"]
    ELSE work' = work /\ pc' = [pc EXCEPT ![t] = l]

\* finish_cycle: record the completion of epoch e (none: NoEpoch), and queue it when the
\* registration may show it.
FinishCycle(p, c, e) ==
    LET completed == IF e = NoEpoch THEN entry[c].completed ELSE e
        show == /\ ~closing /\ ~entry[c].removing /\ entry[c].operations = 0
                /\ ~Queued(c) /\ ~entry[c].consumed
                /\ completed = core[c].epoch
        record == [cycle |-> c, arm_generation |-> completed, outcome |-> core[c].outcome]
        q == IF show THEN Append(ready, record) ELSE ready
    IN  IF ~Present(c) \/ (e # NoEpoch /\ core[c].epoch # e)
        THEN UNCHANGED <<obj, todo, entry, ready>>
        ELSE /\ entry' = [entry EXCEPT ![c].completed = completed]
             /\ ready' = q
             /\ obj' = [obj EXCEPT ![Set] = Publish(@, q, closing)]
             /\ Notify(p, {Set, Progress})

finish_cycle(l) ==
    /\ l \in late
    /\ late' = late \ {l}
    /\ FinishCycle(l[1], l[1], l[2])
    /\ UNCHANGED <<source, core, fin, debt, source_id, retire, closing, closer, work, calls, threads>>

\* The finish_cycle(None) at the end of a cancellation or an operation.
finish_none(p) ==
    /\ At(p, "finish_none")
    /\ FinishCycle(p, token[p], NoEpoch)
    /\ Jump(p, ret[p])
    /\ UNCHANGED <<source, core, fin, debt, late, source_id, retire, closing, closer, work, threads>>

\* Tokens are handed out in order and never again.
register(t) ==
    /\ At(t, "user") /\ ~closing /\ ~closed
    /\ \E c \in Cycle :
         /\ entry[c].phase = "absent"
         /\ \A x \in Cycle : x < c => entry[x].phase # "absent"
         /\ entry' = [entry EXCEPT ![c] = NewRegistration]
         /\ fin' = [fin EXCEPT ![c] = "held"]
         /\ token' = [token EXCEPT ![t] = c]
    /\ op' = op \cup {t}
    /\ Goto(t, "subscribe")
    /\ UNCHANGED <<obj, source, core, debt, todo, late, source_id, ready, retire, closing, closer,
                   work, ret, failed, groups, remembered>>

\* ArmCycle::install subscribes; a persistent sink is offered the level it finds.
subscribe(t) ==
    LET c == token[t]
        w == obj[Source]
        level == outcome(c, w.signals)
    IN
    /\ At(t, "subscribe")
    /\ \/ /\ Immediate(w, c)
          /\ OfferTo(c, level)
          /\ Jump(t, "check")
          /\ UNCHANGED <<obj, failed>>
       \/ /\ ~Immediate(w, c)
          /\ OfferTo(c, {"Error"})
          /\ failed' = failed \cup {t}
          /\ Jump(t, "check")
          /\ UNCHANGED obj
       \/ /\ ~Immediate(w, c) /\ w.active_waiters < OBJECT_WAIT_LIMIT
          /\ obj' = [obj EXCEPT ![Source] = Subscribed(@, c)]
          /\ IF level # {} THEN OfferTo(c, level) ELSE UNCHANGED <<core, fin>>
          /\ Jump(t, "store")
          /\ UNCHANGED failed
    /\ UNCHANGED <<source, debt, todo, late, set, op, groups, remembered>>

store(t) ==
    /\ At(t, "store")
    /\ source_id' = source_id \cup {token[t]}
    /\ Jump(t, "check")
    /\ UNCHANGED <<obj, source, core, fin, debt, todo, late, entry, ready, retire, closing, closer,
                   work, threads>>

Cancel(p, back) ==
    /\ Goto(p, "cancel")
    /\ ret' = [ret EXCEPT ![p] = back]

\* Somebody removed the registration while it was being installed.
check(t) ==
    /\ At(t, "check")
    /\ IF entry[token[t]].removing THEN Cancel(t, "arm") ELSE Goto(t, "arm") /\ UNCHANGED ret
    /\ UNCHANGED <<obj, source, core, fin, debt, todo, late, set, token, threads>>

arm(t) ==
    /\ At(t, "arm")
    /\ Arm(token[t])
    /\ Jump(t, IF t \in failed THEN "failed" ELSE "op_end")
    /\ UNCHANGED <<obj, source, debt, todo, late, set, threads>>

\* WaitSet::remove, of a registration of this call or of an earlier one.
Remove(t, c) ==
    /\ ~closing /\ Present(c) /\ ~entry[c].removing
    /\ BeginRemove(c)
    /\ StartActor(t, "cancel")
    /\ token' = [token EXCEPT ![t] = c]
    /\ ret' = [ret EXCEPT ![t] = "launch"]

remove_failed(t) ==
    /\ At(t, "failed")
    /\ failed' = failed \ {t}
    /\ \/ Remove(t, token[t])
       \/ /\ closing \/ entry[token[t]].removing
          /\ Jump(t, "op_end")
          /\ UNCHANGED <<obj, entry, ready, retire, work>>
    /\ UNCHANGED <<source, core, fin, debt, todo, late, source_id, closing, closer, op, groups, remembered>>

remove(t) ==
    /\ At(t, "user")
    /\ \E c \in Cycle : Remove(t, c)
    /\ UNCHANGED <<source, core, fin, debt, todo, late, source_id, closing, closer, threads>>

\* Launch::publish: notify,
launch(t) ==
    /\ At(t, "launch")
    /\ Notify(t, {Set, Progress})
    /\ Jump(t, "launched")
    /\ UNCHANGED <<obj, source, core, fin, debt, late, set, threads>>

\* and then hand the actor over.
launched(t) ==
    LET next == CASE t \in op -> "op_end"
                  [] t \notin op /\ t = closer /\ pc[Actor] # "retired" -> "closing"
                  [] OTHER -> "user"
    IN
    /\ At(t, "launched")
    /\ pc' = [pc EXCEPT ![t] = next, ![Actor] = IF work = t THEN "step" ELSE @]
    /\ token' = [token EXCEPT ![t] = IF t \in op THEN @ ELSE NoCycle]
    /\ ret' = [ret EXCEPT ![t] = "user"]
    /\ work' = IF work = t THEN NoThread ELSE work
    /\ UNCHANGED <<obj, source, core, fin, debt, todo, late, entry, source_id, ready, retire, closing,
                   closer, threads>>

\* finish_operation
op_end(t) ==
    /\ At(t, "op_end")
    /\ entry' = [entry EXCEPT ![token[t]].operations = @ - 1]
    /\ op' = op \ {t}
    /\ Jump(t, "op_done")
    /\ UNCHANGED <<obj, source, core, fin, debt, todo, late, source_id, ready, retire, closing, closer,
                   work, failed, groups, remembered>>

\* Mutant: the end of an operation does not look for a completion it held back.
op_done_Silent(t) ==
    /\ At(t, "op_done")
    /\ Goto(t, "op_progress")
    /\ ret' = [ret EXCEPT ![t] = "op_progress"]
    /\ UNCHANGED <<obj, source, core, fin, debt, todo, late, set, token, threads>>

op_done(t) ==
    /\ At(t, "op_done")
    /\ Goto(t, IF Done(token[t]) THEN "finish_none" ELSE "op_progress")
    /\ ret' = [ret EXCEPT ![t] = "op_progress"]
    /\ UNCHANGED <<obj, source, core, fin, debt, todo, late, set, token, threads>>

op_progress(t) ==
    /\ At(t, "op_progress")
    /\ Notify(t, {Progress})
    /\ Return(t)
    /\ UNCHANGED <<obj, source, core, fin, debt, late, set, threads>>

rearm(t) ==
    /\ At(t, "user") /\ ~closing
    /\ \E c \in Cycle :
         /\ Present(c) /\ ~entry[c].removing /\ entry[c].consumed /\ ~Queued(c) /\ Done(c)
         /\ entry' = [entry EXCEPT ![c].consumed = FALSE, ![c].operations = @ + 1]
         /\ token' = [token EXCEPT ![t] = c]
    /\ op' = op \cup {t}
    /\ Goto(t, "rearm")
    /\ UNCHANGED <<obj, source, core, fin, debt, todo, late, source_id, ready, retire, closing, closer,
                   work, ret, failed, groups, remembered>>

\* restart refuses: nothing has changed.
Refused(c) ==
    \/ c \notin obj[Source].waiters \/ entry[c].removing \/ ~Done(c)
    \/ core[c].epoch = MaxEpoch

\* The next epoch begins, finds the level of the source, and is armed.
rearm_observer(t) ==
    LET c == token[t]
        w == obj[Source]
        next == [NewCore EXCEPT !.epoch = core[c].epoch + 1, !.outcome = outcome(c, w.signals)]
    IN
    /\ At(t, "rearm") /\ ~Refused(c)
    /\ core' = [core EXCEPT ![c] = Armed(next)]
    /\ fin' = [fin EXCEPT ![c] = IF next.outcome # {} THEN "queued" ELSE @]
    /\ obj' = [obj EXCEPT ![Source] = Seen(@, c)]
    /\ Jump(t, "op_end")
    /\ UNCHANGED <<source, debt, todo, late, set, threads>>

rearm_refused(t) ==
    /\ At(t, "rearm") /\ Refused(token[t])
    /\ Jump(t, "restore")
    /\ UNCHANGED <<obj, source, core, fin, debt, todo, late, set, threads>>

restore(t) ==
    LET c == token[t] IN
    /\ At(t, "restore")
    /\ entry' = [entry EXCEPT ![c].consumed = @ \/ (Present(c) /\ ~entry[c].removing)]
    /\ Jump(t, "op_end")
    /\ UNCHANGED <<obj, source, core, fin, debt, todo, late, source_id, ready, retire, closing, closer,
                   work, threads>>

receive(t) ==
    /\ At(t, "user") /\ ~closing
    /\ \E n \in 1..Len(ready) :
         LET q == SubSeq(ready, n + 1, Len(ready))
             received == {ready[i].cycle : i \in 1..n}
         IN  /\ ready' = q
             /\ entry' = [c \in Cycle |-> [entry[c] EXCEPT !.consumed = @ \/ c \in received]]
             /\ obj' = [obj EXCEPT ![Set] = Publish(@, q, closing)]
    /\ Notify(t, {Set})
    /\ UNCHANGED <<source, core, fin, debt, late, source_id, retire, closing, closer, work, calls, threads>>

\* begin: the owner closes the set and waits for its retirement.
close(t) ==
    /\ At(t, "user") /\ ~closing
    /\ closing' = TRUE /\ closer' = t
    /\ obj' = [obj EXCEPT ![Set] = Publish(@, ready, TRUE)]
    /\ StartActor(t, "launch")
    /\ UNCHANGED <<source, core, fin, debt, todo, late, entry, source_id, ready, retire, token, ret, threads>>

-----------------------------------------------------------------------------
(* Cancellation of a cycle, and its completion.                            *)

cancel(p) ==
    /\ At(p, "cancel")
    /\ Jump(p, IF token[p] \in source_id THEN "cancel_observer" ELSE "cancel_unknown")
    /\ UNCHANGED <<obj, source, core, fin, debt, todo, late, set, threads>>

cancel_unknown(p) ==
    /\ At(p, "cancel_unknown")
    /\ OfferTo(token[p], {"Cancelled"})
    /\ Jump(p, "cancelled")
    /\ UNCHANGED <<obj, source, debt, todo, late, set, threads>>

cancel_observer(p) ==
    LET c == token[p] IN
    /\ At(p, "cancel_observer")
    /\ obj' = [obj EXCEPT ![Source] = Unsubscribed(@, c)]
    /\ IF c \in obj[Source].waiters THEN OfferTo(c, {"Cancelled"}) ELSE UNCHANGED <<core, fin>>
    /\ source_id' = source_id \ {c}
    /\ Jump(p, "cancelled")
    /\ UNCHANGED <<source, debt, todo, late, entry, ready, retire, closing, closer, work, threads>>

cancelled(p) ==
    /\ At(p, "cancelled")
    /\ Jump(p, IF Done(token[p]) THEN "finish_none" ELSE ret[p])
    /\ UNCHANGED <<obj, source, core, fin, debt, todo, late, set, threads>>

\* finish_step of a cycle: a removed one leaves its source first.
finish_step(c) ==
    /\ fin[c] = "queued"
    /\ IF entry[c].removing /\ c \in source_id
       THEN /\ source_id' = source_id \ {c}
            /\ obj' = [obj EXCEPT ![Source] = Unsubscribed(@, c)]
            /\ UNCHANGED fin
       ELSE /\ fin' = [fin EXCEPT ![c] = "returning"]
            /\ UNCHANGED <<source_id, obj>>
    /\ UNCHANGED <<source, core, debt, todo, late, entry, ready, retire, closing, closer, work, calls, threads>>

return_finish(c) ==
    /\ fin[c] = "returning"
    /\ fin' = [fin EXCEPT ![c] = "held"]
    /\ core' = [core EXCEPT ![c].stage = "DONE"]
    /\ late' = late \cup {<<c, core[c].epoch>>}
    /\ UNCHANGED <<obj, source, debt, todo, set, calls, threads>>

-----------------------------------------------------------------------------
(* The retirement actor.                                                   *)

Blocked == retire # <<>> /\ (entry[Head(retire)].operations # 0 \/ ~Done(Head(retire)))

\* One turn of step.
retire_head ==
    LET c == Head(retire) IN
    /\ At(Actor, "step") /\ retire # <<>> /\ ~Blocked
    /\ IF c \in source_id
       THEN /\ Cancel(Actor, "step")
            /\ token' = [token EXCEPT ![Actor] = c]
            /\ UNCHANGED <<entry, retire>>
       ELSE /\ entry' = [entry EXCEPT ![c].phase = "gone"]
            /\ retire' = Tail(retire)
            /\ UNCHANGED calls
    /\ UNCHANGED <<obj, source, core, fin, debt, todo, late, source_id, ready, closing, closer, work, threads>>

retire_entry ==
    LET present == {c \in Cycle : Present(c)} IN
    /\ At(Actor, "step") /\ retire = <<>> /\ closing /\ present # {}
    /\ BeginRemove(Min(present))
    /\ token' = [token EXCEPT ![Actor] = Min(present)]
    /\ Cancel(Actor, "step")
    /\ UNCHANGED <<source, core, fin, debt, todo, late, source_id, closing, closer, work, threads>>

Emptied == retire = <<>> /\ \A c \in Cycle : ~Present(c)

retire_closed_step ==
    /\ At(Actor, "step") /\ closing /\ Emptied
    /\ \E s \in obj[Set].waiters :
         /\ obj' = [obj EXCEPT ![Set] = Unsubscribed(@, s)]
         /\ OfferTo(s, outcome(s, select_snapshot(obj[Set], s)))
    /\ UNCHANGED <<source, debt, todo, late, set, calls, threads>>

step_complete ==
    /\ At(Actor, "step") /\ retire = <<>>
    /\ closing => Emptied /\ obj[Set].waiters = {}
    /\ Jump(Actor, "finish")
    /\ UNCHANGED <<obj, source, core, fin, debt, todo, late, set, threads>>

step_blocked ==
    /\ At(Actor, "step") /\ Blocked
    /\ Jump(Actor, "blocked")
    /\ UNCHANGED <<obj, source, core, fin, debt, todo, late, set, threads>>

register_progress ==
    /\ At(Actor, "blocked")
    /\ Jump(Actor, IF Blocked THEN "parked" ELSE "step")
    /\ UNCHANGED <<obj, source, core, fin, debt, todo, late, set, threads>>

notify_progress(p) ==
    /\ Progress \in todo[p]
    /\ todo' = [todo EXCEPT ![p] = @ \ {Progress}]
    /\ Jump(Actor, IF pc[Actor] = "parked" THEN "step" ELSE pc[Actor])
    /\ UNCHANGED <<obj, source, core, fin, debt, late, set, threads>>

\* finish: once more, back to its slot, or the end of the set, which answers the closer.
finish ==
    /\ At(Actor, "finish")
    /\ IF retire # <<>> \/ (closing /\ (~Emptied \/ obj[Set].waiters # {}))
       THEN Goto(Actor, "step")
       ELSE pc' = [p \in Proc |-> IF p = Actor THEN IF closing THEN "retired" ELSE "idle"
                                  ELSE IF p = closer /\ pc[p] = "closing" THEN "user" ELSE pc[p]]
    /\ UNCHANGED <<obj, source, core, fin, debt, todo, late, set, token, ret, threads>>

-----------------------------------------------------------------------------

Effect(t, call) ==
    CASE call = "signal" -> signal(t)
      [] call = "take" -> take(t)
      [] call = "close_owner" -> close_owner(t)
      [] call = "wait" -> prepare(t)
      [] call = "register" -> register(t)
      [] call = "receive" -> receive(t)
      [] call = "rearm" -> rearm(t)
      [] call = "remove" -> remove(t)
      [] call = "close" -> close(t)

\* What user code chooses to do: the next of its calls, or none.  One that fails changes nothing.
Call(t) ==
    /\ program[t] # <<>> /\ At(t, "user")
    /\ program' = [program EXCEPT ![t] = Tail(@)]
    /\ \E call \in Head(program[t]) : Effect(t, call)

\* what a thread does inside a call,
InCall(t) ==
    \/ install(t) \/ park(t)
    \/ subscribe(t) \/ store(t) \/ check(t) \/ arm(t) \/ remove_failed(t) \/ launch(t) \/ launched(t)
    \/ op_end(t) \/ op_done(t) \/ op_progress(t)
    \/ rearm_observer(t) \/ rearm_refused(t) \/ restore(t)

Notifying(p) == notify_progress(p) \/ \E o \in Object : take_notification(p, o)

Cancelling(p) == cancel(p) \/ cancel_unknown(p) \/ cancel_observer(p) \/ cancelled(p) \/ finish_none(p)

\* and what the debts do.
Scan(o) == advance_waiter(o) \/ scan_done(o) \/ complete_notification(o)

Finish(s) ==
    \/ s \in Thread /\ (finish_registration(s) \/ complete_finish(s))
    \/ s \in Cycle /\ (finish_step(s) \/ return_finish(s))

Retire ==
    \/ retire_head \/ retire_entry \/ retire_closed_step \/ step_complete
    \/ step_blocked \/ register_progress \/ finish

Step ==
    \/ \E t \in Thread : InCall(t) \/ expire(t)
    \/ \E p \in Proc : Cancelling(p)
    \/ \E p \in Proc \cup Cycle : Notifying(p)
    \/ \E o \in Object : Scan(o)
    \/ \E s \in Sink : Finish(s)
    \/ \E l \in late : finish_cycle(l)
    \/ Retire

Next ==
    \/ \E t \in Thread : Call(t)
    \/ Step /\ UNCHANGED program

Spec == Init /\ [][Next]_vars

-----------------------------------------------------------------------------
(* Properties.                                                             *)

\* The variables have their types.
TypeOK ==
    /\ \A o \in Object :
         /\ obj[o].signals \subseteq Signal /\ obj[o].serial \in 0..MaxSerial
         /\ obj[o].ahead \subseteq obj[o].waiters /\ Cardinality(obj[o].waiters) <= OBJECT_WAIT_LIMIT
         /\ debt[o] \in {"none", "scan", "complete"}
    /\ \A s \in Sink : fin[s] \in {"none", "held", "queued", "returning"} /\ core[s].epoch \in 1..MaxEpoch
    /\ \A p \in Proc \cup Cycle : todo[p] \subseteq Object \cup {Progress}
    /\ late \subseteq Cycle \X (1..MaxEpoch)
    /\ \A c \in Cycle :
         /\ entry[c].phase \in {"absent", "present", "gone"}
         /\ entry[c].completed \in 0..MaxEpoch
         /\ entry[c].operations \in 0..Cardinality(Thread)

\* Every prepaid slot is where the code that uses it expects it: an object with waiters holds its
\* notification slot or has handed it to its debt; a sink that can still be completed holds its
\* completion slot, and only a finishing one has handed it on; an operation keeps its
\* registration, and the counters are what they count.
SlotsHeld ==
    /\ \A o \in Object :
         /\ obj[o].active_waiters = Cardinality(obj[o].waiters)
         /\ obj[o].scheduled <=> debt[o] # "none"
         /\ obj[o].notification <=> obj[o].active_waiters # 0 /\ ~obj[o].scheduled
    /\ \A s \in Sink :
         /\ fin[s] \in {"queued", "returning"} <=> core[s].stage = "FINISHING"
         /\ core[s].stage = "ARMED" => fin[s] = "held"
    /\ \A t \in Thread : pc[t] = "subscribe" => core[token[t]].stage = "INSTALLING"
    /\ \A c \in Cycle :
         Present(c) => entry[c].operations = Cardinality({t \in op : token[t] = c})
    /\ \A t \in op : Present(token[t])
    /\ \A c \in Cycle :
         (\E i \in DOMAIN retire : retire[i] = c) <=> Present(c) /\ entry[c].removing
    /\ closing => "CLOSED" \in obj[Set].signals

\* No publication is missed: an armed sink that an object still has registered and that the level,
\* or an older publication it has not seen, would complete is met by a scan.
NothingMissed ==
    \A o \in Object : \A s \in obj[o].waiters :
        LET w == obj[o] IN
        /\ core[s].stage = "ARMED"
        /\ outcome(s, w.signals) # {} \/ select_snapshot(w, s) # {}
        => \/ w.scheduled
           \/ w.dirty /\ (\E p \in Proc \cup Cycle : o \in todo[p])
           \/ o = Set /\ \E t \in Thread : pc[t] = "launch"

\* The ready queue is exact.  A record is the outcome of the current epoch, once, of a registration
\* that is not removed; a completed registration that nobody has received is in the queue or is
\* about to be put there; and the set is readable exactly while the queue is not empty.
ReadyExact ==
    /\ \A i \in DOMAIN ready :
         LET c == ready[i].cycle IN
         /\ Present(c) /\ ~entry[c].removing /\ ~entry[c].consumed /\ Done(c)
         /\ ready[i].arm_generation = core[c].epoch /\ ready[i].outcome = core[c].outcome
         /\ \A j \in DOMAIN ready : ready[j].cycle = c => j = i
    /\ \A c \in Cycle :
         /\ Present(c) /\ Done(c) /\ ~entry[c].removing /\ ~entry[c].consumed /\ ~closing
         => \/ Queued(c) \/ entry[c].operations # 0
            \/ <<c, core[c].epoch>> \in late
            \/ \E t \in Thread : token[t] = c /\ pc[t] \in {"op_done", "finish_none"}
    /\ "CLOSED" \notin obj[Set].signals => ("READABLE" \in obj[Set].signals <=> ready # <<>>)

\* What is retired has left nothing behind: a registration that is gone is completed, is not
\* registered with its source and has its slots back; a retired set has no registration, no
\* waiter and nothing queued.
RetiredIsGone ==
    /\ \A c \in Cycle : entry[c].phase = "gone" =>
         /\ Done(c) /\ fin[c] = "held" /\ c \notin source_id
         /\ c \notin obj[Source].waiters
    /\ pc[Actor] = "retired" =>
         /\ \A c \in Cycle : ~Present(c)
         /\ obj[Set].waiters = {} /\ ready = <<>>

\* Nothing is under way: no call, debt, completion or notification, and the actor rests.
Quiet ==
    /\ \A t \in Thread : pc[t] \in {"user", "parked", "closing"}
    /\ \A p \in Proc \cup Cycle : todo[p] = {}
    /\ \A o \in Object : debt[o] = "none"
    /\ \A s \in Sink : fin[s] \in {"none", "held"}
    /\ late = {} /\ pc[Actor] \in {"idle", "parked", "retired"}

\* Nothing is forgotten: when nothing is under way, no parked thread and no armed registration
\* is left with a level it waits for, every removed registration is gone, and a closed set is
\* retired and its closer has returned.
QuietIsSettled ==
    Quiet =>
        /\ pc[Actor] # "parked"
        /\ \A t \in Thread : pc[t] # "closing"
        /\ \A t \in Thread : pc[t] = "parked" =>
             \A o \in remembered[t] : outcome(t, obj[o].signals) = {}
        /\ \A c \in Cycle : Present(c) =>
             /\ ~entry[c].removing
             /\ Done(c) \/ outcome(c, obj[Source].signals) = {}
        /\ closing => pc[Actor] = "retired"

=============================================================================
