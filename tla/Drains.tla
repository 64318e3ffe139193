------------------------------- MODULE Drains -------------------------------
(***************************************************************************)
(* The drain of a terminated process: requests of callers that hold its    *)
(* control (task/request.rs), the batches they advance (proc.rs) and the   *)
(* finalization debt that ends the drain when no caller does.              *)
(*                                                                         *)
(* One executor and one reusable wait serve all the requests, one at a     *)
(* time.  A round of the wait is installed by the scheduler, armed, and    *)
(* completed by the request or abandoned by the end of its caller.  The    *)
(* debts follow WorkDebts: a wake between arm_wake and park is latched.    *)
(***************************************************************************)
EXTENDS Naturals, Sequences, FiniteSets

CONSTANTS
    Caller,     \* threads, each of a process of its own
    Items,      \* the handles of the target: "plain", or "retiring" for one with a backend
    Ancestors,  \* jobs that the end of the target propagates to
    Budget,     \* max_work of a request
    Turn,       \* MAX_STEPS_PER_DEBT_TURN
    MaxRounds

NoOne == "none"
Idle == [status |-> "none", latched |-> FALSE]

VARIABLES
    target,     \* items, pending close, the backend finished, finalization, times published
    active,     \* drain_active
    executor,   \* reservation, request, dependency, activation
    round,      \* the epoch of the wait
    wait,       \* its phase: done, installing, armed; and the outcome offered
    abandoned,  \* rounds given up by their callers
    debt, work, \* the debt of the executor, and the runner's step with the request in its hands
    fdebt,      \* the finalization debt
    waiters,    \* who is registered with the completion of the backend
    gatewait,   \* the finalization debt is registered with the end of the batch
    pc, doomed, owed,   \* callers; result obligations not returned
    cancels     \* rounds whose cancel callback is still to come

vars == <<target, active, executor, round, wait, abandoned, debt, work, fdebt, waiters, gatewait, pc, doomed, owed, cancels>>

NoRequest == [round |-> 0, caller |-> NoOne, left |-> 0]
NoWork == [step |-> "idle", request |-> NoRequest]

Init ==
    /\ target = [items |-> Items, pending |-> FALSE, finished |-> FALSE, fin |-> "none", up |-> Ancestors, published |-> 0]
    /\ active = FALSE
    /\ executor = [reservation |-> TRUE, request |-> NoRequest, dependency |-> 0, activation |-> FALSE]
    /\ round = 0 /\ wait = [phase |-> "done", offer |-> "none"] /\ abandoned = {}
    /\ debt = Idle /\ work = NoWork
    /\ fdebt = [status |-> "reserved", latched |-> FALSE]
    /\ waiters = {} /\ gatewait = FALSE
    /\ pc = [c \in Caller |-> "user"] /\ doomed = {} /\ owed = {} /\ cancels = {}

-----------------------------------------------------------------------------
(* Debts.                                                                  *)

Queued(d) == [d EXCEPT !.status = "queued"]
Parked(d) == IF d.latched THEN [status |-> "queued", latched |-> FALSE] ELSE [d EXCEPT !.status = "parked"]
Woken(d) == IF d.status = "parked" THEN Queued(d) ELSE [d EXCEPT !.latched = TRUE]

-----------------------------------------------------------------------------
(* A batch of the drain, under drain_gate.                                 *)

Blocked(t) == t.pending /\ ~t.finished

\* One unit: a pending close, a handle, the space, a stage of the finalization.
UnitDone(t) ==
    CASE t.pending -> [t EXCEPT !.pending = FALSE]
      [] ~t.pending /\ t.fin = "PublishDead" -> [t EXCEPT !.published = @ + 1, !.fin = IF t.up = 0 THEN "Done" ELSE "PropagateJob"]
      [] ~t.pending /\ t.fin = "PropagateJob" -> [t EXCEPT !.up = @ - 1, !.fin = IF t.up = 1 THEN "Done" ELSE @]
      [] ~t.pending /\ t.fin = "none" /\ t.items # <<>> ->
            [t EXCEPT !.items = Tail(@), !.pending = Head(t.items) = "retiring"]
      [] ~t.pending /\ t.fin = "none" /\ t.items = <<>> -> [t EXCEPT !.fin = "PublishDead"]
      [] OTHER -> t

\* drain_batch: it stops at its budget, at a backend that it started or finds at work, and at
\* the end.  Blocked is reported only by a batch that did nothing.
drain_batch(t, budget) ==
    LET run[n \in 0 .. budget] ==
            IF n = 0 THEN [target |-> t, used |-> 0, outcome |-> "More", stop |-> FALSE]
            ELSE LET r == run[n - 1] IN
                 IF r.stop THEN r
                 ELSE IF Blocked(r.target)
                 THEN [r EXCEPT !.stop = TRUE, !.outcome = IF r.used = 0 THEN "Blocked" ELSE "More"]
                 ELSE [target |-> UnitDone(r.target), used |-> r.used + 1,
                       outcome |-> IF r.target.fin = "Done" THEN "Complete" ELSE "More",
                       stop |-> r.target.fin = "Done"]
    IN  run[budget]

\* The stage that publishes the death publishes the finalization debt before.
Drained(result) ==
    /\ target' = result.target
    /\ fdebt' = IF result.target.published > target.published /\ fdebt.status = "reserved" THEN Queued(fdebt) ELSE fdebt

-----------------------------------------------------------------------------
(* The end of a request and of a wait.                                     *)

\* DrainBatchPermit::drop, then the result obligation: release_drain tells the finalization debt.
Dropped(caller, fd) ==
    /\ active' = FALSE /\ owed' = owed \ {caller}
    /\ gatewait' = FALSE
    /\ fdebt' = IF gatewait THEN Woken(fd) ELSE fd

\* The offer of an outcome: the first counts, and completes the wait if it is armed.
Offered(outcome) ==
    IF wait.offer # "none" THEN wait
    ELSE [phase |-> IF wait.phase = "armed" THEN "finishing" ELSE wait.phase, offer |-> outcome]

-----------------------------------------------------------------------------
(* Callers.                                                                *)

\* DrainRequest::acquire: ObjectBusy while a batch is active.
acquire(c) ==
    /\ pc[c] = "user" /\ c \notin doomed /\ ~active /\ round < MaxRounds
    /\ active' = TRUE /\ owed' = owed \cup {c}
    /\ pc' = [pc EXCEPT ![c] = "begin"]
    /\ UNCHANGED <<target, executor, round, wait, abandoned, debt, work, fdebt, waiters, gatewait, doomed, cancels>>

\* DrainExecutor::begin: the wait of the request before may not be over yet.
begin(c) ==
    /\ pc[c] = "begin"
    /\ IF wait.phase # "done"
       THEN /\ Dropped(c, fdebt) /\ pc' = [pc EXCEPT ![c] = "user"]
            /\ UNCHANGED <<executor, round, wait>>
       ELSE /\ round' = round + 1 /\ wait' = [phase |-> "installing", offer |-> "none"]
            /\ executor' = [executor EXCEPT !.request = [round |-> round + 1, caller |-> c, left |-> Budget],
                                            !.activation = TRUE]
            /\ pc' = [pc EXCEPT ![c] = "leaving"]
            /\ UNCHANGED <<active, owed, gatewait, fdebt>>
    /\ UNCHANGED <<target, abandoned, debt, work, waiters, doomed, cancels>>

\* install: park_waiting decides; a caller that is terminating abandons at once.
park_waiting(c) ==
    /\ pc[c] = "leaving"
    /\ IF c \in doomed
       THEN /\ abandoned' = abandoned \cup {round} /\ wait' = Offered("abandoned")
            /\ cancels' = cancels \cup {round} /\ pc' = [pc EXCEPT ![c] = "cancelling"]
       ELSE pc' = [pc EXCEPT ![c] = "waiting"] /\ UNCHANGED <<abandoned, wait, cancels>>
    /\ UNCHANGED <<target, active, executor, round, debt, work, fdebt, waiters, gatewait, doomed, owed>>

\* Mutant: a request that was cancelled before is started all the same.
start_Late(c) ==
    /\ pc[c] = "waiting"
    /\ executor' = [executor EXCEPT !.activation = FALSE, !.reservation = FALSE]
    /\ debt' = [status |-> "queued", latched |-> FALSE]
    /\ pc' = [pc EXCEPT ![c] = "arming"]
    /\ UNCHANGED <<target, active, round, wait, abandoned, work, fdebt, waiters, gatewait, doomed, owed, cancels>>

\* WaitOperation::start: nothing is left of a request cancelled meanwhile.
start(c) ==
    /\ pc[c] = "waiting"
    /\ IF executor.request.round = round /\ executor.request.caller = c
       THEN /\ executor' = [executor EXCEPT !.activation = FALSE, !.reservation = FALSE]
            /\ debt' = [status |-> "queued", latched |-> FALSE]
       ELSE UNCHANGED <<executor, debt>>
    /\ pc' = [pc EXCEPT ![c] = "arming"]
    /\ UNCHANGED <<target, active, round, wait, abandoned, work, fdebt, waiters, gatewait, doomed, owed, cancels>>

\* arm_in, or finish_installing_in of an outcome that is there.
arm(c) ==
    /\ pc[c] = "arming" \/ (pc[c] = "cancelling" /\ round \notin cancels)
    /\ wait' = [wait EXCEPT !.phase = IF wait.offer = "none" THEN "armed" ELSE "finishing"]
    /\ pc' = [pc EXCEPT ![c] = "parked"]
    /\ UNCHANGED <<target, active, executor, round, abandoned, debt, work, fdebt, waiters, gatewait, doomed, owed, cancels>>

\* complete_finish: the thread runs again or departs.
finish_wait(c) ==
    /\ pc[c] = "parked" /\ wait.phase = "finishing"
    /\ wait' = [wait EXCEPT !.phase = "done"]
    /\ pc' = [pc EXCEPT ![c] = IF c \in doomed THEN "gone" ELSE "user"]
    /\ UNCHANGED <<target, active, executor, round, abandoned, debt, work, fdebt, waiters, gatewait, doomed, owed, cancels>>

\* The process of the caller terminates; a published wait is abandoned.
terminate(c) ==
    /\ c \notin doomed
    /\ doomed' = doomed \cup {c}
    /\ IF pc[c] \in {"waiting", "arming", "parked"}
       THEN /\ abandoned' = abandoned \cup {round} /\ wait' = Offered("abandoned")
            /\ cancels' = cancels \cup {round}
       ELSE UNCHANGED <<abandoned, wait, cancels>>
    /\ UNCHANGED <<target, active, executor, round, debt, work, fdebt, waiters, gatewait, pc, owed>>

Unstarted(r) == executor.activation /\ executor.request.round = r

\* DrainExecutor::cancel retires an unstarted request, or wakes a blocked one.
cancel(r) ==
    /\ r \in cancels
    /\ cancels' = cancels \ {r}
    /\ IF Unstarted(r)
       THEN /\ executor' = [executor EXCEPT !.activation = FALSE, !.request = NoRequest]
            /\ Dropped(executor.request.caller, fdebt)
            /\ UNCHANGED <<waiters, debt>>
       ELSE /\ IF executor.dependency = r /\ r \in waiters
               THEN waiters' = waiters \ {r} /\ debt' = Woken(debt)
               ELSE UNCHANGED <<waiters, debt>>
            /\ UNCHANGED <<executor, active, owed, gatewait, fdebt>>
    /\ UNCHANGED <<target, round, wait, abandoned, work, pc, doomed>>

-----------------------------------------------------------------------------
(* The debt of the executor.                                               *)

take ==
    /\ debt.status = "queued" /\ work.step = "idle"
    /\ debt' = [debt EXCEPT !.status = "running"]
    /\ work' = [step |-> "step", request |-> executor.request]
    /\ executor' = [executor EXCEPT !.request = NoRequest, !.dependency = 0]
    /\ UNCHANGED <<target, active, round, wait, abandoned, fdebt, waiters, gatewait, pc, doomed, owed, cancels>>

Cancelled(request) == request.round \in abandoned \/ request.caller \in doomed

\* DrainRequest::step: an abandoned request completes without touching the target.
step ==
    LET request == work.request
        turn == IF request.left < Turn THEN request.left ELSE Turn
        result == drain_batch(target, turn)
    IN  /\ work.step = "step"
        /\ IF Cancelled(request)
           THEN work' = [work EXCEPT !.step = "complete"] /\ UNCHANGED <<target, fdebt>>
           ELSE /\ Drained(result)
                /\ work' = [step |-> CASE result.outcome = "Complete" \/ result.used = request.left -> "complete"
                                       [] result.outcome = "Blocked" -> "block"
                                       [] OTHER -> "requeue",
                            request |-> [request EXCEPT !.left = @ - result.used]]
        /\ UNCHANGED <<active, executor, round, wait, abandoned, debt, waiters, gatewait, pc, doomed, owed, cancels>>

\* restore and requeue.
requeue ==
    /\ work.step = "requeue"
    /\ executor' = [executor EXCEPT !.request = work.request] /\ work' = NoWork
    /\ debt' = Queued(debt)
    /\ UNCHANGED <<target, active, round, wait, abandoned, fdebt, waiters, gatewait, pc, doomed, owed, cancels>>

\* restore_blocked,
restore_blocked ==
    /\ work.step = "block"
    /\ executor' = [executor EXCEPT !.request = work.request, !.dependency = work.request.round]
    /\ work' = [work EXCEPT !.step = "register"]
    /\ UNCHANGED <<target, active, round, wait, abandoned, debt, fdebt, waiters, gatewait, pc, doomed, owed, cancels>>

\* RetirementTicket::register: the condition is looked at under the lock of the dependency,
register ==
    /\ work.step = "register"
    /\ IF target.finished \/ work.request.round \in abandoned
       THEN debt' = Woken(debt) /\ UNCHANGED waiters
       ELSE waiters' = waiters \cup {work.request.round} /\ UNCHANGED debt
    /\ work' = [work EXCEPT !.step = "park"]
    /\ UNCHANGED <<target, active, executor, round, wait, abandoned, fdebt, gatewait, pc, doomed, owed, cancels>>

\* and park.
park ==
    /\ work.step = "park"
    /\ debt' = Parked(debt) /\ work' = NoWork
    /\ UNCHANGED <<target, active, executor, round, wait, abandoned, fdebt, waiters, gatewait, pc, doomed, owed, cancels>>

\* The slot is back in the executor before the permit goes,
complete ==
    /\ work.step = "complete"
    /\ executor' = [executor EXCEPT !.reservation = TRUE] /\ debt' = Idle
    /\ work' = [work EXCEPT !.step = "drop"]
    /\ UNCHANGED <<target, active, round, wait, abandoned, fdebt, waiters, gatewait, pc, doomed, owed, cancels>>

drop_request ==
    /\ work.step = "drop"
    /\ Dropped(work.request.caller, fdebt)
    /\ work' = [work EXCEPT !.step = "reply"]
    /\ UNCHANGED <<target, executor, round, wait, abandoned, debt, waiters, pc, doomed, cancels>>

\* and complete_kernel comes last.
complete_kernel ==
    /\ work.step = "reply"
    /\ wait' = Offered("kernel") /\ work' = NoWork
    /\ UNCHANGED <<target, active, executor, round, abandoned, debt, fdebt, waiters, gatewait, pc, doomed, owed, cancels>>

-----------------------------------------------------------------------------
(* The backend and the finalization debt.                                  *)

\* The backend of the pending close finishes, and notifies.
retire ==
    /\ target.pending /\ ~target.finished
    /\ target' = [target EXCEPT !.finished = TRUE]
    /\ waiters' = {}
    /\ debt' = IF waiters # {} THEN Woken(debt) ELSE debt
    /\ UNCHANGED <<active, executor, round, wait, abandoned, work, fdebt, gatewait, pc, doomed, owed, cancels>>

finalize_take ==
    /\ fdebt.status = "queued"
    /\ fdebt' = [fdebt EXCEPT !.status = "running"]
    /\ UNCHANGED <<target, active, executor, round, wait, abandoned, debt, work, waiters, gatewait, pc, doomed, owed, cancels>>

\* advance_finalization_drain under the gate; it yields to a managed batch.
finalize_step ==
    LET result == drain_batch(target, Turn) IN
    /\ fdebt.status = "running"
    /\ IF active
       THEN fdebt' = [fdebt EXCEPT !.status = "gate"] /\ UNCHANGED target
       ELSE /\ target' = result.target
            /\ fdebt' = [fdebt EXCEPT !.status = IF result.outcome = "Complete" THEN "finished" ELSE "queued"]
    /\ UNCHANGED <<active, executor, round, wait, abandoned, debt, work, waiters, gatewait, pc, doomed, owed, cancels>>

\* The dependency is registered with the end of the batch,
finalize_register ==
    /\ fdebt.status = "gate"
    /\ IF active THEN gatewait' = TRUE /\ fdebt' = [fdebt EXCEPT !.status = "armed"]
       ELSE fdebt' = [Woken(fdebt) EXCEPT !.status = "armed"] /\ UNCHANGED gatewait
    /\ UNCHANGED <<target, active, executor, round, wait, abandoned, debt, work, waiters, pc, doomed, owed, cancels>>

finalize_park ==
    /\ fdebt.status = "armed"
    /\ fdebt' = Parked(fdebt)
    /\ UNCHANGED <<target, active, executor, round, wait, abandoned, debt, work, waiters, gatewait, pc, doomed, owed, cancels>>

-----------------------------------------------------------------------------

Calls == \E c \in Caller : acquire(c) \/ terminate(c)
Waits(c) == begin(c) \/ park_waiting(c) \/ start(c) \/ arm(c) \/ finish_wait(c)
Runs == take \/ step \/ requeue \/ restore_blocked \/ register \/ park \/ complete \/ drop_request \/ complete_kernel
Finalize == finalize_take \/ finalize_step \/ finalize_register \/ finalize_park
Cancels == \E r \in cancels : cancel(r)

Next == Calls \/ (\E c \in Caller : Waits(c)) \/ Cancels \/ Runs \/ retire \/ Finalize

\* The scheduler installs waits, safe points run debts, backends are debts themselves.
Fairness ==
    /\ \A c \in Caller : WF_vars(Waits(c))
    /\ WF_vars(Cancels) /\ WF_vars(Runs) /\ WF_vars(retire) /\ WF_vars(Finalize)

Spec == Init /\ [][Next]_vars /\ Fairness

-----------------------------------------------------------------------------

\* The request exists: with its caller, in the executor or in the hands of the runner.
Requests ==
    Cardinality({c \in Caller : pc[c] = "begin"})
    + (IF executor.request # NoRequest /\ work.step \notin {"register", "park"} THEN 1 ELSE 0)
    + (IF work.step \notin {"idle", "reply"} THEN 1 ELSE 0)

\* The asserts of the executor: at most one batch, a clean executor for every begin, a request
\* and a slot for every start and every run of the debt; and the death is published once, whoever
\* takes the drain over.
OneBatch ==
    /\ Requests = (IF active THEN 1 ELSE 0)
    /\ \A c \in Caller : pc[c] = "begin" =>
          /\ executor.request = NoRequest /\ executor.dependency = 0
          /\ ~executor.activation /\ executor.reservation
    /\ executor.activation => executor.reservation /\ executor.request # NoRequest
    /\ debt.status = "queued" /\ work.step = "idle" => executor.request # NoRequest
    /\ target.published <= 1 /\ (target.fin \in {"PropagateJob", "Done"} => target.published = 1)
    /\ Cardinality(waiters) <= 1

Returned(c) == pc[c] \in {"user", "gone"} /\ c \notin owed
Ended == target.fin = "Done" /\ fdebt.status = "finished"

\* No request holds its caller for ever, whatever of cancel, start, the runner and the backend
\* comes first: the caller returns or departs, its obligation is returned; and a drain that has
\* published the death ends even if every caller is gone.
DrainsEnd ==
    /\ \A c \in Caller : pc[c] # "user" ~> Returned(c)
    /\ target.published = 1 ~> Ended

=============================================================================
