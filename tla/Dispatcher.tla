---------------------------- MODULE Dispatcher ----------------------------
(***************************************************************************)
(* The task that keeps several remote calls in flight over one reply       *)
(* mailbox (librpc, dispatcher.rs).  d is the state of the Dispatcher; its *)
(* calls are spread over five bounded scans (sweeps), a completion FIFO,   *)
(* three kinds of wait sources and the requests (ops) it has handed to the *)
(* Runtime, which Execution models.  An advance is Budget units of the     *)
(* seven phases, each a function of the pair x of d and env.  The service  *)
(* mailboxes, the reply mailbox, the clock and what the Runtime keeps of   *)
(* the task (at, timer, timedOut, awake) are the environment of a phase.   *)
(***************************************************************************)
EXTENDS Naturals, Sequences, FiniteSets, SequencesExt, FiniteSetsExt

CONSTANTS
    Tx,         \* transaction ids in the order of allocation: 1 .. n
    Budget,     \* units of an advance
    Deadline,   \* of a call, an instant
    MaxTime,
    Scenario    \* what a behaviour may contain: calls; faults (cancellations, closed services,
                \* refusals and errors of the Runtime and the kernel); the phase of the first turn,
                \* which depends on the budgets before it; the services that are full

VARIABLES d, env

vars == <<d, env>>

Sweep == [cursor |-> 0, active |-> FALSE, dirty |-> FALSE]
NoCall == [life |-> "none", request |-> FALSE, storage |-> FALSE, timer |-> FALSE, result |-> "none",
           stage |-> "Ready", w |-> "none", c |-> "none", rearm |-> FALSE]

Key(role, tx) == [role |-> role, tx |-> tx]
ReplyKey == Key("r", 0)

Init ==
    \E scenario \in Scenario :
        /\ d = [call |-> [t \in Tx |-> NoCall], next |-> 1, done |-> <<>>, reply |-> "none", replyRearm |-> FALSE,
                registrations |-> Sweep, sends |-> Sweep, removals |-> Sweep, stopping |-> Sweep, retiring |-> Sweep,
                phase |-> scenario.phase, sealed |-> FALSE, ops |-> <<>>, inputs |-> <<>>, awake |-> TRUE, ended |-> FALSE,
                at |-> 0, timer |-> FALSE, timedOut |-> FALSE]
        /\ env = [armed |-> {}, full |-> scenario.full, closed |-> {}, replies |-> <<>>, served |-> {}, clock |-> 0,
                  calls |-> scenario.calls, faults |-> scenario.faults]

Open(s) == {t \in Tx : s.call[t].life = "open"}

-----------------------------------------------------------------------------
(* Sweeps (outbound.rs).                                                   *)

\* Work that arrives during a scan asks for another one.
request(w) == IF w.active THEN [w EXCEPT !.dirty = TRUE] ELSE [w EXCEPT !.active = TRUE]

\* The next call of a scan, and the scan after it; 0 when it found none.
next_candidate(s, w) ==
    LET rest == {t \in Open(s) : t > w.cursor} IN
    IF ~w.active THEN [tx |-> 0, sweep |-> w]
    ELSE IF rest # {} THEN [tx |-> Min(rest), sweep |-> [w EXCEPT !.cursor = Min(rest)]]
    ELSE [tx |-> 0, sweep |-> [cursor |-> 0, active |-> w.dirty, dirty |-> FALSE]]

-----------------------------------------------------------------------------
(* Calls.                                                                  *)

clean(c) == c.w = "none" /\ c.c = "none"

\* Mutant: a finished call is offered while its sources are still registered.
queue_completion_Early(s, t) ==
    IF s.call[t].life = "open" /\ s.call[t].result # "none" /\ ~Contains(s.done, t)
    THEN [s EXCEPT !.done = Append(@, t)] ELSE s

\* A finished call is offered once none of its sources is left.
queue_completion(s, t) ==
    IF s.call[t].life = "open" /\ s.call[t].result # "none" /\ ~Contains(s.done, t) /\ clean(s.call[t])
    THEN [s EXCEPT !.done = Append(@, t)] ELSE s

\* The first result of a call is the one it has.
complete(s, t, result) ==
    IF s.call[t].life # "open" \/ s.call[t].result # "none" THEN s
    ELSE queue_completion(
            [s EXCEPT !.call[t] = [@ EXCEPT !.result = result, !.stage = "Terminal", !.timer = FALSE, !.storage = FALSE],
                      !.removals = request(@), !.retiring = request(@)], t)

begin_stop(s) ==
    IF s.sealed THEN s
    ELSE [s EXCEPT !.sealed = TRUE, !.stopping = request(@), !.removals = request(@), !.retiring = request(@)]

take(s, t) ==
    IF ~Contains(s.done, t) THEN s
    ELSE [s EXCEPT !.call[t].life = "taken", !.done = SelectSeq(@, LAMBDA x : x # t)]

\* begin_for: the call, its two bindings and its timer are prepared together; the owner then
\* wakes the task.
begin_for ==
    /\ ~d.sealed /\ ~d.ended /\ d.next \in env.calls /\ ~(Deadline[d.next] <= env.clock)
    /\ d' = [d EXCEPT !.call[d.next] = [NoCall EXCEPT !.life = "open", !.request = TRUE, !.storage = TRUE, !.timer = TRUE],
                      !.next = @ + 1, !.registrations = request(@), !.sends = request(@), !.awake = TRUE]
    /\ UNCHANGED env

\* The owner takes a completion, or gives up waiting for one.
take_completion ==
    /\ \E t \in ToSet(d.done) : d' = take(d, t)
    /\ UNCHANGED env

cancel ==
    /\ env.faults # 0
    /\ \E t \in Open(d) : d.call[t].result = "none" /\ d' = [complete(d, t, "shutdown") EXCEPT !.awake = TRUE]
    /\ env' = [env EXCEPT !.faults = @ - 1]

stop ==
    /\ ~d.sealed
    /\ d' = [begin_stop(d) EXCEPT !.awake = TRUE]
    /\ UNCHANGED env

-----------------------------------------------------------------------------
(* The seven phases.                                                       *)

Expired(e, t) == Deadline[t] <= e.clock

Declare(s, kind, key) == [s EXCEPT !.ops = Append(@, [kind |-> kind, key |-> key])]

has_immediate_work(s) ==
    \/ s.registrations.active \/ s.sends.active \/ s.removals.active \/ s.stopping.active \/ s.retiring.active
    \/ ~s.sealed /\ (s.replyRearm \/ s.reply = "none")

Complete(s) == s.sealed /\ Open(s) = {} /\ s.reply = "none"

\* receive_replies and Reply::accept: a reply without a waiter is dropped; a reply after the
\* deadline is a timeout.
Received(s, e, t) ==
    IF s.call[t].life = "open" /\ ~s.call[t].request /\ s.call[t].result = "none"
    THEN complete([s EXCEPT !.call[t].storage = FALSE], t, IF Expired(e, t) THEN "timeout" ELSE "reply") ELSE s

process_event(x) ==
    IF x.d.inputs = <<>> THEN x
    ELSE LET e == Head(x.d.inputs)
             s == [x.d EXCEPT !.inputs = Tail(@)]
             t == e.key.tx
         IN  IF e.key = ReplyKey
             THEN IF e.error THEN [x EXCEPT !.d = begin_stop(s)]
                  ELSE IF x.e.replies = <<>> THEN [x EXCEPT !.d = [s EXCEPT !.replyRearm = TRUE]]
                  ELSE [d |-> [Received(s, x.e, Head(x.e.replies)) EXCEPT !.replyRearm = TRUE],
                        e |-> [x.e EXCEPT !.replies = Tail(@)]]
             ELSE [x EXCEPT !.d = IF s.call[t].life # "open" THEN s
                                  ELSE IF e.error THEN complete(s, t, "error")
                                  ELSE IF e.closed \/ e.key.role = "c" THEN complete(s, t, "closed")
                                  ELSE [s EXCEPT !.call[t].stage = IF @ = "WaitingWritable" THEN "Ready" ELSE @,
                                                 !.sends = request(@)]]

\* One expired timer; a timeout that finds none keeps the phase.
expire(x) ==
    LET late == {t \in Open(x.d) : x.d.call[t].timer /\ Expired(x.e, t)}
        s == [x.d EXCEPT !.timedOut = FALSE]
        t == Min({u \in late : \A v \in late : Deadline[u] <= Deadline[v]})
    IN  [x EXCEPT !.d = IF late # {} THEN complete([s EXCEPT !.call[t].timer = FALSE], t, "timeout")
                        ELSE IF x.d.timedOut THEN [s EXCEPT !.phase = 1] ELSE s]

\* What a call of the registration scan still has to ask for: its sources, or to rearm one.
Registered(s, t) ==
    LET c == s.call[t]
        closed == c.c = "none"
        fresh == c.request /\ c.w = "none"
        again == c.request /\ c.w = "on" /\ c.rearm
        p == IF closed THEN [Declare(s, "arm", Key("c", t)) EXCEPT !.call[t].c = "requested"] ELSE s
        q == IF fresh THEN [Declare(p, "arm", Key("w", t)) EXCEPT !.call[t].w = "requested"]
             ELSE IF again THEN [Declare(p, "rearm", Key("w", t)) EXCEPT !.call[t].rearm = FALSE] ELSE p
        incomplete == c.c \notin {"on", "removing"} \/ (c.request /\ c.w \notin {"on", "removing"})
    IN  IF c.result # "none" THEN s
        ELSE IF closed \/ fresh \/ again \/ incomplete THEN [q EXCEPT !.registrations = request(@)] ELSE q

\* The reply source comes before those of the calls.
declare_registrations(x) ==
    LET s == x.d
        n == next_candidate(s, s.registrations)
    IN  [x EXCEPT !.d =
            IF s.sealed THEN [s EXCEPT !.registrations = Sweep]
            ELSE IF s.reply = "none" THEN [Declare(s, "arm", ReplyKey) EXCEPT !.reply = "requested"]
            ELSE IF s.replyRearm
            THEN IF s.reply = "on" THEN [Declare(s, "rearm", ReplyKey) EXCEPT !.replyRearm = FALSE]
                 ELSE [s EXCEPT !.registrations = request(@)]
            ELSE IF n.tx = 0 THEN [s EXCEPT !.registrations = n.sweep]
            ELSE Registered([s EXCEPT !.registrations = n.sweep], n.tx)]

\* progress_send: the kernel answers at once whether it took the request.
progress_send(x, t) ==
    IF t \in x.e.closed THEN [x EXCEPT !.d = complete(@, t, "closed")]
    ELSE IF Expired(x.e, t) THEN [x EXCEPT !.d = complete(@, t, "timeout")]
    ELSE IF t \in x.e.full
    THEN [x EXCEPT !.d = [@ EXCEPT !.call[t].stage = "WaitingWritable", !.call[t].rearm = TRUE, !.registrations = request(@)]]
    ELSE [d |-> [x.d EXCEPT !.call[t].stage = "Sent", !.call[t].request = FALSE, !.removals = request(@)],
          e |-> [x.e EXCEPT !.served = @ \cup {t}]]

Held(st) == st \in {"on", "removing"}

\* No request is sent before everything that can end the call is observed.
progress_sends(x) ==
    LET n == next_candidate(x.d, x.d.sends)
        y == [x EXCEPT !.d = [@ EXCEPT !.sends = n.sweep]]
        c == x.d.call[n.tx]
    IN  IF n.tx = 0 \/ x.d.sealed THEN y
        ELSE IF c.stage = "Ready" /\ c.request /\ c.result = "none" /\ Held(c.w) /\ Held(c.c) /\ Held(x.d.reply)
        THEN progress_send(y, n.tx) ELSE y

\* What a call of the removal scan can let go of.
Removed(s, t) ==
    LET c == s.call[t]
        writable == (~c.request \/ c.result # "none") /\ c.w = "on"
        closed == c.result # "none" /\ c.c = "on"
        p == IF writable THEN [Declare(s, "remove", Key("w", t)) EXCEPT !.call[t].w = "removing"] ELSE s
        q == IF closed THEN [Declare(p, "remove", Key("c", t)) EXCEPT !.call[t].c = "removing"] ELSE p
        retry == writable \/ closed \/ (c.result # "none" /\ ~clean(q.call[t]))
    IN  queue_completion([q EXCEPT !.removals = IF retry THEN request(@) ELSE @], t)

declare_removals(x) ==
    LET s == x.d
        n == next_candidate(s, s.removals)
        v == [s EXCEPT !.removals = n.sweep]
    IN  [x EXCEPT !.d = IF s.sealed /\ s.reply = "on" THEN [Declare(s, "remove", ReplyKey) EXCEPT !.reply = "removing"]
                        ELSE IF n.tx = 0 THEN v ELSE Removed(v, n.tx)]

finish_one(x) ==
    LET n == next_candidate(x.d, x.d.stopping)
        s == [x.d EXCEPT !.stopping = n.sweep]
    IN  [x EXCEPT !.d = IF n.tx = 0 THEN s ELSE complete(s, n.tx, "shutdown")]

retire_abandoned(x) ==
    LET n == next_candidate(x.d, x.d.retiring)
        s == [x.d EXCEPT !.retiring = n.sweep]
    IN  [x EXCEPT !.d = IF ~x.d.sealed THEN [x.d EXCEPT !.retiring = Sweep]
                        ELSE IF n.tx = 0 THEN s ELSE take(s, n.tx)]

Unit(x) ==
    LET y == [x EXCEPT !.d.phase = (@ + 1) % 7] IN
    CASE x.d.phase = 0 -> process_event(y)
      [] x.d.phase = 1 -> expire(y)
      [] x.d.phase = 2 -> declare_registrations(y)
      [] x.d.phase = 3 -> progress_sends(y)
      [] x.d.phase = 4 -> declare_removals(y)
      [] x.d.phase = 5 -> finish_one(y)
      [] x.d.phase = 6 -> retire_abandoned(y)

\* One more unit; the state is a singleton set.
Units(X, i) == {Unit(x) : x \in X}

\* The deadline the task reports, and what the Runtime makes of it: a deadline it has already
\* reported is not armed again.
NextDeadline(s) ==
    LET timers == {Deadline[t] : t \in {u \in Open(s) : s.call[u].timer}} IN
    IF s.sealed \/ timers = {} THEN 0 ELSE Min(timers)

Reported(s) == IF s.at = NextDeadline(s) THEN s ELSE [s EXCEPT !.at = NextDeadline(s), !.timer = NextDeadline(s) # 0]

\* An advance, with what it returns: complete, runnable or parked.
advance ==
    /\ d.awake /\ ~d.ended /\ d.ops = <<>>
    /\ \E x \in FoldLeft(Units, {[d |-> d, e |-> env]}, [i \in 1 .. Budget |-> i]) :
           LET s == Reported(x.d) IN
           /\ d' = [s EXCEPT !.awake = ~Complete(s) /\ (s.inputs # <<>> \/ s.timedOut \/ has_immediate_work(s)),
                             !.ended = Complete(s)]
           /\ env' = x.e

-----------------------------------------------------------------------------
(* The answers of the Runtime to the requests of an advance, one at a time.*)

Op == Head(d.ops)
Answered == [d EXCEPT !.ops = Tail(@)]
SetSource(s, key, st) ==
    IF key = ReplyKey THEN [s EXCEPT !.reply = st]
    ELSE IF key.role = "w" THEN [s EXCEPT !.call[key.tx].w = st] ELSE [s EXCEPT !.call[key.tx].c = st]

registered ==
    /\ d.ops # <<>> /\ Op.kind = "arm"
    /\ LET s == SetSource(Answered, Op.key, "on") IN
       d' = IF Op.key = ReplyKey THEN s
            ELSE [s EXCEPT !.registrations = request(@), !.sends = request(@), !.removals = request(@)]
    /\ env' = [env EXCEPT !.armed = @ \cup {Op.key}]

\* A refused registration ends the call; a refused reply source ends the Dispatcher.
refused ==
    /\ d.ops # <<>> /\ Op.kind = "arm" /\ env.faults # 0
    /\ LET s == [SetSource(Answered, Op.key, "none") EXCEPT !.awake = TRUE] IN
       d' = IF Op.key = ReplyKey THEN begin_stop(s) ELSE complete(s, Op.key.tx, "error")
    /\ env' = [env EXCEPT !.faults = @ - 1]

\* A rearm that fails is an event of the source.
rearmed ==
    /\ d.ops # <<>> /\ Op.kind = "rearm"
    /\ \/ /\ d' = Answered
          /\ env' = IF \E e \in ToSet(d.inputs) : e.key = Op.key THEN env ELSE [env EXCEPT !.armed = @ \cup {Op.key}]
       \/ /\ env.faults # 0 /\ \A e \in ToSet(d.inputs) : e.key # Op.key
          /\ d' = [Answered EXCEPT !.inputs = Append(@, [key |-> Op.key, closed |-> FALSE, error |-> TRUE]), !.awake = TRUE]
          /\ env' = [env EXCEPT !.faults = @ - 1]

\* unregistered; events of the source that were not pulled go with it.
unregistered ==
    /\ d.ops # <<>> /\ Op.kind = "remove"
    /\ LET s == [SetSource(Answered, Op.key, "none") EXCEPT
                     !.awake = TRUE, !.inputs = SelectSeq(@, LAMBDA e : e.key # Op.key)]
       IN  d' = IF Op.key = ReplyKey THEN s ELSE [queue_completion(s, Op.key.tx) EXCEPT !.retiring = request(@)]
    /\ env' = [env EXCEPT !.armed = @ \ {Op.key}]

-----------------------------------------------------------------------------
(* External: the kernel, the services and time.                            *)

Level(key) ==
    CASE key.role = "r" -> env.replies # <<>>
      [] key.role = "c" -> key.tx \in env.closed
      [] key.role = "w" -> key.tx \in env.closed \/ key.tx \notin env.full

event ==
    /\ ~d.ended
    /\ \E key \in env.armed :
          /\ Level(key)
          /\ d' = [d EXCEPT !.inputs = Append(@, [key |-> key, closed |-> key.role # "r" /\ key.tx \in env.closed, error |-> FALSE]),
                            !.awake = TRUE]
          /\ env' = [env EXCEPT !.armed = @ \ {key}]

reply ==
    /\ \E t \in env.served : env' = [env EXCEPT !.served = @ \ {t}, !.replies = Append(@, t)]
    /\ UNCHANGED d

drain ==
    /\ \E t \in env.full : env' = [env EXCEPT !.full = @ \ {t}]
    /\ UNCHANGED d

close ==
    /\ env.faults # 0
    /\ \E t \in Open(d) \ env.closed : env' = [env EXCEPT !.closed = @ \cup {t}, !.served = @ \ {t}, !.faults = @ - 1]
    /\ UNCHANGED d

tick ==
    /\ env.clock < MaxTime
    /\ env' = [env EXCEPT !.clock = @ + 1]
    /\ UNCHANGED d

\* The Runtime wakes the task for the deadline it reported.
timeout ==
    /\ d.timer /\ d.at <= env.clock /\ ~d.ended
    /\ d' = [d EXCEPT !.timer = FALSE, !.timedOut = TRUE, !.awake = TRUE]
    /\ UNCHANGED env

Next ==
    \/ begin_for \/ take_completion \/ cancel \/ stop
    \/ advance \/ registered \/ refused \/ rearmed \/ unregistered
    \/ event \/ reply \/ drain \/ close \/ tick \/ timeout

Spec == Init /\ [][Next]_vars

-----------------------------------------------------------------------------

\* A call keeps exactly what it still has to account for: an unsent request or nothing, the prepaid
\* storage of a reply until it has a result, and no source of its own once it is offered as done.
CallsOwn ==
    \A t \in Open(d) :
        LET c == d.call[t] IN
        /\ c.stage = "Sent" => ~c.request
        /\ c.storage <=> c.result = "none"
        /\ Contains(d.done, t) => clean(c) /\ c.result # "none" /\ \A k \in env.armed : k.tx # t
        /\ c.result = "reply" => ~c.request

\* A call never changes its result, and a request that was sent stays sent.
ResultStep ==
    \A t \in Tx : /\ d.call[t].result # "none" => d'.call[t].result = d.call[t].result
                  /\ d.call[t].life = "open" /\ ~d.call[t].request => ~d'.call[t].request
ResultOnce == [][ResultStep]_vars

\* The task is parked, the Runtime has nothing to deliver to it and time is over.
Quiet ==
    /\ ~d.awake /\ d.ops = <<>> /\ \A key \in env.armed : ~Level(key)
    /\ env.clock = MaxTime /\ ~(d.timer /\ d.at <= env.clock)

\* The task never parks on unfinished work: when nothing can wake it any more, every call that its
\* owner has not taken is offered, whether it ended by reply, closure, deadline, refusal or stop.
QuietIsOffered == Quiet => Open(d) \subseteq ToSet(d.done)

\* A stopped Dispatcher retires every call, also those that no owner takes, and completes.
StoppedIsRetired == Quiet /\ d.sealed => d.ended

=============================================================================
