------------------------------ MODULE Ingress ------------------------------
(***************************************************************************)
(* The file service's request path (src/user/services/srv_fs/src/server.rs)*)
(* from the mailbox to the reply: the Ingress task turns one message into  *)
(* one task through the runtime's gate, request tasks commit their work,   *)
(* Read and Delegate tasks call other providers through the one            *)
(* Dispatcher, and the Release task stops it all.  One action is one turn  *)
(* of the service's loop: one task's advance and the dispatch that follows *)
(* it, or one gate operation.  The Outbox is the one of Replies.tla        *)
(* without the full mailbox; a downstream call is the one of               *)
(* Dispatcher.tla reduced to its outcome.                                  *)
(***************************************************************************)
EXTENDS Integers, Sequences, FiniteSets

CONSTANTS N,            \* requests 1..N
          Slots,        \* task slots the runtime has for requests
          Calls,        \* calls the Dispatcher holds at once
          Exports,      \* directory handles in the value a Read returns
          Scenarios     \* [kind |-> what each request is, mood |-> the disturbances]

VARIABLES g, sc
vars == <<g, sc>>

Request == 1..N
Ing == 0            \* the Ingress task
Rel == -1           \* the Release task
Entries == {Ing, Rel}
Token == N + 1      \* the affine value the property holds at first

Has(m) == m \in sc.mood
Kind(i) == sc.kind[i]

NoGate == [task |-> 0, ops |-> <<>>, step |-> "none"]
Entry == [live |-> TRUE, src |-> FALSE, requested |-> FALSE, removing |-> FALSE, armed |-> FALSE,
          event |-> FALSE, stopping |-> FALSE, gate_pending |-> FALSE, refusal |-> 0]
Box == [src |-> FALSE, requested |-> FALSE, removing |-> FALSE, event |-> FALSE, late |-> FALSE, res |-> "none"]
Task == [st |-> "none", committed |-> FALSE, recorded |-> FALSE, status |-> "none", down |-> "none",
         result |-> "none", left |-> 0, got |-> 0, hold |-> 0, reserved |-> FALSE]

Init ==
  /\ sc \in Scenarios
  /\ g = [unsent |-> Request, mail |-> <<>>, gone |-> {}, answer |-> [i \in Request |-> "none"],
          en |-> [e \in Entries |-> Entry], box |-> [i \in Request |-> Box], req |-> [i \in Request |-> Task],
          ready |-> <<Ing, Rel>>, gate |-> NoGate, bound |-> {}, cancelled |-> {},
          tree |-> Token, reserved |-> FALSE, given |-> [i \in Request |-> 0],
          committed |-> 0, abandoned |-> 0, signal |-> FALSE, stop |-> FALSE, sealed |-> FALSE, fault |-> FALSE]

(*-- The runtime: ready queue, gate --*)
Live(h) == {e \in Entries : h.en[e].live} \cup {i \in Request : h.req[i].st = "live"}
Queued(h) == {h.ready[k] : k \in DOMAIN h.ready}
schedule(h, t) == IF t \in Live(h) \ Queued(h) THEN [h EXCEPT !.ready = Append(@, t)] ELSE h

\* finish_advance: Complete retires the task, Parked keeps it when input is waiting.
Waiting(h, t) == IF t \in Entries THEN h.en[t].event \/ (h.en[t].refusal # 0 /\ (h.box[h.en[t].refusal].event \/ h.box[h.en[t].refusal].late))
                 ELSE h.box[t].event \/ h.box[t].late
finish_advance(h, t, step) ==
  CASE step = "Complete" -> IF t \in Entries THEN [h EXCEPT !.en[t].live = FALSE] ELSE [h EXCEPT !.req[t].st = "done"]
    [] step = "Runnable" -> schedule(h, t)
    [] OTHER -> IF Waiting(h, t) THEN schedule(h, t) ELSE h

\* An advance that asked for operations waits in the gate until they are answered.
Enter(r, t) == IF r.ops = <<>> THEN finish_advance(r.h, t, r.step)
               ELSE [r.h EXCEPT !.gate = [task |-> t, ops |-> r.ops, step |-> r.step]]

(*-- The Outbox of request i; b is its record, ops what it asks for --*)
Abandon(b) == IF b.res = "none" THEN [b EXCEPT !.res = "lost"] ELSE b
Observe(b) == LET c == IF b.event THEN Abandon(b) ELSE b
                  d == IF b.late THEN Abandon(c) ELSE c
              IN [d EXCEPT !.event = FALSE, !.late = FALSE]
Register(h, i) ==
  LET b == h.box[i] IN
  IF b.res # "none" \/ b.src \/ b.requested \/ b.removing THEN [h |-> h, ops |-> <<>>]
  ELSE [h |-> [h EXCEPT !.box[i].requested = TRUE], ops |-> <<<<"add", i>>>>]

admit(h, i) == LET r == Register(h, i) IN [h |-> r.h, ops |-> r.ops, step |-> "Runnable"]

drive(h, i) ==
  LET r == Register(h, i)
      b == r.h.box[i]
      sends == b.res = "none" /\ b.src
      sent == IF sends /\ i \notin h.gone THEN "sent" ELSE IF sends THEN "lost" ELSE b.res
      c == [b EXCEPT !.res = sent, !.removing = @ \/ (sent # "none" /\ b.src)]
      k == [r.h EXCEPT !.box[i] = c,
                       !.answer[i] = IF sends /\ sent = "sent" THEN h.req[i].status ELSE @,
                       !.given[i] = IF sends /\ sent = "sent" THEN h.req[i].hold ELSE @,
                       !.req[i].hold = IF sends /\ sent = "sent" THEN 0 ELSE @]
  IN [h |-> k, ops |-> IF c.removing /\ ~b.removing THEN Append(r.ops, <<"remove", i>>) ELSE r.ops,
      step |-> IF c.res # "none" /\ ~c.src /\ ~c.requested /\ ~c.removing THEN "Complete"
               ELSE IF c.res # "none" \/ c.requested \/ c.removing THEN "Runnable" ELSE "Parked"]

IsComplete(b) == b.res # "none" /\ ~b.src /\ ~b.requested /\ ~b.removing

(*-- Ingress --*)
\* reject_task: the refused task's Outbox becomes the refusal the Ingress delivers itself.
reject_task(h, i) ==
  [h EXCEPT !.en[Ing].gate_pending = FALSE, !.en[Ing].refusal = i,
            !.box[i] = IF h.en[Ing].stopping THEN Abandon(@) ELSE @,
            !.req[i].status = IF h.en[Ing].stopping THEN @ ELSE "quota"]

Rearm(h) == [h |-> h, ops |-> <<<<"rearm", Ing>>>>, step |-> "Parked"]

\* The stopping branch of advance.
Stopping(h) ==
  LET e == h.en[Ing]
      drops == e.src /\ ~e.removing
      k == [h EXCEPT !.en[Ing].removing = @ \/ drops]
      ops == IF drops THEN <<<<"remove", Ing>>>> ELSE <<>>
      r == drive([k EXCEPT !.box[e.refusal] = Abandon(@)], e.refusal)
      step == IF ~e.src /\ ~e.requested /\ ~e.gate_pending THEN "Complete" ELSE "Parked"
  IN IF e.refusal = 0 THEN [h |-> k, ops |-> ops, step |-> step]
     ELSE IF IsComplete(r.h.box[e.refusal])
     THEN [h |-> [r.h EXCEPT !.en[Ing].refusal = 0], ops |-> ops \o r.ops, step |-> step]
     ELSE [h |-> r.h, ops |-> ops \o r.ops, step |-> r.step]

\* The refusal branch: the source is armed again once the reply has settled.
Refusing(h) ==
  LET i == h.en[Ing].refusal
      r == IF h.box[i].res = "none" /\ ~h.box[i].src THEN admit(h, i) ELSE drive(h, i)
  IN IF IsComplete(r.h.box[i]) THEN Rearm([r.h EXCEPT !.en[Ing].refusal = 0]) ELSE r

\* What the task of request i starts with: a Read holds the handles it must export, a
\* Delegate the call it must make.
Prepared(i) ==
  [Task EXCEPT !.st = "asked", !.left = IF Kind(i) = "read" THEN Exports ELSE 0,
               !.down = CASE Kind(i) = "delegate" -> "ready" [] Kind(i) = "read" -> "queued" [] OTHER -> "none"]
Decodes(i) == Kind(i) # "malformed"
Granted(i) == Kind(i) # "revoked"

\* One message: dropped without an answer when it is malformed or its grant is
\* gone, else the task for it is spawned (the gate's list is empty, so it takes it).
Receive(h) ==
  LET i == Head(h.mail)
      k == [h EXCEPT !.mail = Tail(@)]
  IN IF h.mail = <<>> THEN Rearm(h)
     ELSE IF ~Decodes(i) \/ ~Granted(i) THEN Rearm([k EXCEPT !.answer[i] = "dropped"])
     ELSE [h |-> [k EXCEPT !.en[Ing].gate_pending = TRUE, !.req[i] = Prepared(i)],
           ops |-> <<<<"spawn", i>>>>, step |-> "Runnable"]

ingress_advance(h) ==
  LET e == h.en[Ing]
      k == IF e.refusal = 0 THEN [h EXCEPT !.en[Ing].event = FALSE]
           ELSE [h EXCEPT !.en[Ing].event = FALSE, !.box[e.refusal] = Observe(@)]
  IN CASE e.stopping -> Stopping(k)
       [] ~e.stopping /\ e.refusal # 0 -> Refusing(k)
       [] ~e.stopping /\ e.refusal = 0 /\ e.gate_pending -> Rearm([k EXCEPT !.en[Ing].gate_pending = FALSE])
       [] ~e.stopping /\ e.refusal = 0 /\ ~e.gate_pending /\ ~e.src /\ ~e.requested ->
            [h |-> [k EXCEPT !.en[Ing].requested = TRUE], ops |-> <<<<"add", Ing>>>>, step |-> "Runnable"]
       [] OTHER -> IF e.event THEN Receive(k) ELSE [h |-> k, ops |-> <<>>, step |-> "Parked"]

(*-- ReleaseTask --*)
release_advance(h) ==
  LET e == h.en[Rel]
      k == [h EXCEPT !.en[Rel].event = FALSE, !.en[Rel].stopping = @ \/ e.event, !.stop = @ \/ e.event]
      drops == e.src /\ ~e.removing
  IN IF k.en[Rel].stopping
     THEN [h |-> [k EXCEPT !.en[Rel].removing = @ \/ drops],
           ops |-> IF drops THEN <<<<"remove", Rel>>>> ELSE <<>>,
           step |-> IF ~e.src /\ ~e.requested THEN "Complete" ELSE "Parked"]
     ELSE IF ~e.src /\ ~e.requested
     THEN [h |-> [k EXCEPT !.en[Rel].requested = TRUE], ops |-> <<<<"add", Rel>>>>, step |-> "Runnable"]
     ELSE [h |-> k, ops |-> <<>>, step |-> "Parked"]

(*-- RequestTask: V2 requests and Take --*)
record_response(h, i, business) ==
  [h EXCEPT !.req[i].recorded = TRUE, !.committed = @ + (IF business THEN 1 ELSE 0),
            !.abandoned = @ + (IF h.box[i].res = "lost" THEN 1 ELSE 0)]

\* serve_v2: a write replaces the property unless a Take has reserved it.
serve_v2(h, i) ==
  LET k == [h EXCEPT !.req[i].committed = TRUE] IN
  IF Kind(i) # "write" THEN [k EXCEPT !.req[i].status = "ok"]
  ELSE IF h.reserved THEN [k EXCEPT !.req[i].status = "busy"]
  ELSE [k EXCEPT !.req[i].status = "ok", !.tree = i]

take_drive(h, i) ==
  LET k == [h EXCEPT !.req[i].committed = TRUE] IN
  IF h.reserved \/ h.tree = 0 THEN [k EXCEPT !.req[i].status = "busy"]
  ELSE [k EXCEPT !.req[i].status = "ok", !.req[i].hold = h.tree, !.req[i].reserved = TRUE,
                 !.tree = 0, !.reserved = TRUE]

\* TakeOperation::finalize commits when the reply was sent and puts the value back when not.
finalize(h, i) ==
  LET k == [h EXCEPT !.reserved = FALSE, !.req[i].reserved = FALSE, !.req[i].hold = 0] IN
  IF h.box[i].res = "sent" THEN k ELSE [k EXCEPT !.tree = h.req[i].hold]

request_advance(h, i) ==
  LET k == [h EXCEPT !.box[i] = Observe(@)]
      serves == ~k.req[i].committed /\ k.box[i].res = "none"
      r == drive(IF serves THEN (IF Kind(i) = "take" THEN take_drive(k, i) ELSE serve_v2(k, i)) ELSE k, i)
      t == r.h.req[i]
      f == IF t.reserved THEN finalize(r.h, i) ELSE r.h
  IN IF serves /\ ~k.box[i].src THEN admit(k, i)
     ELSE IF r.step = "Complete" /\ t.committed /\ ~t.recorded
     THEN [r EXCEPT !.h = record_response(f, i, IF Kind(i) = "take" THEN t.reserved /\ r.h.box[i].res = "sent" ELSE TRUE)]
     ELSE r

(*-- DownstreamState and the one Dispatcher --*)
\* abandon_downstream: a submitted call is cancelled and awaited, any other is forgotten.
abandon_downstream(h, i) ==
  CASE h.req[i].down = "pending" -> [h |-> [h EXCEPT !.req[i].down = "cancelling"], return |-> TRUE, intent |-> "cancel"]
    [] h.req[i].down = "cancelling" -> [h |-> h, return |-> TRUE, intent |-> "none"]
    [] OTHER -> [h |-> [h EXCEPT !.req[i].down = "queued"], return |-> FALSE, intent |-> "none"]

Out(r, intent) == [h |-> r.h, ops |-> r.ops, step |-> r.step, intent |-> intent]
Park(h, intent) == [h |-> h, ops |-> <<>>, step |-> "Parked", intent |-> intent]

\* consume_completion: the exported handle takes its place, a failure is the status.
consume_completion(h, i) ==
  IF h.req[i].down # "complete" THEN h
  ELSE IF h.req[i].result = "ok" THEN [h EXCEPT !.req[i].down = "queued", !.req[i].got = @ + 1]
  ELSE [h EXCEPT !.req[i].down = "queued", !.req[i].status = "failed"]

read_encode(h, i) == [h EXCEPT !.req[i].committed = TRUE, !.req[i].status = IF @ = "none" THEN "ok" ELSE @]

begin_next_export(h, i) == [h EXCEPT !.req[i].left = @ - 1, !.req[i].down = "ready"]

\* Until its reply settles a Read exports its directory handles one call at a time.
read_advance(h, i) ==
  LET o == [h EXCEPT !.box[i] = IF h.stop THEN Abandon(Observe(@)) ELSE Observe(@)]
      lost == o.box[i].res # "none"
      a == abandon_downstream([o EXCEPT !.req[i].committed = TRUE], i)
      c == consume_completion(IF lost THEN a.h ELSE o, i)
      t == c.req[i]
      e == IF t.committed THEN c ELSE read_encode(c, i)
      r == drive(e, i)
  IN IF lost /\ a.return THEN Park(a.h, a.intent)
     ELSE IF ~lost /\ ~o.box[i].src THEN Out(admit(o, i), "none")
     ELSE IF ~t.committed /\ t.status = "none" /\ t.down = "queued" /\ t.left > 0
     THEN [h |-> begin_next_export(c, i), ops |-> <<>>, step |-> "Runnable", intent |-> "none"]
     ELSE IF t.down = "ready" THEN Park([c EXCEPT !.req[i].down = "queued"], "submit")
     ELSE IF t.down = "pending" THEN Park(c, "none")
     ELSE IF r.step = "Complete" /\ ~t.recorded THEN Out([r EXCEPT !.h = record_response(@, i, TRUE)], "none")
     ELSE Out(r, "none")

encode_completion(h, i) ==
  [h EXCEPT !.req[i].down = "queued", !.req[i].committed = TRUE,
            !.req[i].status = IF h.req[i].result = "ok" THEN "ok" ELSE "failed",
            !.req[i].got = IF h.req[i].result = "ok" THEN @ + 1 ELSE @]

delegate_advance(h, i) ==
  LET o == [h EXCEPT !.box[i] = IF h.stop THEN Abandon(Observe(@)) ELSE Observe(@)]
      lost == o.box[i].res # "none"
      a == abandon_downstream(o, i)
      c == IF ~o.req[i].committed /\ o.req[i].down = "complete" THEN encode_completion(o, i) ELSE o
      r == drive(c, i)
  IN IF ~o.req[i].committed /\ lost
     THEN IF a.return THEN Park(a.h, a.intent) ELSE Out(drive(a.h, i), "none")
     ELSE IF ~lost /\ ~o.box[i].src THEN Out(admit(o, i), "none")
     ELSE IF o.req[i].down = "ready" THEN Park([o EXCEPT !.req[i].down = "queued"], "submit")
     ELSE IF ~c.req[i].committed THEN Park(c, "none")
     ELSE IF r.step = "Complete" /\ ~c.req[i].recorded THEN Out([r EXCEPT !.h = record_response(@, i, TRUE)], "none")
     ELSE Out(r, "none")

\* submitted and completed assert the state they leave.
completed(h, i, result) ==
  LET k == [h EXCEPT !.req[i].down = "complete", !.req[i].result = result, !.fault = @ \/ h.req[i].st # "live"] IN
  schedule(k, i)

\* progress_dispatch: the intent an advance left is handed to the Dispatcher in the same turn.
progress_dispatch(h, i, intent) ==
  CASE intent = "submit" ->
         IF Cardinality(h.bound) < Calls /\ ~h.sealed
         THEN [h EXCEPT !.bound = @ \cup {i}, !.req[i].down = "pending", !.fault = @ \/ h.req[i].down # "queued"]
         ELSE completed(h, i, "failed")
    [] intent = "cancel" -> [h EXCEPT !.cancelled = @ \cup (h.bound \cap {i})]
    [] OTHER -> h

TaskAdvance(h, t) ==
  CASE t = Ing -> Out(ingress_advance(h), "none")
    [] t = Rel -> Out(release_advance(h), "none")
    [] OTHER -> CASE Kind(t) = "read" -> read_advance(h, t)
                  [] Kind(t) = "delegate" -> delegate_advance(h, t)
                  [] OTHER -> Out(request_advance(h, t), "none")

(*-- The service's loop --*)
Loops == ~(g.stop /\ ~g.sealed)     \* a stop seals the runtime before the next turn

advance_one ==
  /\ Loops /\ g.gate = NoGate /\ g.ready # <<>>
  /\ \E t \in {Head(g.ready)} :
     \E r \in {TaskAdvance([g EXCEPT !.ready = Tail(@)], t)} :
       g' = progress_dispatch(Enter(r, t), t, r.intent)
  /\ UNCHANGED sc

\* A source removed at once or, when the kernel is busy with it, later.
Owner(h, x) == IF x \in Entries THEN x ELSE IF h.en[Ing].refusal = x THEN Ing ELSE x
unregistered(h, x) ==
  LET k == IF x \in Entries
           THEN [h EXCEPT !.en[x].src = FALSE, !.en[x].removing = FALSE, !.en[x].requested = FALSE]
           ELSE [h EXCEPT !.box[x].src = FALSE, !.box[x].removing = FALSE, !.box[x].requested = FALSE]
  IN schedule(k, Owner(h, x))
Detached(h, x) == IF x \in Entries THEN [h EXCEPT !.en[x].armed = FALSE, !.en[x].event = FALSE]
                  ELSE [h EXCEPT !.box[x].event = FALSE]

\* apply_operation: the outcomes one gate operation may have; a refused one makes the task runnable.
Applied(h, op, x) ==
  CASE op = "add" /\ x \in Entries ->
         {[h EXCEPT !.en[x].src = TRUE, !.en[x].requested = FALSE, !.en[x].armed = TRUE]}
    [] op = "add" /\ x \notin Entries ->
         {[h EXCEPT !.box[x].src = TRUE, !.box[x].requested = FALSE]}
         \cup IF Has("refuse") THEN {[h EXCEPT !.box[x] = [Abandon(@) EXCEPT !.requested = FALSE], !.gate.step = "Runnable"]} ELSE {}
    [] op = "rearm" -> {[h EXCEPT !.en[x].armed = TRUE]}
    [] op = "remove" -> {unregistered(Detached(h, x), x)} \cup IF Has("busy") THEN {Detached(h, x)} ELSE {}
    [] op = "spawn" ->
         IF ~h.sealed /\ Cardinality({i \in Request : h.req[i].st = "live"}) < Slots
         THEN {schedule([h EXCEPT !.req[x].st = "live"], x)}
         ELSE {[reject_task(h, x) EXCEPT !.gate.step = "Runnable"]}

advance_gate ==
  /\ Loops /\ g.gate # NoGate
  /\ \E h \in Applied([g EXCEPT !.gate.ops = Tail(@)], Head(g.gate.ops)[1], Head(g.gate.ops)[2]) :
       g' = IF h.gate.ops # <<>> THEN h ELSE finish_advance([h EXCEPT !.gate = NoGate], h.gate.task, h.gate.step)
  /\ UNCHANGED sc

\* The retirement of a busy source succeeds.
Removing(h) == {e \in Entries : h.en[e].removing} \cup {i \in Request : h.box[i].removing}
InGate(h, x) == \E k \in DOMAIN h.gate.ops : h.gate.ops[k] = <<"remove", x>>
drop_source(x) ==
  /\ Loops /\ x \in Removing(g) /\ ~InGate(g, x)
  /\ g' = unregistered(g, x)
  /\ UNCHANGED sc

\* receive: an armed source whose condition holds delivers one event.
receive(x) ==
  /\ Loops
  /\ \/ /\ x = Ing /\ g.en[Ing].armed /\ g.mail # <<>>
        /\ g' = schedule([g EXCEPT !.en[Ing].armed = FALSE, !.en[Ing].event = TRUE], Ing)
     \/ /\ x = Rel /\ g.en[Rel].armed /\ g.signal
        /\ g' = schedule([g EXCEPT !.en[Rel].armed = FALSE, !.en[Rel].event = TRUE], Rel)
     \/ /\ x \in Request /\ g.box[x].src /\ ~g.box[x].removing /\ x \in g.gone /\ g.box[x].res = "none" /\ ~g.box[x].event
        /\ g' = schedule([g EXCEPT !.box[x].event = TRUE], Owner(g, x))
  /\ UNCHANGED sc

\* The Dispatcher completes a call: answered, failed, cancelled or stopped.
pop_completed(i, result) ==
  /\ Loops /\ g.gate = NoGate /\ i \in g.bound
  /\ result = "ok" => i \notin g.cancelled /\ ~g.sealed
  /\ result = "failed" => i \in g.cancelled \/ g.sealed \/ Has("fails")
  /\ g' = completed([g EXCEPT !.bound = @ \ {i}, !.cancelled = @ \ {i}], i, result)
  /\ UNCHANGED sc

\* seal, and stop_next for every task: each turn of the loop stops one, and no task advances before the last.
StopTask(h, i) == IF h.req[i].st = "live" THEN schedule([h EXCEPT !.box[i] = Abandon(@)], i) ELSE h
RECURSIVE StopAll(_, _)
StopAll(h, i) == IF i > N THEN h ELSE StopAll(StopTask(h, i), i + 1)
Refused(h) == LET i == h.en[Ing].refusal IN IF i = 0 THEN h ELSE [h EXCEPT !.box[i] = Abandon(@)]
Seal ==
  /\ g.stop /\ ~g.sealed
  /\ g' = StopAll(schedule(schedule(Refused([g EXCEPT !.sealed = TRUE, !.en[Ing].stopping = TRUE,
                                                      !.en[Rel].stopping = TRUE]), Ing), Rel), 1)
  /\ UNCHANGED sc

(*-- Clients, the supervisor, time --*)
Send(i) ==
  /\ i \in g.unsent /\ \A j \in g.unsent : i <= j
  /\ g' = [g EXCEPT !.unsent = @ \ {i}, !.mail = Append(@, i)]
  /\ UNCHANGED sc
ClientGone(i) ==
  /\ Has("gone") /\ i \notin g.gone /\ i \notin g.unsent /\ g.answer[i] = "none"
  /\ g' = [g EXCEPT !.gone = @ \cup {i}]
  /\ UNCHANGED sc
DeadlinePasses(i) ==
  /\ Loops /\ Has("late") /\ ~g.box[i].late /\ g.box[i].res = "none"
  /\ g.req[i].st = "live" \/ g.en[Ing].refusal = i
  /\ g' = schedule([g EXCEPT !.box[i].late = TRUE], Owner(g, i))
  /\ UNCHANGED sc
Release ==
  /\ Has("stop") /\ ~g.signal    \* the supervisor's notification
  /\ g' = [g EXCEPT !.signal = TRUE]
  /\ UNCHANGED sc

Next == \/ advance_one \/ advance_gate \/ Seal \/ Release
        \/ \E x \in Entries \cup Request : drop_source(x) \/ receive(x)
        \/ \E i \in Request : \/ Send(i) \/ ClientGone(i) \/ DeadlinePasses(i)
                              \/ \E result \in {"ok", "failed"} : pop_completed(i, result)
Spec == Init /\ [][Next]_vars

(*-- Properties --*)
Quiet == /\ g.gate = NoGate /\ g.ready = <<>> /\ Removing(g) = {} /\ g.unsent = {}
         /\ Loops /\ g.bound = {}
         /\ ~(g.en[Ing].armed /\ g.mail # <<>>) /\ ~(g.en[Rel].armed /\ g.signal)

\* When nothing is left to do in a service that is not stopping, its mailbox has been
\* read to the end and armed again, and every request met exactly one of its fates: an
\* answer, a silent drop of a message that had no grant, or an abandoned reply.
QuietAnswered ==
  Quiet /\ ~g.sealed =>
    /\ g.mail = <<>> /\ g.en[Ing].armed
    /\ \A i \in Request : /\ g.req[i].st \in {"none", "done", "asked"}
                          /\ g.answer[i] # "none" \/ g.box[i].res = "lost"
                          /\ g.answer[i] \notin {"none", "dropped"} <=> g.box[i].res = "sent"

\* The affine value of a Take is in one place: the property, one reply, or the client
\* whose reply was sent; a Take whose reply is abandoned leaves it in the property.
ValueOnce ==
  LET places == {i \in Request : g.req[i].hold # 0} \cup {i \in Request : g.given[i] # 0} IN
  /\ \A i, j \in places : i # j => g.req[i].hold + g.given[i] # g.req[j].hold + g.given[j]
  /\ \A i \in places : g.tree # g.req[i].hold + g.given[i]
  /\ g.reserved <=> \E i \in Request : g.req[i].reserved
  /\ Quiet => /\ ~g.reserved /\ \A i \in Request : g.req[i].hold = 0
              /\ (\A i \in Request : g.given[i] = 0) => g.tree # 0
              /\ \A i \in Request : g.given[i] # 0 => g.answer[i] = "ok" /\ Kind(i) = "take"

\* A call in flight belongs to a live task that waits for it, so no completion finds its
\* task gone or in another state, and a Read answers Ok only with every handle exported.
CallsOwned ==
  /\ ~g.fault
  /\ \A i \in Request : i \in g.bound <=> g.req[i].down \in {"pending", "cancelling"}
  /\ \A i \in g.bound : g.req[i].st = "live"
  /\ \A i \in Request : g.answer[i] = "ok" => g.req[i].got = CASE Kind(i) = "read" -> Exports
                                                               [] Kind(i) = "delegate" -> 1 [] OTHER -> 0

\* A stopped service settles: all request tasks end and the Release task ends with them,
\* the Ingress too unless it was stopped between a spawn and its next advance.
StopSettles ==
  Quiet /\ g.sealed =>
    /\ \A i \in Request : g.req[i].st # "live"
    /\ ~g.en[Rel].live
    /\ g.en[Ing].live => g.en[Ing].gate_pending

\* libexecution's promise for a sealed runtime: every task retires by its own advances
\* once it has been told to stop (runtime.rs, shutdown_turn).
StopEnds == Quiet /\ g.sealed => ~g.en[Ing].live
=============================================================================
