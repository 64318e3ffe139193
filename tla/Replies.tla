------------------------------ MODULE Replies ------------------------------
(***************************************************************************)
(* A synchronous Caller and the Outbox of a service (librpc: caller.rs,    *)
(* exchange.rs, outbox.rs).  The Caller makes one call after another over  *)
(* a private reply port that it reuses; the service keeps one Outbox per   *)
(* accepted request, which owns the reply authority until it is delivered  *)
(* or given up.  Mailboxes have one place.  Whether a mailbox is filled or *)
(* emptied by others, deadlines, cancellation and the answers of the       *)
(* Runtime to an Outbox are the environment.                               *)
(***************************************************************************)
EXTENDS Naturals, Sequences, FiniteSets

CONSTANTS
    Tx,             \* transaction ids in order: 1 .. n
    MaxFaults       \* closures, cancellations and refusals

VARIABLES caller, port, service, outbox, env

vars == <<caller, port, service, outbox, env>>

Nobody == 0
NoOutbox == [life |-> "none", response |-> FALSE, port |-> 0, source |-> "none", writable |-> FALSE, armed |-> FALSE,
             rearm |-> FALSE, stage |-> "Ready", result |-> "none", committed |-> FALSE, event |-> "none", op |-> "none"]

\* A port is identified by the call that created it.
Init ==
    /\ caller = [tx |-> 0, state |-> "Completed", port |-> Nobody, result |-> [t \in Tx |-> [sent |-> FALSE, cause |-> "none"]], cleanup |-> {}]
    /\ port = [t \in Tx |-> [open |-> FALSE, mail |-> <<>>]]
    /\ service = [mail |-> <<>>, closed |-> FALSE]
    /\ outbox = [t \in Tx |-> NoOutbox]
    /\ env = [late |-> {}, faults |-> MaxFaults, busy |-> TRUE, filled |-> 1]

Fault == env.faults # 0

-----------------------------------------------------------------------------
(* The Caller.                                                             *)

Current == caller.tx

\* CallOperation::new: a new transaction id, the reply port if there is none, and a send-once on it.
new ==
    /\ caller.state = "Completed" /\ Current + 1 \in Tx
    /\ LET t == Current + 1
           fresh == caller.port = Nobody
       IN  /\ caller' = [caller EXCEPT !.tx = t, !.state = "Unsent", !.port = IF fresh THEN t ELSE @]
           /\ port' = IF fresh THEN [port EXCEPT ![t].open = TRUE] ELSE port
    /\ UNCHANGED <<service, outbox, env>>

\* abort: an unsent request is returned; the port of a sent one is given up with it.
abort(result) ==
    caller' = [caller EXCEPT !.result[Current] = [sent |-> caller.state = "Sent", cause |-> result],
                             !.state = "Completed",
                             !.port = IF caller.state = "Sent" THEN Nobody ELSE @,
                             !.cleanup = IF caller.state = "Sent" THEN @ \cup {caller.port} ELSE @]

Full == env.busy \/ service.mail # <<>>

\* advance of an unsent call; a full mailbox leaves it as it is.
try_send ==
    /\ caller.state = "Unsent"
    /\ IF service.closed THEN abort("closed") /\ UNCHANGED service
       ELSE IF Current \in env.late THEN abort("timeout") /\ UNCHANGED service
       ELSE /\ ~Full
            /\ caller' = [caller EXCEPT !.state = "Sent"]
            /\ service' = [service EXCEPT !.mail = Append(@, [tx |-> Current, port |-> caller.port])]
    /\ UNCHANGED <<port, outbox, env>>

\* advance of a sent call: receive, validate_response and the deadline.
receive ==
    /\ caller.state = "Sent" /\ port[caller.port].mail # <<>>
    /\ LET t == Head(port[caller.port].mail) IN
       IF t # Current THEN abort("frame")
       ELSE IF Current \in env.late THEN abort("timeout")
       ELSE caller' = [caller EXCEPT !.state = "Completed", !.result[Current] = [sent |-> TRUE, cause |-> "reply"]]
    /\ port' = [port EXCEPT ![caller.port].mail = Tail(@)]
    /\ UNCHANGED <<service, outbox, env>>

\* wait_ready reports a closed service, the deadline or the cancellation, whatever else is ready.
wait_ready ==
    /\ caller.state \in {"Unsent", "Sent"}
    /\ \/ service.closed /\ abort("closed") /\ UNCHANGED env
       \/ Current \in env.late /\ abort("timeout") /\ UNCHANGED env
       \/ Fault /\ abort("cancelled") /\ env' = [env EXCEPT !.faults = @ - 1]
    /\ UNCHANGED <<port, service, outbox>>

\* retry_close: both halves of a port are closed, at the latest at the second try.
retry_cleanup ==
    /\ \E p \in caller.cleanup :
          /\ caller' = [caller EXCEPT !.cleanup = @ \ {p}]
          /\ port' = [port EXCEPT ![p] = [open |-> FALSE, mail |-> <<>>]]
    /\ UNCHANGED <<service, outbox, env>>

-----------------------------------------------------------------------------
(* The Outbox of a request.                                                *)

\* RequestContext::decode and Outbox::prepare.
accept ==
    /\ ~service.closed /\ service.mail # <<>>
    /\ LET r == Head(service.mail) IN
       outbox' = [outbox EXCEPT ![r.tx] = [NoOutbox EXCEPT !.life = "live", !.response = TRUE, !.port = r.port]]
    /\ service' = [service EXCEPT !.mail = Tail(@)]
    /\ UNCHANGED <<caller, port, env>>

complete(o, result) == IF o.result # "none" THEN o ELSE [o EXCEPT !.result = result, !.stage = "Terminal"]

\* ensure_registration: only the closure is observed until the reply finds the mailbox full; then the
\* source is exchanged for one that observes room as well.
ensure_registration(o) ==
    IF o.result # "none" \/ o.source \in {"requested", "removing"} THEN o
    ELSE IF o.source = "on"
    THEN IF o.stage = "WaitingWritable" /\ ~o.writable THEN [o EXCEPT !.source = "removing", !.op = "remove"]
         ELSE IF o.rearm THEN [o EXCEPT !.rearm = FALSE, !.armed = o.event = "none"] ELSE o
    ELSE [o EXCEPT !.source = "requested", !.op = "arm", !.writable = o.stage = "WaitingWritable", !.rearm = FALSE]

declare_remove(o) ==
    IF o.result # "none" /\ o.source = "on" THEN [o EXCEPT !.source = "removing", !.op = "remove"] ELSE o

is_complete(o) == o.result # "none" /\ o.source = "none"

\* Something the Outbox would be run for, its deadline included.
Runnable(o, t) ==
    /\ o.life = "live" /\ o.op = "none" /\ ~is_complete(o)
    /\ t \in env.late \/ o.result # "none" \/ o.rearm \/ o.event # "none" \/ o.source = "none" \/ ~o.committed \/ o.stage = "Ready"

\* observe, of the event that was pulled.
observe(o) ==
    LET p == [o EXCEPT !.event = "none"] IN
    CASE o.event = "none" -> o
      [] o.event = "closed" -> complete(p, "abandoned")
      [] o.event = "writable" -> [p EXCEPT !.stage = IF @ = "WaitingWritable" THEN "Ready" ELSE @]

Timely(o, t) == IF t \in env.late THEN complete(o, "abandoned") ELSE o

\* admit: before the business commit only the source is asked for; the commit needs it.
admit(t) ==
    LET o == Timely(observe(outbox[t]), t) IN
    /\ Runnable(outbox[t], t) /\ ~outbox[t].committed /\ outbox[t].result = "none"
    /\ outbox' = [outbox EXCEPT ![t] =
           IF o.result = "none" /\ o.source = "on" THEN [o EXCEPT !.committed = TRUE]
           ELSE declare_remove(ensure_registration(o))]
    /\ UNCHANGED <<caller, port, service, env>>

CanReply(o) == port[o.port].open
Room(o) == port[o.port].mail = <<>> /\ env.filled # o.port

\* attempt_send: the packet and the reply authority are consumed together, or both are kept.
attempt_send(o, t) ==
    IF o.result # "none" \/ o.stage # "Ready" \/ o.source = "none" \/ o.source = "requested" THEN o
    ELSE IF ~CanReply(o) \/ t \in env.late THEN complete(o, "abandoned")
    ELSE IF Room(o) THEN complete([o EXCEPT !.response = FALSE], "sent")
    ELSE [o EXCEPT !.stage = "WaitingWritable", !.rearm = TRUE]

\* drive, one unit.
drive(t) ==
    /\ Runnable(outbox[t], t) /\ (outbox[t].committed \/ outbox[t].result # "none")
    /\ LET o == Timely(observe(outbox[t]), t)
           sent == attempt_send(ensure_registration(o), t)
       IN  /\ outbox' = [outbox EXCEPT ![t] = declare_remove(IF o.result = "none" THEN sent ELSE o)]
           /\ port' = IF o.result = "none" /\ o.response /\ ~sent.response
                      THEN [port EXCEPT ![o.port].mail = Append(@, t)] ELSE port
    /\ UNCHANGED <<caller, service, env>>

\* A complete Outbox is retired; what it still owns is closed with it.
retire(t) ==
    /\ outbox[t].life = "live" /\ is_complete(outbox[t])
    /\ outbox' = [outbox EXCEPT ![t] = [@ EXCEPT !.life = "gone", !.response = FALSE]]
    /\ UNCHANGED <<caller, port, service, env>>

\* registered or refused.
answer_arm(t) ==
    /\ outbox[t].op = "arm"
    /\ \/ /\ outbox' = [outbox EXCEPT ![t] = [@ EXCEPT !.op = "none", !.source = "on", !.armed = TRUE]]
          /\ UNCHANGED env
       \/ /\ Fault
          /\ outbox' = [outbox EXCEPT ![t] = complete([@ EXCEPT !.op = "none", !.source = "none"], "abandoned")]
          /\ env' = [env EXCEPT !.faults = @ - 1]
    /\ UNCHANGED <<caller, port, service>>

\* unregistered, with an event that was not pulled.
answer_remove(t) ==
    /\ outbox[t].op = "remove"
    /\ outbox' = [outbox EXCEPT ![t] = [@ EXCEPT !.op = "none", !.source = "none", !.writable = FALSE, !.armed = FALSE,
                                                 !.event = "none"]]
    /\ UNCHANGED <<caller, port, service, env>>

\* stop
stop(t) ==
    /\ service.closed /\ outbox[t].life = "live" /\ outbox[t].result = "none"
    /\ outbox' = [outbox EXCEPT ![t] = complete(@, "abandoned")]
    /\ UNCHANGED <<caller, port, service, env>>

-----------------------------------------------------------------------------
(* External.                                                               *)

Level(o) ==
    IF ~CanReply(o) THEN "closed" ELSE IF o.writable /\ Room(o) THEN "writable" ELSE "none"

event(t) ==
    /\ outbox[t].armed /\ outbox[t].op = "none" /\ Level(outbox[t]) # "none"
    /\ outbox' = [outbox EXCEPT ![t] = [@ EXCEPT !.armed = FALSE, !.event = Level(outbox[t])]]
    /\ UNCHANGED <<caller, port, service, env>>

deadline(t) ==
    /\ t <= Current /\ t \notin env.late
    /\ env' = [env EXCEPT !.late = @ \cup {t}]
    /\ UNCHANGED <<caller, port, service, outbox>>

\* The other traffic of the mailboxes goes away.
drain ==
    /\ \/ env.busy /\ env' = [env EXCEPT !.busy = FALSE]
       \/ env.filled # 0 /\ env' = [env EXCEPT !.filled = 0]
    /\ UNCHANGED <<caller, port, service, outbox>>

close ==
    /\ Fault /\ ~service.closed
    /\ service' = [mail |-> <<>>, closed |-> TRUE]
    /\ env' = [env EXCEPT !.faults = @ - 1]
    /\ UNCHANGED <<caller, port, outbox>>

Step(t) == admit(t) \/ drive(t) \/ retire(t) \/ answer_arm(t) \/ answer_remove(t) \/ stop(t) \/ event(t) \/ deadline(t)

Next ==
    \/ new \/ try_send \/ receive \/ wait_ready \/ retry_cleanup
    \/ accept \/ drain \/ close
    \/ \E t \in Tx : Step(t)

Spec == Init /\ [][Next]_vars

-----------------------------------------------------------------------------

Ended(t) == caller.result[t].cause # "none"

\* The verdict on a call is what happened: an unsent request was never accepted, a reply is that of
\* this very call and its request was committed, and a reply of an earlier call never meets a later.
VerdictsTrue ==
    \A t \in Tx : Ended(t) =>
        LET r == caller.result[t] IN
        /\ ~r.sent => outbox[t].life = "none" /\ \A i \in DOMAIN service.mail : service.mail[i].tx # t
        /\ r.cause = "reply" => outbox[t].committed
        /\ r.cause # "frame"

\* The reply authority has one place: the mailbox of the service, the Outbox, or the reply; and it is
\* gone from the Outbox exactly when the reply was sent.
AuthorityOnce ==
    \A t \in Tx :
        /\ outbox[t].life = "live" => (outbox[t].response <=> outbox[t].result # "sent")
        /\ outbox[t].life = "gone" => outbox[t].source = "none" /\ ~outbox[t].armed
        /\ outbox[t].result = "sent" => outbox[t].committed
        /\ Cardinality({p \in Tx : \E i \in DOMAIN port[p].mail : port[p].mail[i] = t}) <= 1

\* A reply that found its mailbox full waits for the room it needs: the source that only observes
\* the closure has been exchanged, and no event was lost in between.
NoIdleReply ==
    \A t \in Tx : LET o == outbox[t] IN
        o.life = "live" /\ o.op = "none" /\ o.result = "none" /\ o.stage = "WaitingWritable" /\ o.event = "none" /\ ~o.rearm =>
            o.source = "none" \/ (o.writable /\ o.armed)

=============================================================================
