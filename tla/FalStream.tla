------------------------------ MODULE FalStream ------------------------------
(***************************************************************************)
(* One stream of a FAL provider (srv_fs/src/server/stream.rs): the task    *)
(* that Open spawns, the entry it installs, and the control requests of    *)
(* the client that holds the offer.  Read and Write move units of data     *)
(* over a Runnel, here the count of units in its ring and the signals of   *)
(* the provider's endpoint; the protocol of the ring is Runnel's.          *)
(*                                                                         *)
(* One action is one advance of one task together with the requests it     *)
(* leaves in the runtime's gate: until those are applied no task advances, *)
(* and events, timers and stop only add to what a task finds next time.    *)
(* Time is 0 .. 3, the reply, the offer and the session end at 1, 2 and 3. *)
(* The reply is the Outbox of Replies reduced to admission and outcome.    *)
(* Wakes for subscriptions are left to FalWatch.                           *)
(***************************************************************************)
EXTENDS Integers, FiniteSets, Sequences

CONSTANTS Size,        \* units a Read delivers
          Chunk,       \* units of the entry's buffer
          Scenarios    \* [dir, ring, limit, total, ops, faults]: what is opened, what a writer sends, who asks for
                       \* control, and how many registrations are refused, closes or backends fail, reply ports are full

VARIABLES p, e, w, ctl, ready, now, faults, sc

vars == <<p, e, w, ctl, ready, now, faults, sc>>

Stream == 0            \* the stream task among the tasks; control requests are 1, 2, ...
Ctl == DOMAIN sc.ops
Reading == sc.dir = "Read"
\* The runtime's queue of runnable tasks.
Queued == {ready[j] : j \in DOMAIN ready}
schedule(r, k) == IF \E j \in DOMAIN r : r[j] = k THEN r ELSE Append(r, k)
Least(a, b) == IF a < b THEN a ELSE b
Greatest(a, b) == IF a < b THEN b ELSE a

\* StreamTask::new, spawned by the Ingress with the reply.
NewTask == [life |-> "live", box |-> "new", prepared |-> FALSE, carried |-> FALSE, encoded |-> FALSE, failure |-> "Ok",
            retiring |-> FALSE, stopping |-> FALSE, lsrc |-> "none", dsrc |-> "none", watched |-> {}, lev |-> FALSE, dev |-> {},
            timeout |-> FALSE, retry |-> FALSE, cur |-> 1, dl |-> 1, due |-> TRUE]
NoEntry == [at |-> "none", st |-> "Offered", out |-> "Ok", why |-> "None", acc |-> 0, trans |-> 0, buf |-> 0,
            fin |-> FALSE, est |-> FALSE, waiter |-> 0, woken |-> FALSE, own |-> {}, charges |-> {}]
\* The ring, the provider's signals, and what the client holds and has done.
NewWire == [fly |-> 0, eof |-> FALSE, data |-> FALSE, att |-> FALSE, closed |-> FALSE, offer |-> FALSE, held |-> FALSE,
            done |-> 0, kept |-> 0]

Init ==
  /\ sc \in Scenarios
  /\ p = NewTask /\ e = NoEntry /\ w = NewWire
  /\ ctl = [k \in DOMAIN sc.ops |-> [st |-> "idle", status |-> "none", out |-> "none", acc |-> 0]]
  /\ ready = <<Stream>> /\ now = 0 /\ faults = sc.faults

(*-- The entry --*)
\* terminal: the first result stays.
terminal(x, out, why) == IF x.st = "Terminal" THEN x ELSE [x EXCEPT !.st = "Terminal", !.out = out, !.why = why]
PeerClosed(x) == terminal(x, "Cancelled", "PeerClosed")
\* refresh_read_accepted: what the peer has taken out of the ring.
refresh(x) == IF x.st = "Active" /\ Reading /\ "role" \in x.own THEN [x EXCEPT !.acc = Greatest(@, x.trans - w.fly)] ELSE x

\* An outcome of a step: the task, the entry and the wire after it, whether the task runs again, whom it
\* wakes and how many faults it took.
Out(q, x, y, run, cost) == [q |-> q, x |-> x, y |-> y, run |-> run, wake |-> 0, cost |-> cost]

(*-- Data --*)
\* progress of a Read: fill the buffer, write to the ring, publish the end, see it taken.
Sent(q, x) ==
  LET n == Least(sc.ring - w.fly, x.buf)
      x1 == [x EXCEPT !.buf = @ - n, !.trans = @ + n]
  IN IF n = 0 THEN {Out(q, x, w, FALSE, 0)}
     ELSE {Out(q, IF w.closed THEN PeerClosed(x1) ELSE [x1 EXCEPT !.acc = x1.trans - (w.fly + n)],
               [w EXCEPT !.fly = @ + n], TRUE, 0)}
\* Mutant: the end counts as consumed once it is published.
EofConsumed_Published(x) == x.fin
EofConsumed(x) == x.fin /\ w.fly = 0
read_progress(q, x) ==
  CASE x.buf = 0 /\ x.trans < Size ->
         Sent(q, [x EXCEPT !.buf = Least(Size - x.trans, Chunk)]) \cup {Out(q, terminal(x, "Internal", "Backend"), w, TRUE, 1)}
    [] x.buf > 0 -> Sent(q, x)
    [] x.buf = 0 /\ x.trans = Size /\ ~x.fin ->
         {Out(q, IF w.closed THEN PeerClosed(x) ELSE [x EXCEPT !.fin = TRUE], [w EXCEPT !.eof = TRUE], TRUE, 0)}
    [] OTHER -> IF EofConsumed(x) THEN {Out(q, terminal([x EXCEPT !.acc = x.trans], "Ok", "Completed"), w, TRUE, 0)}
                ELSE {Out(q, x, [w EXCEPT !.data = FALSE], FALSE, 0)}

\* progress of a Write: what is read from the ring is committed to the node before it is accepted; a unit
\* beyond the limit is transported, not accepted.
Committed(x, n, buf) == [x EXCEPT !.trans = @ + n, !.acc = @ + buf]
write_progress(q, x) ==
  LET rem == sc.limit - x.acc
      n == Least(w.fly, Least(rem + 1, Chunk))
      buf == Least(rem, n)
      y == [w EXCEPT !.fly = @ - n]
      ended(z) == IF w.closed THEN PeerClosed(z) ELSE IF buf < n THEN terminal(z, "Invalid", "Backend") ELSE z
  IN CASE n = 0 -> IF w.eof THEN {Out(q, terminal(x, "Ok", "Completed"), w, TRUE, 0)} ELSE {Out(q, x, w, FALSE, 0)}
       [] n > 0 /\ buf = 0 -> {Out(q, ended([x EXCEPT !.trans = @ + n]), y, TRUE, 0)}
       [] OTHER -> {Out(q, ended(Committed(x, n, buf)), [y EXCEPT !.kept = @ + buf], TRUE, 0),
                    Out(q, terminal([x EXCEPT !.trans = @ + n], "Internal", "Backend"), y, TRUE, 1)}

\* The event of the data source, for the producer of a Read and for the consumer of a Write: the entry after
\* it, and whether the role took the DATA hint back, which it does only when the ring has nothing for it.
Producer(x, o) ==
  CASE EofConsumed(x) -> [x |-> terminal([x EXCEPT !.acc = x.trans], "Ok", "Completed"), ack |-> FALSE]
    [] ~EofConsumed(x) /\ "closed" \in o -> [x |-> PeerClosed(x), ack |-> x.fin]
    [] OTHER -> [x |-> [x EXCEPT !.est = @ \/ "att" \in o],
                 ack |-> x.fin \/ (w.fly = sc.ring /\ (x.est \/ "att" \notin o))]
Consumer(x, o) ==
  LET drained == w.fly = 0 /\ w.eof
      ack == w.fly = 0 /\ ~w.eof
  IN CASE drained /\ x.st = "Active" -> [x |-> terminal(x, "Ok", "Completed"), ack |-> ack]
       [] drained /\ x.st = "Terminal" -> [x |-> x, ack |-> ack]
       [] ~(drained /\ x.st # "Offered") /\ "closed" \in o -> [x |-> PeerClosed(x), ack |-> ack]
       [] OTHER -> [x |-> [x EXCEPT !.est = @ \/ "att" \in o], ack |-> ack]
Observed ==
  IF p.dev = {} \/ e.at # "table" \/ "role" \notin e.own THEN [x |-> e, ack |-> FALSE]
  ELSE IF Reading THEN Producer(refresh(e), p.dev) ELSE Consumer(e, p.dev)

(*-- The task --*)
\* The head of advance: the events, the deadline, and what makes the task retire.  timed tells whether the
\* deadline of the offer or of the session has come.
Entered(x) ==
  LET stale == x.at = "table" /\ x.st = "Terminal" /\ p.box \notin {"none", "sent"}
      lost == p.timeout /\ p.box \in {"new", "open"}
      retiring == p.retiring \/ p.lev \/ stale \/ p.stopping \/ lost \/ p.box \in {"lost", "gone"}
  IN [p EXCEPT !.lev = FALSE, !.dev = {}, !.timeout = FALSE, !.retry = @ /\ ~p.timeout, !.retiring = retiring,
               !.dsrc = IF "att" \in p.dev /\ @ # "none" THEN "removing" ELSE @,
               !.box = IF ~retiring THEN @ ELSE CASE @ = "new" -> "gone" [] @ = "open" -> "lost" [] OTHER -> @]

\* retire: the sources first, then every owner in turn; a close that fails is tried again at a later time.
Order == <<"back", "role", "invitation", "sender", "lifetime">>
Behind(k) == {Order[j] : j \in k + 1 .. Len(Order)}
retire(q, x) ==
  LET left(k) == {Order[k]} \cup (x.own \cap Behind(k))
      kept(k) == IF Order[k] \in {"invitation", "sender"} THEN (left(k) \ {Order[k]}) \cup {"back"} ELSE left(k)
  IN IF q.dsrc # "none" \/ q.lsrc # "none"
     THEN {Out([q EXCEPT !.dsrc = IF @ = "none" THEN @ ELSE "removing", !.lsrc = IF @ = "none" THEN @ ELSE "removing"], x, w, TRUE, 0)}
     ELSE {Out([q EXCEPT !.life = "done"], NoEntry, w, FALSE, 0)} \cup
          {Out([q EXCEPT !.retry = TRUE], [x EXCEPT !.own = kept(k)], w, FALSE, 1) : k \in {k \in 1 .. Len(Order) : Order[k] \in x.own}}

\* close_data of a result that is kept: the waiter hears of it, then the source goes, then the role.
Woken(x, out) == IF x.waiter = 0 \/ x.woken THEN out ELSE [out EXCEPT !.wake = x.waiter, !.x.woken = TRUE]
DataGone(q) == q.dsrc = "none"
close_data(q, x) ==
  {Woken(x, o) : o \in
     IF ~DataGone(q) THEN {Out([q EXCEPT !.dsrc = "removing"], x, w, TRUE, 0)}
     ELSE {Out([q EXCEPT !.retry = FALSE], [x EXCEPT !.own = @ \ {"role"}, !.charges = @ \ {"data"}], w, FALSE, 0)} \cup
          IF "role" \in x.own THEN {Out([q EXCEPT !.retry = TRUE], [x EXCEPT !.charges = @ \ {"data"}], w, FALSE, 1)} ELSE {}}

\* The deadline of the offer, or of the session.
Expired(x, timed) ==
  IF timed /\ x.st # "Terminal" THEN terminal(refresh(x), "Cancelled", "Expired") ELSE x
Registered(q, x) == [q EXCEPT !.dsrc = "armed", !.watched = {"data", "closed"} \cup IF x.est THEN {} ELSE {"att"}]
RefusedData(q, x) == Out([q EXCEPT !.failure = "Quota"], IF x.at = "table" THEN terminal(x, "Quota", "Backend") ELSE x, w, TRUE, 1)

\* The entry is in the table, the offer delivered.
Serve(q, x0, timed) ==
  LET x == Expired(x0, timed)
      q1 == [q EXCEPT !.cur = IF x.st # "Offered" THEN 3 ELSE @]
      moved == IF x.st # "Active" THEN {Out(q1, x, w, FALSE, 0)} ELSE IF Reading THEN read_progress(q1, x) ELSE write_progress(q1, x)
  IN IF timed /\ x0.st = "Terminal" THEN retire([q1 EXCEPT !.retiring = TRUE], x)
     ELSE IF x.st = "Terminal" THEN close_data(q1, x)
     ELSE {o \in moved : o.run} \cup
          UNION {IF q1.dsrc = "none" THEN {[o EXCEPT !.q = Registered(q1, o.x), !.run = TRUE], RefusedData(q1, o.x)}
                 ELSE {[o EXCEPT !.q.dsrc = IF @ = "idle" THEN "armed" ELSE @]} : o \in {o \in moved : ~o.run}}

\* prepare and issue: the entry with everything it owns, its slot and its charges taken before; then both sources.
Issued == {"role", "invitation", "sender", "lifetime"}
Opened == [NoEntry EXCEPT !.at = "pending", !.own = Issued, !.charges = {"lifetime", "data"}]
arm_sources(q) == [Registered(q, Opened) EXCEPT !.lsrc = "armed"]
Act(q, x, timed) == IF q.retiring THEN retire(q, x) ELSE Serve(q, x, timed)
\* The reply: sent with the sender and the invitation, blocked by a full port, or given up; it is over once its
\* source is gone.  An offer that was not delivered is taken back.
Reply(q, x, timed) ==
  LET sent == q.box = "sent" /\ q.failure = "Ok"
      back == IF q.carried /\ ~sent THEN {"back"} ELSE {}
  IN CASE q.box = "none" -> Act(q, x, timed)
       [] q.box = "open" -> {Out([q EXCEPT !.box = "sent"], x, IF q.carried THEN [w EXCEPT !.offer = TRUE, !.held = TRUE] ELSE w, TRUE, 0),
                             Out([q EXCEPT !.box = "gone"], x, w, TRUE, 1), Out(q, x, w, FALSE, 1)}
       [] q.box = "lost" -> {Out([q EXCEPT !.box = "gone"], x, w, TRUE, 0)}
       [] OTHER -> Act([q EXCEPT !.box = "none", !.cur = 2, !.carried = FALSE, !.retiring = @ \/ ~sent], [x EXCEPT !.own = @ \cup back], timed)
\* install and encode_open, then the reply.
Answer(q, x, timed) ==
  LET offers == q.failure = "Ok" /\ q.prepared
  IN IF q.retiring \/ q.encoded THEN Reply(q, x, timed)
     ELSE Reply([q EXCEPT !.encoded = TRUE, !.carried = offers],
                IF offers THEN [x EXCEPT !.at = "table", !.own = @ \ {"sender", "invitation"}] ELSE x, timed)
Opening(q, x, timed) ==
  IF q.retiring \/ q.prepared \/ q.failure # "Ok" THEN Answer(q, x, timed)
  ELSE IF q.box = "new" THEN {Out([q EXCEPT !.box = "open"], x, w, TRUE, 0), Out([q EXCEPT !.box = "gone"], x, w, TRUE, 1)}
  ELSE IF now >= 1 THEN Answer([q EXCEPT !.failure = "Cancelled"], x, timed)
  ELSE LET q1 == [q EXCEPT !.prepared = TRUE]
           both == arm_sources(q1)
       IN {Out(both, Opened, w, TRUE, 0), Out([both EXCEPT !.lsrc = "none", !.failure = "Quota"], Opened, w, TRUE, 1),
           Out([q1 EXCEPT !.lsrc = "armed", !.failure = "Quota"], Opened, w, TRUE, 1)}
          \cup {[o EXCEPT !.cost = @ + 1] : o \in Answer([q EXCEPT !.failure = "Quota"], x, timed) \cup
                 Answer([q1 EXCEPT !.failure = "Quota"], [Opened EXCEPT !.own = {"sender", "lifetime"}], timed)}

\* What the gate does with the requests, and the deadline the runtime takes over: one that was delivered is
\* not armed again until it changes.
Settled(o) ==
  LET gone == {"lifetime" : k \in {k \in {1} : o.q.lsrc = "removing"}} \cup
              {"data" : k \in {k \in {1} : o.q.dsrc = "removing" /\ (o.q.retiring \/ o.q.failure # "Ok" \/ o.x.st = "Terminal")}}
      dl == IF o.q.retry THEN 4 ELSE o.q.cur
  IN [o EXCEPT !.q.lsrc = IF @ = "removing" THEN "none" ELSE @, !.q.dsrc = IF @ = "removing" THEN "none" ELSE @,
               !.run = @ \/ o.q.lsrc = "removing" \/ o.q.dsrc = "removing", !.x.charges = @ \ gone,
               !.q.dl = dl, !.q.due = IF dl # p.dl \/ (dl = 4 /\ o.cost > 0) THEN TRUE ELSE @]
Rerun(run, r) == IF run THEN schedule(r, Stream) ELSE r
StreamAdvance ==
  /\ ready # <<>> /\ Head(ready) = Stream /\ p.life = "live"
  /\ \E seen \in {Observed} : \E o \in Opening(Entered(seen.x), seen.x, p.timeout /\ ~p.retry) : \E r \in {Settled(o)} :
       /\ r.cost <= faults /\ faults' = faults - r.cost
       /\ p' = r.q /\ e' = r.x /\ w' = [r.y EXCEPT !.data = @ /\ ~seen.ack]
       /\ ready' = Rerun(r.run, IF r.wake = 0 THEN Tail(ready) ELSE schedule(Tail(ready), r.wake))
  /\ UNCHANGED <<ctl, now, sc>>

(*-- Events, time, stop --*)
Level == {s \in p.watched : (s = "data" /\ w.data) \/ (s = "att" /\ w.att) \/ (s = "closed" /\ w.closed)}
DataFires ==
  /\ p.dsrc = "armed" /\ Level # {}
  /\ p' = [p EXCEPT !.dsrc = "idle", !.dev = Level]
  /\ ready' = schedule(ready, Stream)
  /\ UNCHANGED <<e, w, ctl, now, faults, sc>>
\* A request in the provider's hands keeps the sender it came over alive.
Closed == w.offer /\ ~w.held /\ \A k \in Ctl : ctl[k].st \notin {"queued", "waiting"}
LifetimeFires ==
  /\ p.lsrc = "armed" /\ Closed
  /\ p' = [p EXCEPT !.lsrc = "idle", !.lev = TRUE]
  /\ ready' = schedule(ready, Stream)
  /\ UNCHANGED <<e, w, ctl, now, faults, sc>>
Due == p.life = "live" /\ p.due /\ (p.dl = 4 \/ p.dl <= now)
TimerFires ==
  /\ Due
  /\ p' = [p EXCEPT !.due = FALSE, !.timeout = TRUE]
  /\ ready' = schedule(ready, Stream)
  /\ UNCHANGED <<e, w, ctl, now, faults, sc>>
Tick == now < 3 /\ now' = now + 1 /\ UNCHANGED <<p, e, w, ctl, ready, faults, sc>>
\* The reply port has room again.
ReplyRoom ==
  /\ p.box = "open" /\ p.encoded /\ Stream \notin Queued
  /\ ready' = schedule(ready, Stream)
  /\ UNCHANGED <<p, e, w, ctl, now, faults, sc>>
\* The provider stops: the task is told, and every reply in progress is given up.
RECURSIVE StopAll(_, _)
StopAll(r, S) == IF S = {} THEN r ELSE LET k == CHOOSE k \in S : \A j \in S : k <= j IN StopAll(schedule(r, k), S \ {k})
Stop ==
  /\ ~p.stopping
  /\ p' = [p EXCEPT !.stopping = TRUE, !.box = CASE @ = "new" -> "gone" [] @ = "open" -> "lost" [] OTHER -> @]
  /\ ctl' = [k \in Ctl |-> IF ctl[k].st \in {"queued", "waiting"} THEN [ctl[k] EXCEPT !.st = "dropped"] ELSE ctl[k]]
  /\ ready' = StopAll(IF p.life = "live" THEN schedule(ready, Stream) ELSE ready, {k \in Ctl : ctl'[k].st = "dropped"})
  /\ UNCHANGED <<e, w, now, faults, sc>>

(*-- Control requests --*)
Request(k) ==
  /\ w.held /\ ctl[k].st = "idle" /\ ~p.stopping
  /\ ctl' = [ctl EXCEPT ![k].st = "queued"]
  /\ ready' = schedule(ready, k)
  /\ UNCHANGED <<p, e, w, now, faults, sc>>
\* The deadline of a reply, or a client that has gone.
GiveUp(k) ==
  /\ ctl[k].st \in {"queued", "waiting"} /\ (now = 3 \/ faults > 0)
  /\ ctl' = [ctl EXCEPT ![k].st = "dropped"]
  /\ faults' = IF now = 3 THEN faults ELSE faults - 1
  /\ ready' = schedule(ready, k)
  /\ UNCHANGED <<p, e, w, now, sc>>

release_waiter(x, k) == IF x.waiter = k THEN [x EXCEPT !.waiter = 0, !.woken = FALSE] ELSE x
Says(k, x, status, run) ==
  /\ e' = release_waiter(x, k)
  /\ ctl' = [ctl EXCEPT ![k] = [st |-> "answered", status |-> status, out |-> IF x.st = "Terminal" THEN x.out ELSE x.st, acc |-> x.acc]]
  /\ ready' = Rerun(run, Tail(ready))
\* Start: only an offer that has not expired, whose peer has been seen to attach.
Startable(x) == now < 2 /\ "role" \in x.own /\ x.est
Start(k) ==
  CASE e.st = "Offered" /\ now >= 2 -> Says(k, terminal(e, "Cancelled", "Expired"), "Cancelled", TRUE)
    [] e.st = "Offered" /\ Startable(e) -> Says(k, [e EXCEPT !.st = "Active"], "Ok", TRUE)
    [] e.st = "Active" -> Says(k, e, "Ok", FALSE)
    [] OTHER -> Says(k, e, "Busy", FALSE)
Finish(k) ==
  IF e.st = "Terminal" THEN Says(k, e, "Ok", FALSE)
  ELSE IF e.waiter # 0 THEN Says(k, e, "Busy", FALSE)
  ELSE /\ e' = [e EXCEPT !.waiter = k]
       /\ ctl' = [ctl EXCEPT ![k].st = "waiting"]
       /\ ready' = Tail(ready)
Cancel(k) == IF e.st = "Terminal" THEN Says(k, e, "Ok", FALSE) ELSE Says(k, terminal(refresh(e), "Cancelled", "Cancelled"), "Ok", TRUE)
ControlAdvance(k) ==
  /\ ready # <<>> /\ Head(ready) = k
  /\ IF ctl[k].st = "dropped"
     THEN /\ e' = release_waiter(e, k)
          /\ ctl' = [ctl EXCEPT ![k].st = "gone"]
          /\ ready' = Tail(ready)
     ELSE IF ctl[k].st \notin {"queued", "waiting"} THEN ready' = Tail(ready) /\ UNCHANGED <<e, ctl>>
     ELSE CASE e.at # "table" -> Says(k, e, "Permission", FALSE)
            [] e.at = "table" /\ sc.ops[k] = "Start" -> Start(k)
            [] e.at = "table" /\ sc.ops[k] = "Finish" -> Finish(k)
            [] e.at = "table" /\ sc.ops[k] = "Cancel" -> Cancel(k)
            [] OTHER -> Says(k, refresh(e), "Ok", FALSE)
  /\ UNCHANGED <<p, w, now, faults, sc>>

(*-- The client --*)
Client(y) == w' = y /\ UNCHANGED <<p, e, ctl, ready, now, faults, sc>>
Attach == w.offer /\ ~w.att /\ ~w.closed /\ "role" \in e.own /\ Client([w EXCEPT !.att = TRUE])
Consume == Reading /\ w.att /\ ~w.closed /\ w.fly > 0 /\ Client([w EXCEPT !.fly = @ - 1, !.done = @ + 1, !.data = TRUE])
Produce == /\ ~Reading /\ w.att /\ ~w.closed /\ ~w.eof /\ w.fly < sc.ring /\ w.done < sc.total
           /\ Client([w EXCEPT !.fly = @ + 1, !.done = @ + 1, !.data = TRUE])
FinishData == ~Reading /\ w.att /\ ~w.closed /\ ~w.eof /\ Client([w EXCEPT !.eof = TRUE, !.data = TRUE])
CloseTunnel == w.att /\ ~w.closed /\ Client([w EXCEPT !.closed = TRUE])
DropControl == w.held /\ Client([w EXCEPT !.held = FALSE])

Next ==
  \/ StreamAdvance \/ DataFires \/ LifetimeFires \/ TimerFires \/ Tick \/ ReplyRoom \/ Stop
  \/ \E k \in Ctl : Request(k) \/ GiveUp(k) \/ ControlAdvance(k)
  \/ Attach \/ Consume \/ Produce \/ FinishData \/ CloseTunnel \/ DropControl

Spec == Init /\ [][Next]_vars

(*-- Properties --*)
TypeOK ==
  /\ p.box \in {"new", "open", "lost", "sent", "gone", "none"} /\ p.life \in {"live", "done"}
  /\ p.dsrc \in {"none", "armed", "idle"} /\ p.lsrc \in {"none", "armed", "idle"}
  /\ e.at \in {"none", "pending", "table"} /\ e.st \in {"Offered", "Active", "Terminal"} /\ w.fly \in 0 .. sc.ring
  /\ Queued \subseteq {Stream} \cup Ctl /\ (Stream \in Queued => p.life = "live")

\* The numbers of a stream tell the truth (progress, refresh_read_accepted): a Read has accepted no more than
\* its client took, and is done only when the client took all of it; a Write has accepted what the node keeps,
\* never beyond its limit, and is done only when the writer ended and nothing it sent is missing.
ResultTrue ==
  /\ Reading => /\ e.acc <= w.done
                /\ e.at = "table" => e.trans = w.done + w.fly
                /\ e.st = "Terminal" /\ e.out = "Ok" => e.acc = Size /\ w.done = Size
  /\ ~Reading /\ e.at = "table" => /\ e.acc = w.kept /\ e.acc <= sc.limit /\ e.acc <= e.trans
                                   /\ e.st = "Terminal" /\ e.out = "Ok" => w.eof /\ e.acc = w.done

\* Nothing is closed under an observation (close_data, retire): the role goes after its source, the lifetime
\* after its own, an entry only with everything it owned, and data moves only after the peer was seen.
SourcesFirst ==
  /\ e.at = "table" /\ "role" \notin e.own => p.dsrc = "none"
  /\ e.at # "none" /\ "lifetime" \notin e.own => p.lsrc = "none"
  /\ e.at = "none" => p.dsrc = "none" /\ p.lsrc = "none"
  /\ e.st = "Active" => e.est /\ w.att /\ w.offer
  /\ (p.dsrc # "none" => "data" \in e.charges) /\ (p.lsrc # "none" => "lifetime" \in e.charges)

\* A result is frozen (terminal): an entry that has ended keeps its outcome, its reason and what it
\* transported, and takes nothing back, until it is removed.
FrozenStep ==
  e.st = "Terminal" /\ e'.at = e.at => /\ e'.st = "Terminal" /\ e'.out = e.out /\ e'.why = e.why
                                       /\ e'.trans = e.trans /\ e'.acc >= e.acc
ResultFrozen == [][FrozenStep]_vars

Fires == (p.dsrc = "armed" /\ Level # {}) \/ (p.lsrc = "armed" /\ Closed) \/ Due
Quiet == ready = <<>> /\ ~Fires /\ p.box \in {"none", "new"}

\* When all is quiet: an ended stream has closed its role and nobody waits for a result it keeps; a stream whose
\* session is over has ended; one whose control is gone, or whose provider stopped, has left nothing behind;
\* and a stream that is active waits for its client, not for itself.
QuietSettled ==
  Quiet =>
    /\ e.at = "table" /\ e.st = "Terminal" => "role" \notin e.own /\ \A k \in Ctl : ctl[k].st # "waiting"
    /\ e.at = "table" /\ now = 3 => e.st = "Terminal"
    /\ Closed \/ p.stopping => p.life = "done"
    /\ p.life = "done" => e = NoEntry
    /\ e.st = "Active" => IF Reading THEN w.fly > 0 ELSE w.fly = 0 /\ ~w.eof

\* What the notes say of Finish: the wake of a result comes before its sources and its role go, so that a
\* request that waits for the result is answered, and not left behind by an entry that is gone.
FinishAnswered == Quiet => \A k \in Ctl : ctl[k].st = "waiting" => e.at = "table" /\ e.st # "Terminal"
=============================================================================
