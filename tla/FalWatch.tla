----------------------------- MODULE FalWatch -----------------------------
(***************************************************************************)
(* Grants and subscriptions of a FAL provider (libfal/src/provider.rs,     *)
(* grant.rs, watch.rs, and the requests of srv_fs/src/server.rs that meet  *)
(* them).  A grant becomes valid only once the runtime watches the         *)
(* lifetime of its sender, and is removed when the last sender closes.  A  *)
(* subscription is installed once its signaler is watched; mutations       *)
(* publish events to the table and owe a wake to the subscription's task.  *)
(* One action is one advance of one task or one operation of the runtime's *)
(* gate, during which no task advances.  A reply is the Outbox of Replies  *)
(* reduced to its admission and its outcome; charges are left out.         *)
(***************************************************************************)
EXTENDS Integers, Sequences, FiniteSets

CONSTANTS Grants,       \* derived grants, as task identities
          Watches,      \* subscriptions, as task identities
          Changers,     \* requests that change the watched node
          WakeRoom,     \* wakes one advance may request
          Slots,        \* the grant table's limit
          MaxRefusals,  \* operations the gate refuses
          Casts         \* [tasks, changes]: the tasks and the changes of the node a behaviour may have, frozen in cast

VARIABLES grant, watch, changer, node, table, slots, gate, ready, client, stop, left, cast

vars == <<grant, watch, changer, node, table, slots, gate, ready, client, stop, left, cast>>

Task == Grants \cup Watches
NoGate == [task |-> 0, op |-> "none"]
NewGrant == [st |-> "none", prepared |-> FALSE, observer |-> FALSE, src |-> FALSE, removing |-> FALSE,
             stopping |-> FALSE, event |-> FALSE, box |-> "none", sender |-> "none"]
NewWatch == [st |-> "none", node |-> 0, info |-> 0, error |-> FALSE, src |-> FALSE, removing |-> FALSE,
             stopping |-> FALSE, provider |-> FALSE, event |-> FALSE, box |-> "none"]
NoRecord == [in |-> FALSE, node |-> 0, pending |-> {}, reason |-> "Active"]
NewClient == [open |-> TRUE, bits |-> {}, reply |-> "none", cancelled |-> FALSE]

Init ==
  /\ grant = [g \in Grants |-> NewGrant]
  /\ watch = [w \in Watches |-> NewWatch]
  /\ changer = [c \in Changers |-> [st |-> "idle", wakes |-> <<>>]]
  /\ node = [id |-> 1, version |-> 1, next |-> 2]
  /\ table = [grants |-> {}, watches |-> [w \in Watches |-> NoRecord]]
  /\ slots = Slots
  /\ gate = NoGate
  /\ ready = {}
  /\ client = [w \in Task |-> NewClient]
  /\ stop = FALSE
  /\ cast \in Casts
  /\ left = [changes |-> cast.changes, refusals |-> MaxRefusals]

Free == gate = NoGate
Ask(k, op) == gate' = [task |-> k, op |-> op]

(*-- Grant --*)
\* Ingress: Derive prepares a grant with its slot, sender and lifetime and spawns its task with the reply.
Derive(g) ==
  /\ Free /\ g \in cast.tasks /\ grant[g].st = "none" /\ slots > 0 /\ ~stop
  /\ grant' = [grant EXCEPT ![g] = [NewGrant EXCEPT !.st = "live", !.prepared = TRUE, !.box = "new", !.sender = "task"]]
  /\ slots' = slots - 1
  /\ ready' = ready \cup {g}
  /\ UNCHANGED <<watch, changer, node, table, gate, client, stop, left, cast>>

\* Grant::advance; x is the grant after its inputs were pulled.
Completes(g, x) == /\ grant' = [grant EXCEPT ![g] = [x EXCEPT !.st = "done", !.prepared = FALSE, !.observer = FALSE, !.sender = IF @ = "client" THEN @ ELSE "none"]]
                   /\ slots' = slots + 1
                   /\ ready' = ready \ {g}
                   /\ UNCHANGED <<gate, client>>
GrantStopping(g, x) ==
  LET y == [x EXCEPT !.box = "none", !.sender = IF @ = "client" THEN @ ELSE "none"]
  IN CASE y.prepared -> Completes(g, y) /\ UNCHANGED table
       [] y.src /\ ~y.removing -> /\ grant' = [grant EXCEPT ![g] = [y EXCEPT !.removing = TRUE]]
                                  /\ Ask(g, "remove")
                                  /\ UNCHANGED <<table, slots, ready, client>>
       [] OTHER -> /\ Completes(g, y)
                   /\ table' = [table EXCEPT !.grants = @ \ {g}]

\* drive_publication: admit the reply, then move the sender into it and send.
GrantPublish(g, x) ==
  /\ UNCHANGED <<table, slots>>
  /\ CASE x.box = "none" -> grant' = [grant EXCEPT ![g] = x] /\ ready' = ready \ {g} /\ UNCHANGED <<gate, client>>
       [] x.box = "new" -> grant' = [grant EXCEPT ![g] = x] /\ Ask(g, "reply") /\ UNCHANGED <<ready, client>>
       [] x.box = "lost" -> /\ grant' = [grant EXCEPT ![g] = [x EXCEPT !.box = "none", !.sender = "none", !.stopping = TRUE]]
                            /\ UNCHANGED <<ready, gate, client>>
       [] OTHER -> \* open: the client is there and takes it, or it is gone
            IF client[g].open
            THEN /\ grant' = [grant EXCEPT ![g] = [x EXCEPT !.box = "none", !.sender = "client"]]
                 /\ client' = [client EXCEPT ![g].reply = "ok"]
                 /\ ready' = ready \ {g} /\ UNCHANGED gate
            ELSE /\ grant' = [grant EXCEPT ![g] = [x EXCEPT !.box = "none", !.sender = "none", !.stopping = TRUE]]
                 /\ UNCHANGED <<ready, gate, client>>
GrantAdvance(g) ==
  /\ Free /\ g \in ready /\ grant[g].st = "live"
  /\ \E x \in {[grant[g] EXCEPT !.event = FALSE, !.stopping = @ \/ grant[g].event]} :
       CASE x.stopping -> GrantStopping(g, x)
         [] ~x.stopping /\ x.observer -> GrantPublish(g, x)
         [] OTHER -> grant' = [grant EXCEPT ![g] = x] /\ Ask(g, "source") /\ UNCHANGED <<table, slots, ready, client>>
  /\ UNCHANGED <<watch, changer, node, stop, left, cast>>

\* registered and install: from here the grant is valid and its sender may be published.
GrantRegistered(g) == [grant[g] EXCEPT !.src = TRUE, !.prepared = FALSE, !.observer = TRUE]

\* The client drops the grant's sender; the lifetime closes and the armed source reports it.
DropSender(g) ==
  /\ grant[g].sender = "client"
  /\ grant' = [grant EXCEPT ![g].sender = "none"]
  /\ UNCHANGED <<watch, changer, node, table, slots, gate, ready, client, stop, left, cast>>
Closes(g) == /\ grant[g].src /\ ~grant[g].removing /\ grant[g].sender = "none" /\ ~grant[g].event /\ ~grant[g].stopping
LifetimeClosed(g) ==
  /\ Closes(g)
  /\ grant' = [grant EXCEPT ![g].event = TRUE]
  /\ ready' = ready \cup {g}
  /\ UNCHANGED <<watch, changer, node, table, slots, gate, client, stop, left, cast>>

(*-- Watch table --*)
\* publish: active records of the node collect the events; a record with nothing pending owes its task a wake.
Hit(w, id) == table.watches[w].in /\ table.watches[w].node = id /\ table.watches[w].reason = "Active"
publish(events, terminal) ==
  [w \in Watches |-> IF ~Hit(w, node.id) THEN table.watches[w]
                     ELSE [table.watches[w] EXCEPT !.pending = @ \cup events, !.reason = IF terminal THEN "NodeDeleted" ELSE @]]
Owed == {w \in Watches : Hit(w, node.id) /\ table.watches[w].pending = {}}
RECURSIVE Listed(_)
Listed(S) == IF S = {} THEN <<>> ELSE LET w == CHOOSE w \in S : \A v \in S : w <= v IN <<w>> \o Listed(S \ {w})

\* WakeBatch::drive: as many wakes as the requests of one advance hold; the rest stay with the task.
Live == {g \in Grants : grant[g].st = "live"} \cup {w \in Watches : watch[w].st = "live"}
\* Mutant: what did not fit is forgotten.
Driven_Once(c, wakes) ==
  LET n == IF Len(wakes) < WakeRoom THEN Len(wakes) ELSE WakeRoom
  IN /\ ready' = ready \cup ({wakes[k] : k \in 1..n} \cap Live)
     /\ changer' = [changer EXCEPT ![c] = [st |-> "idle", wakes |-> <<>>]]
Driven(c, wakes) ==
  LET n == IF Len(wakes) < WakeRoom THEN Len(wakes) ELSE WakeRoom
  IN /\ ready' = ready \cup ({wakes[k] : k \in 1..n} \cap Live)
     /\ changer' = [changer EXCEPT ![c] = [st |-> IF n < Len(wakes) THEN "wakes" ELSE "idle", wakes |-> SubSeq(wakes, n + 1, Len(wakes))]]

\* serve_v2's Write: the node's version moves on and MODIFY is published.
Modify(c) ==
  /\ Free /\ changer[c].st = "idle" /\ node.id # 0 /\ left.changes > 0 /\ ~stop /\ cast.tasks \cap Watches # {}
  /\ node' = [node EXCEPT !.version = @ + 1]
  /\ table' = [table EXCEPT !.watches = publish({"MODIFY"}, FALSE)]
  /\ Driven(c, Listed(Owed))
  /\ left' = [left EXCEPT !.changes = @ - 1]
  /\ UNCHANGED <<grant, watch, slots, gate, client, stop, cast>>
\* serve_v2's Delete: the name is gone and the subscriptions of the node end.
Delete(c) ==
  /\ Free /\ changer[c].st = "idle" /\ node.id # 0 /\ left.changes > 0 /\ ~stop /\ cast.tasks \cap Watches # {}
  /\ node' = [node EXCEPT !.id = 0, !.version = @ + 1]
  /\ table' = [table EXCEPT !.watches = publish({"DELETE", "TERMINATED"}, TRUE)]
  /\ Driven(c, Listed(Owed))
  /\ left' = [left EXCEPT !.changes = @ - 1]
  /\ UNCHANGED <<grant, watch, slots, gate, client, stop, cast>>
\* serve_v2's Create under the same name: another node at the watched path.
Recreate ==
  /\ Free /\ node.id = 0 /\ left.changes > 0 /\ ~stop
  /\ node' = [id |-> node.next, version |-> 1, next |-> node.next + 1]
  /\ left' = [left EXCEPT !.changes = @ - 1]
  /\ UNCHANGED <<grant, watch, changer, table, slots, gate, ready, client, stop, cast>>
DriveWakes(c) ==
  /\ Free /\ changer[c].st = "wakes"
  /\ Driven(c, changer[c].wakes)
  /\ UNCHANGED <<grant, watch, node, table, slots, gate, client, stop, left, cast>>

(*-- Watch --*)
Subscribe(w) ==
  /\ Free /\ w \in cast.tasks /\ watch[w].st = "none" /\ node.id # 0 /\ ~stop
  /\ watch' = [watch EXCEPT ![w] = [NewWatch EXCEPT !.st = "live", !.node = node.id, !.box = "new"]]
  /\ ready' = ready \cup {w}
  /\ UNCHANGED <<grant, changer, node, table, slots, gate, client, stop, left, cast>>

\* notification::signal on the signaler's object; the client may already have closed it.
signal(w, bits) == [client EXCEPT ![w].bits = IF client[w].open THEN @ \cup bits ELSE @]

WatchStopping(w, x) ==
  LET rec == table.watches[w]
      told == IF rec.in /\ x.provider THEN signal(w, rec.pending \cup {"TERMINATED"}) ELSE client
      y == [x EXCEPT !.box = "none"]
  IN /\ table' = [table EXCEPT !.watches[w] = NoRecord]
     /\ client' = told
     /\ IF y.src /\ ~y.removing
        THEN watch' = [watch EXCEPT ![w] = [y EXCEPT !.removing = TRUE]] /\ Ask(w, "remove") /\ UNCHANGED ready
        ELSE watch' = [watch EXCEPT ![w] = [y EXCEPT !.st = "done"]] /\ ready' = ready \ {w} /\ UNCHANGED gate

\* The reply: admitted, then sent; a lost or an error reply ends the subscription.
WatchReply(w, x, c) ==
  CASE x.box = "none" -> watch' = [watch EXCEPT ![w] = x] /\ client' = c /\ ready' = ready \ {w} /\ UNCHANGED gate
    [] x.box = "new" -> watch' = [watch EXCEPT ![w] = x] /\ client' = c /\ Ask(w, "reply") /\ UNCHANGED ready
    [] x.box = "lost" -> /\ watch' = [watch EXCEPT ![w] = [x EXCEPT !.box = "none", !.stopping = TRUE]]
                         /\ client' = c /\ UNCHANGED <<ready, gate>>
    [] OTHER -> /\ watch' = [watch EXCEPT ![w] = [x EXCEPT !.box = "none", !.stopping = x.error]]
                /\ client' = [c EXCEPT ![w].reply = IF x.error THEN "error" ELSE "ok"]
                /\ ready' = (IF x.error THEN ready ELSE ready \ {w}) /\ UNCHANGED gate
WatchSignal(w, x) ==
  LET pending == table.watches[w].pending
  IN IF pending # {} /\ ~client[w].open
     THEN watch' = [watch EXCEPT ![w] = [x EXCEPT !.stopping = TRUE]] /\ UNCHANGED <<ready, gate, client>>
     ELSE WatchReply(w, x, signal(w, pending))
take_pending(w) == [table EXCEPT !.watches[w].pending = {}]
WatchAdvance(w) ==
  /\ Free /\ w \in ready /\ watch[w].st = "live"
  /\ \E x \in {[watch[w] EXCEPT !.event = FALSE, !.stopping = @ \/ watch[w].event]} :
     \E y \in {[x EXCEPT !.stopping = @ \/ (x.info # 0 /\ ~table.watches[w].in)]} :
       CASE ~x.stopping /\ x.info = 0 /\ ~x.error ->
              watch' = [watch EXCEPT ![w] = x] /\ Ask(w, "source") /\ UNCHANGED <<table, ready, client>>
         [] y.stopping -> WatchStopping(w, y)
         [] OTHER -> WatchSignal(w, y) /\ table' = take_pending(w)
  /\ UNCHANGED <<grant, changer, node, slots, stop, left, cast>>

\* registered: the path is resolved again and the generation read in the same step that installs the record.
Generation(w) == IF node.id = watch[w].node THEN node.version ELSE 0
WatchRegistered(w) ==
  IF Generation(w) # 0
  THEN /\ watch' = [watch EXCEPT ![w].src = TRUE, ![w].info = Generation(w)]
       /\ table' = [table EXCEPT !.watches[w] = [NoRecord EXCEPT !.in = TRUE, !.node = watch[w].node]]
  ELSE /\ watch' = [watch EXCEPT ![w].src = TRUE, ![w].error = TRUE]
       /\ UNCHANGED table

\* The client closes its notification; the armed source on the signaler reports it.
CloseNotification(w) ==
  /\ client[w].open /\ (w \in Watches => watch[w].st = "live") /\ (w \in Grants => grant[w].st = "live" /\ client[w].reply = "none")
  /\ client' = [client EXCEPT ![w].open = FALSE]
  /\ UNCHANGED <<grant, watch, changer, node, table, slots, gate, ready, stop, left, cast>>
Closing(w) == watch[w].src /\ ~watch[w].removing /\ ~client[w].open /\ ~watch[w].event /\ ~watch[w].stopping
SignalerClosed(w) ==
  /\ Closing(w)
  /\ watch' = [watch EXCEPT ![w].event = TRUE]
  /\ ready' = ready \cup {w}
  /\ UNCHANGED <<grant, changer, node, table, slots, gate, client, stop, left, cast>>

\* WatchControlOperation: Unsubscribe removes the record and wakes the task.
cancel(w) == ready \cup ({w} \cap Live)
Unsubscribe(w) ==
  /\ Free /\ table.watches[w].in /\ ~stop
  /\ table' = [table EXCEPT !.watches[w] = NoRecord]
  /\ ready' = cancel(w)
  /\ client' = [client EXCEPT ![w].cancelled = TRUE]
  /\ UNCHANGED <<grant, watch, changer, node, slots, gate, stop, left, cast>>

(*-- The gate --*)
GateAdmits(k) ==
  /\ gate.task = k
  /\ gate' = NoGate
  /\ CASE gate.op = "source" /\ k \in Grants ->
            /\ grant' = [grant EXCEPT ![k] = GrantRegistered(k)]
            /\ table' = [table EXCEPT !.grants = @ \cup {k}]
            /\ UNCHANGED watch
       [] gate.op = "source" /\ k \in Watches -> WatchRegistered(k) /\ UNCHANGED grant
       [] gate.op = "reply" /\ k \in Grants -> grant' = [grant EXCEPT ![k].box = "open"] /\ UNCHANGED <<watch, table>>
       [] gate.op = "reply" /\ k \in Watches -> watch' = [watch EXCEPT ![k].box = "open"] /\ UNCHANGED <<grant, table>>
       [] gate.op = "remove" /\ k \in Grants ->
            grant' = [grant EXCEPT ![k].src = FALSE, ![k].removing = FALSE] /\ UNCHANGED <<watch, table>>
       [] OTHER -> watch' = [watch EXCEPT ![k].src = FALSE, ![k].removing = FALSE] /\ UNCHANGED <<grant, table>>
  /\ ready' = ready \cup {k}
  /\ UNCHANGED <<changer, node, slots, client, stop, left, cast>>
\* A refused lifetime source fails the provider; a refused signaler source becomes the reply's error.
GateRefuses(k) ==
  /\ gate.task = k /\ gate.op # "remove" /\ left.refusals > 0
  /\ gate' = NoGate
  /\ left' = [left EXCEPT !.refusals = @ - 1]
  /\ CASE gate.op = "source" /\ k \in Grants -> grant' = [grant EXCEPT ![k].stopping = TRUE] /\ UNCHANGED watch
       [] gate.op = "source" /\ k \in Watches -> watch' = [watch EXCEPT ![k].error = TRUE] /\ UNCHANGED grant
       [] gate.op = "reply" /\ k \in Grants -> grant' = [grant EXCEPT ![k].box = "lost"] /\ UNCHANGED watch
       [] OTHER -> watch' = [watch EXCEPT ![k].box = "lost"] /\ UNCHANGED grant
  /\ ready' = ready \cup {k}
  /\ UNCHANGED <<changer, node, table, slots, client, stop, cast>>

\* The runtime stops every task.
Stopped(w) == [w EXCEPT !.stopping = TRUE, !.provider = TRUE]
Stop ==
  /\ ~stop
  /\ stop' = TRUE
  /\ grant' = [g \in Grants |-> IF grant[g].st = "live" THEN [grant[g] EXCEPT !.stopping = TRUE] ELSE grant[g]]
  /\ watch' = [w \in Watches |-> IF watch[w].st = "live" THEN Stopped(watch[w]) ELSE watch[w]]
  /\ ready' = ready \cup Live
  /\ UNCHANGED <<changer, node, table, slots, gate, client, left, cast>>

Next ==
  \/ \E g \in Grants : Derive(g) \/ GrantAdvance(g) \/ DropSender(g) \/ LifetimeClosed(g)
  \/ \E w \in Watches : Subscribe(w) \/ WatchAdvance(w) \/ SignalerClosed(w) \/ Unsubscribe(w)
  \/ \E c \in Changers : Modify(c) \/ Delete(c) \/ DriveWakes(c)
  \/ \E k \in Task : GateAdmits(k) \/ GateRefuses(k) \/ CloseNotification(k)
  \/ Recreate \/ Stop

Spec == Init /\ [][Next]_vars

(*-- Properties --*)
Quiet == /\ Free /\ ready = {} /\ \A c \in Changers : changer[c].st = "idle"
         /\ \A g \in Grants : ~Closes(g)
         /\ \A w \in Watches : ~Closing(w)

\* A grant is worth its sender (grant.rs install, provider.rs Grant): a sender in a client's hands is in the table with
\* its lifetime watched unless the provider is stopping it; a table entry always has a task that will remove it; and
\* when all is quiet the table holds exactly the grants whose sender a client holds, each with one slot.
GrantsExact ==
  /\ \A g \in Grants : grant[g].sender = "client" /\ ~grant[g].stopping /\ grant[g].st = "live" => g \in table.grants /\ grant[g].src
  /\ \A g \in table.grants : grant[g].st = "live" /\ grant[g].observer
  /\ Quiet => /\ table.grants = {g \in Grants : grant[g].st = "live"}
              /\ \A g \in table.grants : grant[g].sender = "client"
              /\ slots = Slots - Cardinality(table.grants)

\* No change is missed (watch.rs publish, provider.rs Watch): when all is quiet, a subscriber that was told generation v
\* and still listens has been signalled MODIFY if the node moved on, and TERMINATED if it was deleted or replaced.
Listening(w) == client[w].open /\ client[w].reply = "ok" /\ ~client[w].cancelled
NothingMissed ==
  Quiet => \A w \in Watches : Listening(w) =>
    /\ node.id = watch[w].node /\ node.version > watch[w].info => "MODIFY" \in client[w].bits
    /\ node.id # watch[w].node => "TERMINATED" \in client[w].bits

\* Stopping tells everyone (provider.rs Watch::stop): once the stopped provider is quiet every task has completed, both
\* tables are empty and every subscriber that still listens was signalled TERMINATED.
StopTells ==
  stop /\ Quiet =>
    /\ \A g \in Grants : grant[g].st # "live"
    /\ \A w \in Watches : watch[w].st # "live" /\ ~table.watches[w].in /\ (Listening(w) => "TERMINATED" \in client[w].bits)

\* Records and tasks belong together (WatchControlOperation, the signaler's source): when all is quiet, a subscription
\* has its record exactly as long as its task lives, and then its client listens and its signaler is watched.
RecordsOwned ==
  Quiet => \A w \in Watches :
             /\ watch[w].st = "live" <=> table.watches[w].in
             /\ table.watches[w].in => watch[w].src /\ Listening(w)
=============================================================================
