---------------------------- MODULE Registration ----------------------------
(***************************************************************************)
(* The tasks of the file service that own registrations and authorities    *)
(* (src/user/services/srv_fs/src/server/registration.rs, authority.rs and  *)
(* the retire task) running over the registry.  A task advances when the   *)
(* runtime has it ready and no source request is waiting in the gate;      *)
(* removals are confirmed later still, so a callback may find that other   *)
(* tasks moved the registry in between.  The reply transaction is the      *)
(* Outbox of Replies.tla, reduced to its result.                           *)
(***************************************************************************)
EXTENDS Integers, Sequences, FiniteSets

-----------------------------------------------------------------------------
(***************************************************************************)
(* The service registry (src/user/libraries/libservice): names, the        *)
(* registrations behind them, the authorities that may use a name, and the *)
(* directory projection readers see.  Its operations are functions on the  *)
(* registry's state g; the service tasks run them.                         *)
(***************************************************************************)

CONSTANTS Instance,     \* instance numbers, in issue order
          Name,         \* service names, ordered
          Authority,    \* authority identities; the first one is the root
          Limit,        \* registrations and names the registry may hold
          MaxVersion    \* the largest root version

NoInstance == 0

Live == {"Starting", "Ready"}

NoReg == [state |-> "None", name |-> 0, gen |-> 0, reason |-> "None", endpoint |-> FALSE,
          node |-> FALSE, control |-> FALSE, observed |-> FALSE, entry |-> FALSE]

\* Registry::new; authorities map to the names they permit.
NewRegistry ==
  [names |-> [n \in Name |-> NoInstance], regs |-> [i \in Instance |-> NoReg],
   draining |-> {}, version |-> 1, reserved |-> 0, sealed |-> FALSE,
   auth |-> [a \in Authority |-> {}], seen |-> 0, charged |-> 0]

Present(g) == {i \in Instance : g.regs[i].state # "None"}
Visible(g) == {n \in Name : g.names[n] # NoInstance /\ g.regs[g.names[n]].node}

\* authorize_name: a sealed table refuses everyone.
authorize_name(g, a, n) == ~g.sealed /\ n \in g.auth[a]

\* install of a prepared authority; observed_authorities counts its source.
install_authority(g, a, scope) == [g EXCEPT !.auth[a] = scope, !.seen = @ + 1]
remove_authority(g, a) == [g EXCEPT !.auth[a] = {}, !.seen = @ - 1]
Authorities(g) == {a \in Authority : g.auth[a] # {}}

\* register: every check and every prepayment comes before the first insertion.
Room(g) == g.version + g.reserved + 2 <= MaxVersion
Registers(g, a, n, i) ==
  /\ authorize_name(g, a, n)
  /\ g.names[n] = NoInstance /\ g.regs[i].state = "None"
  /\ Room(g)
  /\ Cardinality(Present(g)) < Limit

register(g, n, i) ==
  [g EXCEPT !.names[n] = i, !.reserved = @ + 2, !.charged = @ + 1,
            !.regs[i] = [state |-> "Starting", name |-> n, gen |-> 1, reason |-> "None", endpoint |-> TRUE,
                         node |-> FALSE, control |-> TRUE, observed |-> TRUE, entry |-> TRUE]]

\* commit_visible_change: the root version is also the cursor epoch.
commit_visible_change(g) == [g EXCEPT !.version = @ + 1]

\* publish_ready of a Starting registration whose deadline has not passed.
publish_ready(g, i, late) ==
  IF g.regs[i].state # "Starting" \/ late THEN g
  ELSE commit_visible_change([g EXCEPT !.regs[i].state = "Ready", !.regs[i].gen = 2,
                                       !.regs[i].node = TRUE, !.reserved = @ - 1])

\* The tail shared by drain_named and seal: the retirement entry is queued once
\* the endpoint is no longer observed.
Queue(g, i) ==
  IF g.regs[i].observed THEN g
  ELSE [g EXCEPT !.regs[i].entry = FALSE, !.draining = @ \cup {i}]

\* drain_named: the name is freed, the projection unlinked, one root version spent.
drain_named(g, i, reason) ==
  LET ready == g.regs[i].state = "Ready"
      h == [g EXCEPT !.names[g.regs[i].name] = NoInstance,
                     !.regs[i].state = "Draining", !.regs[i].reason = reason,
                     !.regs[i].gen = @ + 1, !.regs[i].node = FALSE,
                     !.reserved = IF ready THEN @ - 1 ELSE @ - 2]
  IN Queue(IF ready THEN commit_visible_change(h) ELSE h, i)

\* Mutant: the state is not looked at, so the drain of an old instance frees
\* whatever instance holds the name now.
begin_drain_Blind(g, i, reason) == IF g.regs[i].state = "None" THEN g ELSE drain_named(g, i, reason)
begin_drain(g, i, reason) == IF g.regs[i].state \in Live THEN drain_named(g, i, reason) ELSE g

\* expire_if_starting: a late timer finds an instance that became Ready.
expire_if_starting(g, i, late) ==
  IF g.regs[i].state = "Starting" /\ late THEN drain_named(g, i, "EstablishExpired") ELSE g

\* withdraw names the instance and the generation it expects.
Withdraws(g, a, n, i, gen) == authorize_name(g, a, n) /\ g.names[n] = i /\ g.regs[i].gen = gen
withdraw(g, i) == drain_named(g, i, "Withdrawn")

release_endpoint_observation(g, i) ==
  IF ~g.regs[i].observed THEN g
  ELSE LET h == [g EXCEPT !.regs[i].observed = FALSE] IN
       IF h.regs[i].state = "Draining" THEN Queue(h, i) ELSE h

\* Removing a registration returns its slot and its charges.
Remove(g, i) == [g EXCEPT !.regs[i] = NoReg, !.charged = @ - 1]

release_control(g, i) ==
  IF g.regs[i].state = "Terminal" THEN Remove(g, i)
  ELSE IF g.regs[i].state = "None" THEN g
  ELSE [g EXCEPT !.regs[i].control = FALSE]

\* retire_registrations, one unit: the least draining instance closes its
\* endpoint and becomes Terminal; without a control it disappears.
Retired(g, i) ==
  LET h == [g EXCEPT !.regs[i].state = "Terminal", !.regs[i].gen = @ + 1,
                     !.regs[i].endpoint = FALSE, !.draining = @ \ {i}]
  IN IF h.regs[i].control THEN h ELSE Remove(h, i)
retire_registrations(g) ==
  IF g.draining = {} THEN g ELSE Retired(g, CHOOSE i \in g.draining : \A j \in g.draining : i <= j)

\* seal: every bound name drains; no root version is spent any more.
RECURSIVE SealNames(_, _)
SealNames(g, S) ==
  IF S = {} THEN g
  ELSE LET i == CHOOSE x \in S : TRUE
           h == [g EXCEPT !.names[g.regs[i].name] = NoInstance,
                          !.regs[i].state = "Draining", !.regs[i].reason = "ProviderStopping",
                          !.regs[i].gen = @ + 1, !.regs[i].node = FALSE,
                          !.reserved = IF g.regs[i].state = "Ready" THEN @ - 1 ELSE @ - 2]
       IN SealNames(Queue(h, i), S \ {i})
seal(g) == IF g.sealed THEN g
           ELSE SealNames([g EXCEPT !.sealed = TRUE], {g.names[n] : n \in Name} \ {NoInstance})

\* retire_step of the authorities: in one sweep once no source observes them.
retire_authorities(g) ==
  IF g.sealed /\ g.seen = 0 THEN [g EXCEPT !.auth = [a \in Authority |-> {}]] ELSE g

is_empty(g) == Authorities(g) = {} /\ g.draining = {} /\ \A i \in Instance : g.regs[i].state \in {"None", "Terminal"}

\* enumerate: the page after a cursor, which is <<epoch, ordinal>>; <<0, 0>> starts.
Listed(g) == CHOOSE s \in [1 .. Cardinality(Visible(g)) -> Visible(g)] :
               \A i, j \in DOMAIN s : i < j => s[i] < s[j]
Continues(g, cursor) == cursor = <<0, 0>> \/ cursor[1] = g.version
Page(g, cursor, size) ==
  LET last == IF cursor[2] + size < Len(Listed(g)) THEN cursor[2] + size ELSE Len(Listed(g))
  IN [names |-> SubSeq(Listed(g), cursor[2] + 1, last),
      next |-> IF last < Len(Listed(g)) THEN <<g.version, last>> ELSE <<0, 0>>]

-----------------------------------------------------------------------------
CONSTANTS Scenarios     \* the disturbances one behaviour may meet together

VARIABLES g,        \* the registry
          task,     \* RegistrationReplyTask per instance
          auth,     \* AuthorityTask per authority
          ctl,      \* world.registration_controls
          late,     \* instances whose establish deadline has passed
          dead,     \* instances whose endpoint has closed
          owed,     \* wakes a command task still has to deliver
          world,    \* stop, the tasks still to be stopped, the retire task
          mood,     \* the scenario, fixed; a refusal uses its "refuse" up
          rd        \* a client paging through the directory

vars == <<g, task, auth, ctl, late, dead, owed, world, mood, rd>>

NoTask == [st |-> "none", run |-> FALSE, pending |-> FALSE, a |-> 0, n |-> 0, out |-> "none", rep |-> "none",
           control |-> FALSE, ls |-> "no", es |-> "no", released |-> FALSE, retiring |-> FALSE,
           stopping |-> FALSE, armed |-> FALSE, timeout |-> FALSE, sender |-> "none"]

NoAuth == [st |-> "none", run |-> FALSE, scope |-> {}, info |-> FALSE, out |-> "none", rep |-> "none",
           src |-> "no", stopping |-> FALSE, sender |-> "none"]

Root == CHOOSE a \in Authority : \A b \in Authority : a <= b
NoListing == [cursor |-> <<0, 0>>, got |-> <<>>, want |-> <<>>, open |-> FALSE]

Init ==
  /\ mood \in Scenarios     \* "worn": earlier instances came and went
  /\ g = [NewRegistry EXCEPT !.version = IF "worn" \in mood THEN MaxVersion - 3 ELSE @]
  /\ task = [i \in Instance |-> NoTask]
  /\ auth = [a \in Authority |-> IF a = Root THEN [NoAuth EXCEPT !.st = "live", !.run = TRUE, !.scope = Name, !.sender = "task"]
                                 ELSE NoAuth]
  /\ ctl = {} /\ late = {} /\ dead = {} /\ owed = {}
  /\ world = [stop |-> FALSE, tostop |-> {}, rrun |-> FALSE, rstop |-> FALSE, rdone |-> FALSE]
  /\ rd = NoListing

Registered == {"on", "fired", "spent"}
Unanswered == {"new", "admitted"}

\* Outbox::stop and timed_out: an answer that has no result yet is abandoned.
Abandon(out) == IF out \in Unanswered THEN "lost" ELSE out
Drop(sender) == IF sender = "task" THEN "dropped" ELSE sender

(*-- RegistrationReplyTask; s = [t, g, ctl, wake] for instance i --*)
drain(s, i, reason) ==
  [s EXCEPT !.g = IF s.t.control THEN begin_drain(@, i, reason) ELSE @,
            !.t.armed = FALSE, !.t.retiring = TRUE]

\* close_control also takes the control out of the world's table.
close_control(s, i, reason) ==
  [s EXCEPT !.ctl = IF s.t.control THEN @ \ {i} ELSE @,
            !.g = IF s.t.control THEN release_control(begin_drain(@, i, reason), i) ELSE @,
            !.t.armed = FALSE, !.t.retiring = TRUE, !.t.stopping = TRUE, !.t.pending = FALSE,
            !.t.sender = Drop(@), !.t.out = Abandon(@)]

\* The events of one advance: a closed control wins over a closed endpoint.
Consumed(src) == IF src = "fired" THEN "spent" ELSE src
Events(s, i) ==
  LET r == [s EXCEPT !.t.ls = Consumed(@), !.t.es = Consumed(@)] IN
  IF s.t.ls = "fired" THEN close_control(r, i, "ControlClosed")
  ELSE IF s.t.es = "fired"
       THEN LET d == drain(r, i, "EndpointClosed") IN
            IF d.t.pending THEN [d EXCEPT !.t.pending = FALSE, !.t.sender = Drop(@)] ELSE d
       ELSE r

Timeout(s, i) ==
  IF ~s.t.timeout THEN s
  ELSE LET r == [s EXCEPT !.t.timeout = FALSE, !.t.out = Abandon(@)]
           h == expire_if_starting(s.g, i, i \in late)
       IN IF s.t.control /\ ~s.t.stopping /\ s.t.armed
          THEN [r EXCEPT !.g = h, !.t.armed = FALSE, !.t.retiring = @ \/ h # s.g]
          ELSE r

\* prepare_sources: both sources are observed before the name is taken.  "return"
\* ends the advance.
prepare_sources(s) ==
  LET t == s.t IN
  IF t.stopping \/ ~t.pending THEN [s |-> s, return |-> FALSE]
  ELSE IF t.out \notin Unanswered
       THEN [s |-> [s EXCEPT !.t.stopping = TRUE, !.t.pending = FALSE, !.t.sender = Drop(@), !.t.retiring = TRUE],
             return |-> FALSE]
  ELSE IF t.out = "new" THEN [s |-> [s EXCEPT !.t.out = "admitted"], return |-> TRUE]
  ELSE IF t.ls = "no" THEN [s |-> [s EXCEPT !.t.ls = "asked"], return |-> TRUE]
  ELSE IF t.es = "no" THEN [s |-> [s EXCEPT !.t.es = "asked"], return |-> TRUE]
  ELSE [s |-> s, return |-> FALSE]

install(s, i) ==
  IF ~(s.t.pending /\ ~s.t.stopping /\ s.t.ls \in Registered /\ s.t.es \in Registered) THEN s
  ELSE IF i \notin late /\ Registers(s.g, s.t.a, s.t.n, i)
       THEN [s EXCEPT !.t.pending = FALSE, !.t.control = TRUE, !.t.armed = TRUE,
                      !.ctl = @ \cup {i}, !.g = register(@, s.t.n, i)]
       ELSE [s EXCEPT !.t.pending = FALSE, !.t.sender = Drop(@), !.t.retiring = TRUE]

\* The task looks at the instance another request may have moved.
Look(s, i) ==
  IF s.t.stopping \/ ~s.t.control THEN s
  ELSE CASE s.g.regs[i].state = "Ready" -> [s EXCEPT !.t.armed = FALSE]
         [] s.g.regs[i].state \in {"Draining", "Terminal"} ->
              [s EXCEPT !.t.armed = FALSE, !.t.retiring = TRUE, !.t.out = Abandon(@)]
         [] OTHER -> s

\* The reply: admitted, encoded with the control's sender, driven, finished.
Answer(s, i) ==
  LET t == s.t IN
  IF t.out = "none" THEN [s |-> s, return |-> FALSE]
  ELSE IF t.out = "new" /\ ~t.stopping /\ ~t.pending THEN [s |-> [s EXCEPT !.t.out = "admitted"], return |-> TRUE]
  ELSE IF t.out = "admitted" /\ ~t.pending /\ ~t.stopping
       THEN LET e == [s EXCEPT !.t.sender = IF @ = "task" THEN "box" ELSE @] IN
            IF t.rep = "ready"
            THEN LET d == [e EXCEPT !.t.out = "none", !.t.sender = IF @ = "box" THEN "client" ELSE @] IN
                 [s |-> IF t.control THEN d ELSE close_control(d, i, "ControlClosed"), return |-> FALSE]
            ELSE IF t.rep = "gone"
            THEN [s |-> close_control([e EXCEPT !.t.out = "lost"], i, "ControlClosed"), return |-> FALSE]
            ELSE [s |-> e, return |-> FALSE]
  ELSE IF t.out = "lost"
       THEN [s |-> close_control([s EXCEPT !.t.out = "none", !.t.sender = IF @ = "box" THEN "dropped" ELSE @],
                                 i, "ControlClosed"),
             return |-> FALSE]
  ELSE [s |-> s, return |-> FALSE]

\* release_sources: the endpoint's retirement opens only when no source observes it.
release_sources(s, i) ==
  LET t == s.t
      free == (t.retiring \/ t.stopping) /\ t.es = "no" /\ ~t.released
  IN [s EXCEPT !.t.es = IF (t.retiring \/ t.stopping) /\ @ \in Registered THEN "removing" ELSE @,
               !.t.released = @ \/ free,
               !.t.ls = IF t.stopping /\ @ \in Registered THEN "removing" ELSE @,
               !.g = IF free /\ t.control THEN release_endpoint_observation(@, i) ELSE @,
               !.wake = @ \/ (free /\ t.control)]

Settle(s) ==
  LET t == s.t
      done == t.stopping /\ t.out = "none" /\ t.released /\ t.ls = "no"
  IN [s EXCEPT !.t.st = IF done THEN "done" ELSE @,
               !.t.run = ~done /\ (t.out = "lost" \/ t.ls = "removing" \/ t.es = "removing")]

Advanced(s, i) ==
  LET p == prepare_sources(Timeout(Events(s, i), i)) IN
  IF p.return THEN p.s
  ELSE LET a == Answer(Look(install(p.s, i), i), i) IN
       IF a.return THEN a.s ELSE Settle(release_sources(a.s, i))

\* advance_one: while the gate holds a request no task advances.
Asking(t) == t.ls = "asked" \/ t.es = "asked"
Gate == (\E i \in Instance : Asking(task[i])) \/ \E a \in Authority : auth[a].src = "asked"

advance(i) ==
  /\ ~Gate /\ task[i].st = "live" /\ task[i].run
  /\ \E s \in {Advanced([t |-> task[i], g |-> g, ctl |-> ctl, wake |-> FALSE], i)} :
       /\ task' = [task EXCEPT ![i] = s.t]
       /\ g' = s.g /\ ctl' = s.ctl
       /\ world' = [world EXCEPT !.rrun = @ \/ s.wake]
  /\ UNCHANGED <<auth, late, dead, owed, mood, rd>>

\* The gate answers a source request; a refusal closes the control.
registered(i) ==
  /\ Asking(task[i])
  /\ task' = [task EXCEPT ![i].ls = IF @ = "asked" THEN "on" ELSE @,
                          ![i].es = IF @ = "asked" THEN "on" ELSE @]
  /\ UNCHANGED <<g, auth, ctl, late, dead, owed, world, mood, rd>>

refused(i) ==
  /\ Asking(task[i]) /\ "refuse" \in mood
  /\ mood' = mood \ {"refuse"}
  /\ \E t \in {[task[i] EXCEPT !.ls = IF @ = "asked" THEN "no" ELSE @, !.es = IF @ = "asked" THEN "no" ELSE @]} :
     \E s \in {close_control([t |-> t, g |-> g, ctl |-> ctl, wake |-> FALSE], i, "ControlClosed")} :
       task' = [task EXCEPT ![i] = s.t] /\ g' = s.g /\ ctl' = s.ctl
  /\ UNCHANGED <<auth, late, dead, owed, world, rd>>

unregistered(i) ==
  /\ \/ task[i].ls = "removing" /\ task' = [task EXCEPT ![i].ls = "no"]
     \/ task[i].es = "removing" /\ task' = [task EXCEPT ![i].es = "no"]
  /\ UNCHANGED <<g, auth, ctl, late, dead, owed, world, mood, rd>>

\* A source whose object closed fires once.
Fire(i) ==
  /\ \/ /\ task[i].ls = "on" /\ task[i].sender = "dropped"
        /\ task' = [task EXCEPT ![i].ls = "fired", ![i].run = TRUE]
     \/ /\ task[i].es = "on" /\ i \in dead
        /\ task' = [task EXCEPT ![i].es = "fired", ![i].run = TRUE]
  /\ UNCHANGED <<g, auth, ctl, late, dead, owed, world, mood, rd>>

(*-- AuthorityTask --*)
Authorise(u, h, a) ==
  LET v == [u EXCEPT !.src = Consumed(@), !.stopping = @ \/ u.src = "fired"]
      w == IF v.stopping THEN [v EXCEPT !.out = Abandon(@), !.sender = Drop(@)] ELSE v
      gone == w.stopping /\ w.src = "no"
      x == IF w.out = "admitted" /\ w.info
           THEN LET e == [w EXCEPT !.sender = IF @ = "task" THEN "box" ELSE @] IN
                CASE w.rep = "ready" -> [e EXCEPT !.out = "sent", !.sender = IF @ = "box" THEN "client" ELSE @]
                  [] w.rep = "gone" -> [e EXCEPT !.out = "lost"]
                  [] OTHER -> e
           ELSE w
      y == [x EXCEPT !.stopping = @ \/ x.out = "lost", !.info = @ /\ ~gone,
                     !.sender = IF x.out = "lost" /\ @ = "box" THEN "dropped" ELSE @]
  IN IF w.stopping /\ w.src \in Registered THEN [u |-> [w EXCEPT !.src = "removing", !.run = TRUE], g |-> h]
     ELSE IF ~w.stopping /\ w.src = "no" THEN [u |-> [w EXCEPT !.src = "asked", !.run = TRUE], g |-> h]
     ELSE IF ~w.stopping /\ w.info /\ w.out = "new" THEN [u |-> [w EXCEPT !.out = "admitted", !.run = TRUE], g |-> h]
     ELSE [u |-> [y EXCEPT !.run = y.stopping /\ ~gone, !.st = IF gone THEN "done" ELSE @],
           g |-> IF gone /\ w.info THEN remove_authority(h, a) ELSE h]

authority_advance(a) ==
  /\ ~Gate /\ auth[a].st = "live" /\ auth[a].run
  /\ \E r \in {Authorise(auth[a], g, a)} :
       /\ auth' = [auth EXCEPT ![a] = r.u]
       /\ g' = r.g
       /\ world' = [world EXCEPT !.rrun = @ \/ (g.sealed /\ r.g # g)]
  /\ UNCHANGED <<task, ctl, late, dead, owed, mood, rd>>

\* registered: the installation makes the authority usable; a sealed table refuses it.
authority_registered(a) ==
  /\ auth[a].src = "asked"
  /\ \E ok \in {~auth[a].stopping /\ ~g.sealed} :
       /\ auth' = [auth EXCEPT ![a].src = "on", ![a].info = ok, ![a].stopping = ~ok,
                               ![a].sender = IF a = Root /\ ok THEN "client" ELSE @]
       /\ g' = IF ok THEN install_authority(g, a, auth[a].scope) ELSE g
  /\ UNCHANGED <<task, ctl, late, dead, owed, world, mood, rd>>

\* The root's source is never refused while the provider lives: that is fatal.
authority_refused(a) ==
  /\ auth[a].src = "asked" /\ a # Root /\ "refuse" \in mood
  /\ mood' = mood \ {"refuse"}
  /\ auth' = [auth EXCEPT ![a].src = "no", ![a].stopping = TRUE]
  /\ UNCHANGED <<g, task, ctl, late, dead, owed, world, rd>>

authority_source(a) ==
  /\ \/ auth[a].src = "removing" /\ auth' = [auth EXCEPT ![a].src = "no"]
     \/ auth[a].src = "on" /\ auth[a].sender = "dropped" /\ auth' = [auth EXCEPT ![a].src = "fired", ![a].run = TRUE]
  /\ UNCHANGED <<g, task, ctl, late, dead, owed, world, mood, rd>>

(*-- The retire task of the provider --*)
\* Retirement::advance: the backend is sealed, then retired one unit at a time.
Retires(h) == (h.sealed /\ h.seen = 0 /\ Authorities(h) # {}) \/ h.draining # {}
Retire ==
  /\ ~Gate /\ world.rrun /\ ~world.rdone
  /\ \E h \in {IF world.rstop THEN seal(g) ELSE g} :
       IF Retires(h)
       THEN g' = (IF h.sealed /\ h.seen = 0 /\ Authorities(h) # {} THEN retire_authorities(h) ELSE retire_registrations(h))
            /\ UNCHANGED world
       ELSE g' = h /\ world' = [world EXCEPT !.rrun = FALSE, !.rdone = world.rstop /\ is_empty(h)]
  /\ UNCHANGED <<task, auth, ctl, late, dead, owed, mood, rd>>

(*-- The registration entry: RegistrationIngress decodes one request --*)
\* Register: the authority is checked here and again at the installation.
Register(i, a, n) ==
  /\ ~Gate /\ ~world.stop
  /\ task[i].st = "none" /\ \A j \in Instance : j < i => task[j].st # "none" /\ "again" \in mood
  /\ "read" \notin mood => \A m \in Name : n <= m    \* other names matter to a listing only
  /\ authorize_name(g, a, n) /\ auth[a].sender = "client"
  /\ task' = [task EXCEPT ![i] = [NoTask EXCEPT !.st = "live", !.run = TRUE, !.pending = TRUE, !.a = a,
                                                !.n = n, !.out = "new", !.sender = "task"]]
  /\ UNCHANGED <<g, auth, ctl, late, dead, owed, world, mood, rd>>

DelegateName(a, n) ==
  /\ ~Gate /\ "delegate" \in mood /\ ~world.stop /\ ~g.sealed /\ auth[a].st = "none"
  /\ g.auth[Root] # {} /\ auth[Root].sender = "client"
  /\ auth' = [auth EXCEPT ![a] = [NoAuth EXCEPT !.st = "live", !.run = TRUE, !.scope = {n}, !.out = "new", !.sender = "task"]]
  /\ UNCHANGED <<g, task, ctl, late, dead, owed, world, mood, rd>>

\* execute_action of a command task; the control's task is woken afterwards.
PublishReady(i) ==
  /\ ~Gate /\ i \in ctl /\ task[i].sender = "client"
  /\ g.regs[i].state = "Starting" /\ i \notin late
  /\ g' = publish_ready(g, i, i \in late) /\ owed' = owed \cup {i}
  /\ UNCHANGED <<task, auth, ctl, late, dead, world, mood, rd>>

BeginDrain(i) ==
  /\ ~Gate /\ "drain" \in mood /\ i \in ctl /\ task[i].sender = "client" /\ g.regs[i].state \in Live
  /\ g' = begin_drain(g, i, "Withdrawn") /\ owed' = owed \cup {i}
  /\ UNCHANGED <<task, auth, ctl, late, dead, world, mood, rd>>

Withdraw(i, a) ==
  /\ ~Gate /\ "withdraw" \in mood /\ auth[a].sender = "client" /\ g.regs[i].state \in Live
  /\ Withdraws(g, a, g.regs[i].name, i, g.regs[i].gen)
  /\ g' = withdraw(g, i)
  /\ owed' = IF i \in ctl THEN owed \cup {i} ELSE owed
  /\ UNCHANGED <<task, auth, ctl, late, dead, world, mood, rd>>

DeliverWake(i) ==
  /\ i \in owed
  /\ owed' = owed \ {i}
  /\ task' = [task EXCEPT ![i].run = @ \/ task[i].st = "live"]
  /\ UNCHANGED <<g, auth, ctl, late, dead, world, mood, rd>>

\* enumerate: one page; a page of an older epoch answers Conflict.
Enumerate ==
  /\ ~Gate /\ "read" \in mood /\ ~g.sealed
  /\ IF rd.open /\ ~Continues(g, rd.cursor) THEN rd' = NoListing
     ELSE \E p \in {Page(g, rd.cursor, 1)} :
            rd' = [cursor |-> p.next, open |-> p.next # <<0, 0>>,
                   got |-> (IF rd.open THEN rd.got ELSE <<>>) \o p.names,
                   want |-> IF rd.open THEN rd.want ELSE Listed(g)]
  /\ UNCHANGED <<g, task, auth, ctl, late, dead, owed, world, mood>>

(*-- The environment --*)
Reply(i) ==
  /\ task[i].rep = "none" /\ task[i].out = "admitted"
  /\ \E r \in {"ready"} \cup (mood \cap {"gone"}) : task' = [task EXCEPT ![i].rep = r, ![i].run = TRUE]
  /\ UNCHANGED <<g, auth, ctl, late, dead, owed, world, mood, rd>>

AuthorityReply(a) ==
  /\ auth[a].rep = "none" /\ auth[a].out = "admitted"
  /\ \E r \in {"ready"} \cup (mood \cap {"gone"}) : auth' = [auth EXCEPT ![a].rep = r, ![a].run = TRUE]
  /\ UNCHANGED <<g, task, ctl, late, dead, owed, world, mood, rd>>

ClientDrops ==
  /\ "drop" \in mood
  /\ \/ \E i \in Instance : /\ task[i].sender = "client"
                            /\ task' = [task EXCEPT ![i].sender = "dropped"] /\ UNCHANGED auth
     \/ \E a \in Authority \ {Root} : /\ auth[a].sender = "client"
                             /\ auth' = [auth EXCEPT ![a].sender = "dropped"] /\ UNCHANGED task
  /\ UNCHANGED <<g, ctl, late, dead, owed, world, mood, rd>>

EndpointCloses(i) ==
  /\ "dead" \in mood /\ i \notin dead /\ task[i].st = "live"
  /\ dead' = dead \cup {i}
  /\ UNCHANGED <<g, task, auth, ctl, late, owed, world, mood, rd>>

\* The establish deadline passes; the reply's deadline is never later.
DeadlinePasses(i) ==
  /\ "late" \in mood /\ i \notin late /\ task[i].st = "live"
  /\ late' = late \cup {i}
  /\ \E due \in {task[i].armed \/ task[i].out \in Unanswered} :
       task' = [task EXCEPT ![i].timeout = @ \/ due, ![i].run = @ \/ due]
  /\ UNCHANGED <<g, auth, ctl, dead, owed, world, mood, rd>>

\* world.stop: the runtime is sealed and stops its tasks one by one.
Alive == {<<"reg", i>> : i \in {j \in Instance : task[j].st = "live"}}
         \cup {<<"auth", a>> : a \in {b \in Authority : auth[b].st = "live"}} \cup {<<"retire", 0>>}
StopWorld ==
  /\ "stop" \in mood /\ ~world.stop
  /\ world' = [world EXCEPT !.stop = TRUE, !.tostop = Alive]
  /\ UNCHANGED <<g, task, auth, ctl, late, dead, owed, mood, rd>>

StopTask(x) ==
  /\ x \in world.tostop
  /\ CASE x[1] = "reg" /\ task[x[2]].st = "live" ->
            \E s \in {close_control([t |-> task[x[2]], g |-> g, ctl |-> ctl, wake |-> FALSE], x[2], "ProviderStopping")} :
              /\ task' = [task EXCEPT ![x[2]] = [s.t EXCEPT !.run = TRUE]]
              /\ g' = s.g /\ ctl' = s.ctl
              /\ world' = [world EXCEPT !.tostop = @ \ {x}] /\ UNCHANGED auth
       [] x[1] = "auth" /\ auth[x[2]].st = "live" ->
            /\ auth' = [auth EXCEPT ![x[2]].stopping = TRUE, ![x[2]].run = TRUE, ![x[2]].out = Abandon(@)]
            /\ world' = [world EXCEPT !.tostop = @ \ {x}] /\ UNCHANGED <<g, task, ctl>>
       [] OTHER -> /\ world' = [world EXCEPT !.tostop = @ \ {x}, !.rstop = @ \/ x[1] = "retire",
                                             !.rrun = @ \/ x[1] = "retire"]
                   /\ UNCHANGED <<g, task, auth, ctl>>
  /\ UNCHANGED <<late, dead, owed, mood, rd>>

Next ==
  \/ \E i \in Instance : \/ advance(i) \/ registered(i) \/ refused(i) \/ unregistered(i) \/ Fire(i)
                         \/ PublishReady(i) \/ BeginDrain(i) \/ DeliverWake(i) \/ Reply(i)
                         \/ EndpointCloses(i) \/ DeadlinePasses(i)
                         \/ \E a \in Authority : Withdraw(i, a) \/ \E n \in Name : Register(i, a, n)
  \/ \E a \in Authority : \/ authority_advance(a) \/ authority_registered(a) \/ authority_refused(a)
                          \/ authority_source(a) \/ AuthorityReply(a)
                          \/ \E n \in Name : DelegateName(a, n)
  \/ Retire \/ Enumerate \/ ClientDrops \/ StopWorld
  \/ \E x \in world.tostop : StopTask(x)

Spec == Init /\ [][Next]_vars

(*-- Properties --*)
\* A name is bound exactly to a Starting or Ready instance of that name, a Ready
\* instance is in the directory, the root versions still to be spent are reserved
\* (register prepays two, publish and drain spend one each), and the slots charged
\* are the registrations present.
NamesExact ==
  /\ \A n \in Name, i \in Instance : g.names[n] = i <=> g.regs[i].state \in Live /\ g.regs[i].name = n
  /\ \A i \in Instance : g.regs[i].node <=> g.regs[i].state = "Ready"
  /\ g.reserved = 2 * Cardinality({i \in Instance : g.regs[i].state = "Starting"})
                  + Cardinality({i \in Instance : g.regs[i].state = "Ready"})
  /\ g.version + g.reserved <= MaxVersion
  /\ g.charged = Cardinality(Present(g)) /\ g.charged <= Limit
  /\ ctl = {i \in Instance : task[i].st = "live" /\ task[i].control /\ ~task[i].stopping}

\* The endpoint a registration owns is closed only when no source observes it any
\* more, and a live registration is always observed (release_endpoint_observation).
EndpointKept ==
  \A i \in Instance :
    /\ g.regs[i].state # "None" /\ ~g.regs[i].endpoint => task[i].es \notin Registered \cup {"removing"}
    /\ i \in g.draining => task[i].es = "no"
    /\ g.regs[i].state \in Live => g.regs[i].observed /\ task[i].es \in Registered

\* A step that drains one instance leaves every other registration as it was: an
\* old control, a late timer or a stale withdraw never touches the replacement.
ReplacementStep ==
  g'.sealed = g.sealed =>
    \A i, j \in Instance : i # j /\ g.regs[i] # g'.regs[i] =>
      g.regs[j] = g'.regs[j] /\ \A n \in Name : g.names[n] = j => g'.names[n] = j
ReplacementUntouched == [][ReplacementStep]_vars

\* A directory listing read page by page is the listing of one moment.
ListingWhole == ~rd.open => rd.got = rd.want

\* Nothing the service itself still has to do.
Quiet ==
  /\ \A i \in Instance : /\ ~(task[i].st = "live" /\ task[i].run) /\ ~Asking(task[i])
                         /\ task[i].ls # "removing" /\ task[i].es # "removing"
                         /\ ~(task[i].ls = "on" /\ task[i].sender = "dropped") /\ ~(task[i].es = "on" /\ i \in dead)
  /\ \A a \in Authority : /\ ~(auth[a].st = "live" /\ auth[a].run) /\ auth[a].src \notin {"asked", "removing"}
                          /\ ~(auth[a].src = "on" /\ auth[a].sender = "dropped")
  /\ owed = {} /\ world.tostop = {} /\ (~world.rrun \/ world.rdone)

\* When nothing is left to do nothing is stuck: no instance is half drained, a dead
\* or late instance is not offered, a Terminal one is kept only for the client that
\* still holds its control, and after a stop everything has been returned.
QuietSettled ==
  Quiet => /\ \A i \in Instance :
                /\ g.regs[i].state # "Draining"
                /\ g.regs[i].state \in Live => /\ i \notin dead /\ task[i].sender # "dropped"
                                               /\ g.regs[i].state = "Starting" => i \notin late
                /\ g.regs[i].state = "Terminal" => task[i].sender = "client" /\ task[i].st = "live"
                /\ task[i].st = "live" => task[i].sender # "dropped"
           /\ world.stop => /\ world.rdone /\ Present(g) = {} /\ g.seen = 0
                            /\ \A i \in Instance : task[i].st # "live"
                            /\ \A a \in Authority : auth[a].st # "live"
=============================================================================
