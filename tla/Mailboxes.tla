----------------------------- MODULE Mailboxes -----------------------------
(***************************************************************************)
(* A mailbox (task/mailbox.rs), the capabilities that name it and the      *)
(* calls that move capabilities between the tables of a process and of the *)
(* process it builds (task/handle.rs, task/process.rs).                    *)
(*                                                                         *)
(* Parent owns the mailbox M, the builder B of Child and X, a capability   *)
(* that cannot be duplicated (a tunnel invitation): its close callback     *)
(* tells somebody.  One sender object S with its lifetime observer L can   *)
(* be minted; every message carries a delivery D that refers to S.  The    *)
(* lifetime of S ends with the last of its references.                     *)
(*                                                                         *)
(* A call is atomic from one release of a lock to the next.  A call that   *)
(* is refused and changes nothing is not a step.  The wait state of M is   *)
(* its level here.                                                         *)
(***************************************************************************)
EXTENDS Naturals, Sequences, FiniteSets, SequencesExt, FiniteSetsExt

-----------------------------------------------------------------------------
(***************************************************************************)
(* The handle table of one process (os/handle_table): slots with           *)
(* generations, reservations, pins and the scan that empties it.           *)
(*                                                                         *)
(* A table is a record and every method an operator from the table before  *)
(* to the table after; the errors of a method are the negation of its      *)
(* guard operator.  Slot 0, which never holds anything, is left out: slots *)
(* count from 1.  A handle is a pair of a slot and a generation.           *)
(***************************************************************************)

CONSTANTS
    MaxGeneration   \* u32::MAX

NoEntry == [object |-> "none", role |-> "none", rights |-> {}]
NoToken == 0

Slot(generation, state, token, entry) ==
    [generation |-> generation, state |-> state, token |-> token, entry |-> entry]

\* try_with_limit
NewTable == [slots |-> <<>>, occupied |-> 0]

HandleOf(t, i) == <<i, t.slots[i].generation>>
Named(t, h) == h[1] \in DOMAIN t.slots /\ t.slots[h[1]].generation = h[2]
StateOf(t, h) == IF Named(t, h) THEN t.slots[h[1]].state ELSE "Stale"
EntryOf(t, h) == t.slots[h[1]].entry

\* occupied_index: a pinned slot is busy, everything else but an occupied one is stale.
Installed(t, h) == StateOf(t, h) = "Occupied"

\* get
Holds(t, h, required) == Installed(t, h) /\ required \subseteq EntryOf(t, h).rights

\* A slot whose last generation is used up is retired.
advance_generation(t, i) ==
    [t EXCEPT !.slots[i] =
        IF @.generation = MaxGeneration
        THEN Slot(@.generation, "Retired", NoToken, NoEntry)
        ELSE Slot(@.generation + 1, "Vacant", NoToken, NoEntry)]

remove(t, h) == advance_generation([t EXCEPT !.occupied = @ - 1], h[1])

-----------------------------------------------------------------------------
(* Reservations.                                                           *)

Vacant(t) == {i \in DOMAIN t.slots : t.slots[i].state = "Vacant"}

\* reserve_slot: the first vacant slot, or a new one.
reserve_slot(t, token) ==
    IF Vacant(t) # {}
    THEN LET i == CHOOSE i \in Vacant(t) : \A j \in Vacant(t) : i <= j
         IN  [t EXCEPT !.slots[i] = Slot(@.generation, "Reserved", token, NoEntry)]
    ELSE [t EXCEPT !.slots = Append(@, Slot(1, "Reserved", token, NoEntry))]

Reservable(t, limit, count, token) ==
    /\ \A i \in DOMAIN t.slots : ~(t.slots[i].state = "Reserved" /\ t.slots[i].token = token)
    /\ Cardinality(Vacant(t)) + limit - Len(t.slots) >= count

reserve(t, count, token) ==
    LET grow[n \in 0 .. count] == IF n = 0 THEN t ELSE reserve_slot(grow[n - 1], token)
    IN  grow[count]

ReservedBy(t, token) ==
    {i \in DOMAIN t.slots : t.slots[i].state = "Reserved" /\ t.slots[i].token = token}

\* prepare_commit and commit_prepared
commit(t, token, entries) ==
    [t EXCEPT
       !.slots = [i \in DOMAIN @ |->
           IF i \in ReservedBy(t, token)
           THEN Slot(@[i].generation, "Occupied", NoToken,
                     entries[1 + Cardinality({j \in ReservedBy(t, token) : j < i})])
           ELSE @[i]],
       !.occupied = @ + Len(entries)]

\* rollback_handles
rollback(t, token) ==
    [t EXCEPT !.slots = [i \in DOMAIN @ |->
        IF i \in ReservedBy(t, token) THEN advance_generation(t, i).slots[i] ELSE @[i]]]

\* reserve that runs out of slots: the ones it took go back, one generation older.
reserve_failed(t, limit, token) ==
    rollback(reserve(t, Cardinality(Vacant(t)) + limit - Len(t.slots), token), token)

-----------------------------------------------------------------------------
(* Moves and pins.                                                         *)

Distinct(items) == \A i, j \in DOMAIN items : items[i].handle = items[j].handle => i = j

\* prepare_extract_with: every item has the transport right and asks for no more than it has.
Extractable(t, items, transport) ==
    /\ Distinct(items)
    /\ \A i \in DOMAIN items :
           /\ Holds(t, items[i].handle, {transport})
           /\ items[i].rights \subseteq EntryOf(t, items[i].handle).rights

Extracted(t, items) ==
    [i \in DOMAIN items |-> [EntryOf(t, items[i].handle) EXCEPT !.rights = items[i].rights]]

\* PreparedExtraction::commit
Extract(t, items) == FoldLeft(LAMBDA acc, item : remove(acc, item.handle), t, items)

\* pin_transaction: the grants and the protected authority, none of them twice.
Pinnable(t, protected, required, items) ==
    /\ Holds(t, protected, {required})
    /\ Extractable(t, items, "GRANT")
    /\ \A i \in DOMAIN items : items[i].handle # protected

pin(t, handles, token) ==
    [t EXCEPT !.slots = [i \in DOMAIN @ |->
        IF \E h \in handles : h[1] = i THEN [@[i] EXCEPT !.state = "Pinned", !.token = token] ELSE @[i]]]

PinnedBy(t, token) == {i \in DOMAIN t.slots : t.slots[i].state = "Pinned" /\ t.slots[i].token = token}

unpin(t, token) ==
    [t EXCEPT !.slots = [i \in DOMAIN @ |->
        IF i \in PinnedBy(t, token) THEN [@[i] EXCEPT !.state = "Occupied", !.token = NoToken] ELSE @[i]]]

\* commit_pinned_transfer: the grants leave, the protected authority is restored.
commit_pinned_transfer(t, token, items) ==
    unpin(FoldLeft(LAMBDA acc, item : remove(acc, item.handle), t, items), token)

-----------------------------------------------------------------------------
(* The scan of a process that exits.                                       *)

\* take_next_bounded for one slot: an entry is taken, a reservation whose thread is gone is
\* cleared, a pinned slot is passed.
take_next(t, i) ==
    CASE t.slots[i].state = "Occupied" -> remove(t, HandleOf(t, i))
      [] t.slots[i].state = "Reserved" -> advance_generation(t, i)
      [] OTHER -> t

-----------------------------------------------------------------------------
CONSTANTS
    Parent, Child,
    Thread,             \* the threads of both, positive numbers: also their transaction tokens
    Drainer,            \* who drains a process that exited
    ProcOf,             \* the process of a thread
    Limit,              \* the slots of a table
    MAILBOX_CAPACITY,
    MaxCalls            \* calls of every thread

Process == {Parent, Child}
Caller == Thread \cup {Drainer[p] : p \in Process}

VARIABLES
    table,      \* the handle table of every process
    queue,      \* the messages of M: the capabilities each one carries
    receiving,  \* the token of the receive in flight
    closed,
    level,      \* the signals of M
    minted,     \* S was created
    life,       \* of a process: building, running, dying, drained
    lease,      \* the building operations on Child
    cursor,     \* the slots a drain has passed
    pc, held,   \* the call of an actor, and the capabilities it has in its hands
    calls,
    ended,      \* how often the close callback of M, B and X ran
    dead        \* the handle values every process has seen go

tables == <<table, cursor, dead>>
box == <<queue, receiving, closed, level>>
vars == <<tables, box, minted, life, lease, pc, held, calls, ended>>

Entry(object, role, rights) == [object |-> object, role |-> role, rights |-> rights]
OwnerEntry == Entry("M", "MailboxOwner", {"READ", "MANAGE", "GRANT"})
BuilderEntry == Entry("B", "ProcessBuilder", {"MANAGE", "TRANSIT", "GRANT"})
PayloadEntry == Entry("X", "TunnelInvitation", {"TRANSIT", "GRANT"})
SenderEntry == Entry("S", "MailboxSender", {"WRITE", "TRANSIT", "GRANT", "DUPLICATE"})
LifetimeEntry == Entry("L", "LifetimeObserver", {"DUPLICATE", "TRANSIT", "GRANT"})
DeliveryEntry == Entry("D", "Delivery", {"TRANSIT", "GRANT"})

\* Parent has created M and Child; or it has also minted S, granted it to Child and started it.
Begun == [table |-> [p \in Process |->
              IF p = Parent
              THEN commit(reserve(NewTable, 3, 1), 1, <<OwnerEntry, BuilderEntry, PayloadEntry>>)
              ELSE NewTable],
          minted |-> FALSE, life |-> "building", calls |-> 0, builders |-> 0]
Started == [table |-> [p \in Process |->
                IF p = Parent
                THEN LET full == commit(reserve(Begun.table[p], 2, 1), 1, <<SenderEntry, LifetimeEntry>>)
                     IN  remove(remove(full, <<4, 1>>), <<2, 1>>)
                ELSE commit(reserve(NewTable, 1, 1), 1, <<SenderEntry>>)],
            minted |-> TRUE, life |-> "running", calls |-> 1, builders |-> 1]

Init ==
    /\ \E s \in {Begun, Started} :
          /\ table = s.table /\ minted = s.minted
          /\ life = [p \in Process |-> IF p = Parent THEN "running" ELSE s.life]
          /\ calls = [t \in Thread |-> IF ProcOf[t] = Parent THEN s.calls ELSE 0]
          /\ ended = [o \in {"M", "B", "X"} |-> IF o = "B" THEN s.builders ELSE 0]
    /\ queue = <<>> /\ receiving = NoToken /\ closed = FALSE /\ level = {"WRITABLE"}
    /\ lease = 0
    /\ cursor = [p \in Process |-> 0]
    /\ pc = [a \in Caller |-> "user"] /\ held = [a \in Caller |-> <<>>]
    /\ dead = [p \in Process |-> {}]

-----------------------------------------------------------------------------

Goto(a, l) == pc' = [pc EXCEPT ![a] = l]
Keep(a, entries) == held' = [held EXCEPT ![a] = entries]

\* The handle values that a table no longer knows are remembered.
Update(p, t) ==
    /\ table' = [table EXCEPT ![p] = t]
    /\ dead' = [dead EXCEPT ![p] = @ \cup
          {HandleOf(table[p], i) : i \in {j \in DOMAIN table[p].slots : StateOf(t, HandleOf(table[p], j)) \in {"Stale", "Retired"}}}]

\* A thread of a running process enters a call.
Enter(t) ==
    /\ pc[t] = "user" /\ life[ProcOf[t]] = "running" /\ calls[t] < MaxCalls[t]
    /\ calls' = [calls EXCEPT ![t] = @ + 1]

\* deliver_output that fails ends the process of the caller.
Die(p) == life' = [life EXCEPT ![p] = "dying"]

HandlesIn(p) == {HandleOf(table[p], i) : i \in DOMAIN table[p].slots}
RoleOf(p, h) == EntryOf(table[p], h).role

\* MailboxState::publish
PublishedLevel(q, r, c) ==
    IF c THEN {"CLOSED"}
    ELSE (IF r = NoToken /\ q # <<>> THEN {"READABLE"} ELSE {})
         \cup (IF Len(q) + (IF r = NoToken THEN 0 ELSE 1) < MAILBOX_CAPACITY THEN {"WRITABLE"} ELSE {})

Publish == level' = PublishedLevel(queue', receiving', closed')

\* install_one and its like: reserve, check the output, deliver, commit, under the table lock.
\* A failed delivery leaves the reservation to the drain.
Install(t, entries) ==
    LET p == ProcOf[t]
        reserved == reserve(table[p], Len(entries), t)
    IN  IF ~Reservable(table[p], Limit[p], Len(entries), t)
        THEN Update(p, reserve_failed(table[p], Limit[p], t)) /\ UNCHANGED <<life, minted>>
        ELSE \/ Update(p, rollback(reserved, t)) /\ UNCHANGED <<life, minted>>
             \/ Update(p, reserved) /\ Die(p) /\ UNCHANGED minted
             \/ /\ Update(p, commit(reserved, t, entries))
                /\ minted' = (minted \/ LifetimeEntry \in ToSet(entries))
                /\ UNCHANGED life

InstallCall(t, entries) ==
    /\ Install(t, entries)
    /\ UNCHANGED <<box, lease, cursor, pc, held, ended>>

\* One sender object is minted.
mint_sender(t) ==
    /\ Enter(t) /\ ~minted
    /\ \E h \in HandlesIn(ProcOf[t]) :
          Holds(table[ProcOf[t]], h, {"MANAGE"}) /\ RoleOf(ProcOf[t], h) = "MailboxOwner"
    /\ InstallCall(t, <<SenderEntry, LifetimeEntry>>)

make_send_once(t) ==
    /\ Enter(t)
    /\ \E h \in HandlesIn(ProcOf[t]) :
          /\ Holds(table[ProcOf[t]], h, {"DUPLICATE"}) /\ RoleOf(ProcOf[t], h) = "MailboxSender"
          /\ InstallCall(t, <<Entry("S", "MailboxSenderOnce", {"WRITE", "TRANSIT", "GRANT"})>>)

\* derive: the copy has no more rights than its source.
duplicate(t) ==
    /\ Enter(t)
    /\ \E h \in HandlesIn(ProcOf[t]), drop \in {{}, {"DUPLICATE"}} :
          /\ Holds(table[ProcOf[t]], h, {"DUPLICATE"})
          /\ RoleOf(ProcOf[t], h) = "MailboxSender"
          /\ InstallCall(t, <<[EntryOf(table[ProcOf[t]], h) EXCEPT !.rights = @ \ drop]>>)

-----------------------------------------------------------------------------
(* Messages.                                                               *)

Occupied == Len(queue) + (IF receiving = NoToken THEN 0 ELSE 1)

\* What a message carries: nothing, or one capability with all its rights.
Moves(p) ==
    {<<>>} \cup {<<[handle |-> h, rights |-> EntryOf(table[p], h).rights]>> :
                    h \in {x \in HandlesIn(p) : Holds(table[p], x, {"TRANSIT"})}}

\* The consumption of a one-shot sender.
SpendOnce(p, h, t) == IF RoleOf(p, h) = "MailboxSenderOnce" THEN remove(t, h) ELSE t

\* The lookup, the extraction and the enqueue are one section of the table lock.
send(t) ==
    LET p == ProcOf[t] IN
    /\ Enter(t) /\ ~closed /\ Occupied < MAILBOX_CAPACITY
    /\ \E h \in HandlesIn(p), items \in Moves(p) :
          /\ Holds(table[p], h, {"WRITE"}) /\ RoleOf(p, h) \in {"MailboxSender", "MailboxSenderOnce"}
          /\ RoleOf(p, h) = "MailboxSenderOnce" => \A i \in DOMAIN items : items[i].handle # h
          /\ Extractable(table[p], items, "TRANSIT")
          /\ Update(p, SpendOnce(p, h, Extract(table[p], items)))
          /\ queue' = Append(queue, Extracted(table[p], items))
    /\ UNCHANGED <<receiving, closed>> /\ Publish
    /\ UNCHANGED <<minted, life, lease, cursor, pc, held, ended>>

\* resolve: the object is kept, the handle may go before it is used.
resolve(t) ==
    /\ Enter(t)
    /\ \E h \in HandlesIn(ProcOf[t]) :
          Holds(table[ProcOf[t]], h, {"READ"}) /\ RoleOf(ProcOf[t], h) = "MailboxOwner"
    /\ \/ Goto(t, "receive") \/ Goto(t, "discard")
    /\ UNCHANGED <<tables, box, minted, life, lease, held, ended>>

\* ObjectClosed, ObjectBusy, ObjectNotAvailable; a full table takes back what it reserved.
begin_receive(t) ==
    LET p == ProcOf[t] IN
    /\ pc[t] = "receive"
    /\ IF closed \/ receiving # NoToken \/ queue = <<>>
       THEN Goto(t, "user") /\ UNCHANGED <<tables, box, held>>
       ELSE IF ~Reservable(table[p], Limit[p], Len(Head(queue)) + 1, t)
       THEN Update(p, reserve_failed(table[p], Limit[p], t)) /\ Goto(t, "user") /\ UNCHANGED <<box, held, cursor>>
       ELSE /\ Update(p, reserve(table[p], Len(Head(queue)) + 1, t))
            /\ receiving' = t /\ Keep(t, Head(queue)) /\ queue' = Tail(queue)
            /\ UNCHANGED <<closed, cursor>> /\ Publish
            /\ Goto(t, "copying")
    /\ UNCHANGED <<minted, life, lease, calls, ended>>

commit_receive(t) ==
    /\ pc[t] = "copying"
    /\ Update(ProcOf[t], commit(table[ProcOf[t]], t, Append(held[t], DeliveryEntry)))
    /\ receiving' = NoToken /\ UNCHANGED <<queue, closed>> /\ Publish
    /\ Keep(t, <<>>) /\ Goto(t, "user")
    /\ UNCHANGED <<minted, life, lease, cursor, calls, ended>>

\* The copy to the user failed, which ends the process.  A message of a closed mailbox stays in
\* the hands of the caller.
rollback_receive(t) ==
    /\ pc[t] = "copying"
    /\ Update(ProcOf[t], rollback(table[ProcOf[t]], t)) /\ Die(ProcOf[t])
    /\ receiving' = NoToken
    /\ IF closed
       THEN Goto(t, "transit") /\ UNCHANGED <<queue, held>>
       ELSE queue' = <<held[t]>> \o queue /\ Keep(t, <<>>) /\ Goto(t, "user")
    /\ UNCHANGED closed /\ Publish
    /\ UNCHANGED <<minted, lease, cursor, calls, ended>>

discard(t) ==
    /\ pc[t] = "discard"
    /\ IF closed \/ receiving # NoToken \/ queue = <<>>
       THEN Goto(t, "user") /\ UNCHANGED <<box, held>>
       ELSE /\ Keep(t, Head(queue)) /\ queue' = Tail(queue)
            /\ UNCHANGED <<receiving, closed>> /\ Publish
            /\ Goto(t, "transit")
    /\ UNCHANGED <<tables, minted, life, lease, calls, ended>>

\* Callbacks: an invitation is abandoned, a builder aborts its process.
CloseAll(entries) ==
    /\ ended' = [o \in DOMAIN ended |->
          ended[o] + Cardinality({i \in DOMAIN entries : entries[i].object = o})]
    /\ IF life[Child] = "building" /\ \E i \in DOMAIN entries : entries[i].object = "B"
       THEN Die(Child) ELSE UNCHANGED life

\* close_transit_handles
close_transit(a) ==
    /\ pc[a] = "transit"
    /\ CloseAll(held[a]) /\ Keep(a, <<>>) /\ Goto(a, "user")
    /\ UNCHANGED <<tables, box, minted, lease, calls>>

-----------------------------------------------------------------------------
(* Closing.                                                                *)

\* close: the entry leaves the table, its callback runs without the lock.
close(t) ==
    LET p == ProcOf[t] IN
    /\ Enter(t)
    /\ \E h \in HandlesIn(p) :
          /\ Installed(table[p], h)
          /\ Update(p, remove(table[p], h))
          /\ Keep(t, <<EntryOf(table[p], h)>>)
    /\ Goto(t, "closing")
    /\ UNCHANGED <<box, minted, life, lease, cursor, ended>>

\* close_entry: the owner of the mailbox first publishes the terminal level.
close_entry(a) ==
    /\ pc[a] = "closing"
    /\ CloseAll(held[a]) /\ Keep(a, <<>>)
    /\ IF held[a][1].object = "M"
       THEN closed' = TRUE /\ UNCHANGED <<queue, receiving>> /\ Publish /\ Goto(a, "emptying")
       ELSE UNCHANGED box /\ Goto(a, "user")
    /\ UNCHANGED <<tables, minted, lease, calls>>

\* close_owner then takes the messages one by one.
empty(a) ==
    /\ pc[a] = "emptying"
    /\ IF queue = <<>>
       THEN Goto(a, "user") /\ UNCHANGED <<queue, ended, life>>
       ELSE queue' = Tail(queue) /\ CloseAll(Head(queue)) /\ UNCHANGED pc
    /\ UNCHANGED <<tables, receiving, closed, level, minted, lease, held, calls>>

\* ProcessKill, or an abort: for the process it is the same.
kill(p) ==
    /\ life[p] \in {"building", "running"}
    /\ Die(p)
    /\ UNCHANGED <<tables, box, minted, lease, pc, held, calls, ended>>

Departed(p) ==
    /\ \A t \in Thread : ProcOf[t] = p => pc[t] = "user"
    /\ p = Child => lease = 0

\* One slot of a drain.  It runs when no thread and no building operation is left.
drain(p) ==
    LET i == cursor[p] + 1
        a == Drainer[p]
    IN  /\ life[p] = "dying" /\ Departed(p) /\ pc[a] = "user"
        /\ IF i \in DOMAIN table[p].slots
           THEN /\ Update(p, take_next(table[p], i))
                /\ cursor' = [cursor EXCEPT ![p] = i]
                /\ IF table[p].slots[i].state = "Occupied"
                   THEN Keep(a, <<table[p].slots[i].entry>>) /\ Goto(a, "closing")
                   ELSE UNCHANGED <<held, pc>>
                /\ UNCHANGED life
           ELSE /\ life' = [life EXCEPT ![p] = "drained"]
                /\ UNCHANGED <<tables, held, pc>>
        /\ UNCHANGED <<box, minted, lease, calls, ended>>

-----------------------------------------------------------------------------
(* Building a process.                                                     *)

Builder(p) == {h \in HandlesIn(p) : Holds(table[p], h, {"MANAGE"}) /\ RoleOf(p, h) = "ProcessBuilder"}

\* resolve_builder and BuildingLease::begin
begin_building(t) ==
    /\ Enter(t) /\ ProcOf[t] = Parent
    /\ Builder(Parent) # {} /\ life[Child] = "building"
    /\ lease' = lease + 1
    /\ \/ Goto(t, "grant") \/ Goto(t, "start")
    /\ UNCHANGED <<tables, box, minted, life, held, ended>>

\* Mutant: the operation is given up before the capability is installed.
grant_pin_Early(t) ==
    LET candidates == {h \in HandlesIn(Parent) : Holds(table[Parent], h, {"GRANT"})} IN
    /\ pc[t] = "grant"
    /\ \E b \in Builder(Parent), h \in candidates :
             /\ Pinnable(table[Parent], b, "MANAGE", <<[handle |-> h, rights |-> EntryOf(table[Parent], h).rights]>>)
             /\ Update(Parent, pin(table[Parent], {b, h}, t))
             /\ Keep(t, <<h>>) /\ Goto(t, "pinned")
             /\ lease' = 0
             /\ UNCHANGED cursor
    /\ UNCHANGED <<box, minted, life, calls, ended>>

\* pin_transfer of one capability; the call ends if the builder or the capability is gone.
\* What the call has in its hands is the handle it pinned.
grant_pin(t) ==
    LET candidates == {h \in HandlesIn(Parent) : Holds(table[Parent], h, {"GRANT"})} IN
    /\ pc[t] = "grant"
    /\ \/ /\ Builder(Parent) = {} \/ candidates \ Builder(Parent) = {}
          /\ lease' = lease - 1 /\ Goto(t, "user") /\ UNCHANGED <<tables, held>>
       \/ \E b \in Builder(Parent), h \in candidates :
             /\ Pinnable(table[Parent], b, "MANAGE", <<[handle |-> h, rights |-> EntryOf(table[Parent], h).rights]>>)
             /\ Update(Parent, pin(table[Parent], {b, h}, t))
             /\ Keep(t, <<h>>) /\ Goto(t, "pinned")
             /\ UNCHANGED <<cursor, lease>>
    /\ UNCHANGED <<box, minted, life, calls, ended>>

\* The slot in the table of the child; a full table gives the pins back.
grant_reserve(t) ==
    /\ pc[t] = "pinned"
    /\ IF Reservable(table[Child], Limit[Child], 1, t)
       THEN /\ Update(Child, reserve(table[Child], 1, t))
            /\ Goto(t, "delivering") /\ UNCHANGED <<cursor, held, lease>>
       ELSE /\ table' = [table EXCEPT ![Parent] = unpin(@, t),
                                      ![Child] = reserve_failed(@, Limit[Child], t)]
            /\ Keep(t, <<>>) /\ lease' = lease - 1 /\ Goto(t, "user") /\ UNCHANGED <<cursor, dead>>
    /\ UNCHANGED <<box, minted, life, calls, ended>>

\* The output failed: both tables are as before, and the caller dies.
grant_rollback(t) ==
    /\ pc[t] = "delivering"
    /\ table' = [table EXCEPT ![Parent] = unpin(@, t), ![Child] = rollback(@, t)]
    /\ dead' = [dead EXCEPT ![Child] = @ \cup {HandleOf(table[Child], i) : i \in ReservedBy(table[Child], t)}]
    /\ Die(Parent) /\ Keep(t, <<>>) /\ lease' = lease - 1 /\ Goto(t, "user")
    /\ UNCHANGED <<box, minted, cursor, calls, ended>>

\* The capability leaves the table of the caller,
grant_move(t) ==
    LET h == held[t][1]
        e == EntryOf(table[Parent], h)
    IN  /\ pc[t] = "delivering"
        /\ Update(Parent, commit_pinned_transfer(table[Parent], t, <<[handle |-> h, rights |-> e.rights]>>))
        /\ Keep(t, <<e>>) /\ Goto(t, "moved")
        /\ UNCHANGED <<box, minted, life, lease, cursor, calls, ended>>

\* and enters the table of the child.
grant_install(t) ==
    /\ pc[t] = "moved"
    /\ Update(Child, commit(table[Child], t, held[t]))
    /\ Keep(t, <<>>) /\ lease' = lease - 1 /\ Goto(t, "user")
    /\ UNCHANGED <<box, minted, life, cursor, calls, ended>>

\* start_created_members: the builder is pinned,
start_pin(t) ==
    /\ pc[t] = "start"
    /\ IF Builder(Parent) = {}
       THEN lease' = lease - 1 /\ Goto(t, "user") /\ UNCHANGED <<tables, held>>
       ELSE \E b \in Builder(Parent) :
               /\ Update(Parent, pin(table[Parent], {b}, t))
               /\ Keep(t, <<b>>) /\ Goto(t, "gate") /\ UNCHANGED <<cursor, lease>>
    /\ UNCHANGED <<box, minted, life, calls, ended>>

\* and consumed once the process runs: it must still be building and have no other operation.
start_commit(t) ==
    /\ pc[t] = "gate"
    /\ lease' = lease - 1 /\ Keep(t, <<>>) /\ Goto(t, "user")
    /\ IF life[Child] = "building" /\ lease = 1
       THEN /\ life' = [life EXCEPT ![Child] = "running"]
            /\ Update(Parent, remove(unpin(table[Parent], t), held[t][1]))
            /\ ended' = [ended EXCEPT !["B"] = @ + 1]
       ELSE Update(Parent, unpin(table[Parent], t)) /\ UNCHANGED <<life, ended>>
    /\ UNCHANGED <<box, minted, cursor, calls>>

-----------------------------------------------------------------------------

Next ==
    \/ \E t \in Thread :
          \/ mint_sender(t) \/ make_send_once(t) \/ duplicate(t)
          \/ send(t) \/ resolve(t) \/ begin_receive(t) \/ commit_receive(t) \/ rollback_receive(t)
          \/ discard(t) \/ close(t) \/ begin_building(t)
          \/ grant_pin(t) \/ grant_reserve(t) \/ grant_rollback(t) \/ grant_move(t) \/ grant_install(t)
          \/ start_pin(t) \/ start_commit(t)
    \/ \E a \in Caller : close_transit(a) \/ close_entry(a) \/ empty(a)
    \/ \E p \in Process : kill(p) \/ drain(p)

Spec == Init /\ [][Next]_vars

-----------------------------------------------------------------------------

States == {"Vacant", "Occupied", "Reserved", "Pinned", "Retired"}

\* Where a capability for o is: in a slot, in a message, in the hands of a call.
Places(o) ==
    {<<"slot", p, i>> : <<p, i>> \in
        {x \in Process \X (1 .. 9) : x[2] \in DOMAIN table[x[1]].slots /\ table[x[1]].slots[x[2]].entry.object = o}}
    \cup {<<"queue", i, j>> : <<i, j>> \in
        {x \in (DOMAIN queue) \X (1 .. 2) : x[2] \in DOMAIN queue[x[1]] /\ queue[x[1]][x[2]].object = o}}
    \cup {<<"held", a>> : a \in {b \in Caller :
        pc[b] \in {"copying", "transit", "closing", "moved"} /\ \E i \in DOMAIN held[b] : held[b][i].object = o}}

\* Type correctness; the tables count their entries.
TypeOK ==
    /\ \A p \in Process :
          /\ Len(table[p].slots) <= Limit[p]
          /\ \A i \in DOMAIN table[p].slots : table[p].slots[i].state \in States
          /\ table[p].occupied =
                Cardinality({i \in DOMAIN table[p].slots : table[p].slots[i].state \in {"Occupied", "Pinned"}})
    /\ lease \in Nat /\ Len(queue) <= MAILBOX_CAPACITY
    /\ life \in [Process -> {"building", "running", "dying", "drained"}]

\* A capability that cannot be duplicated is in exactly one place until its close callback has
\* run, which happens exactly once: no interleaving of a send, a receive that is rolled back, a
\* discard, a grant, a close of the mailbox and a drain loses it or closes it twice.  A drained
\* process holds nothing.
CapabilitiesHeldOnce ==
    /\ \A o \in {"M", "B", "X"} : Cardinality(Places(o)) + ended[o] = 1
    /\ \A p \in Process : life[p] = "drained" => table[p].occupied = 0

\* A call in flight still owns what it reserved and what it pinned, whatever the other threads,
\* a kill and the drain do meanwhile: the expect of every commit, rollback and unpin holds.
TransactionsOwnSlots ==
    \A t \in Thread :
        /\ pc[t] = "copying" =>
              /\ receiving = t
              /\ Cardinality(ReservedBy(table[ProcOf[t]], t)) = Len(held[t]) + 1
        /\ pc[t] \in {"pinned", "delivering"} => Cardinality(PinnedBy(table[Parent], t)) = 2
        /\ pc[t] = "gate" => Cardinality(PinnedBy(table[Parent], t)) = 1
        /\ pc[t] \in {"delivering", "moved"} => Cardinality(ReservedBy(table[Child], t)) = 1

\* A handle value that stopped naming an entry never names one again, not even one that was
\* shown to the user by a call that was rolled back.
HandlesStayDead ==
    \A p \in Process : \A h \in dead[p] : StateOf(table[p], h) \in {"Stale", "Retired"}

\* The level of the mailbox is the one that its comment defines, in every state; when the close
\* of the owner is over, no message is left.
LevelIsCurrent ==
    /\ "READABLE" \in level <=> ~closed /\ receiving = NoToken /\ queue # <<>>
    /\ "WRITABLE" \in level <=> ~closed /\ Occupied < MAILBOX_CAPACITY
    /\ "CLOSED" \in level <=> closed
    /\ closed /\ (\A a \in Caller : pc[a] = "user") => queue = <<>>

=============================================================================
