---------------------------- MODULE UserThreads ----------------------------
(***************************************************************************)
(* Threads of a user program (libthread): the factory, the prepared thread *)
(* and its start, the trampoline of the child, the one-shot ResultCell     *)
(* between producer and receiver, and the ThreadRegistry that gives stacks *)
(* back, reaped by whoever comes by.                                       *)
(*                                                                         *)
(* A thread runs its own steps: 0 is the entry thread, adopted by the      *)
(* registry, the others are spawned by the program.  The kernel's side is  *)
(* what libthread sees of it: a ThreadControl that becomes DONE, a stack   *)
(* that is mapped or not, an Unmap that finds the address space busy.      *)
(***************************************************************************)
EXTENDS Naturals, Sequences, FiniteSets, FiniteSetsExt

CONSTANTS
    Programs,   \* the capacity of the registry and the threads every thread spawns: one of these
    MaxBusy     \* bound: how often an Unmap finds the address space busy

VARIABLES
    program,    \* which of Programs, frozen
    slots,      \* RegistryInner.slots: the state of a slot and the thread it is for
    sealed, cursor,
    kernel,     \* the kernel's thread: none, Created, running or DONE
    stack,      \* whether the stack of a thread is mapped
    control,    \* whether the record of a thread has a ThreadControl
    residue,    \* ResidueCell: empty, published or retired
    cell,       \* ResultCell.state
    value,      \* the result: none, stored in the cell, gone, or bad: read unwritten or twice
    at,         \* where every thread is
    held,       \* the receivers a thread holds
    busy,
    aborted     \* cleanup_integrity_failure: the process is gone

vars == <<program, slots, sealed, cursor, kernel, stack, control, residue, cell, value, at, held, busy, aborted>>
registry == <<slots, sealed, cursor>>
os == <<program, kernel, stack, busy, aborted>>
owners == <<control, residue>>
result == <<cell, value, held>>

Thread == DOMAIN program.spawns
Capacity == program.capacity
Slot == 0 .. Capacity - 1
Free == [st |-> "Free", t |-> 0]

\* A step of a thread: its label, how many threads it has spawned, the thread and the slot it works
\* on; inside reap the rounds left, whether a slot was freed and where it goes on; the state of the
\* cell it has loaded.
Step(l) == [l |-> l, n |-> 0, c |-> 0, i |-> 0, left |-> 0, freed |-> FALSE, next |-> "", old |-> ""]

Init ==
    /\ program \in Programs
    /\ slots = [i \in Slot |-> Free]
    /\ sealed = FALSE /\ cursor = 0
    /\ kernel = [t \in Thread |-> IF t = 0 THEN "running" ELSE "none"]
    /\ stack = [t \in Thread |-> t = 0]
    /\ control = [t \in Thread |-> FALSE]
    /\ residue = [t \in Thread |-> "empty"]
    /\ cell = [t \in Thread |-> "EMPTY"]
    /\ value = [t \in Thread |-> "none"]
    /\ at = [t \in Thread |-> Step(IF t = 0 THEN "adopt" ELSE "unborn")]
    /\ held = [t \in Thread |-> {}]
    /\ busy = 0
    /\ aborted = FALSE

At(t, l) == at[t].l = l /\ ~aborted
go(t, l) == at' = [at EXCEPT ![t].l = l]

\* Back to the body of the thread's function.
Body(t) == at' = [at EXCEPT ![t] = [Step("body") EXCEPT !.n = at[t].n]]

\* Only a slot that is Reserved or Claimed is replaced, by the one that has it.
replace_exclusive(i, s) == slots[i].st \in {"Reserved", "Claimed"} /\ slots' = [slots EXCEPT ![i] = s]
install(i, c) == replace_exclusive(i, [st |-> "Live", t |-> c])
release_reserved(i) == replace_exclusive(i, Free)

-----------------------------------------------------------------------------
(* Reaping: a record is claimed, observed, retired and unmapped by one     *)
(* caller.                                                                 *)

\* reap_or_abort with the whole capacity, and the place to go on.
Reap(t, next) ==
    at' = [at EXCEPT ![t].l = "claim", ![t].left = Capacity, ![t].freed = FALSE, ![t].next = next]

\* The next round of the loop, or its end.
Round(t, freed) ==
    at' = [at EXCEPT ![t] = [@ EXCEPT !.l = IF at[t].left = 1 THEN at[t].next ELSE "claim",
                                      !.left = @ - 1, !.freed = @ \/ freed, !.i = 0]]

Claimable(i) == slots[i].st = "Live"

\* The first record from the cursor on, which moves by one a call.
claim_next(t) ==
    /\ At(t, "claim")
    /\ cursor' = (cursor + 1) % Capacity
    /\ LET live == {k \in Slot : Claimable((cursor + k) % Capacity)}
           i == (cursor + Min(live)) % Capacity IN
       IF live = {} THEN go(t, at[t].next) /\ UNCHANGED slots
       ELSE /\ slots' = [slots EXCEPT ![i].st = "Claimed"]
            /\ at' = [at EXCEPT ![t].l = "observe", ![t].i = i]
    /\ UNCHANGED <<os, sealed, owners, result>>

\* The thread of the record in hand.
Record(t) == slots[at[t].i].t

\* Mutant: a record is taken for done once its residue has been published.
Done_Published(c) == ~control[c] \/ residue[c] = "published" \/ kernel[c] = "DONE"

\* A record without a Control is done; otherwise the kernel is asked.
Done(c) == ~control[c] \/ kernel[c] = "DONE"

observe_done(t) ==
    /\ At(t, "observe")
    /\ go(t, IF Done(Record(t)) THEN "retire" ELSE "put back")
    /\ UNCHANGED <<os, registry, owners, result>>

install_claimed(t) ==
    /\ At(t, "put back")
    /\ install(at[t].i, Record(t))
    /\ Round(t, FALSE)
    /\ UNCHANGED <<os, sealed, cursor, owners, result>>

\* Taking the residue is the right to retire it: a retry after Busy finds none.
take_residue(c) == residue' = [residue EXCEPT ![c] = IF @ = "published" THEN "retired" ELSE @]

retire(t) ==
    /\ At(t, "retire")
    /\ take_residue(Record(t))
    /\ control' = [control EXCEPT ![Record(t)] = FALSE]
    /\ go(t, "unmap")
    /\ UNCHANGED <<os, registry, result>>

unmap(t) ==
    /\ At(t, "unmap") /\ stack[Record(t)]
    /\ \/ /\ stack' = [stack EXCEPT ![Record(t)] = FALSE]
          /\ replace_exclusive(at[t].i, Free)
          /\ Round(t, TRUE)
          /\ UNCHANGED busy
       \/ /\ busy < MaxBusy /\ busy' = busy + 1
          /\ go(t, "put back")
          /\ UNCHANGED <<slots, stack>>
    /\ UNCHANGED <<program, sealed, cursor, kernel, owners, result, aborted>>

\* An error that stays: the wait, the retirement or the Unmap fails, or the stack is missing.
fault(t) ==
    /\ \E l \in {"observe", "retire", "unmap"} : At(t, l)
    /\ replace_exclusive(at[t].i, [st |-> "Faulted", t |-> Record(t)])
    /\ aborted' = TRUE
    /\ UNCHANGED <<program, sealed, cursor, kernel, stack, owners, result, at, busy>>

-----------------------------------------------------------------------------
(* Spawning.                                                               *)

adopt_entry ==
    /\ At(0, "adopt")
    /\ slots' = [slots EXCEPT ![0] = [st |-> "Live", t |-> 0]]
    /\ control' = [control EXCEPT ![0] = TRUE]
    /\ residue' = [residue EXCEPT ![0] = "published"]
    /\ go(0, "body")
    /\ UNCHANGED <<os, sealed, cursor, result>>

seal ==
    /\ ~sealed /\ ~aborted /\ at[0].l # "adopt"
    /\ sealed' = TRUE
    /\ UNCHANGED <<os, slots, cursor, owners, result, at>>

prepare(t) ==
    /\ At(t, "body") /\ at[t].n < Len(program.spawns[t])
    /\ at' = [at EXCEPT ![t] = [Step("claim") EXCEPT !.n = at[t].n + 1, !.c = program.spawns[t][at[t].n + 1],
                                                     !.left = Capacity, !.next = "reserve"]]
    /\ UNCHANGED <<os, registry, owners, result>>

Open == {i \in Slot : slots[i].st = "Free"}

\* A full registry is reaped once more, and then tried again only if that freed a slot.
reserve(t) ==
    /\ \E l \in {"reserve", "retry"} : At(t, l)
    /\ CASE ~sealed /\ Open # {} /\ (At(t, "retry") => at[t].freed) ->
              /\ slots' = [slots EXCEPT ![Min(Open)] = [st |-> "Reserved", t |-> at[t].c]]
              /\ at' = [at EXCEPT ![t] = [Step("map") EXCEPT !.n = at[t].n, !.c = at[t].c, !.i = Min(Open)]]
         [] ~sealed /\ Open = {} /\ At(t, "reserve") -> Reap(t, "retry") /\ UNCHANGED slots
         [] OTHER -> Body(t) /\ UNCHANGED slots
    /\ UNCHANGED <<os, sealed, cursor, owners, result>>

\* The environment and the stack of the child, or the admission is given back.
map_stack(t) ==
    /\ At(t, "map")
    /\ \/ stack' = [stack EXCEPT ![at[t].c] = TRUE] /\ go(t, "create") /\ UNCHANGED slots
       \/ release_reserved(at[t].i) /\ Body(t) /\ UNCHANGED stack
    /\ UNCHANGED <<program, sealed, cursor, kernel, owners, result, busy, aborted>>

\* The kernel's thread; without it the stack becomes a record that is done.
create(t) ==
    /\ At(t, "create")
    /\ \/ kernel' = [kernel EXCEPT ![at[t].c] = "Created"] /\ go(t, "prepared") /\ UNCHANGED slots
       \/ install(at[t].i, at[t].c) /\ Body(t) /\ UNCHANGED kernel
    /\ UNCHANGED <<program, sealed, cursor, stack, owners, result, busy, aborted>>

\* The child runs from here on, its record is installed later.
start(t) ==
    /\ At(t, "prepared")
    /\ kernel' = [kernel EXCEPT ![at[t].c] = "running"]
    /\ at' = [at EXCEPT ![t].l = "install", ![at[t].c] = Step("enter")]
    /\ UNCHANGED <<program, registry, stack, owners, result, busy, aborted>>

install_started(t) ==
    /\ At(t, "install")
    /\ install(at[t].i, at[t].c)
    /\ control' = [control EXCEPT ![at[t].c] = TRUE]
    /\ held' = [held EXCEPT ![t] = @ \cup {at[t].c}]
    /\ Body(t)
    /\ UNCHANGED <<os, sealed, cursor, residue, cell, value>>

\* A prepared thread is dropped, refused by ThreadStart or not: closing its only Control makes it
\* DONE before the record is installed.
drop_prepared(t) ==
    /\ At(t, "prepared")
    /\ kernel' = [kernel EXCEPT ![at[t].c] = "DONE"]
    /\ go(t, "bury")
    /\ UNCHANGED <<program, registry, stack, owners, result, busy, aborted>>

bury(t) ==
    /\ At(t, "bury")
    /\ install(at[t].i, at[t].c)
    /\ Body(t)
    /\ UNCHANGED <<os, sealed, cursor, owners, result>>

-----------------------------------------------------------------------------
(* The receiver.                                                           *)

\* join, or a try_join that finds the thread done: the result is looked for after a reap.
join(t) ==
    \E c \in held[t] :
        /\ At(t, "body") /\ kernel[c] = "DONE"
        /\ at' = [at EXCEPT ![t] = [Step("claim") EXCEPT !.n = at[t].n, !.c = c, !.left = Capacity,
                                                         !.next = "take"]]
        /\ UNCHANGED <<os, registry, owners, result>>

\* The value leaves the storage.
Consumed(c) == value' = [value EXCEPT ![c] = IF @ = "stored" THEN "gone" ELSE "bad"]

take(t) ==
    /\ At(t, "take")
    /\ IF cell[at[t].c] = "PUBLISHED"
       THEN cell' = [cell EXCEPT ![at[t].c] = "RECEIVER_GONE"] /\ Consumed(at[t].c)
       ELSE UNCHANGED <<cell, value>>
    /\ go(t, "abandon")
    /\ UNCHANGED <<os, registry, owners, held>>

drop_receiver(t) ==
    \E c \in held[t] :
        /\ At(t, "body")
        /\ at' = [at EXCEPT ![t].l = "abandon", ![t].c = c]
        /\ UNCHANGED <<os, registry, owners, result>>

Dropped(t) == held' = [held EXCEPT ![t] = @ \ {at[t].c}] /\ Body(t)

abandon_load(t) ==
    /\ At(t, "abandon")
    /\ IF cell[at[t].c] = "RECEIVER_GONE"
       THEN Dropped(t)
       ELSE at' = [at EXCEPT ![t].l = "exchange", ![t].old = cell[at[t].c]] /\ UNCHANGED held
    /\ UNCHANGED <<os, registry, owners, cell, value>>

\* The state that was loaded is exchanged, or abandon tries again.
abandon_exchange(t) ==
    /\ At(t, "exchange")
    /\ IF cell[at[t].c] = at[t].old
       THEN /\ cell' = [cell EXCEPT ![at[t].c] = "RECEIVER_GONE"]
            /\ IF at[t].old = "PUBLISHED" THEN Consumed(at[t].c) ELSE UNCHANGED value
            /\ Dropped(t)
       ELSE go(t, "abandon") /\ UNCHANGED <<result>>
    /\ UNCHANGED <<os, registry, owners>>

-----------------------------------------------------------------------------
(* The trampoline of a child.                                              *)

\* The environment lets the child in, or the failure is its outcome.
enter(t) ==
    /\ At(t, "enter")
    /\ \E l \in {"body", "publish"} : go(t, l)
    /\ UNCHANGED <<os, registry, owners, result>>

\* The function ends, with its receivers; the residue is left for the reaper.
leave(t) ==
    /\ At(t, "body") /\ at[t].n = Len(program.spawns[t]) /\ held[t] = {}
    /\ IF t = 0
       THEN go(t, "exit") /\ UNCHANGED residue
       ELSE residue' = [residue EXCEPT ![t] = "published"] /\ go(t, "publish")
    /\ UNCHANGED <<os, registry, control, result>>

\* A receiver that is gone already leaves the value with the producer.
publish_load(t) ==
    /\ At(t, "publish")
    /\ IF cell[t] # "EMPTY"
       THEN value' = [value EXCEPT ![t] = "gone"] /\ Reap(t, "exit")
       ELSE value' = [value EXCEPT ![t] = "stored"] /\ go(t, "publish exchange")
    /\ UNCHANGED <<os, registry, owners, cell, held>>

\* The stored value is published, or taken back by the producer.
publish_exchange(t) ==
    /\ At(t, "publish exchange")
    /\ IF cell[t] = "EMPTY"
       THEN cell' = [cell EXCEPT ![t] = "PUBLISHED"] /\ UNCHANGED value
       ELSE Consumed(t) /\ UNCHANGED cell
    /\ Reap(t, "exit")
    /\ UNCHANGED <<os, registry, owners, held>>

exit(t) ==
    /\ At(t, "exit")
    /\ kernel' = [kernel EXCEPT ![t] = "DONE"]
    /\ at' = [at EXCEPT ![t] = Step("gone")]
    /\ UNCHANGED <<program, registry, stack, owners, result, busy, aborted>>

Next ==
    \/ adopt_entry \/ seal
    \/ \E t \in Thread :
          \/ claim_next(t) \/ observe_done(t) \/ install_claimed(t) \/ retire(t) \/ unmap(t) \/ fault(t)
          \/ prepare(t) \/ reserve(t) \/ map_stack(t) \/ create(t) \/ start(t) \/ install_started(t)
          \/ drop_prepared(t) \/ bury(t)
          \/ join(t) \/ take(t) \/ drop_receiver(t) \/ abandon_load(t) \/ abandon_exchange(t)
          \/ enter(t) \/ leave(t) \/ publish_load(t) \/ publish_exchange(t) \/ exit(t)

Spec == Init /\ [][Next]_vars

-----------------------------------------------------------------------------
(* Properties.                                                             *)

Reserving(t) == \E l \in {"map", "create", "prepared", "install", "bury"} : at[t].l = l
Reaping(t) == \E l \in {"observe", "put back", "retire", "unmap"} : at[t].l = l

\* Every slot that is reserved or claimed is in the hands of one thread, which is the one that
\* will replace it, and no thread has two records: replace_exclusive never finds another's slot.
SlotsOwned ==
    ~aborted =>
    /\ \A i \in Slot :
          /\ slots[i].st = "Reserved" =>
                Cardinality({t \in Thread : Reserving(t) /\ at[t].i = i /\ at[t].c = slots[i].t}) = 1
          /\ slots[i].st = "Claimed" => Cardinality({t \in Thread : Reaping(t) /\ at[t].i = i}) = 1
    /\ \A t \in Thread : Reserving(t) => slots[at[t].i].st = "Reserved"
    /\ \A t \in Thread : Reaping(t) => slots[at[t].i].st = "Claimed"
    /\ \A i, j \in Slot : i # j /\ Free \notin {slots[i], slots[j]} => slots[i].t # slots[j].t

\* Nothing under a thread is taken away while it runs, whichever thread reaps, itself included: its
\* stack is mapped, its residue not retired; and a stack is always known to one slot.
StacksKept ==
    /\ \A t \in Thread : kernel[t] \in {"Created", "running"} => stack[t] /\ residue[t] # "retired"
    /\ \A t \in Thread :
          stack[t] /\ (t = 0 => at[0].l # "adopt") => \E i \in Slot : slots[i] # Free /\ slots[i].t = t
    /\ \A t \in Thread : At(t, "unmap") => stack[Record(t)]

\* The value of a thread is moved out of its cell once, never before it was written, by the receiver
\* or by the producer, and whoever joins finds it.
ResultOnce ==
    /\ \A t \in Thread : value[t] # "bad" /\ (cell[t] = "PUBLISHED" => value[t] = "stored")
    /\ \A t \in Thread : At(t, "take") => cell[at[t].c] = "PUBLISHED"

\* When every thread has left, every result has found its end, and what is still mapped or not yet
\* retired waits in a record for the next reap.
QuietSettled ==
    (~aborted /\ \A t \in Thread : at[t].l \in {"gone", "unborn"}) =>
        /\ \A t \in Thread : at[t].l = "gone" /\ t # 0 => value[t] = "gone" /\ cell[t] = "RECEIVER_GONE"
        /\ \A i \in Slot : slots[i] = Free \/ (slots[i].st = "Live" /\ Done(slots[i].t) /\ stack[slots[i].t])
        /\ \A t \in Thread : residue[t] = "published" => stack[t]
=============================================================================
