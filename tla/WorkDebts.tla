----------------------------- MODULE WorkDebts -----------------------------
(***************************************************************************)
(* A fixed table of work debts (os/work_debt) behind the ledger the kernel *)
(* keeps it in (kernel/work_ledger): SLOTS slots, one FIFO chain of        *)
(* pending slots per owner hart, and one pending counter per owner that    *)
(* the idle loop reads without the table's lock.                           *)
(*                                                                         *)
(* Tokens are affine values in the code; here the three sets hold the      *)
(* tokens that exist.  Every ledger call on a token panics when the table  *)
(* refuses it, so the properties say that the table never does.            *)
(* The table is only touched under the ledger's lock: one call, one action.*)
(***************************************************************************)
EXTENDS Naturals, Sequences, FiniteSets, Functions

CONSTANTS
    Owners,       \* the harts that own a chain
    SLOTS,        \* number of slots
    MaxGen,       \* the last generation a slot can have (u32::MAX in the code)
    Partitions    \* the ranges <<start, end>> that reserve_in is called with

ASSUME SlotsAssumption == SLOTS \in Nat \ {0}
ASSUME MaxGenAssumption == MaxGen \in Nat \ {0}
ASSUME PartitionsAssumption == Partitions \subseteq (0..SLOTS) \X (0..SLOTS)

VARIABLES
    generation, phase, owner, next, \* the fields of every slot
    value,          \* the slots that hold a payload
    wake_armed,     \* the slots with a wake registered
    woken,          \* the slots whose wake came while they were running
    heads, tails,   \* the ends of every owner's chain
    reserve_cursor, \* where the next search for an empty slot starts
    pending,        \* the ledger's counter of runnable or running debts
    reservations,   \* tokens of reserved slots
    takens,         \* finish tokens of slots under execution
    wakes           \* wake tokens registered with some source

vars == <<generation, phase, owner, next, value, wake_armed, woken, heads, tails, reserve_cursor, pending, reservations, takens, wakes>>

Slot == 0..(SLOTS - 1)
NoSlot == SLOTS
Phases == {"Empty", "Reserved", "Pending", "Taken", "Parked", "Retired"}
\* Before its first publication a slot has no owner yet (the code leaves 0 there).
NoOwner == "none"
ASSUME NoOwnerAssumption == NoOwner \notin Owners

Init ==
    /\ generation = [s \in Slot |-> 1]
    /\ phase = [s \in Slot |-> "Empty"]
    /\ owner = [s \in Slot |-> NoOwner]
    /\ next = [s \in Slot |-> NoSlot]
    /\ value = {} /\ wake_armed = {} /\ woken = {}
    /\ heads = [o \in Owners |-> NoSlot]
    /\ tails = [o \in Owners |-> NoSlot]
    /\ reserve_cursor = 0
    /\ pending = [o \in Owners |-> 0]
    /\ reservations = {}
    /\ takens = {}
    /\ wakes = {}

-----------------------------------------------------------------------------
(* Lookup and the chain.                                                   *)

Reservation(s) == [slot |-> s, generation |-> generation[s]]
Token(s) == [slot |-> s, generation |-> generation[s], owner |-> owner[s]]

\* entry_mut: a token reaches its slot only while the generation is its own.
Current(token) == generation[token.slot] = token.generation

\* Mutant: the new tail is not linked behind the old one.
append_Unlinked(links, o, s) ==
    /\ tails' = [tails EXCEPT ![o] = s]
    /\ heads' = IF tails[o] = NoSlot THEN [heads EXCEPT ![o] = s] ELSE heads
    /\ next' = links

\* Slot s goes behind the tail of owner o; `links' are the links so far.
append(links, o, s) ==
    /\ tails' = [tails EXCEPT ![o] = s]
    /\ IF tails[o] = NoSlot
       THEN heads' = [heads EXCEPT ![o] = s] /\ next' = links
       ELSE heads' = heads /\ next' = [links EXCEPT ![tails[o]] = s]

Unlinked(s) == [next EXCEPT ![s] = NoSlot]

\* reserve_in: the first empty slot of the range, searching from the cursor
\* and wrapping around inside the range.
FirstEmpty(range, s) ==
    LET start == IF reserve_cursor >= range[1] /\ reserve_cursor < range[2]
                 THEN reserve_cursor ELSE range[1]
        Rank(x) == IF x >= start THEN x - start ELSE x - start + SLOTS
        empty == {x \in Slot : x >= range[1] /\ x < range[2] /\ phase[x] = "Empty"}
    IN  s \in empty /\ \A x \in empty : Rank(s) <= Rank(x)

\* The ledger counts a debt while it is runnable or running.
count(o) == pending' = [pending EXCEPT ![o] = @ + 1]
count_woken(o) == pending' = [pending EXCEPT ![o] = @ + 1]
decrement_pending(o) == pending' = [pending EXCEPT ![o] = @ - 1]

-----------------------------------------------------------------------------
(* Before the work is published.                                           *)

reserve_in(range) ==
    \E s \in Slot :
        /\ FirstEmpty(range, s)
        /\ phase' = [phase EXCEPT ![s] = "Reserved"]
        /\ reserve_cursor' = (s + 1) % SLOTS
        /\ reservations' = reservations \cup {Reservation(s)}
        /\ UNCHANGED <<generation, owner, next, value, wake_armed, woken, heads, tails, pending, takens, wakes>>

\* A reservation that is dropped before its publication gives the slot back.
cancel(r) ==
    /\ Current(r) /\ phase[r.slot] = "Reserved"
    /\ phase' = [phase EXCEPT ![r.slot] = "Empty"]
    /\ reservations' = reservations \ {r}
    /\ UNCHANGED <<generation, owner, next, value, wake_armed, woken, heads, tails, reserve_cursor, pending, takens, wakes>>

\* The ledger publishes to the publishing hart and counts the debt.
publish(r, o) ==
    /\ Current(r) /\ phase[r.slot] = "Reserved"
    /\ owner' = [owner EXCEPT ![r.slot] = o]
    /\ phase' = [phase EXCEPT ![r.slot] = "Pending"]
    /\ append(Unlinked(r.slot), o, r.slot)
    /\ value' = value \cup {r.slot}
    /\ count(o)
    /\ reservations' = reservations \ {r}
    /\ UNCHANGED <<generation, wake_armed, woken, reserve_cursor, takens, wakes>>

-----------------------------------------------------------------------------
(* Execution on the owner.                                                 *)

take(o) ==
    LET s == heads[o] IN
    /\ s # NoSlot
    /\ heads' = [heads EXCEPT ![o] = next[s]]
    /\ tails' = [tails EXCEPT ![o] = IF next[s] = NoSlot THEN NoSlot ELSE @]
    /\ next' = Unlinked(s)
    /\ phase' = [phase EXCEPT ![s] = "Taken"]
    /\ value' = value \ {s}
    /\ woken' = woken \ {s}
    /\ takens' = takens \cup {Token(s)}
    /\ UNCHANGED <<generation, owner, wake_armed, reserve_cursor, pending, reservations, wakes>>

\* The token is good for a call that ends the execution without parking.
Idle(t) ==
    /\ Current(t)
    /\ phase[t.slot] = "Taken" /\ owner[t.slot] = t.owner
    /\ t.slot \notin wake_armed

requeue(t) ==
    /\ Idle(t)
    /\ phase' = [phase EXCEPT ![t.slot] = "Pending"]
    /\ append(Unlinked(t.slot), t.owner, t.slot)
    /\ value' = value \cup {t.slot}
    /\ takens' = takens \ {t}
    /\ UNCHANGED <<generation, owner, wake_armed, woken, reserve_cursor, pending, reservations, wakes>>

\* A slot whose generation is used up never serves again.
finish(t) ==
    /\ Idle(t)
    /\ IF generation[t.slot] = MaxGen
       THEN phase' = [phase EXCEPT ![t.slot] = "Retired"] /\ UNCHANGED generation
       ELSE /\ phase' = [phase EXCEPT ![t.slot] = "Empty"]
            /\ generation' = [generation EXCEPT ![t.slot] = @ + 1]
    /\ decrement_pending(t.owner)
    /\ takens' = takens \ {t}
    /\ UNCHANGED <<owner, next, value, wake_armed, woken, heads, tails, reserve_cursor, reservations, wakes>>

\* The capacity stays with its holder for the next delivery.
rearm(t) ==
    /\ Idle(t)
    /\ phase' = [phase EXCEPT ![t.slot] = "Reserved"]
    /\ decrement_pending(t.owner)
    /\ takens' = takens \ {t}
    /\ reservations' = reservations \cup {Reservation(t.slot)}
    /\ UNCHANGED <<generation, owner, next, value, wake_armed, woken, heads, tails, reserve_cursor, wakes>>

-----------------------------------------------------------------------------
(* Parking until a source wakes the debt.                                  *)

arm_wake(t) ==
    /\ Idle(t) /\ t.slot \notin woken
    /\ wake_armed' = wake_armed \cup {t.slot}
    /\ wakes' = wakes \cup {t}
    /\ UNCHANGED <<generation, phase, owner, next, value, woken, heads, tails, reserve_cursor, pending, reservations, takens>>

\* Only a wake that nobody is parked on yet may be taken back.
cancel_wake(w) ==
    /\ Current(w)
    /\ phase[w.slot] = "Taken" /\ owner[w.slot] = w.owner
    /\ w.slot \in wake_armed
    /\ wake_armed' = wake_armed \ {w.slot}
    /\ wakes' = wakes \ {w}
    /\ UNCHANGED <<generation, phase, owner, next, value, woken, heads, tails, reserve_cursor, pending, reservations, takens>>

\* The table parks only a debt that has, or had, a wake to come.
Parkable(t) ==
    /\ Current(t)
    /\ phase[t.slot] = "Taken" /\ owner[t.slot] = t.owner
    /\ t.slot \in wake_armed \cup woken

\* Mutant: parking ignores a wake that came while the debt was running.
park_IgnoresLatch(t) ==
    /\ Parkable(t)
    /\ phase' = [phase EXCEPT ![t.slot] = "Parked"]
    /\ value' = value \cup {t.slot}
    /\ decrement_pending(t.owner)
    /\ takens' = takens \ {t}
    /\ UNCHANGED <<generation, owner, next, wake_armed, woken, heads, tails, reserve_cursor, reservations, wakes>>

\* A wake that came early makes the debt runnable at once.
park(t) ==
    /\ Parkable(t)
    /\ IF t.slot \in woken
       THEN /\ phase' = [phase EXCEPT ![t.slot] = "Pending"]
            /\ append(Unlinked(t.slot), t.owner, t.slot)
            /\ UNCHANGED pending
       ELSE /\ phase' = [phase EXCEPT ![t.slot] = "Parked"]
            /\ next' = Unlinked(t.slot)
            /\ decrement_pending(t.owner)
            /\ UNCHANGED <<heads, tails>>
    /\ value' = value \cup {t.slot}
    /\ woken' = woken \ {t.slot}
    /\ takens' = takens \ {t}
    /\ UNCHANGED <<generation, owner, wake_armed, reserve_cursor, reservations, wakes>>

Wakeable(w) ==
    /\ Current(w)
    /\ owner[w.slot] = w.owner
    /\ w.slot \in wake_armed
    /\ phase[w.slot] \in {"Taken", "Parked"}

\* The source wakes the debt: latched while it runs, queued while it is parked.
wake(w) ==
    /\ Wakeable(w)
    /\ IF phase[w.slot] = "Taken"
       THEN /\ woken' = woken \cup {w.slot}
            /\ UNCHANGED <<phase, next, heads, tails, pending>>
       ELSE /\ phase' = [phase EXCEPT ![w.slot] = "Pending"]
            /\ append(next, w.owner, w.slot)
            /\ UNCHANGED woken
            /\ count_woken(w.owner)
    /\ wake_armed' = wake_armed \ {w.slot}
    /\ wakes' = wakes \ {w}
    /\ UNCHANGED <<generation, owner, value, reserve_cursor, reservations, takens>>

-----------------------------------------------------------------------------
Next ==
    \/ \E range \in Partitions : reserve_in(range)
    \/ \E r \in reservations : cancel(r)
    \/ \E r \in reservations, o \in Owners : publish(r, o)
    \/ \E o \in Owners : take(o)
    \/ \E t \in takens : requeue(t)
    \/ \E t \in takens : finish(t)
    \/ \E t \in takens : rearm(t)
    \/ \E t \in takens : arm_wake(t)
    \/ \E t \in takens : park(t)
    \/ \E w \in wakes : cancel_wake(w)
    \/ \E w \in wakes : wake(w)

\* Harts drain their chains at every safe point and every source keeps its promise
\* to wake; nobody has to reserve or to publish anything.
Fairness ==
    /\ \A o \in Owners : WF_vars(take(o))
    /\ \A s \in Slot : WF_vars(\E w \in wakes : w.slot = s /\ wake(w))

Spec == Init /\ [][Next]_vars
FairSpec == Spec /\ Fairness

-----------------------------------------------------------------------------
(* Properties.                                                             *)

\* Every field of every slot has its type.
TypeOK ==
    /\ generation \in [Slot -> 1..MaxGen]
    /\ phase \in [Slot -> Phases]
    /\ owner \in [Slot -> Owners \cup {NoOwner}]
    /\ next \in [Slot -> 0..SLOTS]
    /\ value \subseteq Slot /\ wake_armed \subseteq Slot /\ woken \subseteq Slot
    /\ heads \in [Owners -> 0..SLOTS]
    /\ tails \in [Owners -> 0..SLOTS]
    /\ reserve_cursor \in Slot
    /\ pending \in [Owners -> Nat]
    /\ reservations \subseteq [slot : Slot, generation : 1..MaxGen]
    /\ takens \subseteq [slot : Slot, generation : 1..MaxGen, owner : Owners]
    /\ wakes \subseteq [slot : Slot, generation : 1..MaxGen, owner : Owners]

\* Every token that exists is accepted by the table, so no ledger call panics,
\* and every slot that is not free has exactly the tokens its phase calls for:
\* no capacity leaks, and no parked debt is without the wake that will free it.
TokensMatch ==
    /\ reservations = {Reservation(s) : s \in {x \in Slot : phase[x] = "Reserved"}}
    /\ takens = {Token(s) : s \in {x \in Slot : phase[x] = "Taken"}}
    /\ wakes = {Token(s) : s \in wake_armed}
    /\ \A s \in wake_armed : phase[s] \in {"Taken", "Parked"} /\ s \notin woken
    /\ \A s \in Slot : phase[s] = "Parked" => s \in wake_armed
    /\ value = {s \in Slot : phase[s] \in {"Pending", "Parked"}}

Live(o) == {s \in Slot : owner[s] = o /\ phase[s] \in {"Pending", "Taken"}}

\* The counter the idle loop reads is exactly the number of runnable or running
\* debts of the owner: a hart never sleeps on a pending debt, and never spins.
PendingExact ==
    \A o \in Owners : pending[o] = Cardinality(Live(o))

\* The slots an owner has yet to take.
Waiting(o) == {s \in Slot : phase[s] = "Pending" /\ owner[s] = o}

\* The n slots q are what the links of owner o lead through, from its head to its tail.
IsChain(o, n, q) ==
    /\ heads[o] = IF n = 0 THEN NoSlot ELSE q[1]
    /\ tails[o] = IF n = 0 THEN NoSlot ELSE q[n]
    /\ \A i \in 1..n : next[q[i]] = IF i = n THEN NoSlot ELSE q[i + 1]
    /\ \A i, j \in 1..n : q[i] = q[j] => i = j

\* The links form one acyclic chain per owner that holds each of its pending
\* slots once and nothing else, and the tail is its last slot.
ChainsExact ==
    \A o \in Owners :
        \E n \in 0..SLOTS : \E q \in [1..n -> Slot] : IsChain(o, n, q) /\ Range(q) = Waiting(o)

\* A generation never comes back: a slot's generation only grows, and a retired
\* slot stays retired, so a token can never meet a later use of its slot.
GenerationsFresh ==
    [][\A s \in Slot :
          /\ generation'[s] >= generation[s]
          /\ phase[s] = "Retired" => phase'[s] = "Retired"]_vars

\* A debt that is queued is taken, and a parked one is queued again.
DebtsRun ==
    \A s \in Slot : phase[s] \in {"Pending", "Parked"} ~> phase[s] = "Taken"

\* What a hart sees of its debts is exact: the counter that keeps it awake counts them, and
\* its chain holds the pending ones.
QueuesExact == PendingExact /\ ChainsExact

=============================================================================
