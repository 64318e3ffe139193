----------------------------- MODULE TimerQueue -----------------------------
(***************************************************************************)
(* The cancellable deadline heap of one hart (src/shared/timer_queue) with *)
(* its stable generation tokens: the owner registers and pops what expired *)
(* while any holder of a token, fresh or stale, cancels, moves or parks.   *)
(* Sequences are one-based where the code's vectors are zero-based.        *)
(* `ref' is the reference: the live tokens with their deadline, 0 when     *)
(* the entry is parked; `dead' are the tokens that were retired.           *)
(***************************************************************************)
EXTENDS Integers, Sequences, FiniteSets

CONSTANTS Owner, Instants, GenerationMax, NoSlot,
          Small, Large    \* bounds on the arena: see slots

\* slots, frozen, bounds the arena.  In a small arena every operation is free;
\* a large one is first filled and then only emptied, so that the heap is deep
\* enough for a removal to move its replacement upwards.
VARIABLES q, ref, dead, now, slots
vars == <<q, ref, dead, now, slots>>

Vacant(next) == [at |-> 0, index |-> next, kind |-> "Vacant"]
Retired == [at |-> 0, index |-> NoSlot, kind |-> "Retired"]
Parked == [at |-> 0, index |-> NoSlot, kind |-> "Parked"]
Occupied(at, index) == [at |-> at, index |-> index, kind |-> "Occupied"]

unbound == [owner |-> NoSlot, arena |-> <<>>, free |-> NoSlot, heap |-> <<>>, live |-> 0, cap |-> 0]

Token(u, slot) == [owner |-> u.owner, slot |-> slot, gen |-> u.arena[slot].gen]

\* valid_slot and the owner test in front of it: the token names this queue's
\* current generation of the slot.
valid(u, t) == /\ u.owner = t.owner
               /\ t.slot \in DOMAIN u.arena
               /\ u.arena[t.slot].gen = t.gen

expires_at(u, i) == u.arena[u.heap[i]].state.at

set_heap_index(u, i) == [u EXCEPT !.arena[u.heap[i]].state.index = i]

Swap(u, i, j) ==
  set_heap_index(set_heap_index(
    [u EXCEPT !.heap = [@ EXCEPT ![i] = u.heap[j], ![j] = u.heap[i]]], i), j)

RECURSIVE sift_up(_, _)
sift_up(u, child) ==
  IF child = 1 \/ expires_at(u, child \div 2) <= expires_at(u, child) THEN u
  ELSE sift_up(Swap(u, child \div 2, child), child \div 2)

RECURSIVE sift_down(_, _)
sift_down(u, parent) ==
  LET left == 2 * parent IN
  IF left > Len(u.heap) THEN u
  ELSE LET child == IF left + 1 <= Len(u.heap) /\ expires_at(u, left + 1) < expires_at(u, left)
                      THEN left + 1 ELSE left
       IN IF expires_at(u, parent) <= expires_at(u, child) THEN u
          ELSE sift_down(Swap(u, parent, child), child)

\* detach_heap_index: swap_remove, then the replacement moves up or down.
\* Mutant: the replacement is only sifted down.
detach_Down(u, i) ==
  LET last == Len(u.heap)
      v == [u EXCEPT !.heap = SubSeq([@ EXCEPT ![i] = u.heap[last]], 1, last - 1)]
  IN IF i = last THEN v ELSE sift_down(set_heap_index(v, i), i)

detach(u, i) ==
  LET last == Len(u.heap)
      v == [u EXCEPT !.heap = SubSeq([@ EXCEPT ![i] = u.heap[last]], 1, last - 1)]
      w == set_heap_index(v, i)
  IN IF i = last THEN v
     ELSE IF i > 1 /\ expires_at(w, i) < expires_at(w, i \div 2) THEN sift_up(w, i)
     ELSE sift_down(w, i)

\* recycle: the generation advances and the slot is linked free; a slot whose
\* generations are used up is retired for good.
recycle(u, slot) ==
  IF u.arena[slot].gen = GenerationMax THEN [u EXCEPT !.arena[slot].state = Retired]
  ELSE [u EXCEPT !.arena[slot] = [gen |-> @.gen + 1, state |-> Vacant(u.free)], !.free = slot]

remove_heap_index(u, i) == recycle([detach(u, i) EXCEPT !.live = @ - 1], u.heap[i])

Drop(t) == [x \in DOMAIN ref \ {t} |-> ref[x]]

-----------------------------------------------------------------------------
Init == q = unbound /\ ref = <<>> /\ dead = {} /\ now = 1 /\ slots \in {Small, Large}

\* The growth try_register pays for before it changes anything: the heap can
\* hold every live entry, the parked ones included.
Capacity(u) == IF u.cap < u.live + 1 THEN u.live + 1 ELSE u.cap

Placed(u, slot, at) ==
  sift_up([u EXCEPT !.arena[slot].state = Occupied(at, Len(u.heap) + 1),
                    !.heap = Append(@, slot)], Len(u.heap) + 1)

\* bind_owner on first use, then try_register.
try_register(at) ==
  \E u \in {[q EXCEPT !.owner = Owner, !.cap = Capacity(q)]} :
    /\ u.free # NoSlot \/ Len(u.arena) < slots
    /\ slots = Small \/ dead = {}
    /\ \E slot \in {IF u.free # NoSlot THEN u.free ELSE Len(u.arena) + 1} :
       \E v \in {IF u.free # NoSlot THEN [u EXCEPT !.free = u.arena[slot].state.index]
                 ELSE [u EXCEPT !.arena = Append(@, [gen |-> 1, state |-> Retired])]} :
         /\ q' = [Placed(v, slot, at) EXCEPT !.live = @ + 1]
         /\ ref' = [t \in DOMAIN ref \cup {Token(v, slot)} |->
                      IF t = Token(v, slot) THEN at ELSE ref[t]]
    /\ UNCHANGED <<dead, now, slots>>

\* The heap growth is paid, the arena cannot grow: nothing is registered.
register_failed ==
  /\ slots = Small /\ q.free = NoSlot
  /\ q' = [q EXCEPT !.owner = Owner, !.cap = Capacity(q)]
  /\ UNCHANGED <<ref, dead, now, slots>>

cancel(t) ==
  /\ q' = IF ~valid(q, t) THEN q
          ELSE CASE q.arena[t.slot].state.kind = "Occupied" ->
                      remove_heap_index(q, q.arena[t.slot].state.index)
                 [] q.arena[t.slot].state.kind = "Parked" ->
                      recycle([q EXCEPT !.live = @ - 1], t.slot)
                 [] OTHER -> q
  /\ ref' = Drop(t)
  /\ dead' = dead \cup ({t} \cap DOMAIN ref)
  /\ UNCHANGED <<now, slots>>

reschedule(t, at) ==
  /\ slots = Small
  /\ q' = IF ~valid(q, t) THEN q
          ELSE CASE q.arena[t.slot].state.kind = "Parked" -> Placed(q, t.slot, at)
                 [] q.arena[t.slot].state.kind = "Occupied" ->
                      LET s == q.arena[t.slot].state
                          u == [q EXCEPT !.arena[t.slot].state.at = at]
                      IN IF at < s.at THEN sift_up(u, s.index)
                         ELSE IF at > s.at THEN sift_down(u, s.index) ELSE u
                 [] OTHER -> q
  /\ ref' = [x \in DOMAIN ref |-> IF x = t THEN at ELSE ref[x]]
  /\ UNCHANGED <<dead, now, slots>>

park(t) ==
  /\ slots = Small
  /\ q' = IF ~valid(q, t) \/ q.arena[t.slot].state.kind # "Occupied" THEN q
          ELSE [detach(q, q.arena[t.slot].state.index) EXCEPT !.arena[t.slot].state = Parked]
  /\ ref' = [x \in DOMAIN ref |-> IF x = t THEN 0 ELSE ref[x]]
  /\ UNCHANGED <<dead, now, slots>>

\* The head is popped once it has expired.
pop_expired ==
  /\ q.heap # <<>> /\ expires_at(q, 1) <= now
  /\ \E t \in {Token(q, q.heap[1])} : ref' = Drop(t) /\ dead' = dead \cup {t}
  /\ q' = remove_heap_index(q, 1)
  /\ UNCHANGED <<now, slots>>

tick == /\ slots = Small /\ now + 1 \in Instants
        /\ now' = now + 1
        /\ UNCHANGED <<q, ref, dead, slots>>

\* Every token ever issued, and the same slot and generation of another queue.
Issued == DOMAIN ref \cup dead
Foreign == {[t EXCEPT !.owner = Owner + 1] : t \in Issued}

Next ==
  \/ \E at \in Instants : try_register(at)
  \/ register_failed
  \/ \E t \in Issued \cup Foreign : cancel(t) \/ park(t)
  \/ \E t \in Issued, at \in Instants : reschedule(t, at)
  \/ pop_expired \/ tick

Spec == Init /\ [][Next]_vars

-----------------------------------------------------------------------------
Live == {t \in DOMAIN ref : ref[t] > 0}

\* The queue holds exactly the deadlines the live tokens were given last: a
\* token that was cancelled or popped never touches the entry that reused its
\* slot, every heap entry knows its place, and the head expires first.
QueueIsReference ==
  /\ {[t |-> Token(q, q.heap[i]), at |-> expires_at(q, i)] : i \in DOMAIN q.heap}
       = {[t |-> t, at |-> ref[t]] : t \in Live}
  /\ Len(q.heap) = Cardinality(Live) /\ q.live = Cardinality(DOMAIN ref)
  /\ \A i \in DOMAIN q.heap : /\ q.arena[q.heap[i]].state.index = i
                              /\ i > 1 => expires_at(q, i \div 2) <= expires_at(q, i)
  /\ \A t \in dead : ~valid(q, t) \/ q.arena[t.slot].state.kind = "Retired"

\* Resuming a parked deadline never allocates: the heap keeps room for every
\* live entry.
ParkedIsPaid == q.live <= q.cap /\ Len(q.heap) <= q.live

=============================================================================
