-------------------------- MODULE WorkDebts_proofs --------------------------
(***************************************************************************)
(* Proofs about the debt table, for any number of slots, owners and        *)
(* generations: tokens and phases always agree, so no ledger call on a     *)
(* token it holds is ever refused.                                         *)
(***************************************************************************)
EXTENDS WorkDebts, FiniteSetTheorems, TLAPS

IsPending(s, o) == s \in Slot /\ phase[s] = "Pending" /\ owner[s] = o

\* What the links look like from one slot: enough to know that the head of a
\* chain is a pending slot of its owner, without following the chain.
EndsInv ==
    \A o \in Owners :
        /\ heads[o] # NoSlot => IsPending(heads[o], o)
        /\ tails[o] # NoSlot => IsPending(tails[o], o)
        /\ heads[o] = NoSlot <=> tails[o] = NoSlot

NextInv ==
    \A s \in Slot :
        /\ phase[s] # "Pending" => next[s] = NoSlot
        /\ phase[s] = "Pending" =>
              /\ owner[s] \in Owners
              /\ next[s] = NoSlot <=> s = tails[owner[s]]
              /\ next[s] # NoSlot => /\ IsPending(next[s], owner[s])
                                     /\ next[s] # heads[owner[s]]

InjectiveInv ==
    \A s, u \in Slot : next[s] = next[u] /\ next[s] # NoSlot => s = u

LinksInv == EndsInv /\ NextInv /\ InjectiveInv

\* TokensMatch slot by slot: a token exists exactly when the phase calls for it.
SlotTokens ==
    /\ \A r \in reservations : r = Reservation(r.slot) /\ phase[r.slot] = "Reserved"
    /\ \A s \in Slot : phase[s] = "Reserved" => Reservation(s) \in reservations
    /\ \A t \in takens : t = Token(t.slot) /\ phase[t.slot] = "Taken"
    /\ \A s \in Slot : phase[s] = "Taken" => Token(s) \in takens
    /\ \A w \in wakes : w = Token(w.slot) /\ w.slot \in wake_armed
    /\ \A s \in wake_armed : Token(s) \in wakes
    /\ \A s \in wake_armed : phase[s] \in {"Taken", "Parked"} /\ s \notin woken
    /\ \A s \in Slot : phase[s] = "Parked" => s \in wake_armed
    /\ \A s \in Slot : phase[s] \in {"Taken", "Parked"} => owner[s] \in Owners
    /\ value = {s \in Slot : phase[s] \in {"Pending", "Parked"}}

\* The type invariant without the counter.
SlotType ==
    /\ generation \in [Slot -> 1..MaxGen]
    /\ phase \in [Slot -> Phases]
    /\ owner \in [Slot -> Owners \cup {NoOwner}]
    /\ next \in [Slot -> 0..SLOTS]
    /\ value \subseteq Slot /\ wake_armed \subseteq Slot /\ woken \subseteq Slot
    /\ heads \in [Owners -> 0..SLOTS]
    /\ tails \in [Owners -> 0..SLOTS]
    /\ reserve_cursor \in Slot
    /\ reservations \subseteq [slot : Slot, generation : 1..MaxGen]
    /\ takens \subseteq [slot : Slot, generation : 1..MaxGen, owner : Owners]
    /\ wakes \subseteq [slot : Slot, generation : 1..MaxGen, owner : Owners]

IInv == SlotType /\ LinksInv /\ SlotTokens

USE SlotsAssumption, MaxGenAssumption, PartitionsAssumption, NoOwnerAssumption
    DEF count, count_woken, decrement_pending

\* The empty table satisfies the inductive invariant.
LEMMA InitIInv == Init => IInv
  BY DEF Init, IInv, SlotType, LinksInv, EndsInv, NextInv, InjectiveInv, SlotTokens, IsPending,
         Slot, NoSlot, Phases, NoOwner, Token, Reservation

\* Slot-by-slot agreement is the agreement the property states.
LEMMA TokensMatchFollows == IInv => TokensMatch
  <1> SUFFICES ASSUME IInv PROVE TokensMatch
    OBVIOUS
  <1>0. /\ \A r \in reservations : r.slot \in Slot
        /\ \A t \in takens : t.slot \in Slot
    BY DEF IInv, SlotType
  <1>1. reservations = {Reservation(s) : s \in {x \in Slot : phase[x] = "Reserved"}}
    BY <1>0 DEF IInv, SlotTokens
  <1>2. takens = {Token(s) : s \in {x \in Slot : phase[x] = "Taken"}}
    BY <1>0 DEF IInv, SlotTokens
  <1>3. wakes = {Token(s) : s \in wake_armed}
    BY DEF IInv, SlotTokens
  <1>4. /\ \A s \in wake_armed : phase[s] \in {"Taken", "Parked"} /\ s \notin woken
        /\ \A s \in Slot : phase[s] = "Parked" => s \in wake_armed
        /\ value = {s \in Slot : phase[s] \in {"Pending", "Parked"}}
    BY DEF IInv, SlotTokens
  <1> QED BY <1>1, <1>2, <1>3, <1>4 DEF TokensMatch

-----------------------------------------------------------------------------
(* The ways the links change.                                              *)

\* A link is a slot or nothing.
LEMMA SlotOrNone == NoSlot \notin Slot /\ 0..SLOTS = Slot \cup {NoSlot}
  BY DEF Slot, NoSlot

\* Appending a slot that is in no chain keeps the links sound.
LEMMA AppendLinks ==
  ASSUME SlotType, LinksInv, NEW s \in Slot, NEW o \in Owners,
         phase[s] # "Pending",
         phase' = [phase EXCEPT ![s] = "Pending"],
         owner' = [owner EXCEPT ![s] = o],
         append(Unlinked(s), o, s)
  PROVE  /\ next' \in [Slot -> 0..SLOTS]
         /\ heads' \in [Owners -> 0..SLOTS] /\ tails' \in [Owners -> 0..SLOTS]
         /\ LinksInv'
  <1> USE SlotOrNone DEF SlotType
  <1>1. tails[o] # NoSlot => tails[o] \in Slot /\ tails[o] # s
    BY DEF LinksInv, EndsInv, IsPending
  <1>2. next' = [x \in Slot |-> IF x = s THEN NoSlot ELSE IF x = tails[o] THEN s ELSE next[x]]
    BY <1>1 DEF append, Unlinked
  <1>3. next' \in [Slot -> 0..SLOTS]
    BY <1>2
  <1>5. /\ heads' = IF tails[o] = NoSlot THEN [heads EXCEPT ![o] = s] ELSE heads
        /\ tails' = [tails EXCEPT ![o] = s]
    BY DEF append
  <1>6. heads' \in [Owners -> 0..SLOTS] /\ tails' \in [Owners -> 0..SLOTS]
    BY <1>5
  <1>8. \A x \in Slot : next[x] # s
    <2> SUFFICES ASSUME NEW x \in Slot, next[x] = s PROVE FALSE
      OBVIOUS
    <2>1. phase[x] = "Pending" /\ next[x] # NoSlot
      BY DEF LinksInv, NextInv
    <2>2. IsPending(next[x], owner[x])
      BY <2>1 DEF LinksInv, NextInv
    <2> QED BY <2>2 DEF IsPending
  <1>9. EndsInv'
    <2> SUFFICES ASSUME NEW p \in Owners
                 PROVE  /\ heads'[p] # NoSlot => IsPending(heads[p], p)'
                        /\ tails'[p] # NoSlot => IsPending(tails[p], p)'
                        /\ heads'[p] = NoSlot <=> tails'[p] = NoSlot
      BY DEF EndsInv, IsPending
    <2>1. \A x \in Slot : IsPending(x, p) => IsPending(x, p)'
      BY DEF IsPending
    <2>2. IsPending(s, o)'
      BY DEF IsPending
    <2>3. /\ heads[p] # NoSlot => IsPending(heads[p], p)
          /\ tails[p] # NoSlot => IsPending(tails[p], p)
          /\ heads[p] = NoSlot <=> tails[p] = NoSlot
      BY DEF LinksInv, EndsInv
    <2>4. CASE p = o
      BY <2>1, <2>2, <2>3, <2>4, <1>5 DEF IsPending
    <2>5. CASE p # o
      <3>1. heads'[p] = heads[p] /\ tails'[p] = tails[p]
        BY <2>5, <1>5
      <3> QED BY <3>1, <2>1, <2>3 DEF IsPending
    <2> QED BY <2>4, <2>5
  <1>10. NextInv'
    <2> SUFFICES ASSUME NEW x \in Slot
                 PROVE  /\ phase'[x] # "Pending" => next'[x] = NoSlot
                        /\ phase'[x] = "Pending" =>
                              /\ owner'[x] \in Owners
                              /\ next'[x] = NoSlot <=> x = tails'[owner'[x]]
                              /\ next'[x] # NoSlot => /\ IsPending(next[x], owner[x])'
                                                      /\ next'[x] # heads'[owner'[x]]
      BY DEF NextInv, IsPending
    <2>1. CASE x = s
      BY <2>1, <1>2, <1>5
    <2>2. CASE x # s
      <3>1. phase'[x] = phase[x] /\ owner'[x] = owner[x]
        BY <2>2
      <3>2. CASE phase[x] # "Pending"
        BY <2>2, <3>1, <3>2, <1>1, <1>2 DEF LinksInv, EndsInv, NextInv, IsPending
      <3>3. CASE phase[x] = "Pending" /\ x = tails[o]
        BY <2>2, <3>1, <3>3, <1>1, <1>2, <1>5 DEF LinksInv, EndsInv, NextInv, IsPending
      <3>4. CASE phase[x] = "Pending" /\ x # tails[o]
        <4>1. next'[x] = next[x]
          BY <2>2, <3>4, <1>2
        <4>2. owner'[x] \in Owners /\ (next'[x] = NoSlot <=> x = tails'[owner'[x]])
          BY <2>2, <3>1, <3>4, <4>1, <1>1, <1>5 DEF LinksInv, EndsInv, NextInv, IsPending
        <4>3. next'[x] # NoSlot => IsPending(next[x], owner[x])'
          BY <3>1, <3>4, <4>1, <1>8 DEF LinksInv, NextInv, IsPending
        <4>4. next'[x] # NoSlot => next'[x] # heads'[owner'[x]]
          BY <3>1, <3>4, <4>1, <1>5, <1>8 DEF LinksInv, NextInv, IsPending
        <4> QED BY <3>1, <3>4, <4>2, <4>3, <4>4
      <3> QED BY <3>2, <3>3, <3>4
    <2> QED BY <2>1, <2>2
  <1>11. InjectiveInv'
    BY <1>2, <1>8 DEF LinksInv, InjectiveInv
  <1> QED BY <1>3, <1>6, <1>9, <1>10, <1>11, Zenon DEF LinksInv

\* A slot that is in no chain before and after a step leaves the links sound.
LEMMA UnlinkedLinks ==
  ASSUME SlotType, LinksInv, NEW s \in Slot,
         phase[s] # "Pending", phase'[s] # "Pending",
         \A x \in Slot \ {s} : phase'[x] = phase[x],
         UNCHANGED <<owner, next, heads, tails>>
  PROVE  LinksInv'
  <1>1. EndsInv'
    BY DEF LinksInv, EndsInv, IsPending
  <1>2. NextInv'
    BY DEF LinksInv, EndsInv, NextInv, IsPending
  <1>3. InjectiveInv'
    BY DEF LinksInv, InjectiveInv
  <1> QED BY <1>1, <1>2, <1>3 DEF LinksInv

\* Unlinking the head keeps the links sound.
LEMMA TakeLinks ==
  ASSUME SlotType, LinksInv, NEW o \in Owners, heads[o] # NoSlot,
         phase' = [phase EXCEPT ![heads[o]] = "Taken"],
         next' = Unlinked(heads[o]),
         heads' = [heads EXCEPT ![o] = next[heads[o]]],
         tails' = [tails EXCEPT ![o] = IF next[heads[o]] = NoSlot THEN NoSlot ELSE tails[o]],
         UNCHANGED owner
  PROVE  LinksInv'
  <1> DEFINE s == heads[o]
  <1> USE SlotOrNone DEF SlotType
  <1>1. s \in Slot /\ phase[s] = "Pending" /\ owner[s] = o
    BY DEF LinksInv, EndsInv, IsPending
  <1>2. next' = [x \in Slot |-> IF x = s THEN NoSlot ELSE next[x]]
    BY <1>1, Zenon DEF Unlinked
  <1>3. next[s] = NoSlot <=> s = tails[o]
    BY <1>1 DEF LinksInv, NextInv
  <1>4. next[s] # NoSlot => next[s] # s /\ IsPending(next[s], o)
    BY <1>1 DEF LinksInv, NextInv
  <1>5. \A x \in Slot : phase[x] = "Pending" => next[x] # s
    BY <1>1 DEF LinksInv, NextInv, IsPending
  <1> HIDE DEF s
  <1>0. /\ heads' = [heads EXCEPT ![o] = next[s]]
        /\ tails' = [tails EXCEPT ![o] = IF next[s] = NoSlot THEN NoSlot ELSE tails[o]]
        /\ phase' = [phase EXCEPT ![s] = "Taken"]
        /\ heads[o] = s
    BY DEF s
  <1>6. EndsInv'
    <2> SUFFICES ASSUME NEW p \in Owners
                 PROVE  /\ heads'[p] # NoSlot => IsPending(heads[p], p)'
                        /\ tails'[p] # NoSlot => IsPending(tails[p], p)'
                        /\ heads'[p] = NoSlot <=> tails'[p] = NoSlot
      BY DEF EndsInv, IsPending
    <2>1. /\ heads[p] # NoSlot => IsPending(heads[p], p)
          /\ tails[p] # NoSlot => IsPending(tails[p], p)
          /\ heads[p] = NoSlot <=> tails[p] = NoSlot
      BY DEF LinksInv, EndsInv
    <2>2. \A x \in Slot \ {s} : IsPending(x, p) => IsPending(x, p)'
      BY <1>0 DEF IsPending
    <2>3. CASE p = o
      BY <2>1, <2>2, <2>3, <1>0, <1>1, <1>3, <1>4 DEF IsPending
    <2>4. CASE p # o
      <3>1. heads'[p] = heads[p] /\ tails'[p] = tails[p]
        BY <2>4, <1>0
      <3> QED BY <3>1, <2>1, <2>2, <2>4, <1>1 DEF IsPending
    <2> QED BY <2>3, <2>4
  <1>7. NextInv'
    <2> SUFFICES ASSUME NEW x \in Slot
                 PROVE  /\ phase'[x] # "Pending" => next'[x] = NoSlot
                        /\ phase'[x] = "Pending" =>
                              /\ owner'[x] \in Owners
                              /\ next'[x] = NoSlot <=> x = tails'[owner'[x]]
                              /\ next'[x] # NoSlot => /\ IsPending(next[x], owner[x])'
                                                      /\ next'[x] # heads'[owner'[x]]
      BY DEF NextInv, IsPending
    <2>1. CASE x = s
      BY <2>1, <1>0, <1>1, <1>2, Zenon
    <2>2. CASE x # s
      <3>1. phase'[x] = phase[x] /\ owner'[x] = owner[x] /\ next'[x] = next[x]
        BY <2>2, <1>0, <1>1, <1>2, Zenon
      <3>2. CASE phase[x] # "Pending"
        BY <3>1, <3>2 DEF LinksInv, NextInv
      <3>3. CASE phase[x] = "Pending"
        <4>1. owner[x] \in Owners /\ (next[x] = NoSlot <=> x = tails[owner[x]])
          BY <3>3 DEF LinksInv, NextInv
        <4>2. next[x] # NoSlot => IsPending(next[x], owner[x])
          BY <3>3 DEF LinksInv, NextInv
        <4>3. next[x] # NoSlot => IsPending(next[x], owner[x])'
          BY <3>1, <3>3, <4>2, <1>0, <1>5 DEF IsPending
        <4>4. next'[x] # NoSlot => next'[x] # heads'[owner'[x]]
          BY <2>2, <3>1, <3>3, <4>1, <1>0, <1>1 DEF LinksInv, NextInv, InjectiveInv
        <4>5. next'[x] = NoSlot <=> x = tails'[owner'[x]]
          BY <2>2, <3>1, <4>1, <1>0, <1>3
        <4> QED BY <3>1, <3>3, <4>1, <4>3, <4>4, <4>5
      <3> QED BY <3>2, <3>3
    <2> QED BY <2>1, <2>2
  <1>8. InjectiveInv'
    BY <1>2 DEF LinksInv, InjectiveInv
  <1> QED BY <1>6, <1>7, <1>8 DEF LinksInv

-----------------------------------------------------------------------------
(* One lemma per group of calls.                                           *)

\* A token's slot, generation and owner.
LEMMA TokenFacts ==
  ASSUME IInv
  PROVE  /\ \A r \in reservations : /\ r.slot \in Slot /\ phase[r.slot] = "Reserved"
                                    /\ r = Reservation(r.slot)
         /\ \A t \in takens : /\ t.slot \in Slot /\ t.owner \in Owners /\ phase[t.slot] = "Taken"
                              /\ t = Token(t.slot) /\ owner[t.slot] = t.owner
         /\ \A w \in wakes : /\ w.slot \in wake_armed /\ w.slot \in Slot /\ w.owner \in Owners
                             /\ w = Token(w.slot) /\ owner[w.slot] = w.owner
  BY DEF IInv, SlotType, SlotTokens, Token, Reservation

\* Taking and giving back a reservation.
LEMMA ReserveStep ==
  ASSUME IInv, NEW range \in Partitions, reserve_in(range) PROVE IInv'
  <1>1. PICK s \in Slot : /\ phase[s] = "Empty"
                          /\ phase' = [phase EXCEPT ![s] = "Reserved"]
                          /\ reserve_cursor' = (s + 1) % SLOTS
                          /\ reservations' = reservations \cup {Reservation(s)}
                          /\ UNCHANGED <<generation, owner, next, value, wake_armed, woken, heads,
                                         tails, pending, takens, wakes>>
    BY Zenon DEF reserve_in, FirstEmpty
  <1>2. SlotType'
    <2>1. (s + 1) % SLOTS \in Slot
      BY DEF Slot
    <2>2. Reservation(s) \in [slot : Slot, generation : 1..MaxGen]
      BY DEF IInv, SlotType, Reservation
    <2> QED BY <1>1, <2>1, <2>2 DEF IInv, SlotType, Phases
  <1>3. LinksInv'
    <2>1. phase[s] # "Pending" /\ phase'[s] # "Pending" /\ \A x \in Slot \ {s} : phase'[x] = phase[x]
      BY <1>1 DEF IInv, SlotType
    <2> QED BY <1>1, <2>1, UnlinkedLinks DEF IInv
  <1>4. SlotTokens'
    BY <1>1 DEF IInv, SlotType, SlotTokens, Reservation, Token
  <1> QED BY <1>2, <1>3, <1>4 DEF IInv

LEMMA CancelStep ==
  ASSUME IInv, NEW r \in reservations, cancel(r) PROVE IInv'
  <1>1. r.slot \in Slot /\ phase[r.slot] = "Reserved" /\ r = Reservation(r.slot)
    BY TokenFacts
  <1>2. SlotType'
    BY <1>1 DEF cancel, IInv, SlotType, Phases
  <1>3. LinksInv'
    <2>1. /\ phase'[r.slot] # "Pending" /\ \A x \in Slot \ {r.slot} : phase'[x] = phase[x]
          /\ UNCHANGED <<owner, next, heads, tails>>
      BY <1>1 DEF cancel, IInv, SlotType
    <2> QED BY <1>1, <2>1, UnlinkedLinks DEF IInv
  <1>4. SlotTokens'
    BY <1>1 DEF cancel, IInv, SlotType, SlotTokens, Reservation, Token
  <1> QED BY <1>2, <1>3, <1>4 DEF IInv

LEMMA PublishStep ==
  ASSUME IInv, NEW r \in reservations, NEW o \in Owners, publish(r, o) PROVE IInv'
  <1>1. r.slot \in Slot /\ phase[r.slot] = "Reserved" /\ r = Reservation(r.slot)
    BY TokenFacts
  <1>2. /\ LinksInv' /\ next' \in [Slot -> 0..SLOTS]
        /\ heads' \in [Owners -> 0..SLOTS] /\ tails' \in [Owners -> 0..SLOTS]
    BY <1>1, AppendLinks, Zenon DEF publish, IInv
  <1>3. SlotType'
    BY <1>1, <1>2, Zenon DEF publish, IInv, SlotType, Phases
  <1>4. SlotTokens'
    BY <1>1 DEF publish, IInv, SlotType, SlotTokens, Reservation, Token
  <1> QED BY <1>2, <1>3, <1>4 DEF IInv

LEMMA TakeStep ==
  ASSUME IInv, NEW o \in Owners, take(o) PROVE IInv'
  <1> DEFINE s == heads[o]
  <1>1. s \in Slot /\ phase[s] = "Pending" /\ owner[s] = o /\ next[s] \in 0..SLOTS
    BY DEF IInv, take, SlotType, LinksInv, EndsInv, IsPending
  <1>2. LinksInv'
    BY TakeLinks, Zenon DEF take, IInv
  <1>3. SlotType'
    BY <1>1, SlotOrNone DEF take, Unlinked, IInv, SlotType, Phases, Token
  <1>4. SlotTokens'
    BY <1>1 DEF take, IInv, SlotType, SlotTokens, Reservation, Token
  <1> QED BY <1>2, <1>3, <1>4 DEF IInv

\* Ending an execution: requeue, finish and rearm.
LEMMA RequeueStep ==
  ASSUME IInv, NEW t \in takens, requeue(t) PROVE IInv'
  <1>1. /\ t.slot \in Slot /\ t.owner \in Owners /\ phase[t.slot] = "Taken"
        /\ t = Token(t.slot) /\ owner[t.slot] = t.owner /\ t.slot \notin wake_armed
    BY TokenFacts DEF requeue, Idle
  <1>2. /\ LinksInv' /\ next' \in [Slot -> 0..SLOTS]
        /\ heads' \in [Owners -> 0..SLOTS] /\ tails' \in [Owners -> 0..SLOTS]
    <2>1. owner' = [owner EXCEPT ![t.slot] = t.owner]
      BY <1>1 DEF requeue, IInv, SlotType
    <2> QED BY <1>1, <2>1, AppendLinks, Zenon DEF requeue, IInv
  <1>3. SlotType'
    BY <1>1, <1>2, Zenon DEF requeue, IInv, SlotType, Phases
  <1>4. SlotTokens'
    BY <1>1 DEF requeue, IInv, SlotType, SlotTokens, Reservation, Token
  <1> QED BY <1>2, <1>3, <1>4 DEF IInv

LEMMA FinishStep ==
  ASSUME IInv, NEW t \in takens, finish(t) PROVE IInv'
  <1>1. /\ t.slot \in Slot /\ t.owner \in Owners /\ phase[t.slot] = "Taken"
        /\ t = Token(t.slot) /\ owner[t.slot] = t.owner /\ t.slot \notin wake_armed
    BY TokenFacts DEF finish, Idle
  <1>2. /\ phase'[t.slot] \in {"Empty", "Retired"}
        /\ phase' \in [Slot -> Phases] /\ generation' \in [Slot -> 1..MaxGen]
        /\ \A x \in Slot \ {t.slot} : phase'[x] = phase[x] /\ generation'[x] = generation[x]
        /\ takens' = takens \ {t}
        /\ UNCHANGED <<owner, next, value, wake_armed, woken, heads, tails, reserve_cursor,
                       reservations, wakes>>
    BY <1>1 DEF finish, IInv, SlotType, Phases
  <1>3. SlotType'
    BY <1>2 DEF IInv, SlotType
  <1>4. LinksInv'
    BY <1>1, <1>2, UnlinkedLinks DEF IInv
  <1>5. SlotTokens'
    BY <1>1, <1>2 DEF IInv, SlotType, SlotTokens, Reservation, Token
  <1> QED BY <1>3, <1>4, <1>5 DEF IInv

LEMMA RearmStep ==
  ASSUME IInv, NEW t \in takens, rearm(t) PROVE IInv'
  <1>1. /\ t.slot \in Slot /\ t.owner \in Owners /\ phase[t.slot] = "Taken"
        /\ t = Token(t.slot) /\ owner[t.slot] = t.owner /\ t.slot \notin wake_armed
    BY TokenFacts DEF rearm, Idle
  <1>2. Reservation(t.slot) \in [slot : Slot, generation : 1..MaxGen]
    BY <1>1 DEF IInv, SlotType, Reservation
  <1>3. SlotType'
    BY <1>1, <1>2 DEF rearm, IInv, SlotType, Phases
  <1>4. LinksInv'
    <2>1. /\ phase'[t.slot] # "Pending" /\ \A x \in Slot \ {t.slot} : phase'[x] = phase[x]
          /\ UNCHANGED <<owner, next, heads, tails>>
      BY <1>1 DEF rearm, IInv, SlotType
    <2> QED BY <1>1, <2>1, UnlinkedLinks DEF IInv
  <1>5. SlotTokens'
    BY <1>1 DEF rearm, IInv, SlotType, SlotTokens, Reservation, Token
  <1> QED BY <1>3, <1>4, <1>5 DEF IInv

\* Registering a wake and taking it back leave the slots alone.
LEMMA WakeRegistrationStep ==
  ASSUME IInv, (\E t \in takens : arm_wake(t)) \/ (\E w \in wakes : cancel_wake(w))
  PROVE  IInv'
  <1>1. LinksInv'
    <2>1. UNCHANGED <<phase, owner, next, heads, tails>>
      BY DEF arm_wake, cancel_wake
    <2> QED BY <2>1 DEF IInv, LinksInv, EndsInv, NextInv, InjectiveInv, IsPending
  <1>2. ASSUME NEW t \in takens, arm_wake(t) PROVE SlotType' /\ SlotTokens'
    <2>1. t.slot \in Slot /\ phase[t.slot] = "Taken" /\ t = Token(t.slot)
      BY TokenFacts
    <2>2. SlotType'
      BY <1>2, <2>1 DEF arm_wake, IInv, SlotType
    <2>3. SlotTokens'
      BY <1>2, <2>1 DEF arm_wake, Idle, IInv, SlotType, SlotTokens, Reservation, Token
    <2> QED BY <2>2, <2>3
  <1>3. ASSUME NEW w \in wakes, cancel_wake(w) PROVE SlotType' /\ SlotTokens'
    <2>1. w.slot \in Slot /\ w = Token(w.slot)
      BY TokenFacts
    <2>2. SlotType'
      BY <1>3, <2>1 DEF cancel_wake, IInv, SlotType
    <2>3. SlotTokens'
      BY <1>3, <2>1 DEF cancel_wake, IInv, SlotType, SlotTokens, Reservation, Token
    <2> QED BY <2>2, <2>3
  <1> QED BY <1>1, <1>2, <1>3 DEF IInv

\* Parking, or going on at once when the wake came first.
LEMMA ParkStep ==
  ASSUME IInv, NEW t \in takens, park(t) PROVE IInv'
  <1>1. /\ t.slot \in Slot /\ t.owner \in Owners /\ phase[t.slot] = "Taken"
        /\ t = Token(t.slot) /\ owner[t.slot] = t.owner
        /\ t.slot \in wake_armed \cup woken
    BY TokenFacts DEF park, Parkable
  <1>2. /\ LinksInv' /\ next' \in [Slot -> 0..SLOTS]
        /\ heads' \in [Owners -> 0..SLOTS] /\ tails' \in [Owners -> 0..SLOTS]
    <2>1. CASE t.slot \in woken
      <3>1. owner' = [owner EXCEPT ![t.slot] = t.owner]
        BY <1>1 DEF park, IInv, SlotType
      <3> QED BY <1>1, <2>1, <3>1, AppendLinks, Zenon DEF park, IInv
    <2>2. CASE t.slot \notin woken
      <3>1. next[t.slot] = NoSlot
        BY <1>1 DEF IInv, LinksInv, NextInv
      <3>2. /\ phase'[t.slot] # "Pending" /\ \A x \in Slot \ {t.slot} : phase'[x] = phase[x]
            /\ UNCHANGED <<owner, next, heads, tails>>
        BY <1>1, <2>2, <3>1 DEF park, Unlinked, IInv, SlotType
      <3>3. LinksInv'
        BY <1>1, <3>2, UnlinkedLinks DEF IInv
      <3> QED BY <3>2, <3>3 DEF IInv, SlotType
    <2> QED BY <2>1, <2>2
  <1>3. SlotType'
    BY <1>1, <1>2 DEF park, IInv, SlotType, Phases
  <1>4. SlotTokens'
    BY <1>1 DEF park, IInv, SlotType, SlotTokens, Reservation, Token
  <1> QED BY <1>2, <1>3, <1>4 DEF IInv

\* Waking: latched on a running slot, queued on a parked one.
LEMMA WakeStep ==
  ASSUME IInv, NEW w \in wakes, wake(w) PROVE IInv'
  <1>1. /\ w.slot \in wake_armed /\ w.slot \in Slot /\ w.owner \in Owners
        /\ w = Token(w.slot) /\ owner[w.slot] = w.owner
        /\ phase[w.slot] \in {"Taken", "Parked"}
    BY TokenFacts DEF wake, Wakeable
  <1>2. /\ LinksInv' /\ next' \in [Slot -> 0..SLOTS]
        /\ heads' \in [Owners -> 0..SLOTS] /\ tails' \in [Owners -> 0..SLOTS]
    <2>1. CASE phase[w.slot] = "Taken"
      <3>1. UNCHANGED <<phase, owner, next, heads, tails>>
        BY <2>1 DEF wake
      <3> QED BY <3>1 DEF IInv, SlotType, LinksInv, EndsInv, NextInv, InjectiveInv, IsPending
    <2>2. CASE phase[w.slot] = "Parked"
      <3>1. owner' = [owner EXCEPT ![w.slot] = w.owner]
        BY <1>1 DEF wake, IInv, SlotType
      <3>2. next = Unlinked(w.slot)
        BY <1>1, <2>2 DEF IInv, SlotType, LinksInv, NextInv, Unlinked
      <3> QED BY <1>1, <2>2, <3>1, <3>2, AppendLinks, Zenon DEF wake, IInv
    <2> QED BY <1>1, <2>1, <2>2
  <1>3. SlotType'
    BY <1>1, <1>2 DEF wake, IInv, SlotType, Phases
  <1>4. SlotTokens'
    BY <1>1 DEF wake, IInv, SlotType, SlotTokens, Reservation, Token
  <1> QED BY <1>2, <1>3, <1>4 DEF IInv

\* The inductive invariant holds in every state of the table.
THEOREM InductiveInvariant == Spec => []IInv
  <1>1. ASSUME IInv, [Next]_vars PROVE IInv'
    <2>1. CASE UNCHANGED vars
      <3>1. SlotType'
        BY <1>1, <2>1 DEF vars, IInv, SlotType
      <3>2. LinksInv'
        BY <1>1, <2>1 DEF vars, IInv, LinksInv, EndsInv, NextInv, InjectiveInv, IsPending
      <3>3. SlotTokens'
        BY <1>1, <2>1 DEF vars, IInv, SlotTokens, Reservation, Token
      <3> QED BY <3>1, <3>2, <3>3 DEF IInv
    <2>2. CASE Next
      BY <1>1, <2>2, ReserveStep, CancelStep, PublishStep, TakeStep, RequeueStep, FinishStep,
         RearmStep, WakeRegistrationStep, ParkStep, WakeStep DEF Next
    <2> QED BY <1>1, <2>1, <2>2
  <1> QED BY <1>1, InitIInv, PTL DEF Spec

\* No ledger call on a token it holds is ever refused, whatever the size of the table.
THEOREM TokensAlwaysMatch == Spec => []TokensMatch
  BY InductiveInvariant, TokensMatchFollows, PTL

\* The table's generations only grow and a retired slot never serves again.
THEOREM NoGenerationReused == Spec => GenerationsFresh
  <1>1. ASSUME IInv, [Next]_vars
        PROVE  [\A s \in Slot : /\ generation'[s] >= generation[s]
                                /\ phase[s] = "Retired" => phase'[s] = "Retired"]_vars
    <2> SUFFICES ASSUME Next, NEW s \in Slot
                 PROVE  /\ generation'[s] >= generation[s]
                        /\ phase[s] = "Retired" => phase'[s] = "Retired"
      BY <1>1
    <2>0. generation[s] \in Nat /\ generation \in [Slot -> Nat] /\ phase \in [Slot -> Phases]
      BY <1>1 DEF IInv, SlotType
    <2>1. CASE \E range \in Partitions : reserve_in(range)
      BY <2>0, <2>1 DEF reserve_in, FirstEmpty
    <2>2. CASE \/ \E r \in reservations : cancel(r)
               \/ \E r \in reservations, o \in Owners : publish(r, o)
      BY <1>1, <2>0, <2>2, TokenFacts DEF cancel, publish
    <2>3. CASE \E o \in Owners : take(o)
      BY <1>1, <2>0, <2>3 DEF take, IInv, LinksInv, EndsInv, IsPending
    <2>4. CASE \E t \in takens : requeue(t) \/ finish(t) \/ rearm(t) \/ arm_wake(t) \/ park(t)
      <3> PICK t \in takens : requeue(t) \/ finish(t) \/ rearm(t) \/ arm_wake(t) \/ park(t)
        BY <2>4
      <3>1. t.slot \in Slot /\ phase[t.slot] = "Taken" /\ generation[t.slot] = t.generation
        BY <1>1, TokenFacts DEF Token
      <3>2. CASE requeue(t) \/ arm_wake(t)
        BY <2>0, <3>1, <3>2 DEF requeue, arm_wake
      <3>3. CASE finish(t)
        BY <2>0, <3>1, <3>3 DEF finish
      <3>4. CASE rearm(t)
        BY <2>0, <3>1, <3>4 DEF rearm
      <3>5. CASE park(t)
        BY <2>0, <3>1, <3>5 DEF park
      <3> QED BY <3>2, <3>3, <3>4, <3>5
    <2>5. CASE \E w \in wakes : cancel_wake(w) \/ wake(w)
      <3> PICK w \in wakes : cancel_wake(w) \/ wake(w)
        BY <2>5
      <3>1. CASE cancel_wake(w)
        <4>1. generation' = generation /\ phase' = phase
          BY <3>1, Zenon DEF cancel_wake
        <4> QED BY <2>0, <4>1
      <3>2. CASE wake(w)
        BY <2>0, <3>2 DEF wake, Wakeable
      <3> QED BY <3>1, <3>2
    <2> QED BY <2>1, <2>2, <2>3, <2>4, <2>5, Zenon DEF Next
  <1> QED BY <1>1, InductiveInvariant, PTL DEF Spec, GenerationsFresh

-----------------------------------------------------------------------------
(* The counter the idle loop reads.                                        *)

CountInv == pending \in [Owners -> Nat] /\ PendingExact

LEMMA LiveFinite == \A o \in Owners : IsFiniteSet(Live(o)) /\ Cardinality(Live(o)) \in Nat
  <1>1. IsFiniteSet(Slot)
    BY FS_Interval DEF Slot
  <1> QED BY <1>1, FS_Subset, FS_CardinalityType DEF Live

\* A slot that becomes live is counted.
LEMMA CountUp ==
  ASSUME CountInv, NEW o \in Owners, NEW s \in Slot, s \notin Live(o),
         Live(o)' = Live(o) \cup {s},
         \A p \in Owners \ {o} : Live(p)' = Live(p),
         pending' = [pending EXCEPT ![o] = @ + 1]
  PROVE  CountInv'
  <1>1. Cardinality(Live(o)') = Cardinality(Live(o)) + 1
    BY LiveFinite, FS_AddElement, Zenon
  <1>2. \A p \in Owners : pending'[p] = Cardinality(Live(p)')
    BY <1>1, Zenon DEF CountInv, PendingExact
  <1> QED BY <1>2 DEF CountInv, PendingExact

\* A slot that stops being live is no longer counted.
LEMMA CountDown ==
  ASSUME CountInv, NEW o \in Owners, NEW s \in Live(o),
         Live(o)' = Live(o) \ {s},
         \A p \in Owners \ {o} : Live(p)' = Live(p),
         pending' = [pending EXCEPT ![o] = @ - 1]
  PROVE  CountInv'
  <1>1. Cardinality(Live(o)') = Cardinality(Live(o)) - 1 /\ Cardinality(Live(o)') \in Nat
    <2>1. IsFiniteSet(Live(o) \ {s}) /\ Cardinality(Live(o) \ {s}) = Cardinality(Live(o)) - 1
      BY LiveFinite, FS_RemoveElement
    <2> QED BY <2>1, FS_CardinalityType
  <1>2. \A p \in Owners : pending'[p] = Cardinality(Live(p)')
    BY <1>1 DEF CountInv, PendingExact
  <1>3. pending' \in [Owners -> Nat]
    BY <1>1 DEF CountInv, PendingExact
  <1> QED BY <1>2, <1>3 DEF CountInv, PendingExact

LEMMA CountSame ==
  ASSUME CountInv, \A p \in Owners : Live(p)' = Live(p), UNCHANGED pending
  PROVE  CountInv'
  BY DEF CountInv, PendingExact

LEMMA CountStep ==
  ASSUME IInv, CountInv, Next PROVE CountInv'
  <1> USE DEF Live
  <1>0. phase \in [Slot -> Phases] /\ owner \in [Slot -> Owners \cup {NoOwner}]
    BY DEF IInv, SlotType
  <1>1. ASSUME NEW range \in Partitions, reserve_in(range) PROVE CountInv'
    BY <1>0, <1>1, CountSame DEF reserve_in, FirstEmpty
  <1>2. ASSUME NEW r \in reservations, cancel(r) PROVE CountInv'
    BY <1>0, <1>2, CountSame, TokenFacts DEF cancel
  <1>3. ASSUME NEW r \in reservations, NEW o \in Owners, publish(r, o) PROVE CountInv'
    <2>1. /\ r.slot \notin Live(o) /\ Live(o)' = Live(o) \cup {r.slot}
          /\ \A p \in Owners \ {o} : Live(p)' = Live(p)
      BY <1>0, <1>3, TokenFacts, Zenon DEF publish
    <2> HIDE DEF Live
    <2> QED BY <1>3, <2>1, CountUp, TokenFacts, Zenon DEF publish
  <1>4. ASSUME NEW o \in Owners, take(o) PROVE CountInv'
    <2>1. heads[o] \in Slot /\ phase[heads[o]] = "Pending"
      BY <1>4 DEF IInv, take, LinksInv, EndsInv, IsPending
    <2> QED BY <1>0, <1>4, <2>1, CountSame DEF take
  <1>5. ASSUME NEW t \in takens, requeue(t) \/ arm_wake(t) PROVE CountInv'
    BY <1>0, <1>5, CountSame, TokenFacts DEF requeue, arm_wake
  <1>6. ASSUME NEW t \in takens, finish(t) \/ rearm(t) PROVE CountInv'
    <2>1. /\ t.slot \in Live(t.owner) /\ Live(t.owner)' = Live(t.owner) \ {t.slot}
          /\ \A p \in Owners \ {t.owner} : Live(p)' = Live(p)
      <3>1. CASE finish(t)
        BY <1>0, <3>1, TokenFacts, Zenon DEF finish
      <3>2. CASE rearm(t)
        BY <1>0, <3>2, TokenFacts, Zenon DEF rearm
      <3> QED BY <1>6, <3>1, <3>2, Zenon
    <2> HIDE DEF Live
    <2> QED BY <1>6, <2>1, CountDown, TokenFacts, Zenon DEF finish, rearm
  <1>7. ASSUME NEW t \in takens, park(t) PROVE CountInv'
    <2>1. CASE t.slot \in woken
      BY <1>0, <1>7, <2>1, CountSame, TokenFacts DEF park
    <2>2. CASE t.slot \notin woken
      <3>1. /\ t.slot \in Live(t.owner) /\ Live(t.owner)' = Live(t.owner) \ {t.slot}
            /\ \A p \in Owners \ {t.owner} : Live(p)' = Live(p)
        BY <1>0, <1>7, <2>2, TokenFacts, Zenon DEF park
      <3> HIDE DEF Live
      <3> QED BY <1>7, <2>2, <3>1, CountDown, TokenFacts, Zenon DEF park
    <2> QED BY <2>1, <2>2
  <1>8. ASSUME NEW w \in wakes, cancel_wake(w) PROVE CountInv'
    BY <1>8, CountSame, Zenon DEF cancel_wake
  <1>9. ASSUME NEW w \in wakes, wake(w) PROVE CountInv'
    <2>1. CASE phase[w.slot] = "Taken"
      BY <1>9, <2>1, CountSame DEF wake
    <2>2. CASE phase[w.slot] = "Parked"
      <3>1. /\ w.slot \notin Live(w.owner) /\ Live(w.owner)' = Live(w.owner) \cup {w.slot}
            /\ \A p \in Owners \ {w.owner} : Live(p)' = Live(p)
        BY <1>0, <1>9, <2>2, TokenFacts, Zenon DEF wake
      <3> HIDE DEF Live
      <3> QED BY <1>9, <2>2, <3>1, CountUp, TokenFacts DEF wake
    <2> QED BY <1>9, <2>1, <2>2 DEF wake, Wakeable
  <1> QED BY <1>1, <1>2, <1>3, <1>4, <1>5, <1>6, <1>7, <1>8, <1>9 DEF Next

\* The counter is exact and a natural number in every state.
THEOREM CountInvariant == Spec => []CountInv
  <1>1. Init => CountInv
    <2> SUFFICES ASSUME Init PROVE CountInv
      OBVIOUS
    <2>1. \A o \in Owners : Live(o) = {}
      BY DEF Init, Live
    <2> QED BY <2>1, FS_EmptySet DEF Init, CountInv, PendingExact
  <1>2. IInv /\ CountInv /\ [Next]_vars => CountInv'
    <2>1. ASSUME CountInv, UNCHANGED vars PROVE CountInv'
      BY <2>1, CountSame DEF vars, Live
    <2> QED BY <2>1, CountStep
  <1> QED BY <1>1, <1>2, InductiveInvariant, PTL DEF Spec

\* The counter that the idle loop reads without the lock is exact.
THEOREM PendingCounterExact == Spec => []PendingExact
  <1>1. CountInv => PendingExact
    BY DEF CountInv
  <1> QED BY <1>1, CountInvariant, PTL

\* Every field of the table has its type, the counter included: it never
\* goes below zero.
THEOREM TypeCorrect == Spec => []TypeOK
  <1>1. IInv /\ CountInv => TypeOK
    BY DEF IInv, SlotType, CountInv, TypeOK
  <1> QED BY <1>1, InductiveInvariant, CountInvariant, PTL

-----------------------------------------------------------------------------
(* The chains.                                                             *)

\* The same as ChainsExact without the bound on the length, which follows from the slots being distinct.
HasChain(o) == \E n \in Nat : \E q \in [1..n -> Slot] : IsChain(o, n, q) /\ Range(q) = Waiting(o)
ChainInv == \A o \in Owners : HasChain(o)

\* The ways a call can change the chains: not at all, ...
Rests == UNCHANGED <<next, heads, tails>> /\ \A o \in Owners : Waiting(o)' = Waiting(o)

\* ... one slot more behind the tail of its owner, ...
Appends(s, o) ==
    /\ phase[s] # "Pending"
    /\ Waiting(o)' = Waiting(o) \cup {s} /\ \A p \in Owners \ {o} : Waiting(p)' = Waiting(p)
    /\ append(Unlinked(s), o, s)

\* ... or the head of one owner taken off.
Takes(o) ==
    /\ heads[o] # NoSlot
    /\ Waiting(o)' = Waiting(o) \ {heads[o]} /\ \A p \in Owners \ {o} : Waiting(p)' = Waiting(p)
    /\ next' = Unlinked(heads[o])
    /\ heads' = [heads EXCEPT ![o] = next[heads[o]]]
    /\ tails' = [tails EXCEPT ![o] = IF next[heads[o]] = NoSlot THEN NoSlot ELSE tails[o]]

LEMMA ChainCalls ==
  ASSUME IInv, Next
  PROVE  Rests \/ (\E s \in Slot, o \in Owners : Appends(s, o)) \/ (\E o \in Owners : Takes(o))
  <1>0. phase \in [Slot -> Phases] /\ owner \in [Slot -> Owners \cup {NoOwner}] /\ next \in [Slot -> 0..SLOTS]
    BY DEF IInv, SlotType
  <1>1. ASSUME NEW range \in Partitions, reserve_in(range) PROVE Rests
    BY <1>0, <1>1 DEF reserve_in, FirstEmpty, Rests, Waiting
  <1>2. ASSUME NEW r \in reservations, cancel(r) PROVE Rests
    BY <1>0, <1>2, TokenFacts DEF cancel, Rests, Waiting
  <1>3. ASSUME NEW r \in reservations, NEW o \in Owners, publish(r, o) PROVE Appends(r.slot, o) /\ r.slot \in Slot
    BY <1>0, <1>3, TokenFacts DEF publish, Appends, Waiting
  <1>4. ASSUME NEW o \in Owners, take(o) PROVE Takes(o)
    <2>1. heads[o] \in Slot /\ phase[heads[o]] = "Pending" /\ owner[heads[o]] = o
      BY <1>4 DEF IInv, take, SlotType, LinksInv, EndsInv, IsPending
    <2>2. Waiting(o)' = Waiting(o) \ {heads[o]} /\ \A p \in Owners \ {o} : Waiting(p)' = Waiting(p)
      BY <1>0, <1>4, <2>1 DEF take, Waiting
    <2> QED BY <1>4, <2>2 DEF take, Takes
  <1>5. ASSUME NEW t \in takens, requeue(t) PROVE Appends(t.slot, t.owner) /\ t.slot \in Slot /\ t.owner \in Owners
    BY <1>0, <1>5, TokenFacts DEF requeue, Appends, Waiting
  <1>6. ASSUME NEW t \in takens, finish(t) \/ rearm(t) PROVE Rests
    BY <1>0, <1>6, TokenFacts DEF finish, rearm, Rests, Waiting
  <1>7. ASSUME NEW t \in takens \cup wakes, arm_wake(t) \/ cancel_wake(t) PROVE Rests
    BY <1>7 DEF arm_wake, cancel_wake, Rests, Waiting
  <1>8. ASSUME NEW t \in takens, park(t)
        PROVE  Rests \/ (Appends(t.slot, t.owner) /\ t.slot \in Slot /\ t.owner \in Owners)
    <2>1. t.slot \in Slot /\ t.owner \in Owners /\ phase[t.slot] = "Taken" /\ owner[t.slot] = t.owner
      BY TokenFacts
    <2>2. CASE t.slot \in woken
      BY <1>0, <1>8, <2>1, <2>2 DEF park, Appends, Waiting
    <2>3. CASE t.slot \notin woken
      <3>1. next[t.slot] = NoSlot
        BY <2>1 DEF IInv, LinksInv, NextInv
      <3>2. next' = next
        BY <1>0, <1>8, <2>1, <2>3, <3>1 DEF park, Unlinked
      <3> QED BY <1>0, <1>8, <2>1, <2>3, <3>2 DEF park, Rests, Waiting
    <2> QED BY <2>2, <2>3
  <1>9. ASSUME NEW w \in wakes, wake(w)
        PROVE  Rests \/ (Appends(w.slot, w.owner) /\ w.slot \in Slot /\ w.owner \in Owners)
    <2>1. w.slot \in Slot /\ w.owner \in Owners /\ owner[w.slot] = w.owner
      BY TokenFacts
    <2>2. CASE phase[w.slot] = "Taken"
      BY <1>9, <2>2 DEF wake, Rests, Waiting
    <2>3. CASE phase[w.slot] = "Parked"
      <3>1. next = Unlinked(w.slot)
        BY <1>0, <2>1, <2>3 DEF IInv, LinksInv, NextInv, Unlinked
      <3> QED BY <1>0, <1>9, <2>1, <2>3, <3>1 DEF wake, Appends, Waiting
    <2> QED BY <1>9, <2>2, <2>3 DEF wake, Wakeable
  <1> QED BY <1>1, <1>2, <1>3, <1>4, <1>5, <1>6, <1>7, <1>8, <1>9 DEF Next

\* A chain whose slots keep their links, and whose ends stay, is still a chain.
LEMMA OtherChain ==
  ASSUME NEW p \in Owners, HasChain(p), heads'[p] = heads[p], tails'[p] = tails[p],
         \A x \in Waiting(p) : next'[x] = next[x], Waiting(p)' = Waiting(p)
  PROVE  HasChain(p)'
  <1>1. PICK n \in Nat : \E q \in [1..n -> Slot] : IsChain(p, n, q) /\ Range(q) = Waiting(p)
    BY DEF HasChain
  <1>2. PICK q \in [1..n -> Slot] : IsChain(p, n, q) /\ Range(q) = Waiting(p)
    BY <1>1
  <1>3. \A i \in 1..n : q[i] \in Waiting(p)
    BY <1>2 DEF Range
  <1>4. IsChain(p, n, q)'
    BY <1>2, <1>3 DEF IsChain
  <1> QED BY <1>2, <1>4 DEF HasChain

LEMMA AppendChain ==
  ASSUME IInv, ChainInv, NEW s \in Slot, NEW o \in Owners, Appends(s, o)
  PROVE  ChainInv'
  <1>0. /\ next \in [Slot -> 0..SLOTS] /\ heads \in [Owners -> 0..SLOTS] /\ tails \in [Owners -> 0..SLOTS]
        /\ s \notin Waiting(o)
    BY DEF IInv, SlotType, Appends, Waiting
  <1>1. tails[o] # NoSlot => tails[o] \in Waiting(o) /\ tails[o] \in Slot
    BY DEF IInv, LinksInv, EndsInv, IsPending, Waiting
  <1>2. /\ next' = [x \in Slot |-> IF x = s THEN NoSlot ELSE IF x = tails[o] THEN s ELSE next[x]]
        /\ tails' = [tails EXCEPT ![o] = s]
        /\ heads' = IF tails[o] = NoSlot THEN [heads EXCEPT ![o] = s] ELSE heads
    BY <1>0, <1>1, SlotOrNone DEF Appends, append, Unlinked
  <1>3. ASSUME NEW p \in Owners, p # o PROVE HasChain(p)'
    <2>1. \A x \in Waiting(p) : x # s /\ x # tails[o] /\ x \in Slot
      BY <1>1, <1>3, SlotOrNone DEF Waiting, Appends
    <2> QED BY <1>0, <1>2, <1>3, <2>1, OtherChain DEF ChainInv, Appends
  <1>4. HasChain(o)'
    <2>1. PICK n \in Nat : \E q \in [1..n -> Slot] : IsChain(o, n, q) /\ Range(q) = Waiting(o)
      BY DEF HasChain, ChainInv
    <2>2. PICK q \in [1..n -> Slot] : IsChain(o, n, q) /\ Range(q) = Waiting(o)
      BY <2>1
    <2> DEFINE m == n + 1
               u == [i \in 1..m |-> IF i = m THEN s ELSE q[i]]
    <2>3. m \in Nat /\ m # 0 /\ \A i \in 1..m : i # m => i \in 1..n
      OBVIOUS
    <2>4. u \in [1..m -> Slot]
      BY <2>2, <2>3
    <2>5. \A i \in 1..n : q[i] \in Waiting(o) /\ q[i] \in Slot /\ q[i] # s
      BY <1>0, <2>2 DEF Range
    <2>6. IsChain(o, m, u)'
      <3>1. tails[o] = IF n = 0 THEN NoSlot ELSE q[n]
        BY <2>2 DEF IsChain
      <3>2. tails[o] = NoSlot <=> n = 0
        BY <2>5, <3>1, SlotOrNone
      <3>3. heads'[o] = u[1] /\ tails'[o] = u[m]
        BY <1>0, <1>2, <2>2, <3>2 DEF IsChain
      <3>4. \A i \in 1..m : next'[u[i]] = IF i = m THEN NoSlot ELSE u[i + 1]
        <4> SUFFICES ASSUME NEW i \in 1..m PROVE next'[u[i]] = IF i = m THEN NoSlot ELSE u[i + 1]
          OBVIOUS
        <4>1. CASE i = m BY <1>2, <4>1
        <4>2. CASE i = n
          <5>1. u[i] = q[n] /\ q[n] = tails[o] /\ u[i + 1] = s /\ q[n] # s /\ q[n] \in Slot /\ i # m
            BY <2>5, <3>1, <4>2
          <5> QED BY <1>2, <5>1
        <4>3. CASE i # n /\ i # m
          <5>1. i \in 1..n /\ i + 1 \in 1..n /\ i + 1 # m /\ n \in 1..n /\ n # 0
            BY <4>3
          <5>2. u[i] = q[i] /\ u[i + 1] = q[i + 1] /\ next[q[i]] = q[i + 1]
            BY <2>2, <4>3, <5>1 DEF IsChain
          <5>3. q[i] # tails[o] /\ q[i] # s /\ q[i] \in Slot
            BY <2>2, <2>5, <3>1, <4>3, <5>1 DEF IsChain
          <5> QED BY <1>2, <4>3, <5>2, <5>3
        <4> QED BY <4>1, <4>2, <4>3
      <3>5. \A i, j \in 1..m : u[i] = u[j] => i = j
        BY <2>2, <2>3, <2>5 DEF IsChain
      <3> QED BY <2>3, <3>3, <3>4, <3>5 DEF IsChain
    <2>7. Range(u) = Waiting(o)'
      <3>1. Range(u) = Range(q) \cup {s}
        BY <2>3 DEF Range
      <3> QED BY <2>2, <3>1 DEF Appends
    <2> QED BY <2>3, <2>4, <2>6, <2>7 DEF HasChain
  <1> QED BY <1>3, <1>4 DEF ChainInv

LEMMA TakeChain ==
  ASSUME IInv, ChainInv, NEW o \in Owners, Takes(o)
  PROVE  ChainInv'
  <1>0. /\ next \in [Slot -> 0..SLOTS] /\ heads \in [Owners -> 0..SLOTS] /\ tails \in [Owners -> 0..SLOTS]
    BY DEF IInv, SlotType
  <1>1. PICK s \in Slot : s = heads[o]
    BY <1>0, SlotOrNone DEF Takes
  <1>2. s \in Waiting(o)
    BY <1>1 DEF IInv, LinksInv, EndsInv, IsPending, Waiting, Takes
  <1>3. /\ next' = [x \in Slot |-> IF x = s THEN NoSlot ELSE next[x]]
        /\ heads' = [heads EXCEPT ![o] = next[s]]
        /\ tails' = [tails EXCEPT ![o] = IF next[s] = NoSlot THEN NoSlot ELSE tails[o]]
        /\ Waiting(o)' = Waiting(o) \ {s} /\ \A p \in Owners \ {o} : Waiting(p)' = Waiting(p)
    BY <1>0, <1>1 DEF Takes, Unlinked
  <1>4. ASSUME NEW p \in Owners, p # o PROVE HasChain(p)'
    <2>1. \A x \in Waiting(p) : x # s /\ x \in Slot
      BY <1>2, <1>4 DEF Waiting
    <2> QED BY <1>0, <1>3, <1>4, <2>1, OtherChain DEF ChainInv
  <1>5. HasChain(o)'
    <2>1. PICK n \in Nat : \E q \in [1..n -> Slot] : IsChain(o, n, q) /\ Range(q) = Waiting(o)
      BY DEF HasChain, ChainInv
    <2>2. PICK q \in [1..n -> Slot] : IsChain(o, n, q) /\ Range(q) = Waiting(o)
      BY <2>1
    <2>3. n # 0 /\ q[1] = s
      BY <1>1, <2>2, SlotOrNone DEF IsChain
    <2> DEFINE m == n - 1
               u == [i \in 1..m |-> q[i + 1]]
    <2>4. m \in Nat /\ 1 \in 1..n /\ \A i \in 1..m : i \in 1..n /\ i + 1 \in 1..n /\ i + 1 # 1
      BY <2>3
    <2>5. u \in [1..m -> Slot]
      BY <2>2, <2>4
    <2>6. \A i \in 1..m : q[i + 1] \in Slot /\ q[i + 1] # s
      BY <2>2, <2>3, <2>4 DEF IsChain
    <2>7. next[s] = IF m = 0 THEN NoSlot ELSE q[2]
      BY <2>2, <2>3, <2>4 DEF IsChain
    <2>8. IsChain(o, m, u)'
      <3>1. heads'[o] = IF m = 0 THEN NoSlot ELSE u[1]
        BY <1>0, <1>3, <2>4, <2>7
      <3>2. tails'[o] = IF m = 0 THEN NoSlot ELSE u[m]
        <4>1. CASE m = 0 BY <1>0, <1>3, <2>7, <4>1
        <4>2. CASE m # 0
          <5>1. next[s] # NoSlot /\ m \in 1..m /\ m + 1 = n
            BY <2>2, <2>4, <2>7, <4>2, SlotOrNone
          <5>2. tails[o] = q[n] BY <2>2, <2>3 DEF IsChain
          <5> QED BY <1>0, <1>3, <4>2, <5>1, <5>2
        <4> QED BY <4>1, <4>2
      <3>3. \A i \in 1..m : next'[u[i]] = IF i = m THEN NoSlot ELSE u[i + 1]
        <4> SUFFICES ASSUME NEW i \in 1..m PROVE next'[u[i]] = IF i = m THEN NoSlot ELSE u[i + 1]
          OBVIOUS
        <4>1. next'[u[i]] = next[q[i + 1]] BY <1>3, <2>6
        <4>2. next[q[i + 1]] = IF i + 1 = n THEN NoSlot ELSE q[i + 1 + 1] BY <2>2, <2>4 DEF IsChain
        <4>3. i # m => i + 1 \in 1..m BY <2>4
        <4> QED BY <4>1, <4>2, <4>3
      <3>4. \A i, j \in 1..m : u[i] = u[j] => i = j
        BY <2>2, <2>4 DEF IsChain
      <3> QED BY <3>1, <3>2, <3>3, <3>4 DEF IsChain
    <2>9. Range(u) = Waiting(o)'
      <3>1. Range(u) \subseteq Range(q) \ {s}
        BY <2>4, <2>6 DEF Range
      <3>2. ASSUME NEW x \in Range(q), x # s PROVE x \in Range(u)
        <4>1. PICK i \in 1..n : x = q[i] BY DEF Range
        <4>2. i # 1 /\ i - 1 \in 1..m /\ (i - 1) + 1 = i BY <2>3, <3>2, <4>1
        <4> QED BY <4>1, <4>2 DEF Range
      <3> QED BY <1>3, <2>2, <3>1, <3>2
    <2> QED BY <2>4, <2>5, <2>8, <2>9 DEF HasChain
  <1> QED BY <1>4, <1>5 DEF ChainInv

LEMMA ChainStep ==
  ASSUME IInv, ChainInv, [Next]_vars PROVE ChainInv'
  <1>1. CASE UNCHANGED vars
    BY <1>1, OtherChain DEF vars, ChainInv, Waiting
  <1>2. CASE Next
    <2>1. CASE Rests
      BY <2>1, OtherChain DEF Rests, ChainInv
    <2> QED BY <1>2, <2>1, ChainCalls, AppendChain, TakeChain
  <1> QED BY <1>1, <1>2

LEMMA EmptyChains == Init => ChainInv
  <1> SUFFICES ASSUME Init, NEW o \in Owners PROVE HasChain(o)
    BY DEF ChainInv
  <1>1. PICK q \in [1..0 -> Slot] : TRUE
    <2>1. [i \in 1..0 |-> 0] \in [1..0 -> Slot] BY DEF Slot
    <2> QED BY <2>1
  <1>2. IsChain(o, 0, q) /\ Range(q) = Waiting(o)
    BY DEF Init, IsChain, Waiting, Range
  <1> QED BY <1>2 DEF HasChain

\* No chain is longer than the table.
LEMMA ChainsFit == ChainInv => ChainsExact
  <1> SUFFICES ASSUME ChainInv, NEW o \in Owners
               PROVE  \E n \in 0..SLOTS : \E q \in [1..n -> Slot] : IsChain(o, n, q) /\ Range(q) = Waiting(o)
    BY DEF ChainsExact
  <1>1. PICK n \in Nat : \E q \in [1..n -> Slot] : IsChain(o, n, q) /\ Range(q) = Waiting(o)
    BY DEF HasChain, ChainInv
  <1>2. PICK q \in [1..n -> Slot] : IsChain(o, n, q) /\ Range(q) = Waiting(o)
    BY <1>1
  <1>3. q \in Injection(1..n, Slot)
    BY <1>2 DEF IsChain, Injection, IsInjective
  <1>4. IsFiniteSet(Slot) /\ Cardinality(Slot) = SLOTS /\ Cardinality(1..n) = n
    <2>1. IsFiniteSet(0..(SLOTS - 1)) /\ Cardinality(0..(SLOTS - 1)) = SLOTS
      <3>1. SLOTS - 1 \in Int /\ 0 \in Int /\ ~(0 > SLOTS - 1) OBVIOUS
      <3> QED BY <3>1, FS_Interval
    <2>2. Cardinality(1..n) = n
      <3>1. 1 \in Int /\ n \in Int OBVIOUS
      <3> QED BY <3>1, FS_Interval
    <2> QED BY <2>1, <2>2 DEF Slot
  <1>5. n <= SLOTS
    BY <1>3, <1>4, FS_Injection
  <1> QED BY <1>2, <1>5

\* The links of every owner are one acyclic chain of exactly its pending slots, whatever the size of the
\* table and in every order of publishing, taking, parking and waking: no debt is ever dropped from its
\* queue or queued twice; and the counter the idle loop reads counts them together with the running ones.
THEOREM QueuesAlwaysExact == Spec => []QueuesExact
  <1>1. Init => ChainInv
    BY EmptyChains
  <1>2. IInv /\ ChainInv /\ [Next]_vars => ChainInv'
    BY ChainStep
  <1>3. ChainInv /\ PendingExact => QueuesExact
    BY ChainsFit DEF QueuesExact
  <1> QED BY <1>1, <1>2, <1>3, InductiveInvariant, PendingCounterExact, PTL DEF Spec

=============================================================================
