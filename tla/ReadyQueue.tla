----------------------------- MODULE ReadyQueue -----------------------------
(***************************************************************************)
(* Storage admission of the ready queues (src/os/ready_queue): a birth     *)
(* batch pays for its slots before any thread is published, every owner    *)
(* keeps its credit through Ready, Running and Waiting, and a refund only  *)
(* touches the atomic counter, so it can fall between the two accesses of  *)
(* a reservation made under the queue lock.                                *)
(***************************************************************************)
EXTENDS Integers, FiniteSets

CONSTANTS Batch,       \* identities of birth batches
          MaxBatch,    \* the largest batch
          Limit        \* bound: the counter's maximum

VARIABLES outstanding,  \* Capacity.outstanding
          cap, len,     \* the storage's capacity and length
          open,         \* Batch -> credits not yet admitted, 0 when gone
          away,         \* owners outside the queue: running, waiting or newborn
          lock          \* the reservation under way: its batch, count and snapshot
vars == <<outstanding, cap, len, open, away, lock>>

Free == [batch |-> 0, count |-> 0, seen |-> 0]
RECURSIVE Total(_)
Total(S) == IF S = {} THEN 0 ELSE LET b == CHOOSE b \in S : TRUE IN open[b] + Total(S \ {b})

Init == /\ outstanding = 0 /\ cap = 0 /\ len = 0 /\ away = 0
        /\ open = [b \in Batch |-> 0] /\ lock = Free

\* reserve: the snapshot, and the storage bought from it; failing changes nothing.
reserve_load(b, n) ==
  /\ lock = Free /\ open[b] = 0 /\ outstanding + n <= Limit
  /\ lock' = [batch |-> b, count |-> n, seen |-> outstanding]
  /\ cap' = IF cap < outstanding + n THEN outstanding + n ELSE cap
  /\ UNCHANGED <<outstanding, len, open, away>>

reserve_add ==
  /\ lock # Free
  /\ outstanding' = outstanding + lock.count
  /\ open' = [open EXCEPT ![lock.batch] = lock.count]
  /\ lock' = Free
  /\ UNCHANGED <<cap, len, away>>

\* admit: one credit leaves its batch with an owner.
admit(b) ==
  /\ open[b] > 0
  /\ open' = [open EXCEPT ![b] = @ - 1]
  /\ away' = away + 1
  /\ UNCHANGED <<outstanding, cap, len, lock>>

\* Dropping a batch, or an owner that leaves for good, refunds the counter.
cancel(b) ==
  /\ open[b] > 0
  /\ outstanding' = outstanding - open[b]
  /\ open' = [open EXCEPT ![b] = 0]
  /\ UNCHANGED <<cap, len, away, lock>>

retire ==
  /\ away > 0
  /\ away' = away - 1
  /\ outstanding' = outstanding - 1
  /\ UNCHANGED <<cap, len, open, lock>>

enqueue ==
  /\ lock = Free /\ away > 0
  /\ away' = away - 1
  /\ len' = len + 1
  /\ UNCHANGED <<outstanding, cap, open, lock>>

pick ==
  /\ lock = Free /\ len > 0
  /\ len' = len - 1
  /\ away' = away + 1
  /\ UNCHANGED <<outstanding, cap, open, lock>>

Next ==
  \/ \E b \in Batch : admit(b) \/ cancel(b) \/ \E n \in 1 .. MaxBatch : reserve_load(b, n)
  \/ reserve_add \/ retire \/ enqueue \/ pick

Spec == Init /\ [][Next]_vars

-----------------------------------------------------------------------------
\* enqueue never allocates: the storage is large enough for every owner and
\* every unspent credit at once, the counter is exactly those, and the
\* reservation's snapshot is never overtaken by another reservation.
CreditsCovered ==
  /\ outstanding = len + away + Total(Batch)
  /\ cap >= outstanding
  /\ lock # Free => outstanding <= lock.seen /\ cap >= lock.seen + lock.count
=============================================================================
