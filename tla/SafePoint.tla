----------------------------- MODULE SafePoint -----------------------------
(***************************************************************************)
(* A hart's safe point.  deferred_work::drain_current and                  *)
(* notify_work::drain_current each serve four classes of debts in a fixed  *)
(* order under one FairBudget: a class may use what is left after one unit *)
(* is kept for every later class that was pending on entry, and one debt   *)
(* never more than TURN units at a time.  `drain' is which of the two runs. *)
(*                                                                         *)
(* A debt is the number of units it still needs.  The chains, tokens and   *)
(* counters behind the queues are the subject of WorkDebts.                *)
(***************************************************************************)
EXTENDS Naturals, Sequences, FiniteSets, FiniteSetsExt

CONSTANTS
    TOTAL,      \* units per drain (MAX_STEPS_PER_SAFE_POINT)
    TURN,       \* units per debt and turn (MAX_STEPS_PER_DEBT_TURN)
    MaxUnits,   \* bound: units a debt may need
    MaxDebts    \* bound: debts in all ledgers of the drain together

Deferred == <<"memory", "unpublished", "termination", "finalization">>
Notify == <<"notification", "finish", "request", "retirement">>
Class == 1..4

VARIABLES
    drain,   \* the ledgers of the drain, in its order
    queue,   \* the runnable debts of every class, oldest first
    parked,  \* how many debts of a class wait for a source
    at,      \* "out", "in" the drain, or "exit" right behind it
    class,   \* the class under execution
    entry,   \* the classes that were pending when the drain began
    used,    \* units charged so far
    served,  \* classes that had a turn in this drain
    turns,   \* how many turns it has given
    ssip     \* the hart's own doorbell is pending

vars == <<drain, queue, parked, at, class, entry, used, served, turns, ssip>>

Init ==
    /\ drain \in {Deferred, Notify}
    /\ queue = [c \in Class |-> <<>>]
    /\ parked = [c \in Class |-> 0]
    /\ at = "out" /\ class = 1 /\ entry = {} /\ used = 0 /\ served = {} /\ turns = 0
    /\ ssip = FALSE

-----------------------------------------------------------------------------
(* The budget.                                                             *)

\* Mutant: nothing is kept for the later classes.
remaining_Greedy(c) == IF used >= TOTAL THEN 0 ELSE TOTAL - used

\* What class c may still use: one unit stays with every later class that was pending.
remaining(c) ==
    LET reserved == Cardinality({x \in entry : x > c})
    IN  IF TOTAL < reserved + used THEN 0 ELSE TOTAL - reserved - used

turn(c) == Min({remaining(c), TURN})

\* A turn costs what was done, and never nothing.
charge(work) == used' = used + Max({work, 1})

-----------------------------------------------------------------------------
(* Turns.                                                                  *)

HasTurn == at = "in" /\ turn(class) # 0 /\ queue[class] # <<>>

\* Ledgers whose debts may wait for something, those whose publications do not
\* ring (an object's notification only when its own drain reschedules it), and
\* those whose debts may have nothing left to do.
Blocking == {"unpublished", "finalization", "request", "retirement"}
Quiet ==
    {"memory", "finish"} \cup
    (IF at = "in" /\ drain[class] = "notification" THEN {"notification"} ELSE {})
MaybeEmpty == {"notification", "finish", "request"}
Units(c) == IF drain[c] \in MaybeEmpty THEN 0..MaxUnits ELSE 1..MaxUnits

Debts(q) == MapThenSumSet(LAMBDA c : Len(q[c]) + parked[c], Class)

\* What may be published along with a step: nothing, or one debt of this hart.
Publishes(q) ==
    \/ queue' = q /\ UNCHANGED ssip
    \/ \E c \in Class : \E u \in Units(c) :
          /\ Debts(q) < MaxDebts
          /\ queue' = [q EXCEPT ![c] = Append(@, u)]
          /\ ssip' = (ssip \/ drain[c] \notin Quiet)

Complete ==
    LET units == Head(queue[class]) IN
    /\ HasTurn /\ units <= turn(class)
    /\ charge(units)
    /\ Publishes([queue EXCEPT ![class] = Tail(@)])
    /\ UNCHANGED parked

More ==
    LET units == Head(queue[class]) IN
    /\ HasTurn /\ units > turn(class)
    /\ charge(turn(class))
    /\ Publishes([queue EXCEPT ![class] = Append(Tail(@), units - turn(class))])
    /\ UNCHANGED parked

\* Registering with the source is the one unit of work of a blocked debt.
Blocked ==
    /\ HasTurn /\ drain[class] \in Blocking
    /\ charge(1)
    /\ queue' = [queue EXCEPT ![class] = Tail(@)]
    /\ parked' = [parked EXCEPT ![class] = @ + 1]
    /\ UNCHANGED ssip

Turn ==
    /\ Complete \/ More \/ Blocked
    /\ served' = served \cup {class} /\ turns' = turns + 1
    /\ UNCHANGED <<drain, at, class, entry>>

\* Where the code rings its own doorbell for what is left: deferred_work at its
\* end for all its classes; notify_work after its second class for the first
\* two, and after the third and the fourth for each of those alone.
RingsFor ==
    \/ drain = Deferred /\ class = 4 /\ \E c \in Class : queue[c] # <<>>
    \/ drain = Notify /\ class = 2 /\ (queue[1] # <<>> \/ queue[2] # <<>>)
    \/ drain = Notify /\ class > 2 /\ queue[class] # <<>>

\* The loop of a class ends without budget or without work.
NextClass ==
    /\ at = "in" /\ ~HasTurn
    /\ ssip' = (ssip \/ RingsFor)
    /\ IF class < 4
       THEN class' = class + 1 /\ UNCHANGED at
       ELSE class' = 1 /\ at' = "exit"
    /\ UNCHANGED <<drain, queue, parked, entry, used, served, turns>>

Enter ==
    /\ at = "out"
    /\ at' = "in"
    /\ entry' = {c \in Class : queue[c] # <<>>}
    /\ UNCHANGED <<drain, queue, parked, class, used, served, turns, ssip>>

-----------------------------------------------------------------------------
(* Around the safe point.                                                  *)

\* The trap ends and its budget with it; the next one clears the doorbell before it drains.
Leave ==
    /\ at = "exit"
    /\ at' = "out"
    /\ ssip' \in {ssip, FALSE}
    /\ entry' = {} /\ used' = 0 /\ served' = {} /\ turns' = 0
    /\ UNCHANGED <<drain, queue, parked, class>>

\* A handler publishes work between two drains.
Publish ==
    /\ at = "out"
    /\ Publishes(queue) /\ queue' # queue
    /\ UNCHANGED <<drain, parked, at, class, entry, used, served, turns>>

\* A source on any hart wakes a parked debt and rings its owner.
WakeRaw(c) ==
    /\ parked[c] > 0
    /\ parked' = [parked EXCEPT ![c] = @ - 1]
    /\ queue' = [queue EXCEPT ![c] = Append(@, 1)]
    /\ ssip' = TRUE
    /\ UNCHANGED <<drain, at, class, entry, used, served, turns>>

Next ==
    \/ Turn
    \/ NextClass
    \/ Enter
    \/ Leave
    \/ Publish
    \/ \E c \in Class : WakeRaw(c)

Spec == Init /\ [][Next]_vars

-----------------------------------------------------------------------------
(* Properties.                                                             *)

\* The variables have their types.
TypeOK ==
    /\ drain \in {Deferred, Notify}
    /\ \A c \in Class : queue[c] \in Seq(0..MaxUnits) /\ parked[c] \in Nat
    /\ at \in {"out", "in", "exit"} /\ class \in Class /\ entry \subseteq Class
    /\ used \in Nat /\ served \subseteq Class /\ turns \in Nat /\ ssip \in BOOLEAN

\* No charge exceeds the allowance of its class (charge would panic): whatever
\* the debts do, the units kept for the later classes are still there.
ChargeFits ==
    at = "in" => used + Cardinality({c \in entry : c > class}) <= TOTAL

\* A safe point takes at most TOTAL debts, even when all of them turn out to have
\* nothing left to do: cancelled notifications cannot hold the hart.
TurnsBounded == turns <= TOTAL

\* Every class that was pending when the drain began has had a turn when the
\* drain has passed it, however much work the classes before it had.
EntryClassServed ==
    /\ at = "in" => \A c \in entry : c < class => c \in served
    /\ at = "exit" => entry \subseteq served

\* What deferred_work leaves behind is announced by a doorbell, whatever its turns
\* published in classes it had already passed.  (notify_work does not promise this:
\* its first two classes ring before the other two have run.)
LeftoverRung ==
    drain = Deferred /\ at = "exit" /\ (\E c \in Class : queue[c] # <<>>) => ssip

\* The budget of a safe point is shared: no class spends what is kept for a later one, and
\* every class that was pending at the start has its turn in it.
BudgetShared == ChargeFits /\ TurnsBounded /\ EntryClassServed

=============================================================================
