------------------------------ MODULE WaitOnce ------------------------------
(***************************************************************************)
(* What a wait promises, whatever the number of threads that bring it an   *)
(* outcome: in every round one outcome is chosen, then one thread becomes  *)
(* the owner of the completion, then that owner, and nobody else, ends the *)
(* round.  A reusable wait starts its next round only after that.          *)
(***************************************************************************)
EXTENDS Naturals

CONSTANTS
    Sources,   \* who may bring an outcome
    Owners,    \* who may own the completion
    None       \* no outcome, no owner

VARIABLES round, outcome, owner, done

vars == <<round, outcome, owner, done>>

Init ==
    /\ round = 1
    /\ outcome = None
    /\ owner = None
    /\ done = FALSE

Choose(s) ==
    /\ ~done
    /\ outcome = None
    /\ outcome' = s
    /\ UNCHANGED <<round, owner, done>>

Own(a) ==
    /\ outcome # None
    /\ owner = None
    /\ owner' = a
    /\ UNCHANGED <<round, outcome, done>>

\* The owner has handed the outcome over: both are spent.
Complete ==
    /\ owner # None
    /\ done' = TRUE
    /\ outcome' = None
    /\ owner' = None
    /\ UNCHANGED round

NewRound ==
    /\ done
    /\ done' = FALSE
    /\ round' = round + 1
    /\ UNCHANGED <<outcome, owner>>

Next ==
    \/ \E s \in Sources : Choose(s)
    \/ \E a \in Owners : Own(a)
    \/ Complete
    \/ NewRound

Spec == Init /\ [][Next]_vars

=============================================================================
