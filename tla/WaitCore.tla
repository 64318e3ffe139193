------------------------------ MODULE WaitCore ------------------------------
(***************************************************************************)
(* The lock-free core of one wait (os/wait_context): the phase word, the   *)
(* outcome word and the outcome cell, driven by one installer and by any   *)
(* number of threads that offer an outcome.                                *)
(*                                                                         *)
(* One action is one atomic access of the code.  A load followed by a      *)
(* compare-exchange loop that retries with the value it lost to is one     *)
(* action: it takes effect at its last access, on the value it sees there. *)
(*                                                                         *)
(* Both words carry the epoch (the round of a reusable wait), so they are  *)
(* modelled as records: `phase' is [epoch, stage, abandoned] and           *)
(* `outcome_state' is [epoch, st].                                         *)
(*                                                                         *)
(* `weak' is the memory the code runs on, fixed at the start.  0: every    *)
(* store is visible at once.  1: the Release store of READY may wait in    *)
(* the store buffer of its hart while the same hart goes on to load the    *)
(* phase word, which Release/Acquire permits (a store and a later load of  *)
(* another address are not ordered) and the RISC-V memory model performs.  *)
(***************************************************************************)
EXTENDS Naturals, FiniteSets

CONSTANTS
    Offerers,        \* the threads that may offer an outcome or abandon the wait
    Installer,       \* the thread that installs, arms and restarts the wait
    MaxEpoch         \* the last epoch the phase word can hold

NoOne == "none"

ASSUME InstallerAssumption == Installer \notin Offerers
ASSUME NoOneAssumption == NoOne \notin Offerers \cup {Installer}
ASSUME MaxEpochAssumption == MaxEpoch \in Nat \ {0}

VARIABLES
    phase,           \* the phase word
    outcome_state,   \* the outcome word
    cell,            \* who wrote the outcome cell, and for which epoch
    buffer,          \* the epoch of a READY store still in a hart's store buffer
    pc,              \* the next access of every thread
    ident,           \* the WaitIdentity (an epoch) each thread works for
    weak             \* 1 if a READY store may be delayed past the next load

vars == <<phase, outcome_state, cell, buffer, pc, ident, weak>>

Actors == Offerers \cup {Installer}
Epochs == 1..MaxEpoch
NoEpoch == 0
Stages == {"INSTALLING", "ARMED", "FINISHING", "DONE"}
OutcomeStates == {"EMPTY", "WRITING", "READY"}
Unwritten == [by |-> Installer, epoch |-> NoEpoch]

OffererSteps == {"idle", "abandon", "offer", "write_cas", "write", "store",
                 "recheck", "claim", "finishing", "mark_done"}
InstallerSteps == {"installing", "finish_installing", "has_outcome", "arm_claim",
                   "parked", "finishing", "mark_done", "restart"}

Init ==
    /\ phase = [epoch |-> 1, stage |-> "INSTALLING", abandoned |-> 0]
    /\ outcome_state = [epoch |-> 1, st |-> "EMPTY"]
    /\ cell = Unwritten
    /\ buffer = [t \in Offerers |-> NoEpoch]
    /\ pc = [a \in Actors |-> IF a = Installer THEN "installing" ELSE "idle"]
    /\ ident = [a \in Actors |-> 1]
    /\ weak \in {0, 1}

Goto(a, step) == pc' = [pc EXCEPT ![a] = step]

\* has_outcome_in: the outcome word is READY for this very epoch.
HasOutcome(e) == outcome_state = [epoch |-> e, st |-> "READY"]

\* Mutant: the claim does not look at the stage it replaces.
Claimable_AnyStage(e) == phase.epoch = e /\ phase.stage \in {"ARMED", "FINISHING"}

\* claim_armed succeeds only on ARMED of this epoch.
Claimable(e) == phase.epoch = e /\ phase.stage = "ARMED"

-----------------------------------------------------------------------------
(* offer_in and abandon: the threads that bring an outcome.                *)

\* A thread takes up the identity of some round handed out so far, to offer
\* an outcome for it or to abandon it.  The round may long be over.
Begin(t) ==
    /\ pc[t] = "idle"
    /\ \E e \in 1..phase.epoch : ident' = [ident EXCEPT ![t] = e]
    /\ \E step \in {"offer", "abandon"} : Goto(t, step)
    /\ UNCHANGED <<phase, outcome_state, cell, buffer>>

\* abandon: set the flag of a round that is not DONE; whoever set it then
\* offers the Abandoned outcome, anyone else is Lost.
Abandon(t) ==
    /\ pc[t] = "abandon"
    /\ IF phase.epoch # ident[t] \/ phase.stage = "DONE" \/ phase.abandoned = 1
       THEN Goto(t, "idle") /\ UNCHANGED phase
       ELSE Goto(t, "offer") /\ phase' = [phase EXCEPT !.abandoned = 1]
    /\ UNCHANGED <<outcome_state, cell, buffer, ident>>

\* offer_in, first load of the phase word.
OfferLoad(t) ==
    /\ pc[t] = "offer"
    /\ IF phase.epoch # ident[t] \/ phase.stage = "DONE"
       THEN Goto(t, "idle")
       ELSE Goto(t, "write_cas")
    /\ UNCHANGED <<phase, outcome_state, cell, buffer, ident>>

\* offer_in, EMPTY -> WRITING of the outcome word of the thread's own epoch.
OfferCas(t) ==
    /\ pc[t] = "write_cas"
    /\ buffer[t] = NoEpoch
    /\ IF outcome_state = [epoch |-> ident[t], st |-> "EMPTY"]
       THEN Goto(t, "write") /\ outcome_state' = [outcome_state EXCEPT !.st = "WRITING"]
       ELSE Goto(t, "idle") /\ UNCHANGED outcome_state
    /\ UNCHANGED <<phase, cell, buffer, ident>>

\* offer_in, the plain write of the outcome cell.
OfferWrite(t) ==
    /\ pc[t] = "write"
    /\ cell' = [by |-> t, epoch |-> ident[t]]
    /\ Goto(t, "store")
    /\ UNCHANGED <<phase, outcome_state, buffer, ident>>

\* offer_in, the Release store of READY: visible at once, or buffered.
OfferStore(t) ==
    /\ pc[t] = "store"
    /\ \/ /\ outcome_state' = [epoch |-> ident[t], st |-> "READY"]
          /\ UNCHANGED buffer
       \/ /\ weak = 1
          /\ buffer' = [buffer EXCEPT ![t] = ident[t]]
          /\ UNCHANGED outcome_state
    /\ Goto(t, "recheck")
    /\ UNCHANGED <<phase, cell, ident>>

\* The memory system: a buffered store becomes visible.
Drain(t) ==
    /\ buffer[t] # NoEpoch
    /\ outcome_state' = [epoch |-> buffer[t], st |-> "READY"]
    /\ buffer' = [buffer EXCEPT ![t] = NoEpoch]
    /\ UNCHANGED <<phase, cell, pc, ident>>

\* offer_in, second load of the phase word: Deferred to the installer while
\* INSTALLING, a race for the claim when ARMED, Lost otherwise.
OfferRecheck(t) ==
    /\ pc[t] = "recheck"
    /\ IF Claimable(ident[t]) THEN Goto(t, "claim") ELSE Goto(t, "idle")
    /\ UNCHANGED <<phase, outcome_state, cell, buffer, ident>>

\* offer_in, claim_armed: Complete or Lost.  The exchange has release order,
\* so the thread's own stores are visible before it.
OfferClaim(t) ==
    /\ pc[t] = "claim"
    /\ buffer[t] = NoEpoch
    /\ IF Claimable(ident[t])
       THEN Goto(t, "finishing") /\ phase' = [phase EXCEPT !.stage = "FINISHING"]
       ELSE Goto(t, "idle") /\ UNCHANGED phase
    /\ UNCHANGED <<outcome_state, cell, buffer, ident>>

-----------------------------------------------------------------------------
(* The installer.                                                          *)

\* Mutant: the installer finishes without looking for an outcome.
FinishInstallingLoad_NoCheck ==
    /\ pc[Installer] = "installing"
    /\ Goto(Installer, "finish_installing")
    /\ UNCHANGED <<phase, outcome_state, cell, buffer, ident>>

\* finish_installing_in, the load of the outcome word; None when not READY.
FinishInstallingLoad ==
    /\ pc[Installer] = "installing"
    /\ HasOutcome(ident[Installer])
    /\ Goto(Installer, "finish_installing")
    /\ UNCHANGED <<phase, outcome_state, cell, buffer, ident>>

\* finish_installing_in, INSTALLING -> FINISHING.
FinishInstalling ==
    /\ pc[Installer] = "finish_installing"
    /\ phase.epoch = ident[Installer] /\ phase.stage = "INSTALLING"
    /\ phase' = [phase EXCEPT !.stage = "FINISHING"]
    /\ Goto(Installer, "finishing")
    /\ UNCHANGED <<outcome_state, cell, buffer, ident>>

\* arm_in, INSTALLING -> ARMED.
Arm ==
    /\ pc[Installer] = "installing"
    /\ phase.epoch = ident[Installer] /\ phase.stage = "INSTALLING"
    /\ phase' = [phase EXCEPT !.stage = "ARMED"]
    /\ Goto(Installer, "has_outcome")
    /\ UNCHANGED <<outcome_state, cell, buffer, ident>>

\* Mutant: arm does not look for an outcome that came during the installation.
ArmCheck_NoRecheck ==
    /\ pc[Installer] = "has_outcome"
    /\ Goto(Installer, "parked")
    /\ UNCHANGED <<phase, outcome_state, cell, buffer, ident>>

\* arm_in, the load of the outcome word after ARMED: without an outcome the
\* wait is Armed and the installer lets go.
ArmCheck ==
    /\ pc[Installer] = "has_outcome"
    /\ Goto(Installer, IF HasOutcome(ident[Installer]) THEN "arm_claim" ELSE "parked")
    /\ UNCHANGED <<phase, outcome_state, cell, buffer, ident>>

\* arm_in, claim_armed: Complete, or an ExternalCompleter was faster.
ArmClaim ==
    /\ pc[Installer] = "arm_claim"
    /\ IF Claimable(ident[Installer])
       THEN Goto(Installer, "finishing") /\ phase' = [phase EXCEPT !.stage = "FINISHING"]
       ELSE Goto(Installer, "parked") /\ UNCHANGED phase
    /\ UNCHANGED <<outcome_state, cell, buffer, ident>>

-----------------------------------------------------------------------------
(* The completion owner, whoever it is, and the next round.                *)

\* outcome_in: the owner reads the outcome (the code asserts it is READY).
ReadOutcome(a) ==
    /\ pc[a] = "finishing"
    /\ HasOutcome(ident[a])
    /\ Goto(a, "mark_done")
    /\ UNCHANGED <<phase, outcome_state, cell, buffer, ident>>

\* mark_done_in: FINISHING -> DONE.
MarkDone(a) ==
    /\ pc[a] = "mark_done"
    /\ phase.epoch = ident[a] /\ phase.stage = "FINISHING"
    /\ phase' = [phase EXCEPT !.stage = "DONE"]
    /\ Goto(a, IF a = Installer THEN "parked" ELSE "idle")
    /\ UNCHANGED <<outcome_state, cell, buffer, ident>>

\* restart_done, up to the store of the fresh outcome word.
RestartOutcome ==
    /\ pc[Installer] = "parked"
    /\ phase.stage = "DONE"
    /\ phase.epoch < MaxEpoch
    /\ outcome_state' = [epoch |-> phase.epoch + 1, st |-> "EMPTY"]
    /\ Goto(Installer, "restart")
    /\ UNCHANGED <<phase, cell, buffer, ident>>

\* restart_done, the store of the fresh phase word.
RestartPhase ==
    /\ pc[Installer] = "restart"
    /\ phase' = [epoch |-> phase.epoch + 1, stage |-> "INSTALLING", abandoned |-> 0]
    /\ ident' = [ident EXCEPT ![Installer] = phase.epoch + 1]
    /\ Goto(Installer, "installing")
    /\ UNCHANGED <<outcome_state, cell, buffer>>

-----------------------------------------------------------------------------
OffererStep(t) ==
    \/ Abandon(t)
    \/ OfferLoad(t)
    \/ OfferCas(t)
    \/ OfferWrite(t)
    \/ OfferStore(t)
    \/ OfferRecheck(t)
    \/ OfferClaim(t)
    \/ ReadOutcome(t)
    \/ MarkDone(t)

InstallerStep ==
    \/ FinishInstallingLoad
    \/ FinishInstalling
    \/ Arm
    \/ ArmCheck
    \/ ArmClaim
    \/ ReadOutcome(Installer)
    \/ MarkDone(Installer)

Restart == RestartOutcome \/ RestartPhase

Access ==
    \/ \E t \in Offerers : Begin(t) \/ OffererStep(t) \/ Drain(t)
    \/ InstallerStep
    \/ Restart

Next == Access /\ UNCHANGED weak

\* No hart stops in the middle of kernel code, and a buffered store drains.
\* Nobody has to offer an outcome, and nobody has to start another round.
Fairness ==
    /\ \A t \in Offerers : /\ WF_vars(OffererStep(t) /\ UNCHANGED weak)
                           /\ WF_vars(Drain(t) /\ UNCHANGED weak)
    /\ WF_vars(InstallerStep /\ UNCHANGED weak)
    /\ WF_vars(RestartPhase /\ UNCHANGED weak)

Spec == Init /\ [][Next]_vars
FairSpec == Spec /\ Fairness

-----------------------------------------------------------------------------
(* Properties.                                                             *)

\* Every word, cell and program counter has its type.
TypeOK ==
    /\ phase \in [epoch : Epochs, stage : Stages, abandoned : {0, 1}]
    /\ outcome_state \in [epoch : Epochs, st : OutcomeStates]
    /\ cell \in [by : Actors, epoch : {NoEpoch} \cup Epochs]
    /\ buffer \in [Offerers -> {NoEpoch} \cup Epochs]
    /\ pc \in [Actors -> OffererSteps \cup InstallerSteps]
    /\ \A t \in Offerers : pc[t] \in OffererSteps
    /\ pc[Installer] \in InstallerSteps
    /\ ident \in [Actors -> Epochs]
    /\ weak \in {0, 1}

Owner(a) == pc[a] \in {"finishing", "mark_done"}

\* Exactly one thread owns a FINISHING round, it works for that very round,
\* and no thread believes to own a round that is in any other stage: the
\* claim of offer_in, of arm_in and of finish_installing_in never succeeds twice.
OneCompletionOwner ==
    /\ \A a, b \in Actors : Owner(a) /\ Owner(b) => a = b
    /\ \A a \in Actors : Owner(a) => phase.stage = "FINISHING" /\ ident[a] = phase.epoch
    /\ phase.stage = "FINISHING" => \E a \in Actors : Owner(a)

\* The owner reads an outcome that is READY and was written for its own round,
\* so outcome_in never fails its assertion and never reads the cell of an older
\* round, whatever stale offers of restarted rounds are still running.
OutcomeIntact ==
    \A a \in Actors : Owner(a) => HasOutcome(ident[a]) /\ cell.epoch = ident[a]

\* The cell is only ever written in a round that has no owner yet and whose
\* outcome word is WRITING: it is written once, and never under a reader.
WrittenOnce ==
    [][cell' # cell => /\ outcome_state = [epoch |-> phase.epoch, st |-> "WRITING"]
                       /\ phase.stage \in {"INSTALLING", "ARMED"}
                       /\ cell'.epoch = phase.epoch
                       /\ cell.epoch < phase.epoch]_vars

\* An ARMED wait with a READY outcome has somebody who is about to claim it:
\* the offer that published READY and has not rechecked the phase, or the
\* installer that has not rechecked the outcome.  The comment in arm_in says
\* that returning Armed loses no completion.
NoLostCompletion ==
    phase.stage = "ARMED" /\ HasOutcome(phase.epoch) =>
        \/ pc[Installer] \in {"has_outcome", "arm_claim"}
        \/ \E t \in Offerers : pc[t] \in {"recheck", "claim"} /\ ident[t] = phase.epoch

\* The same, where every store is visible at once: arm_in and offer_in close
\* their race by each rechecking the word the other one wrote.
NoneLostWhenVisible == weak = 0 => NoLostCompletion

StageRank == [INSTALLING |-> 0, ARMED |-> 1, FINISHING |-> 2, DONE |-> 3]

\* Within a round the stage only moves forward and the abandoned flag is never
\* lost, although claims, arms and completions race with abandon on one word;
\* a round changes only from DONE.
PhaseMonotone ==
    [][IF phase'.epoch = phase.epoch
       THEN /\ StageRank[phase.stage] <= StageRank[phase'.stage]
            /\ phase.abandoned <= phase'.abandoned
       ELSE phase'.epoch = phase.epoch + 1 /\ phase.stage = "DONE"]_vars

RoundOver(e) == phase.epoch > e \/ (phase.epoch = e /\ phase.stage = "DONE")

\* Where stores are visible at once, an outcome that was published for a round
\* ends that round: no thread stays parked after its event has been recorded.
OutcomeCompletes ==
    \A e \in Epochs : (weak = 0 /\ HasOutcome(e)) ~> RoundOver(e)

\* Where stores are visible at once, a round that was abandoned ends, also when
\* abandon came before the arm.
AbandonCompletes ==
    \A e \in Epochs : (weak = 0 /\ phase.epoch = e /\ phase.abandoned = 1) ~> RoundOver(e)

\* Where stores are visible at once, a round ends once its outcome is published or it is
\* abandoned, in whatever order install, offers and abandon met.
RoundsEnd == OutcomeCompletes /\ AbandonCompletes

\* The lock-free words implement the abstract wait: the outcome is chosen when
\* READY becomes visible, the owner is whoever moved the phase to FINISHING.
ChosenOutcome == IF HasOutcome(phase.epoch) /\ phase.stage # "DONE" THEN cell.by ELSE NoOne
CurrentOwner == IF phase.stage = "FINISHING" THEN CHOOSE a \in Actors : Owner(a) ELSE NoOne

Abstract == INSTANCE WaitOnce WITH
    Sources <- Offerers,
    Owners <- Actors,
    None <- NoOne,
    round <- phase.epoch,
    outcome <- ChosenOutcome,
    owner <- CurrentOwner,
    done <- phase.stage = "DONE"

\* Every step of the words is a step of the abstract wait or none.
ImplementsWaitOnce == Abstract!Spec

=============================================================================
