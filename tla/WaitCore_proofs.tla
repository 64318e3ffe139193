--------------------------- MODULE WaitCore_proofs ---------------------------
(***************************************************************************)
(* Proofs about the lock-free wait core, for any number of offerers and    *)
(* rounds, with and without delayed READY stores.                          *)
(***************************************************************************)
EXTENDS WaitCore, TLAPS

\* The installer is where the phase word says it is, and works for its round.
InstallerInv ==
    /\ ident[Installer] = phase.epoch
    /\ phase.stage = "INSTALLING" <=> pc[Installer] \in {"installing", "finish_installing"}
    /\ pc[Installer] = "restart" => phase.stage = "DONE" /\ phase.epoch < MaxEpoch

\* The two words belong to one round, except between the stores of a restart.
EpochInv ==
    /\ pc[Installer] = "restart" =>
           outcome_state = [epoch |-> phase.epoch + 1, st |-> "EMPTY"]
    /\ pc[Installer] # "restart" => outcome_state.epoch = phase.epoch
    /\ \A t \in Offerers : ident[t] <= phase.epoch

Writing(t) == pc[t] \in {"write", "store"} \/ buffer[t] # NoEpoch

\* One thread at a time is between WRITING and a visible READY, for the round
\* of the outcome word.
WriterInv ==
    /\ \A t \in Offerers : Writing(t) => outcome_state = [epoch |-> phase.epoch, st |-> "WRITING"]
    /\ \A t, u \in Offerers : Writing(t) /\ Writing(u) => t = u
    /\ \A t \in Offerers : pc[t] \in {"write", "store"} =>
           ident[t] = phase.epoch /\ buffer[t] = NoEpoch
    /\ \A t \in Offerers : buffer[t] # NoEpoch => buffer[t] = phase.epoch
    /\ weak = 0 => \A t \in Offerers : buffer[t] = NoEpoch

\* The cell belongs to the round of the outcome word once it is READY, or on
\* its way there, and to an older round before the write.
CellInv ==
    /\ \A t \in Offerers : pc[t] = "store" \/ buffer[t] # NoEpoch =>
           cell = [by |-> t, epoch |-> phase.epoch]
    /\ \A t \in Offerers : pc[t] = "write" => cell.epoch < phase.epoch
    /\ outcome_state.st = "EMPTY" => cell.epoch < outcome_state.epoch
    /\ outcome_state.st = "READY" => cell.epoch = outcome_state.epoch /\ cell.by \in Offerers

\* A round with an owner has its outcome, and so has whoever is about to claim.
ReadyInv ==
    /\ phase.stage \in {"FINISHING", "DONE"} /\ pc[Installer] # "restart" =>
           outcome_state.st = "READY"
    /\ pc[Installer] \in {"finish_installing", "arm_claim"} => outcome_state.st = "READY"
    /\ \A t \in Offerers : pc[t] \in {"recheck", "claim"} /\ ident[t] = outcome_state.epoch =>
           outcome_state.st = "READY" \/ buffer[t] # NoEpoch

IInv ==
    /\ TypeOK
    /\ InstallerInv
    /\ EpochInv
    /\ WriterInv
    /\ CellInv
    /\ ReadyInv
    /\ OneCompletionOwner

USE InstallerAssumption, MaxEpochAssumption

\* Every initial state of the core satisfies the inductive invariant.
LEMMA InitIInv == Init => IInv
  BY DEF Init, IInv, TypeOK, InstallerInv, EpochInv, WriterInv, CellInv, ReadyInv,
         OneCompletionOwner, Writing, Owner, Actors, Epochs, NoEpoch, Stages,
         OutcomeStates, OffererSteps, InstallerSteps, Unwritten

\* Every access of the core preserves the types.
LEMMA TypeStep == TypeOK /\ EpochInv /\ InstallerInv /\ [Next]_vars => TypeOK'
  <1> SUFFICES ASSUME TypeOK, EpochInv, InstallerInv, [Next]_vars PROVE TypeOK'
    OBVIOUS
  <1>0. UNCHANGED weak
    BY DEF Next, vars
  <1> USE <1>0
  <1> USE DEF TypeOK, Actors, Epochs, NoEpoch, Stages, OutcomeStates, OffererSteps,
             InstallerSteps, Goto
  <1>1. ASSUME NEW t \in Offerers, Begin(t) PROVE TypeOK'
    BY <1>1 DEF Begin
  <1>2. ASSUME NEW t \in Offerers, OffererStep(t) PROVE TypeOK'
    <2>1. CASE Abandon(t) BY <2>1 DEF Abandon
    <2>2. CASE OfferLoad(t) BY <2>2 DEF OfferLoad
    <2>3. CASE OfferCas(t) BY <2>3 DEF OfferCas
    <2>4. CASE OfferWrite(t) BY <2>4 DEF OfferWrite
    <2>5. CASE OfferStore(t) BY <2>5 DEF OfferStore
    <2>6. CASE OfferRecheck(t) BY <2>6 DEF OfferRecheck
    <2>7. CASE OfferClaim(t) BY <2>7 DEF OfferClaim
    <2>8. CASE ReadOutcome(t) BY <2>8 DEF ReadOutcome
    <2>9. CASE MarkDone(t) BY <2>9 DEF MarkDone
    <2> QED BY <1>2, <2>1, <2>2, <2>3, <2>4, <2>5, <2>6, <2>7, <2>8, <2>9 DEF OffererStep
  <1>3. ASSUME NEW t \in Offerers, Drain(t) PROVE TypeOK'
    BY <1>3 DEF Drain
  <1>4. CASE InstallerStep
    BY <1>4 DEF InstallerStep, FinishInstallingLoad, FinishInstalling, Arm, ArmCheck,
                ArmClaim, ReadOutcome, MarkDone
  <1>5. CASE Restart
    BY <1>5 DEF Restart, RestartOutcome, RestartPhase, EpochInv, InstallerInv
  <1>6. CASE UNCHANGED vars
    BY <1>6 DEF vars
  <1> QED BY <1>1, <1>2, <1>3, <1>4, <1>5, <1>6 DEF Next, Access

\* Every access of the core preserves the inductive invariant.
LEMMA NextIInv == IInv /\ [Next]_vars => IInv'
  <1> SUFFICES ASSUME IInv, [Next]_vars PROVE IInv'
    OBVIOUS
  <1>1. TypeOK'
    BY TypeStep DEF IInv
  <1>0. UNCHANGED weak
    BY DEF Next, vars
  <1> DEFINE Rest == InstallerInv /\ EpochInv /\ WriterInv /\ CellInv /\ ReadyInv /\ OneCompletionOwner
  <1> SUFFICES Rest'
    BY <1>1 DEF IInv
  <1> USE <1>0, <1>1 DEF IInv, TypeOK, InstallerInv, EpochInv, WriterInv, CellInv, ReadyInv,
             OneCompletionOwner, Writing, Owner, Actors, Epochs, NoEpoch, Stages,
             OutcomeStates, OffererSteps, InstallerSteps, Goto, HasOutcome, Claimable
  <1>2. ASSUME NEW t \in Offerers, Begin(t) PROVE Rest'
    BY <1>2 DEF Begin
  <1>3. ASSUME NEW t \in Offerers, OffererStep(t) PROVE Rest'
    <2>1. CASE Abandon(t) BY <2>1 DEF Abandon
    <2>2. CASE OfferLoad(t) BY <2>2 DEF OfferLoad
    <2>3. CASE OfferCas(t) BY <2>3 DEF OfferCas
    <2>4. CASE OfferWrite(t) BY <2>4 DEF OfferWrite
    <2>5. CASE OfferStore(t) BY <2>5 DEF OfferStore
    <2>6. CASE OfferRecheck(t) BY <2>6 DEF OfferRecheck
    <2>7. CASE OfferClaim(t) BY <2>7 DEF OfferClaim
    <2>8. CASE ReadOutcome(t) BY <2>8 DEF ReadOutcome
    <2>9. CASE MarkDone(t) BY <2>9 DEF MarkDone
    <2> QED BY <1>3, <2>1, <2>2, <2>3, <2>4, <2>5, <2>6, <2>7, <2>8, <2>9, Zenon DEF OffererStep
  <1>4. ASSUME NEW t \in Offerers, Drain(t) PROVE Rest'
    BY <1>4 DEF Drain
  <1>5. CASE InstallerStep
    <2>1. CASE FinishInstallingLoad BY <2>1 DEF FinishInstallingLoad
    <2>2. CASE FinishInstalling BY <2>2 DEF FinishInstalling
    <2>3. CASE Arm BY <2>3 DEF Arm
    <2>4. CASE ArmCheck BY <2>4 DEF ArmCheck
    <2>5. CASE ArmClaim BY <2>5 DEF ArmClaim
    <2>6. CASE ReadOutcome(Installer) BY <2>6 DEF ReadOutcome
    <2>7. CASE MarkDone(Installer) BY <2>7 DEF MarkDone
    <2> QED BY <1>5, <2>1, <2>2, <2>3, <2>4, <2>5, <2>6, <2>7, Zenon DEF InstallerStep
  <1>6. CASE Restart
    <2>1. CASE RestartOutcome BY <2>1 DEF RestartOutcome
    <2>2. CASE RestartPhase BY <2>2 DEF RestartPhase
    <2> QED BY <1>6, <2>1, <2>2 DEF Restart
  <1>7. CASE UNCHANGED vars
    BY <1>7 DEF vars
  <1> QED BY <1>2, <1>3, <1>4, <1>5, <1>6, <1>7 DEF Next, Access

\* The inductive invariant holds in every reachable state.
THEOREM InductiveInvariant == Spec => []IInv
  BY InitIInv, NextIInv, PTL DEF Spec

\* The words, the cell and the program counters always have their types.
THEOREM TypeCorrect == Spec => []TypeOK
  <1>1. IInv => TypeOK
    BY DEF IInv
  <1> QED BY <1>1, InductiveInvariant, PTL

\* Exactly one thread owns a FINISHING round: the three ways to claim it
\* exclude each other for any number of offerers, rounds and delayed stores.
THEOREM UniqueOwner == Spec => []OneCompletionOwner
  <1>1. IInv => OneCompletionOwner
    BY DEF IInv
  <1> QED BY <1>1, InductiveInvariant, PTL

\* The owner always reads a READY outcome that was written for its own round.
THEOREM OwnerReadsItsOutcome == Spec => []OutcomeIntact
  <1>1. IInv => OutcomeIntact
    BY DEF IInv, OutcomeIntact, TypeOK, EpochInv, InstallerInv, CellInv, ReadyInv,
           OneCompletionOwner, Owner, HasOutcome, Actors, Stages, OutcomeStates, Epochs
  <1> QED BY <1>1, InductiveInvariant, PTL

\* The outcome cell is written once in a round, before the round has an owner.
THEOREM CellWrittenOnce == Spec => WrittenOnce
  <1> DEFINE Once == cell' # cell =>
                       /\ outcome_state = [epoch |-> phase.epoch, st |-> "WRITING"]
                       /\ phase.stage \in {"INSTALLING", "ARMED"}
                       /\ cell'.epoch = phase.epoch
                       /\ cell.epoch < phase.epoch
  <1>1. IInv /\ [Next]_vars => Once
    <2> SUFFICES ASSUME IInv, [Next]_vars, cell' # cell PROVE Once
      OBVIOUS
    <2>1. PICK t \in Offerers : OfferWrite(t)
      BY DEF Next, Access, OffererStep, InstallerStep, Restart, Begin, Abandon, OfferLoad, OfferCas,
             OfferStore, OfferRecheck, OfferClaim, ReadOutcome, MarkDone, Drain,
             FinishInstallingLoad, FinishInstalling, Arm, ArmCheck, ArmClaim,
             RestartOutcome, RestartPhase, vars
    <2> QED
      BY <2>1 DEF OfferWrite, IInv, TypeOK, WriterInv, CellInv, ReadyInv, InstallerInv, EpochInv,
                  Writing, Stages, OutcomeStates
  <1> QED BY <1>1, InductiveInvariant, PTL DEF Spec, WrittenOnce

\* When every store is visible at once, an ARMED wait with a READY outcome
\* always has a thread on its way to claim it: arm_in and offer_in close
\* their race by each rechecking the word the other one wrote.
THEOREM NoCompletionLost == Spec => []NoneLostWhenVisible
  <1>1. Init => NoneLostWhenVisible
    BY DEF Init, NoneLostWhenVisible, NoLostCompletion, HasOutcome
  <1>2. IInv /\ NoneLostWhenVisible /\ [Next]_vars => NoneLostWhenVisible'
    <2> SUFFICES ASSUME IInv, NoLostCompletion, [Next]_vars, weak = 0 PROVE NoLostCompletion'
      BY DEF NoneLostWhenVisible, Next, vars
    <2> USE DEF IInv, TypeOK, InstallerInv, EpochInv, WriterInv, NoLostCompletion, HasOutcome,
                Claimable, Goto, Writing, Actors, Epochs, Stages, OutcomeStates, NoEpoch
    <2>1. ASSUME NEW t \in Offerers, Begin(t) \/ OffererStep(t) \/ Drain(t)
          PROVE  NoLostCompletion'
      <3>1. CASE Begin(t) BY <3>1 DEF Begin
      <3>2. CASE Abandon(t) BY <3>2 DEF Abandon
      <3>3. CASE OfferLoad(t) BY <3>3 DEF OfferLoad
      <3>4. CASE OfferCas(t) BY <3>4 DEF OfferCas
      <3>5. CASE OfferWrite(t) BY <3>5 DEF OfferWrite
      <3>6. CASE OfferStore(t) BY <3>6 DEF OfferStore
      <3>7. CASE OfferRecheck(t) BY <3>7 DEF OfferRecheck
      <3>8. CASE OfferClaim(t) BY <3>8 DEF OfferClaim
      <3>9. CASE ReadOutcome(t) BY <3>9 DEF ReadOutcome
      <3>10. CASE MarkDone(t) BY <3>10 DEF MarkDone
      <3>11. CASE Drain(t) BY <3>11 DEF Drain
      <3> QED BY <2>1, <3>1, <3>2, <3>3, <3>4, <3>5, <3>6, <3>7, <3>8, <3>9, <3>10, <3>11
              DEF OffererStep
    <2>2. CASE InstallerStep
      BY <2>2 DEF InstallerStep, FinishInstallingLoad, FinishInstalling, Arm, ArmCheck,
                  ArmClaim, ReadOutcome, MarkDone
    <2>3. CASE Restart
      BY <2>3 DEF Restart, RestartOutcome, RestartPhase
    <2>4. CASE UNCHANGED vars
      BY <2>4 DEF vars
    <2> QED BY <2>1, <2>2, <2>3, <2>4 DEF Next, Access
  <1> QED BY <1>1, <1>2, InductiveInvariant, PTL DEF Spec

\* Within a round the stage moves forward only and the abandoned flag stays;
\* the round changes only from DONE, by one.
THEOREM PhaseMovesForward == Spec => PhaseMonotone
  <1> DEFINE Forward ==
        IF phase'.epoch = phase.epoch
        THEN /\ StageRank[phase.stage] <= StageRank[phase'.stage]
             /\ phase.abandoned <= phase'.abandoned
        ELSE phase'.epoch = phase.epoch + 1 /\ phase.stage = "DONE"
  <1>1. IInv /\ [Next]_vars => Forward
    <2> SUFFICES ASSUME IInv, [Next]_vars PROVE Forward
      OBVIOUS
    <2> USE DEF IInv, TypeOK, InstallerInv, Claimable, StageRank, Epochs, Stages
    <2>1. CASE \E t \in Offerers : Begin(t) \/ OffererStep(t) \/ Drain(t)
      BY <2>1 DEF OffererStep, Begin, Abandon, OfferLoad, OfferCas, OfferWrite,
                  OfferStore, OfferRecheck, OfferClaim, ReadOutcome, MarkDone, Drain
    <2>2. CASE InstallerStep
      BY <2>2 DEF InstallerStep, FinishInstallingLoad, FinishInstalling, Arm, ArmCheck,
                  ArmClaim, ReadOutcome, MarkDone
    <2>3. CASE Restart
      BY <2>3 DEF Restart, RestartOutcome, RestartPhase
    <2>4. CASE UNCHANGED vars
      BY <2>4 DEF vars
    <2> QED BY <2>1, <2>2, <2>3, <2>4 DEF Next, Access
  <1> QED BY <1>1, InductiveInvariant, PTL DEF Spec, PhaseMonotone

\* The owner the refinement mapping chooses is the only thread that is one.
LEMMA CurrentOwnerIs ==
    ASSUME OneCompletionOwner, NEW a \in Actors, Owner(a)
    PROVE  CurrentOwner = a
  BY DEF OneCompletionOwner, CurrentOwner

\* Outside FINISHING the mapping has no owner.
LEMMA NoCurrentOwner ==
    ASSUME phase.stage # "FINISHING"
    PROVE  CurrentOwner = NoOne
  BY DEF CurrentOwner

\* While a thread writes the outcome, its round has neither outcome nor owner.
LEMMA WriterFacts ==
    ASSUME IInv, NEW t \in Offerers, Writing(t)
    PROVE  /\ outcome_state = [epoch |-> phase.epoch, st |-> "WRITING"]
           /\ ~HasOutcome(phase.epoch)
           /\ phase.stage # "DONE"
           /\ phase.stage # "FINISHING"
  <1>1. outcome_state = [epoch |-> phase.epoch, st |-> "WRITING"]
    BY DEF IInv, WriterInv
  <1> QED BY <1>1 DEF IInv, HasOutcome, ReadyInv, EpochInv

\* Every access of the lock-free core is a step of the abstract wait, or none.
LEMMA StepSimulation == IInv /\ IInv' /\ [Next]_vars => [Abstract!Next]_(Abstract!vars)
  <1> SUFFICES ASSUME IInv, IInv', [Next]_vars PROVE [Abstract!Next]_(Abstract!vars)
    OBVIOUS
  <1> USE NoOneAssumption DEF Abstract!Next, Abstract!vars
  <1> DEFINE Stutter == /\ phase'.epoch = phase.epoch
                        /\ ChosenOutcome' = ChosenOutcome
                        /\ CurrentOwner' = CurrentOwner
                        /\ (phase'.stage = "DONE") = (phase.stage = "DONE")
  <1>1. ASSUME NEW a \in Actors, phase.stage # "FINISHING", phase'.stage = "FINISHING",
               phase.stage # "DONE", phase'.epoch = phase.epoch, Owner(a)',
               HasOutcome(phase.epoch), UNCHANGED <<outcome_state, cell>>
        PROVE  Abstract!Next
    <2>1. CurrentOwner = NoOne /\ CurrentOwner' = a
      BY <1>1, NoCurrentOwner, Zenon DEF IInv, OneCompletionOwner, CurrentOwner
    <2>2. ChosenOutcome = cell.by /\ ChosenOutcome' = ChosenOutcome /\ cell.by # NoOne
      BY <1>1, Zenon DEF ChosenOutcome, HasOutcome, IInv, CellInv
    <2>3. Abstract!Own(a)
      BY <1>1, <2>1, <2>2 DEF Abstract!Own
    <2> QED BY <2>3
  <1>2. ASSUME NEW t \in Offerers, UNCHANGED phase, phase.stage # "DONE", phase.stage # "FINISHING",
               ~HasOutcome(phase.epoch), HasOutcome(phase.epoch)', cell'.by \in Offerers
        PROVE  Abstract!Next
    <2>1. Abstract!Choose(cell'.by)
      BY <1>2, Zenon DEF Abstract!Choose, ChosenOutcome, CurrentOwner, HasOutcome
    <2> QED BY <1>2, <2>1
  <1>3. ASSUME Stutter PROVE UNCHANGED Abstract!vars
    BY <1>3
  <1>4. ASSUME phase'.epoch = phase.epoch, phase'.stage = phase.stage,
               ChosenOutcome' = ChosenOutcome,
               \A a \in Actors : Owner(a) => Owner(a)'
        PROVE  UNCHANGED Abstract!vars
    <2>1. CASE phase.stage = "FINISHING"
      <3>1. PICK a \in Actors : Owner(a)
        BY <2>1 DEF IInv, OneCompletionOwner
      <3>2. CurrentOwner = a
        BY <3>1, CurrentOwnerIs DEF IInv
      <3>3. CurrentOwner' = a
        BY <1>4, <2>1, <3>1 DEF IInv, OneCompletionOwner, CurrentOwner
      <3> QED BY <1>3, <1>4, <3>2, <3>3
    <2>2. CASE phase.stage # "FINISHING"
      BY <1>3, <1>4, <2>2 DEF CurrentOwner
    <2> QED BY <2>1, <2>2
  <1> USE DEF Owner, Goto, IInv, TypeOK, Actors
  <1>10. ASSUME NEW a \in Actors, MarkDone(a) PROVE Abstract!Next
    <2>1. CurrentOwner = a /\ CurrentOwner' = NoOne
      BY <1>10, CurrentOwnerIs DEF MarkDone, CurrentOwner
    <2>2. Abstract!Complete
      BY <1>10, <2>1 DEF Abstract!Complete, MarkDone, ChosenOutcome
    <2> QED BY <2>2
  <1>5. ASSUME NEW t \in Offerers, Begin(t) \/ OffererStep(t) \/ Drain(t)
        PROVE  [Abstract!Next]_(Abstract!vars)
    <2>1. CASE Begin(t)
      BY <1>4, <2>1 DEF Begin, ChosenOutcome, HasOutcome
    <2>2. CASE Abandon(t)
      BY <1>4, <2>2 DEF Abandon, ChosenOutcome, HasOutcome
    <2>3. CASE OfferLoad(t)
      BY <1>4, <2>3 DEF OfferLoad, ChosenOutcome, HasOutcome
    <2>4. CASE OfferCas(t)
      BY <1>4, <2>4 DEF OfferCas, ChosenOutcome, HasOutcome
    <2>5. CASE OfferWrite(t)
      <3>1. ~HasOutcome(phase.epoch)
        BY <2>5, WriterFacts, Zenon DEF OfferWrite, Writing
      <3>2. UNCHANGED <<phase, outcome_state>>
        BY <2>5, Zenon DEF OfferWrite
      <3>3. ~HasOutcome(phase.epoch)'
        BY <3>1, <3>2 DEF HasOutcome
      <3> QED BY <1>4, <2>5, <3>1, <3>2, <3>3, Zenon DEF OfferWrite, ChosenOutcome
    <2>6. CASE OfferStore(t)
      <3>1. ident[t] = phase.epoch
        BY <2>6 DEF OfferStore, WriterInv
      <3>2. ~HasOutcome(phase.epoch) /\ phase.stage # "DONE" /\ phase.stage # "FINISHING"
        BY <2>6, WriterFacts DEF OfferStore, Writing
      <3>3. CASE UNCHANGED outcome_state
        BY <1>4, <2>6, <3>2, <3>3 DEF OfferStore, ChosenOutcome, HasOutcome
      <3>4. CASE outcome_state' = [epoch |-> ident[t], st |-> "READY"]
        BY <1>2, <2>6, <3>1, <3>2, <3>4, Zenon DEF OfferStore, HasOutcome, CellInv
      <3> QED BY <2>6, <3>3, <3>4 DEF OfferStore
    <2>7. CASE OfferRecheck(t)
      BY <1>4, <2>7, Zenon DEF OfferRecheck, ChosenOutcome, HasOutcome
    <2>8. CASE OfferClaim(t)
      <3>1. CASE Claimable(ident[t])
        <4>1. HasOutcome(phase.epoch)
          BY <2>8, <3>1 DEF OfferClaim, Claimable, HasOutcome, ReadyInv, EpochInv, InstallerInv
        <4> QED BY <1>1, <2>8, <3>1, <4>1 DEF OfferClaim, Claimable
      <3>2. CASE ~Claimable(ident[t])
        BY <1>4, <2>8, <3>2 DEF OfferClaim, ChosenOutcome, HasOutcome
      <3> QED BY <3>1, <3>2
    <2>9. CASE ReadOutcome(t)
      BY <1>4, <2>9 DEF ReadOutcome, ChosenOutcome, HasOutcome
    <2>10. CASE MarkDone(t)
      BY <1>10, <2>10
    <2>11. CASE Drain(t)
      <3>1. buffer[t] = phase.epoch
        BY <2>11, Zenon DEF Drain, WriterInv
      <3>2. ~HasOutcome(phase.epoch) /\ phase.stage # "DONE" /\ phase.stage # "FINISHING"
        BY <2>11, WriterFacts DEF Drain, Writing
      <3> QED BY <1>2, <2>11, <3>1, <3>2, Zenon DEF Drain, HasOutcome, CellInv
    <2> QED BY <1>5, <2>1, <2>2, <2>3, <2>4, <2>5, <2>6, <2>7, <2>8, <2>9, <2>10, <2>11
            DEF OffererStep
  <1>6. CASE InstallerStep
    <2>1. CASE FinishInstallingLoad
      BY <1>4, <2>1, Zenon DEF FinishInstallingLoad, ChosenOutcome, HasOutcome
    <2>2. CASE FinishInstalling
      <3>1. HasOutcome(phase.epoch)
        BY <2>2 DEF FinishInstalling, HasOutcome, ReadyInv, EpochInv
      <3> QED BY <1>1, <2>2, <3>1 DEF FinishInstalling
    <2>3. CASE Arm
      BY <1>3, <2>3 DEF Arm, ChosenOutcome, CurrentOwner, HasOutcome
    <2>4. CASE ArmCheck
      BY <1>4, <2>4, Zenon DEF ArmCheck, ChosenOutcome, HasOutcome
    <2>5. CASE ArmClaim
      <3>1. CASE Claimable(ident[Installer])
        <4>1. HasOutcome(phase.epoch)
          BY <2>5, <3>1 DEF ArmClaim, Claimable, HasOutcome, ReadyInv, EpochInv
        <4> QED BY <1>1, <2>5, <3>1, <4>1 DEF ArmClaim, Claimable
      <3>2. CASE ~Claimable(ident[Installer])
        BY <1>4, <2>5, <3>2 DEF ArmClaim, ChosenOutcome, HasOutcome
      <3> QED BY <3>1, <3>2
    <2>6. CASE ReadOutcome(Installer)
      BY <1>4, <2>6 DEF ReadOutcome, ChosenOutcome, HasOutcome
    <2>7. CASE MarkDone(Installer)
      BY <1>10, <2>7
    <2> QED BY <1>6, <2>1, <2>2, <2>3, <2>4, <2>5, <2>6, <2>7 DEF InstallerStep
  <1>7. CASE RestartOutcome
    BY <1>4, <1>7, Zenon DEF RestartOutcome, ChosenOutcome
  <1>8. CASE RestartPhase
    <2>1. phase.stage = "DONE" /\ ~HasOutcome(phase.epoch)'
      BY <1>8 DEF RestartPhase, HasOutcome, EpochInv, InstallerInv
    <2>2. Abstract!NewRound
      BY <1>8, <2>1 DEF RestartPhase, Abstract!NewRound, ChosenOutcome, CurrentOwner
    <2> QED BY <2>2
  <1>9. CASE UNCHANGED vars
    BY <1>4, <1>9, Zenon DEF vars, ChosenOutcome, HasOutcome
  <1> QED BY <1>5, <1>6, <1>7, <1>8, <1>9 DEF Next, Access, Restart

\* The lock-free core implements the abstract wait: one outcome, then one owner,
\* then one end, in every round, for any number of offerers.
THEOREM Refinement == Spec => ImplementsWaitOnce
  <1>1. Init => Abstract!Init
    BY DEF Init, Abstract!Init, ChosenOutcome, CurrentOwner, HasOutcome
  <1> QED BY <1>1, StepSimulation, InductiveInvariant, PTL
          DEF Spec, ImplementsWaitOnce, Abstract!Spec

=============================================================================
