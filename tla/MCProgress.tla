----------------------------- MODULE MCProgress -----------------------------
(*****************************************************************************)
(* What has to come to an end, one component at a time: a behaviour is one   *)
(* of a wait, of a drain, of a boot, of a user-space runtime or of a         *)
(* stream, chosen in the initial state.                                      *)
(*****************************************************************************)
EXTENDS WaitCore, Sequences

MCItems == <<"plain", "retiring">>

B(ops, step, eat, deadline) == [ops |-> ops, step |-> step, eat |-> eat, deadline |-> deadline]
MCBehaviour == {
    B(<<"register">>, "Parked", TRUE, FALSE), B(<<"spawn", "register">>, "Parked", TRUE, TRUE),
    B(<<"rearm">>, "Parked", TRUE, TRUE), B(<<"remove", "wake">>, "Parked", TRUE, FALSE),
    B(<<>>, "Parked", FALSE, FALSE), B(<<>>, "Runnable", TRUE, TRUE), B(<<"remove">>, "Complete", TRUE, FALSE),
    B(<<>>, "Complete", FALSE, FALSE), B(<<>>, "Error", FALSE, FALSE), B(<<"remove", "rearm">>, "Error", FALSE, FALSE)}

\* Boards of cpu nodes out of hart-id order with equal and different state extensions, a node
\* without an MMU, a disabled node, and boards the admission refuses.
CpuNode(id, caps) == [id |-> id, okay |-> TRUE, isa |-> TRUE, caps |-> caps, mmu |-> TRUE]
D == {"f", "d"}
Q == {"f", "d", "q"}
MCBoards ==
    { <<CpuNode(7, D), CpuNode(3, {}), CpuNode(5, Q)>>,
      <<CpuNode(3, D), CpuNode(7, D), CpuNode(5, {"f"})>>,
      <<[CpuNode(5, D) EXCEPT !.mmu = FALSE], CpuNode(3, {}), CpuNode(7, Q)>>,
      <<[CpuNode(3, D) EXCEPT !.okay = FALSE], CpuNode(7, {}), CpuNode(3, D)>>,
      <<CpuNode(3, {"d"}), CpuNode(5, {})>>,
      <<CpuNode(5, D), CpuNode(5, D), CpuNode(3, {})>>,
      <<[CpuNode(7, D) EXCEPT !.isa = FALSE], CpuNode(3, {})>>,
      <<CpuNode(7, D)>> }

VARIABLES
    which,   \* the component under check, frozen
    target, active, executor, round, wait, abandoned, debt, work, fdebt, waiters, gatewait,
    drain_pc, doomed, owed, cancels,
    board, registry, record, boot_pc, started, gate, reclaimed, domains, panics,
    rt, set, clock, spent,
    mem, producer, consumer, sig, in, out

Drains == INSTANCE Drains WITH
    pc <- drain_pc, Caller <- {"t1", "t2"}, Items <- MCItems, Ancestors <- 1, Budget <- 4,
    Turn <- 2, MaxRounds <- 3
Boot == INSTANCE Boot WITH
    pc <- boot_pc, Boards <- MCBoards, BootHart <- 3, HartLimit <- 3, MaxPanics <- 1
Runtime == INSTANCE Execution WITH
    TaskId <- {1, 2}, Token <- {1, 2}, MaxSources <- 1, Behaviour <- MCBehaviour, MaxAdvances <- 2,
    MaxSignals <- 1, MaxFailures <- 1, MaxTime <- 1
Runnel == INSTANCE Runnel WITH
    p <- producer, c <- consumer, Bytes <- <<1, 2, 3, 4, 5, 6>>, Capacity <- 2, Width <- 5

drainVars == <<target, active, executor, round, wait, abandoned, debt, work, fdebt, waiters,
               gatewait, drain_pc, doomed, owed, cancels>>
bootVars == <<board, registry, record, boot_pc, started, gate, reclaimed, domains, panics>>
runtimeVars == <<rt, set, clock, spent>>
runnelVars == <<mem, producer, consumer, sig, in, out>>

\* A component that is not under check rests in one state.
waitRests == Init /\ weak = 0
drainRests == target = 0 /\ active = 0 /\ executor = 0 /\ round = 0 /\ wait = 0 /\ abandoned = 0 /\
              debt = 0 /\ work = 0 /\ fdebt = 0 /\ waiters = 0 /\ gatewait = 0 /\ drain_pc = 0 /\
              doomed = 0 /\ owed = 0 /\ cancels = 0
bootRests == Boot!Init /\ Len(board) = 1
runtimeRests == rt = 0 /\ set = 0 /\ clock = 0 /\ spent = 0
runnelRests == Runnel!Init /\ ~sig.hasty

all == <<which, vars, drainVars, bootVars, runtimeVars, runnelVars>>

SumInit ==
    /\ which \in {"wait", "drain", "boot", "runtime", "runnel"}
    /\ IF which = "wait" THEN Init ELSE waitRests
    /\ IF which = "drain" THEN Drains!Init ELSE drainRests
    /\ IF which = "boot" THEN Boot!Init ELSE bootRests
    /\ IF which = "runtime" THEN Runtime!Init ELSE runtimeRests
    /\ IF which = "runnel" THEN Runnel!Init ELSE runnelRests

\* Only one component moves.
waitOnly == UNCHANGED <<which, drainVars, bootVars, runtimeVars, runnelVars>>
drainOnly == UNCHANGED <<which, vars, bootVars, runtimeVars, runnelVars>>
bootOnly == UNCHANGED <<which, vars, drainVars, runtimeVars, runnelVars>>
runtimeOnly == UNCHANGED <<which, vars, drainVars, bootVars, runnelVars>>
runnelOnly == UNCHANGED <<which, vars, drainVars, bootVars, runtimeVars>>

\* These may come to an end of their own.
Ended == which \in {"drain", "boot", "runtime", "runnel"} /\ UNCHANGED all

SumNext ==
    \/ which = "wait" /\ Next /\ waitOnly
    \/ which = "drain" /\ Drains!Next /\ drainOnly
    \/ which = "boot" /\ Boot!Next /\ bootOnly
    \/ which = "runtime" /\ Runtime!Next /\ runtimeOnly
    \/ which = "runnel" /\ Runnel!Next /\ runnelOnly
    \/ Ended

\* The fair actions of the component under check.  As which never changes, weak fairness of the
\* i-th ones together is weak fairness of that of the component.
FairStep(i) ==
    \/ which = "wait" /\ UNCHANGED weak
       /\ \/ \E t \in Offerers : (i = 1) = (t = "t1") /\ i \in 1 .. 2 /\ OffererStep(t)
          \/ \E t \in Offerers : (i = 3) = (t = "t1") /\ i \in 3 .. 4 /\ Drain(t)
          \/ i = 5 /\ InstallerStep
          \/ i = 6 /\ RestartPhase
       /\ waitOnly
    \/ which = "drain"
       /\ \/ i = 1 /\ Drains!Waits("t1")
          \/ i = 2 /\ Drains!Waits("t2")
          \/ i = 3 /\ Drains!Cancels
          \/ i = 4 /\ Drains!Runs
          \/ i = 5 /\ Drains!retire
          \/ i = 6 /\ Drains!Finalize
       /\ drainOnly
    \/ which = "boot"
       /\ \/ i \in DOMAIN boot_pc /\ Boot!HartStep(i)
          \/ i = 4 /\ Boot!construct_registry
       /\ bootOnly
    \/ which = "runtime"
       /\ \/ i = 1 /\ Runtime!Drive
          \/ i = 2 /\ Runtime!seal
          \/ i = 3 /\ Runtime!stop_next
          \/ i = 4 /\ Runtime!tick
       /\ runtimeOnly
    \/ which = "runnel"
       /\ \/ i = 1 /\ Runnel!Producer
          \/ i = 2 /\ Runnel!Consumer
       /\ runnelOnly

SumFairness == \A i \in 1 .. 6 : WF_all(FairStep(i))

SumSpec == SumInit /\ [][SumNext]_all /\ SumFairness

-----------------------------------------------------------------------------
\* A drain has one batch at a time, whoever waits for it, and publishes one death.
DrainIsOne == which = "drain" => Drains!OneBatch

\* The boot: Ready only for a whole boot, the bootstrap pages reclaimed only when no hart needs
\* them, and execution requirements resolved to domains that satisfy them.
BootIsWhole == [](which = "boot" => Boot!ReclaimSafe /\ Boot!DomainsFit) /\ Boot!OnlyWholeBoot

\* The user-space runtime: its counters agree with its tables, no event or deadline a task has not
\* consumed is forgotten, and a deadline is delivered once.
RuntimeIsExact == which = "runtime" => Runtime!TablesAgree /\ Runtime!InputsWake /\ Runtime!DeadlineOnce

\* The ring between two processes is a bounded byte stream and never takes a cursor for broken.
RunnelIsStream == []Runnel!NeverBroken /\ Runnel!ImplementsByteStream

\* What the component under check owes, and what settles it: see RoundsEnd, DrainsEnd, BootEnds,
\* SealedDrains and StreamSettles (the two callers of a drain are interchangeable).
Owed(i) ==
    \/ which = "wait" /\ weak = 0 /\ (HasOutcome(i) \/ (phase.epoch = i /\ phase.abandoned = 1))
    \/ which = "drain" /\ IF i = 1 THEN drain_pc["t1"] # "user" ELSE target.published = 1
    \/ which \in {"boot", "runnel"}
    \/ which = "runtime" /\ rt.sealed
Paid(i) ==
    CASE which = "wait" -> RoundOver(i)
      [] which = "drain" -> IF i = 1 THEN Drains!Returned("t1") ELSE Drains!Ended
      [] which = "boot" -> Boot!Settled
      [] which = "runnel" -> Runnel!Settled
      [] which = "runtime" -> Runtime!Drained(rt)

\* A wait with an outcome and an abandoned one end; a drain ends for its callers and for the
\* target; a boot comes to a verdict on every hart; a sealed runtime drains; and both ends of a
\* stream come to its end.
WorkEnds == \A i \in 1 .. 2 : Owed(i) ~> Paid(i)
=============================================================================
