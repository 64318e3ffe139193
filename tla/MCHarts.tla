------------------------------ MODULE MCHarts -------------------------------
(*****************************************************************************)
(* What a hart has to get done, one component at a time: a behaviour is      *)
(* one of the debt ledgers of two harts or of the scheduling loops of two    *)
(* harts in two domains that may be told to stop.                            *)
(*****************************************************************************)
EXTENDS WorkDebts

\* Two ranges of slots that overlap.
MCPartitions == {<<0, 2>>, <<1, 2>>}

TwoDomains == [h1 |-> "big", h2 |-> "small", t1 |-> "big", t2 |-> "small"]

VARIABLES
    which,   \* the component under check, frozen
    pc, cur, ready, idle_mask, st, debts, bell, ssip, missed, now, timer, deadline, home,
    terminating, REQUESTED, STOPPED

Harts == INSTANCE HartLoop WITH
    Hart <- {"h1", "h2"}, Thread <- {"t1", "t2"}, Domain <- {"big", "small"},
    DomainOf <- TwoDomains, NoThread <- "nobody", WORK <- "work", WorkHart <- "h1", MaxTime <- 1, Until <- {1, 2},
    CanStop <- TRUE, CanMiss <- FALSE

hartsVars == <<pc, cur, ready, idle_mask, st, debts, bell, ssip, missed, now, timer, deadline,
               home, terminating, REQUESTED, STOPPED>>

\* A component that is not under check rests in one state.
hartsRests == pc = 0 /\ cur = 0 /\ ready = 0 /\ idle_mask = 0 /\ st = 0 /\ debts = 0 /\ bell = 0 /\
              ssip = 0 /\ missed = 0 /\ now = 0 /\ timer = 0 /\ deadline = 0 /\ home = 0 /\
              terminating = 0 /\ REQUESTED = 0 /\ STOPPED = 0

all == <<which, vars, hartsVars>>

SumInit ==
    /\ which \in {"debts", "harts"}
    /\ Init
    /\ IF which = "harts" THEN Harts!Init ELSE hartsRests

\* Only one component moves.
debtsOnly == UNCHANGED <<which, hartsVars>>
hartsOnly == UNCHANGED <<which, vars>>

\* These may come to an end of their own.
Ended == which \in {"debts", "harts"} /\ UNCHANGED all

SumNext ==
    \/ which = "debts" /\ Next /\ debtsOnly
    \/ which = "harts" /\ Harts!Next /\ hartsOnly
    \/ Ended

\* The fair actions of the component under check.  As which never changes, weak fairness of the
\* i-th ones together is weak fairness of that of the component.
FairStep(i) ==
    \/ which = "debts"
       /\ \/ \E o \in Owners : i = (IF o = "h1" THEN 1 ELSE 2) /\ take(o)
          \/ \E w \in wakes : w.slot = i - 3 /\ wake(w)
       /\ debtsOnly
    \/ which = "harts"
       /\ \/ i = 1 /\ (Harts!Kernel("h1") \/ Harts!Syscall("h1"))
          \/ i = 2 /\ (Harts!Kernel("h2") \/ Harts!Syscall("h2"))
          \/ i = 3 /\ Harts!Tick
       /\ hartsOnly

SumFairness == \A i \in 1 .. 4 : WF_all(FairStep(i))

SumSpec == SumInit /\ [][SumNext]_all /\ SumFairness

-----------------------------------------------------------------------------
\* Across domains, and while the machine is being stopped: a thread is held once, and no hart
\* sleeps on work.
HartsAwake == which = "harts" => Harts!TypeOK /\ Harts!HeldOnce /\ Harts!NoSleepOnWork

\* What the component under check owes, and what settles it: see DebtsRun, DueRuns,
\* TerminatedLeaves and StopParksAll.
Owed(i) ==
    \/ which = "debts" /\ i \in 1 .. SLOTS /\ phase[i - 1] \in {"Pending", "Parked"}
    \/ which = "harts" /\ CASE i = 1 -> Harts!Due("t1") [] i = 2 -> Harts!Due("t2")
                            [] OTHER -> terminating # {} \/ REQUESTED
Paid(i) ==
    CASE which = "debts" -> i \in 1 .. SLOTS /\ phase[i - 1] = "Taken"
      [] which = "harts" -> CASE i = 1 -> Harts!Runs("t1") [] i = 2 -> Harts!Runs("t2")
                              [] OTHER -> IF REQUESTED THEN Harts!AllParked ELSE Harts!AllLeft

\* A queued debt is taken and a parked one is queued again; a thread that is due runs, a terminated
\* one leaves, and a requested stop parks every hart.
HartsProgress == \A i \in 1 .. 3 : Owed(i) ~> Paid(i)
=============================================================================
