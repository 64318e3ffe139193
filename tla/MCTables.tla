------------------------------ MODULE MCTables ------------------------------
(*****************************************************************************)
(* The tables and queues of the kernel, and the harts that use them, one     *)
(* component at a time: a behaviour is one of the component chosen in the    *)
(* initial state.                                                            *)
(*****************************************************************************)
EXTENDS HartLoop, TLC

CONSTANTS h1, h2, t1, t2, big

\* The two threads of the hart model are alike.
Alike == Permutations({t1, t2})

\* Both harts in one domain.
OneDomain == [x \in {h1, h2, t1, t2} |-> big]

Regions == {<<3, 8>>, <<8, 10>>, <<7, 9>>}

\* Changes of a page table of eight pages: maps that split, adjoin and repeat, unmaps that prune
\* and leave holes, and protections of two ranges of one large leaf; with and without kernel slots.
Maps(v, n, p, f) == [op |-> "Map", vpn |-> v, count |-> n, ppn |-> p, from |-> "none", to |-> f]
Unmaps(v, n) == [op |-> "Unmap", vpn |-> v, count |-> n, ppn |-> 0, from |-> "none", to |-> "none"]
Protects(v, n, f, g) == [op |-> "Protect", vpn |-> v, count |-> n, ppn |-> 0, from |-> f, to |-> g]
WholeTree == [shared |-> {}, work |-> {
    <<Maps(0, 8, 8, "rw")>>, <<Maps(0, 3, 8, "rw"), Maps(3, 3, 1, "rw")>>, <<Maps(4, 4, 8, "r")>>,
    <<Maps(5, 1, 13, "rw")>>, <<Maps(2, 5, 10, "rw")>>, <<Unmaps(1, 5)>>, <<Unmaps(0, 8)>>, <<Unmaps(6, 2)>>,
    <<Protects(1, 1, "rw", "r"), Protects(3, 2, "rw", "r")>>, <<Protects(0, 8, "rw", "r")>>,
    <<Protects(4, 2, "r", "rw")>>}]
SharedTree == [shared |-> {1}, work |-> {
    <<Maps(0, 4, 8, "rw")>>, <<Maps(1, 2, 9, "rw")>>, <<Maps(3, 2, 8, "r")>>, <<Unmaps(2, 4)>>,
    <<Unmaps(0, 4)>>, <<Protects(1, 2, "rw", "r")>>}]

Ranges(a, b) == {<<s, e>> \in (a .. b) \X (a .. b) : s < e}
Memories == {<<<<0, 9>>>>, <<<<7, 12>>, <<1, 7>>>>, <<<<3, 6>>, <<5, 9>>>>}
Reservations == {<<>>} \cup {<<r>> : r \in Ranges(2, 6)} \cup {<<r, s>> : r \in Ranges(4, 7), s \in Ranges(1, 5)}

VARIABLES
    which,   \* the component under check, frozen
    drain, queue, parked, at, class, entry, used, served, turns, rung,
    outstanding, cap, len, open, away, lock,
    q, ref, expired, timer_now, slots,
    geometry, ticks, high_ticks, high_ns, failed, reader, best, lost, faults,
    root, size, reference,
    tree, client, spare, view, cursor, fault, begun, story,
    pool, task, owner, free, boot, requests,
    input, plan, heap_next, recovery_next,
    arenas, metadata, free_frames, held,
    phase, memories, reservations, no_map, direct, dtb, package, ram, kept, holes,
    job, proc, maker, sealer, frames, slot, kill_failed, renewals

Safe == INSTANCE SafePoint WITH
    ssip <- rung, TOTAL <- 4, TURN <- 2, MaxUnits <- 2, MaxDebts <- 2
Ready == INSTANCE ReadyQueue WITH
    Batch <- {1, 2}, MaxBatch <- 3, Limit <- 6
Timers == INSTANCE TimerQueue WITH
    dead <- expired, now <- timer_now, Owner <- 0, Instants <- {1, 2, 3}, Small <- 3, Large <- 6,
    GenerationMax <- 2, NoSlot <- 0
Clock == INSTANCE Clock WITH
    time <- ticks, Hart <- {"h1", "h2"}, Nanos <- 6, Top <- 5, Frequencies <- {2, 3, 8},
    Origins <- {0, 3}, Faults <- 1
Table == INSTANCE OrderedTable WITH
    len <- size, ref <- reference, Keys <- 1 .. 7, Limit <- 6
PageTree == INSTANCE PageTable WITH
    t <- tree, free <- spare, sc <- story, Entries <- 2, Levels <- 3, Frames <- 1 .. 9, Root <- 1,
    Clients <- {1, 2}, Scenarios <- {WholeTree, SharedTree}, MaxBegun <- 3
Pools == INSTANCE MemoryPools WITH
    Pool <- 1 .. 3, Task <- {"t1", "t2"}, Owner <- {"o1", "o2"}, UserPages <- 2, BootPages <- 1,
    MaxExtents <- 2, MaxDepth <- 2, MaxRequests <- 4
Supply == INSTANCE SupplyPlan WITH
    Memories <- Memories, Reservations <- Reservations, Metadata <- 2, HeapChunk <- 2,
    HeapChunks <- 1, RecoveryTickets <- 1, MaxRanges <- 3
Frames == INSTANCE FramePool WITH
    Region <- Regions, MaxArenas <- 3, MetadataBytes <- 14, MaxRun <- 4
Platform == INSTANCE PlatformMemory WITH
    Top <- 9, Page <- 2, MaxMemories <- 2, MaxReservations <- 2
\* One process in a tree of three Jobs, and two processes in a tree of two.
Jobs == INSTANCE JobKill WITH
    failed <- kill_failed, Job <- 1 .. 3, Proc <- 1 .. 1, Maker <- {"m1"}, MaxDepth <- 3,
    Target <- 2, PageSize <- 1, Stalls <- 2, Renewals <- 1
Members == INSTANCE JobKill WITH
    failed <- kill_failed, Job <- 1 .. 2, Proc <- 1 .. 2, Maker <- {"m1"}, MaxDepth <- 3,
    Target <- 2, PageSize <- 1, Stalls <- 2, Renewals <- 1

safeVars == <<drain, queue, parked, at, class, entry, used, served, turns, rung>>
readyVars == <<outstanding, cap, len, open, away, lock>>
timersVars == <<q, ref, expired, timer_now, slots>>
clockVars == <<geometry, ticks, high_ticks, high_ns, failed, reader, best, lost, faults>>
tableVars == <<root, size, reference>>
pagetableVars == <<tree, client, spare, view, cursor, fault, begun, story>>
poolsVars == <<pool, task, owner, free, boot, requests>>
supplyVars == <<input, plan, heap_next, recovery_next>>
framesVars == <<arenas, metadata, free_frames, held>>
platformVars == <<phase, memories, reservations, no_map, direct, dtb, package, ram, kept, holes>>
jobsVars == <<job, proc, maker, sealer, frames, slot, kill_failed, renewals>>

\* A component that is not under check rests in one state.
hartsRests == pc = 0 /\ cur = 0 /\ ready = 0 /\ idle_mask = 0 /\ st = 0 /\ debts = 0 /\ bell = 0 /\
              ssip = 0 /\ missed = 0 /\ now = 0 /\ timer = 0 /\ deadline = 0 /\ home = 0 /\
              terminating = 0 /\ REQUESTED = 0 /\ STOPPED = 0
safeRests == drain = 0 /\ queue = 0 /\ parked = 0 /\ at = 0 /\ class = 0 /\ entry = 0 /\
             used = 0 /\ served = 0 /\ turns = 0 /\ rung = 0
readyRests == outstanding = 0 /\ cap = 0 /\ len = 0 /\ open = 0 /\ away = 0 /\ lock = 0
timersRests == q = 0 /\ ref = 0 /\ expired = 0 /\ timer_now = 0 /\ slots = 0
clockRests == geometry = 0 /\ ticks = 0 /\ high_ticks = 0 /\ high_ns = 0 /\ failed = 0 /\
              reader = 0 /\ best = 0 /\ lost = 0 /\ faults = 0
tableRests == root = 0 /\ size = 0 /\ reference = 0
pagetableRests == tree = 0 /\ client = 0 /\ spare = 0 /\ view = 0 /\ cursor = 0 /\ fault = 0 /\
                  begun = 0 /\ story = 0
poolsRests == pool = 0 /\ task = 0 /\ owner = 0 /\ free = 0 /\ boot = 0 /\ requests = 0
supplyRests == input = 0 /\ plan = 0 /\ heap_next = 0 /\ recovery_next = 0
framesRests == arenas = 0 /\ metadata = 0 /\ free_frames = 0 /\ held = 0
platformRests == phase = 0 /\ memories = 0 /\ reservations = 0 /\ no_map = 0 /\ direct = 0 /\
                 dtb = 0 /\ package = 0 /\ ram = 0 /\ kept = 0 /\ holes = 0
jobsRests == job = 0 /\ proc = 0 /\ maker = 0 /\ sealer = 0 /\ frames = 0 /\ slot = 0 /\
             kill_failed = 0 /\ renewals = 0

all == <<which, vars, safeVars, readyVars, timersVars, clockVars, tableVars, pagetableVars, poolsVars, supplyVars, framesVars, platformVars, jobsVars>>

SumInit ==
    /\ which \in {"harts", "safe", "ready", "timers", "clock", "table", "pagetable", "pools",
                  "supply", "frames", "platform", "jobs", "members"}
    /\ IF which = "harts" THEN Init ELSE hartsRests
    /\ IF which = "safe" THEN Safe!Init ELSE safeRests
    /\ IF which = "ready" THEN Ready!Init ELSE readyRests
    /\ IF which = "timers" THEN Timers!Init ELSE timersRests
    /\ IF which = "clock" THEN Clock!Init ELSE clockRests
    /\ IF which = "table" THEN Table!Init ELSE tableRests
    /\ IF which = "pagetable" THEN PageTree!Init ELSE pagetableRests
    /\ IF which = "pools" THEN Pools!Init ELSE poolsRests
    /\ IF which = "supply" THEN Supply!Init ELSE supplyRests
    /\ IF which = "frames" THEN Frames!Init ELSE framesRests
    /\ IF which = "platform" THEN Platform!Init ELSE platformRests
    /\ CASE which = "jobs" -> Jobs!Init [] which = "members" -> Members!Init [] OTHER -> jobsRests

\* Only one component moves.
hartsOnly == UNCHANGED <<which, safeVars, readyVars, timersVars, clockVars, tableVars,
                         pagetableVars, poolsVars, supplyVars, framesVars, platformVars, jobsVars>>
safeOnly == UNCHANGED <<which, vars, readyVars, timersVars, clockVars, tableVars, pagetableVars,
                        poolsVars, supplyVars, framesVars, platformVars, jobsVars>>
readyOnly == UNCHANGED <<which, vars, safeVars, timersVars, clockVars, tableVars, pagetableVars,
                         poolsVars, supplyVars, framesVars, platformVars, jobsVars>>
timersOnly == UNCHANGED <<which, vars, safeVars, readyVars, clockVars, tableVars, pagetableVars,
                          poolsVars, supplyVars, framesVars, platformVars, jobsVars>>
clockOnly == UNCHANGED <<which, vars, safeVars, readyVars, timersVars, tableVars, pagetableVars,
                         poolsVars, supplyVars, framesVars, platformVars, jobsVars>>
tableOnly == UNCHANGED <<which, vars, safeVars, readyVars, timersVars, clockVars, pagetableVars,
                         poolsVars, supplyVars, framesVars, platformVars, jobsVars>>
pagetableOnly == UNCHANGED <<which, vars, safeVars, readyVars, timersVars, clockVars, tableVars,
                             poolsVars, supplyVars, framesVars, platformVars, jobsVars>>
poolsOnly == UNCHANGED <<which, vars, safeVars, readyVars, timersVars, clockVars, tableVars,
                         pagetableVars, supplyVars, framesVars, platformVars, jobsVars>>
supplyOnly == UNCHANGED <<which, vars, safeVars, readyVars, timersVars, clockVars, tableVars,
                          pagetableVars, poolsVars, framesVars, platformVars, jobsVars>>
framesOnly == UNCHANGED <<which, vars, safeVars, readyVars, timersVars, clockVars, tableVars,
                          pagetableVars, poolsVars, supplyVars, platformVars, jobsVars>>
platformOnly == UNCHANGED <<which, vars, safeVars, readyVars, timersVars, clockVars, tableVars,
                            pagetableVars, poolsVars, supplyVars, framesVars, jobsVars>>
jobsOnly == UNCHANGED <<which, vars, safeVars, readyVars, timersVars, clockVars, tableVars,
                        pagetableVars, poolsVars, supplyVars, framesVars, platformVars>>

\* These may come to an end of their own.
Ended == which \in {"harts", "timers", "clock", "pools", "supply", "frames", "platform", "jobs", "members", "pagetable"} /\ UNCHANGED all

SumNext ==
    \/ which = "harts" /\ Next /\ hartsOnly
    \/ which = "safe" /\ Safe!Next /\ safeOnly
    \/ which = "ready" /\ Ready!Next /\ readyOnly
    \/ which = "timers" /\ Timers!Next /\ timersOnly
    \/ which = "clock" /\ Clock!Next /\ clockOnly
    \/ which = "table" /\ Table!Next /\ tableOnly
    \/ which = "pagetable" /\ PageTree!Next /\ pagetableOnly
    \/ which = "pools" /\ Pools!Next /\ poolsOnly
    \/ which = "supply" /\ Supply!Next /\ supplyOnly
    \/ which = "frames" /\ Frames!Next /\ framesOnly
    \/ which = "platform" /\ Platform!Next /\ platformOnly
    \/ which = "jobs" /\ Jobs!Next /\ jobsOnly
    \/ which = "members" /\ Members!Next /\ jobsOnly
    \/ Ended

SumSpec == SumInit /\ [][SumNext]_all

-----------------------------------------------------------------------------
\* Two harts of one domain: a thread is held once, no hart sleeps on work, and every admission to a
\* ready queue, after any mix of batches, pops and rollbacks, finds the storage that its
\* reservation made.
DomainAwake ==
    /\ which = "harts" => TypeOK /\ HeldOnce /\ NoSleepOnWork
    /\ which = "ready" => Ready!CreditsCovered

\* A safe point shares its budget among the classes that were pending, and rings again for what
\* it leaves behind.
SafePointsShare == which = "safe" => Safe!TypeOK /\ Safe!BudgetShared /\ Safe!LeftoverRung

\* The timer heap gives what an ordered set of deadlines gives, whichever entries were cancelled and
\* reused, and what is parked in it is paid for; the clock that drives it never runs backwards
\* between harts, raises no false alarm, and every deadline that can be asked for can be read.
TimeKept ==
    /\ which = "timers" => Timers!QueueIsReference /\ Timers!ParkedIsPaid
    /\ which = "clock" => Clock!ReadsOrdered /\ Clock!NoFalseAlarm /\ Clock!DeadlinesReadable


\* The balanced tree is the table it stands for, and a scan of it misses nothing.
TableExact == which = "table" => Table!TreeIsTable /\ Table!ScansExact

\* Every page of a Pool is free, held or charged exactly once, through every failed transaction; a
\* funded page was paid for and a quota is backed.
PoolsExact == which = "pools" => Pools!AccountsExact /\ Pools!PagesPaid /\ Pools!QuotaIsBacked

\* The memory lists of the platform keep every usable page and give away no reserved one, the
\* boot's plan of them is a partition, and the frame pool made from it lends every frame once and
\* knows which are free.
SupplyExact ==
    /\ which = "platform" => Platform!ListsExact /\ Platform!PlacementSafe
    /\ which = "supply" => Supply!PlanIsPartition
    /\ which = "frames" => Frames!InventoryExact

\* A Job dies only with everything below it, a kill misses nothing that was being created, and the
\* machine reports only what it has let go of; under a seal nothing begins.
JobsEnd ==
    /\ [](which = "jobs" => Jobs!DeathIsBelow /\ Jobs!KillIsComplete /\ Jobs!SourceGoneFirst)
    /\ [](which = "members" => Members!DeathIsBelow /\ Members!KillIsComplete /\ Members!SourceGoneFirst)
    /\ [][(which = "jobs" => Jobs!SealStep) /\ (which = "members" => Members!SealStep)]_jobsVars
=============================================================================
