------------------------------ MODULE MCMemory ------------------------------
(*****************************************************************************)
(* The memory of processes, one component at a time: a behaviour is one of   *)
(* the map, unmap and protect calls of a process, of the translation         *)
(* changes between harts, or of the assembly of processes.                   *)
(*****************************************************************************)
EXTENDS MemorySpace

CONSTANTS h1, h2

Moving == Permutations(Thread) \cup Permutations({h1, h2})

\* A process starts with one anonymous page and a writable view of a MemoryObject, as after a first
\* map, and has two threads.
\* What a map asks for: guard pages before and after, the place
\* (none means anywhere), the backing and protection,
\* and the page of the result slot (a Tunnel has none).
Request(before, pages, after, at, back, cur, lease) ==
    [before |-> before, pages |-> pages, after |-> after, at |-> at, back |-> back,
     cur |-> cur, lease |-> lease]

MCMapRequest ==
    {Request(0, 1, 1, {}, "Anon", "RW", {0}),
     Request(0, 1, 0, {1}, Public, "RW", {0}),
     Request(0, 1, 0, {}, Public, "RX", {0}),
     Request(0, 1, 0, {}, Connection, "RW", {})}

MCCallRange == {{0}, {1}, {1, 2}, {2, 3}}
EveryRange == MCCallRange \cup {{2}, {3}}

Region(key, lo, hi, back) ==
    [key |-> key, alloc |-> key, lo |-> lo, hi |-> hi, owner |-> 0, back |-> back, off |-> 0,
     cur |-> "RW", max |-> "RW", permit |-> back \in Object]

MCInitialRegions == {Region(1, 0, 0, "Anon"), Region(2, 1, 2, Public)}

\* Two harts, two processes, two slots a hart.  The first process may commit two changes; the
\* epochs of the second are exhausted.
MCFirstEpoch == [s1 |-> 2, s2 |-> 4]

\* A thread assembles a process; a second one interferes with it, or assembles a process of its own.
Call(k, p, w) == [k |-> k, p |-> p, w |-> w]
Assembly(p, h) == <<Call("create", p, 0), Call("bind", p, h), Call("map", p, 1), Call("map", p, 2), Call("exec", p, 0),
                    Call("attach", p, 0), Call("start", p, 0), Call("drop", p, 0)>>
MCCasts == {<<Assembly(1, 1), s>> :
               s \in {<<Call("bind", 1, 2), Call("close", 1, 0)>>, <<Call("map", 1, 1), Call("kill", 1, 0)>>,
                      <<Call("attach", 1, 0), Call("close", 1, 0)>>, <<Call("start", 1, 0), Call("kill", 1, 0)>>,
                      <<Call("create", 2, 0), Call("bind", 2, 2), Call("kill", 2, 0), Call("drop", 2, 0)>>}}
           \cup {<<<<Call("boot", 1, 1), Call("kill", 1, 0), Call("drop", 1, 0)>>, <<>>>>}
MCLimit == [sponsor |-> 2, core |-> 2, builder |-> 2, control |-> 2, space |-> 2, region |-> 1, slice |-> 5]
MCLocal == [core |-> 1, builder |-> 1, control |-> 1, space |-> 1, region |-> 1, slice |-> 4]
\* The rest of the system leaves one class without a slot, or few pages in the Pool.
MCLoads == LET none == [c \in DOMAIN MCLimit |-> 0] IN
    {[adm |-> none, pages |-> 0]} \cup {[adm |-> [none EXCEPT ![c] = MCLimit[c]], pages |-> 0] : c \in DOMAIN MCLimit}
    \cup {[adm |-> none, pages |-> n] : n \in {2, 4, 5, 7, 8}}

VARIABLES
    which,   \* the component under check, frozen
    pc, space, drained, expected, local, tlb, icache, phase, value, taken, batch, snapshot, fresh,
    active, epochs, stage, remaining, kind, owner, terminating, reaped,
    proc, op, adm, pool, script, faults, load

Shootdown == INSTANCE Shootdown WITH
    Hart <- {h1, h2}, Space <- {"s1", "s2"}, NoSpace <- "none", SLOTS_PER_HART <- 2,
    FirstEpoch <- MCFirstEpoch, MaxEpoch <- 4, CodeChange <- {3}, Mortal <- {"s1"}
Build == INSTANCE ProcessBuild WITH
    Pids <- {1, 2}, Threads <- {1, 2}, Limit <- MCLimit, Local <- MCLocal, PoolPages <- 8,
    MaxFaults <- 2, Casts <- MCCasts, Loads <- MCLoads

shootdownVars == <<pc, space, drained, expected, local, tlb, icache, phase, value, taken, batch,
                   snapshot, fresh, active, epochs, stage, remaining, kind, owner, terminating,
                   reaped>>
buildVars == <<proc, op, adm, pool, script, faults, load>>

\* A component that is not under check rests in one state.
spaceRests == regions = 0 /\ next_region = 0 /\ next_alloc = 0 /\ changes = 0 /\
              table_active = 0 /\ backings = 0 /\ views = 0 /\ object = 0 /\ leases = 0 /\
              call = 0 /\ closed = 0
shootdownRests == pc = 0 /\ space = 0 /\ drained = 0 /\ expected = 0 /\ local = 0 /\ tlb = 0 /\
                  icache = 0 /\ phase = 0 /\ value = 0 /\ taken = 0 /\ batch = 0 /\ snapshot = 0 /\
                  fresh = 0 /\ active = 0 /\ epochs = 0 /\ stage = 0 /\ remaining = 0 /\
                  kind = 0 /\ owner = 0 /\ terminating = 0 /\ reaped = 0
buildRests == proc = 0 /\ op = 0 /\ adm = 0 /\ pool = 0 /\ script = 0 /\ faults = 0 /\ load = 0

all == <<which, vars, shootdownVars, buildVars>>

SumInit ==
    /\ which \in {"space", "shootdown", "build"}
    /\ IF which = "space" THEN Init ELSE spaceRests
    /\ IF which = "shootdown" THEN Shootdown!Init ELSE shootdownRests
    /\ IF which = "build" THEN Build!Init ELSE buildRests

\* Only one component moves.
spaceOnly == UNCHANGED <<which, shootdownVars, buildVars>>
shootdownOnly == UNCHANGED <<which, vars, buildVars>>
buildOnly == UNCHANGED <<which, vars, shootdownVars>>

\* These may come to an end of their own.
Ended == which \in {"space", "build"} /\ UNCHANGED all

SumNext ==
    \/ which = "space" /\ Next /\ spaceOnly
    \/ which = "shootdown" /\ Shootdown!Next /\ shootdownOnly
    \/ which = "build" /\ Build!Next /\ buildOnly
    \/ Ended

SumSpec == SumInit /\ [][SumNext]_all

-----------------------------------------------------------------------------

\* A sealed object is not writable through any region, present or planned.
SealsHold == which = "space" => SealedNotWritable

\* The calls of the process alone.
SpaceSpec == SumInit /\ which = "space" /\ [][SumNext]_all

\* A page is installed for one region, and stays owned until no hart can reach it.
PagesOwned == which = "space" => PagesOnce /\ OwnersKept

\* No hart runs on a translation or an instruction that a completed change has replaced, whatever
\* slots, activations and ends of processes do meanwhile.
TranslationsCurrent ==
    which = "shootdown" =>
        /\ Shootdown!TypeOK /\ Shootdown!NoStaleCaches /\ Shootdown!CompletionSound
        /\ Shootdown!RecordsCurrent /\ Shootdown!ReapedIsQuiet

\* Slots, pages and pins of a process under construction are owned by it or by a call, a started or
\* reapable process grows no more, and whatever fails or dies leaves nothing behind.
BuildsSettle ==
    /\ [](which = "build" => Build!TypeOK /\ Build!OwnersExact /\ Build!QuietSettled)
    /\ [][which = "build" => Build!InventoryStep]_buildVars
=============================================================================
