----------------------------- MODULE MCServices -----------------------------
(*****************************************************************************)
(* The objects of the file service and the threads of a user program, one    *)
(* component at a time: a behaviour is one of the component chosen in the    *)
(* initial state.                                                            *)
(*****************************************************************************)
EXTENDS Integers, Sequences, FiniteSets

\* Trees: two cross moves that would close a cycle, a small tree with every mutation, a property that
\* is taken and rewritten, and a directory that changes while it is listed.
NoEntry == [n \in {1, 2} |-> 0]
Entry(x, n) == [NoEntry EXCEPT ![x] = n]
Node(kind, parent, entries) ==
    [live |-> TRUE, kind |-> kind, entries |-> entries, parent |-> parent, version |-> 1, taken |-> FALSE,
     value |-> IF kind = "prop" THEN 1 ELSE 0, links |-> 1, pins |-> 0, queued |-> FALSE]
\* 1/{1: 2/{1: 3}, 2: 4/{1: 5/{1: 6}}}: moving 2 below 6 and 5 below 3 touches disjoint directories.
Cross ==
    [nodes |-> <<Node("dir", 0, [Entry(1, 2) EXCEPT ![2] = 4]), Node("dir", 1, Entry(1, 3)), Node("dir", 2, NoEntry),
                 Node("dir", 1, Entry(1, 5)), Node("dir", 4, Entry(1, 6)), Node("dir", 5, NoEntry)>>,
     grants |-> <<1, 6, 3>>, mood |-> {"move"}, mutations |-> 0, requests |-> 2]
Small ==
    [nodes |-> <<Node("dir", 0, Entry(1, 2)), Node("dir", 1, Entry(1, 3)), Node("prop", 2, NoEntry)>>,
     grants |-> <<1, 2, 0>>, mood |-> {"create", "delete", "move", "close", "derive"}, mutations |-> 2, requests |-> 1]
Property ==
    [nodes |-> <<Node("dir", 0, [Entry(1, 2) EXCEPT ![2] = 3]), Node("prop", 1, NoEntry), Node("prop", 1, NoEntry)>>,
     grants |-> <<1, 0, 0>>, mood |-> {"take", "write", "delete"}, mutations |-> 2, requests |-> 2]
Lists ==
    [nodes |-> <<Node("dir", 0, [Entry(1, 2) EXCEPT ![2] = 3]), Node("prop", 1, NoEntry), Node("dir", 1, NoEntry)>>,
     grants |-> <<1, 0, 0>>, mood |-> {"list", "delete", "create", "take"}, mutations |-> 2, requests |-> 1]

\* Two grants and one slot, two subscriptions of one node, and a grant beside a subscription.
MCCasts == {[tasks |-> {1, 2}, changes |-> 0], [tasks |-> {3, 4}, changes |-> 1], [tasks |-> {1, 3}, changes |-> 2]}

\* A Read that is cancelled, a Read that meets a fault, a Write of two units that is finished, and a
\* Write that meets a fault while its client sends more than it declared.
Session(dir, ring, limit, total, asked, fails) ==
    [dir |-> dir, ring |-> ring, limit |-> limit, total |-> total, ops |-> asked, faults |-> fails]
MCSessions == {Session("Read", 1, 0, 0, <<"Start", "Cancel">>, 0), Session("Read", 1, 0, 0, <<"Start">>, 1),
               Session("Write", 1, 2, 2, <<"Start", "Finish">>, 0), Session("Write", 1, 1, 2, <<"Start">>, 1)}
\* A chain of spawns, two spawns into a registry that is full with them, and two into one with room.
Spawns(s) == [t \in 0..2 |-> s[t + 1]]
MCPrograms == {[capacity |-> 2, spawns |-> Spawns(<<<<1>>, <<2>>, <<>>>>)],
               [capacity |-> 2, spawns |-> Spawns(<<<<1, 2>>, <<>>, <<>>>>)],
               [capacity |-> 3, spawns |-> Spawns(<<<<1, 2>>, <<>>, <<>>>>)]}

VARIABLES
    which,   \* the component under check, frozen
    t, r, grants, ops, lister, left, tree,
    grant, watch, changer, node, table, slots, gate, woken, client, stop, changes, cast,
    p, e, w, controls, ready, now, faults, session,
    program, records, sealed, cursor, kernel, stack, control, residue, cell, value, at, held, busy,
    aborted

Tree == INSTANCE FalTree WITH
    sc <- tree, Names <- {1, 2}, MaxId <- 6, Grants <- {1, 2, 3}, Ops <- {1, 2}, Budget <- 2,
    PageLimit <- 1, Values <- {0, 3}, Trees <- {Cross, Small, Property, Lists}
Watch == INSTANCE FalWatch WITH
    ready <- woken, left <- changes, Grants <- {1, 2}, Watches <- {3, 4}, Changers <- {1},
    WakeRoom <- 1, Slots <- 1, MaxRefusals <- 1, Casts <- MCCasts
Stream == INSTANCE FalStream WITH
    ctl <- controls, sc <- session, Size <- 2, Chunk <- 2, Scenarios <- MCSessions
Threads == INSTANCE UserThreads WITH
    slots <- records, Programs <- MCPrograms, MaxBusy <- 1

treeVars == <<t, r, grants, ops, lister, left, tree>>
watchVars == <<grant, watch, changer, node, table, slots, gate, woken, client, stop, changes, cast>>
streamVars == <<p, e, w, controls, ready, now, faults, session>>
threadsVars == <<program, records, sealed, cursor, kernel, stack, control, residue, cell, value,
                 at, held, busy, aborted>>

\* A component that is not under check rests in one state.
treeRests == t = 0 /\ r = 0 /\ grants = 0 /\ ops = 0 /\ lister = 0 /\ left = 0 /\ tree = 0
watchRests == grant = 0 /\ watch = 0 /\ changer = 0 /\ node = 0 /\ table = 0 /\ slots = 0 /\
              gate = 0 /\ woken = 0 /\ client = 0 /\ stop = 0 /\ changes = 0 /\ cast = 0
streamRests == p = 0 /\ e = 0 /\ w = 0 /\ controls = 0 /\ ready = 0 /\ now = 0 /\ faults = 0 /\
               session = 0
threadsRests == program = 0 /\ records = 0 /\ sealed = 0 /\ cursor = 0 /\ kernel = 0 /\
                stack = 0 /\ control = 0 /\ residue = 0 /\ cell = 0 /\ value = 0 /\ at = 0 /\
                held = 0 /\ busy = 0 /\ aborted = 0

all == <<which, treeVars, watchVars, streamVars, threadsVars>>

SumInit ==
    /\ which \in {"tree", "watch", "stream", "threads"}
    /\ IF which = "tree" THEN Tree!Init ELSE treeRests
    /\ IF which = "watch" THEN Watch!Init ELSE watchRests
    /\ IF which = "stream" THEN Stream!Init ELSE streamRests
    /\ IF which = "threads" THEN Threads!Init ELSE threadsRests

\* Only one component moves.
treeOnly == UNCHANGED <<which, watchVars, streamVars, threadsVars>>
watchOnly == UNCHANGED <<which, treeVars, streamVars, threadsVars>>
streamOnly == UNCHANGED <<which, treeVars, watchVars, threadsVars>>
threadsOnly == UNCHANGED <<which, treeVars, watchVars, streamVars>>

SumNext ==
    \/ which = "tree" /\ Tree!Next /\ treeOnly
    \/ which = "watch" /\ Watch!Next /\ watchOnly
    \/ which = "stream" /\ Stream!Next /\ streamOnly
    \/ which = "threads" /\ Threads!Next /\ threadsOnly

SumSpec == SumInit /\ [][SumNext]_all

-----------------------------------------------------------------------------
\* The tree stays a tree under interleaved moves, leases and reservations are exact, a listing is
\* whole, and what was unlinked is retired.
TreesSound ==
    which = "tree" =>
        /\ Tree!TreeSound /\ Tree!LeasesExact /\ Tree!TakesKept
        /\ Tree!ListsWhole /\ Tree!QuietRetired

\* Grants and subscriptions are exact, no change is missed, and a stop is told to every subscriber.
WatchesTold ==
    which = "watch" =>
        Watch!GrantsExact /\ Watch!NothingMissed /\ Watch!StopTells /\ Watch!RecordsOwned

\* The result of a stream session is what was transported, sources go before what they watch, and an
\* ended session changes its result no more and leaves nothing behind.
SessionsEnd ==
    /\ [](which = "stream" => /\ Stream!TypeOK /\ Stream!ResultTrue
                              /\ Stream!SourcesFirst /\ Stream!QuietSettled)
    /\ [][which = "stream" => Stream!FrozenStep]_streamVars

\* The sessions alone: a Finish that waits when its session is retired has been answered.
FinishAnswered == which = "stream" => Stream!FinishAnswered
StreamSpec == SumInit /\ which = "stream" /\ [][SumNext]_all

\* A thread loses neither its stack nor its residue while it runs, though any thread may reap; every
\* result is moved once, and every stack ends in the hands of one reaper.
ThreadsReaped ==
    which = "threads" =>
        Threads!SlotsOwned /\ Threads!StacksKept /\ Threads!ResultOnce /\ Threads!QuietSettled
=============================================================================
