----------------------------- MODULE MCMessages -----------------------------
(*****************************************************************************)
(* How processes and services reach each other, one component at a time: a   *)
(* behaviour is one of the waits and wait sets over an object, of the        *)
(* transfer of capabilities through mailboxes, of a tunnel, of calls and     *)
(* replies between services, of registrations, or of the requests of the     *)
(* file service.                                                             *)
(*****************************************************************************)
EXTENDS WaitSets, TLC

CONSTANTS t1, t2

Sinks == Thread \cup Cycle
Readable == [s \in Sinks |-> {"READABLE"}]

Program(calls1, calls2) == (t1 :> calls1) @@ (t2 :> calls2)

\* In turn: a registration is used while the other thread removes it or closes the set; it is
\* signalled by the other thread; a second one is registered and removed while the first
\* retires; a thread waits for the set, its source or both while the set is used and closed; the
\* serial of the source is exhausted; both threads remove, close and signal; two registrations
\* of a set that is closed.
SmallPrograms ==
    {Program(<<{"register"}, {"signal"}, {"receive"}, {"rearm"}, {"signal"}>>, <<{"remove", "close"}>>),
     Program(<<{"register"}, {"receive"}, {"take"}, {"rearm"}>>, <<{"signal"}, {"signal"}>>),
     Program(<<{"register"}, {"remove"}, {"register"}, {"signal"}, {"remove"}>>, <<>>),
     Program(<<{"register"}, {"signal"}, {"receive"}, {"close"}>>, <<{"wait"}>>),
     Program(<<{"signal"}, {"take"}, {"signal", "close_owner"}, {"take"}, {"signal"}>>, <<{"register", "wait"}>>),
     Program(<<{"register"}, {"remove", "close"}>>, <<{"remove", "close"}, {"signal", "close_owner"}>>),
     Program(<<{"register"}, {"register"}, {"close"}>>, <<>>)}

\* Two threads of a parent, one of its child.
MCProcOf == <<"parent", "parent", "child">>
MCLimit == [parent |-> 5, child |-> 2]
MCDrainer == [parent |-> 8, child |-> 9]

\* Two threads of the creator, two of its peer.
MCSideOf == [c1 |-> 0, c2 |-> 0, a1 |-> 1, a2 |-> 1]

\* One call with two faults, from either phase of the task, to a service that is full or not; and two
\* calls without a fault.
MCScenario ==
    {[calls |-> {1}, faults |-> 2, phase |-> n, full |-> f] : n \in {0, 5}, f \in {{}, {1}}}
    \cup {[calls |-> {1, 2}, faults |-> 0, phase |-> 0, full |-> {}]}

\* Registrations: one under any two disturbances, two of one name under three of them, a directory
\* being paged through, versions running out, and a delegated authority.
Disturbances == {"late", "dead", "drop", "gone", "refuse", "drain", "withdraw", "stop"}
MCMoods == {{x, y} : x, y \in Disturbances} \cup {{x, "again"} : x \in {"dead", "drop", "withdraw"}}
           \cup {{"again", "read", "drain"}, {"again", "worn", "drain"}}
           \cup {{"delegate", x} : x \in {"drop", "withdraw", "refuse"}}

\* Requests: competing Takes and a write, a Read and a Delegate over one Dispatcher, slots that run
\* out, and a stop.
Story(a, b, k, mood) == [kind |-> <<a, b, k>>, mood |-> mood]
MCStories == {Story("take", "write", "take", {"gone"}), Story("take", "take", "malformed", {"late", "stop", "busy"}),
              Story("take", "call", "revoked", {"refuse", "gone", "stop"}),
              Story("read", "delegate", "call", {"fails", "late"}), Story("read", "delegate", "revoked", {"gone"}), Story("read", "delegate", "revoked", {"stop"}),
              Story("read", "read", "delegate", {"stop"}), Story("delegate", "delegate", "take", {"fails", "refuse"})}

VARIABLES
    which,   \* the component under check, frozen
    table, queue, receiving, box_closed, level, minted, box_life, box_lease, cursor, box_pc, held,
    made, ended, dead,
    sides, lease, permit, endpoint, signals, closure, notice, retired, invitation, revoked, life,
    tunnel_pc,
    d, env,
    caller, port, service, outbox, reply_env,
    g, task, auth, ctl, overdue, gone, owed, world, mood, rd,
    front, story

Mailboxes == INSTANCE Mailboxes WITH
    closed <- box_closed, life <- box_life, lease <- box_lease, pc <- box_pc, calls <- made,
    Parent <- "parent", Child <- "child", Thread <- 1 .. 3, ProcOf <- MCProcOf, Limit <- MCLimit,
    Drainer <- MCDrainer, MAILBOX_CAPACITY <- 2, MaxCalls <- <<2, 1, 2>>, MaxGeneration <- 2
Tunnel == INSTANCE Tunnel WITH
    pc <- tunnel_pc, Thread <- {"c1", "c2", "a1", "a2"}, SideOf <- MCSideOf, Page <- {1, 2}
Rpc == INSTANCE Dispatcher WITH
    Tx <- {1, 2}, Budget <- 7, Deadline <- <<1, 1>>, MaxTime <- 1, Scenario <- MCScenario
Replies == INSTANCE Replies WITH
    env <- reply_env, Tx <- {1, 2}, MaxFaults <- 1
Registration == INSTANCE Registration WITH
    late <- overdue, dead <- gone, Instance <- {1, 2}, Name <- {1, 2}, Authority <- {1, 2},
    Limit <- 2, MaxVersion <- 5, Scenarios <- MCMoods
Ingress == INSTANCE Ingress WITH
    g <- front, sc <- story, N <- 3, Slots <- 2, Calls <- 1, Exports <- 2, Scenarios <- MCStories

mailboxesVars == <<table, queue, receiving, box_closed, level, minted, box_life, box_lease, cursor,
                   box_pc, held, made, ended, dead>>
tunnelVars == <<sides, lease, permit, endpoint, signals, closure, notice, retired, invitation,
                revoked, life, tunnel_pc>>
callsVars == <<d, env>>
repliesVars == <<caller, port, service, outbox, reply_env>>
registrationVars == <<g, task, auth, ctl, overdue, gone, owed, world, mood, rd>>
ingressVars == <<front, story>>

\* A component that is not under check rests in one state.
setsRests == program = 0 /\ obj = 0 /\ pending = 0 /\ closed = 0 /\ core = 0 /\ fin = 0 /\
             debt = 0 /\ todo = 0 /\ late = 0 /\ entry = 0 /\ source_id = 0 /\ ready = 0 /\
             retire = 0 /\ closing = 0 /\ closer = 0 /\ work = 0 /\ pc = 0 /\ token = 0 /\
             ret = 0 /\ op = 0 /\ failed = 0 /\ groups = 0 /\ remembered = 0
mailboxesRests == table = 0 /\ queue = 0 /\ receiving = 0 /\ box_closed = 0 /\ level = 0 /\
                  minted = 0 /\ box_life = 0 /\ box_lease = 0 /\ cursor = 0 /\ box_pc = 0 /\
                  held = 0 /\ made = 0 /\ ended = 0 /\ dead = 0
tunnelRests == sides = 0 /\ lease = 0 /\ permit = 0 /\ endpoint = 0 /\ signals = 0 /\
               closure = 0 /\ notice = 0 /\ retired = 0 /\ invitation = 0 /\ revoked = 0 /\
               life = 0 /\ tunnel_pc = 0
callsRests == d = 0 /\ env = 0
repliesRests == caller = 0 /\ port = 0 /\ service = 0 /\ outbox = 0 /\ reply_env = 0
registrationRests == g = 0 /\ task = 0 /\ auth = 0 /\ ctl = 0 /\ overdue = 0 /\ gone = 0 /\
                     owed = 0 /\ world = 0 /\ mood = 0 /\ rd = 0
ingressRests == front = 0 /\ story = 0

all == <<which, vars, mailboxesVars, tunnelVars, callsVars, repliesVars, registrationVars, ingressVars>>

SumInit ==
    /\ which \in {"sets", "mailboxes", "tunnel", "calls", "replies", "registration", "ingress"}
    /\ IF which = "sets" THEN Init ELSE setsRests
    /\ IF which = "mailboxes" THEN Mailboxes!Init ELSE mailboxesRests
    /\ IF which = "tunnel" THEN Tunnel!Init ELSE tunnelRests
    /\ IF which = "calls" THEN Rpc!Init ELSE callsRests
    /\ IF which = "replies" THEN Replies!Init ELSE repliesRests
    /\ IF which = "registration" THEN Registration!Init ELSE registrationRests
    /\ IF which = "ingress" THEN Ingress!Init ELSE ingressRests

\* Only one component moves.
setsOnly == UNCHANGED <<which, mailboxesVars, tunnelVars, callsVars, repliesVars, registrationVars,
                        ingressVars>>
mailboxesOnly == UNCHANGED <<which, vars, tunnelVars, callsVars, repliesVars, registrationVars,
                             ingressVars>>
tunnelOnly == UNCHANGED <<which, vars, mailboxesVars, callsVars, repliesVars, registrationVars,
                          ingressVars>>
callsOnly == UNCHANGED <<which, vars, mailboxesVars, tunnelVars, repliesVars, registrationVars,
                         ingressVars>>
repliesOnly == UNCHANGED <<which, vars, mailboxesVars, tunnelVars, callsVars, registrationVars,
                           ingressVars>>
registrationOnly == UNCHANGED <<which, vars, mailboxesVars, tunnelVars, callsVars, repliesVars,
                                ingressVars>>
ingressOnly == UNCHANGED <<which, vars, mailboxesVars, tunnelVars, callsVars, repliesVars,
                           registrationVars>>

SumNext ==
    \/ which = "sets" /\ Next /\ setsOnly
    \/ which = "mailboxes" /\ Mailboxes!Next /\ mailboxesOnly
    \/ which = "tunnel" /\ Tunnel!Next /\ tunnelOnly
    \/ which = "calls" /\ Rpc!Next /\ callsOnly
    \/ which = "replies" /\ Replies!Next /\ repliesOnly
    \/ which = "registration" /\ Registration!Next /\ registrationOnly
    \/ which = "ingress" /\ Ingress!Next /\ ingressOnly

SumSpec == SumInit /\ [][SumNext]_all

-----------------------------------------------------------------------------
\* A signal that satisfies a wait or a registration is never missed, whatever registers, removes,
\* closes and notifies meanwhile.
SignalsArrive == which = "sets" => NothingMissed

\* Every slot, ready entry and retiring registration of a set is where its state says, and when
\* nothing is under way any more, no wait and no close is left hanging.
SetsExact == which = "sets" => TypeOK /\ SlotsHeld /\ ReadyExact /\ RetiredIsGone /\ QuietIsSettled

\* A capability in a message is held once, by a table, a message or a call, through every failed or
\* interrupted transfer; slots belong to their transactions, dead handle values stay dead, and the
\* signals of a mailbox are those of its contents.
TransfersExact ==
    which = "mailboxes" =>
        /\ Mailboxes!TypeOK /\ Mailboxes!CapabilitiesHeldOnce /\ Mailboxes!TransactionsOwnSlots
        /\ Mailboxes!HandlesStayDead /\ Mailboxes!LevelIsCurrent

\* The survivor of a tunnel learns that its peer is gone, and only when the peer's pages are.
TunnelsClose == which = "tunnel" => Tunnel!TypeOK /\ Tunnel!SurvivorInformed /\ Tunnel!ClosedAfterRetire

\* A call of the user-space dispatcher has one owner and one result, is offered when nothing can wake
\* its task any more; a reply carries its authority once, its sender knows whether it arrived, and no
\* reply idles.
CallsSettle ==
    /\ [](which = "calls" => Rpc!CallsOwn /\ Rpc!QuietIsOffered)
    /\ [][which = "calls" => Rpc!ResultStep]_callsVars
    /\ [](which = "replies" => Replies!VerdictsTrue /\ Replies!AuthorityOnce /\ Replies!NoIdleReply)

\* A name belongs to the registration that holds it, an endpoint is kept as long as a source watches
\* it, a listing is that of one moment and nothing is left when all is quiet; a step that drains one
\* instance leaves its replacement alone.
RegistrySound ==
    /\ [](which = "registration" =>
             /\ Registration!NamesExact /\ Registration!EndpointKept
             /\ Registration!ListingWhole /\ Registration!QuietSettled)
    /\ [][which = "registration" => Registration!ReplacementStep]_registrationVars

=============================================================================
