------------------------------- MODULE Tunnel -------------------------------
(***************************************************************************)
(* One tunnel connection (task/tunnel.rs): the two sides, their mapping    *)
(* leases, the invitation and the endpoints' signals.                      *)
(*                                                                         *)
(* Process 0 creates the connection and is its side 0; process 1 receives  *)
(* the invitation and may attach as side 1.  Every section of the          *)
(* connection lock is one action, and what a call does after it (signals,  *)
(* notices) further ones.  Create, Attach and Close prepare everything     *)
(* before their commit; a preparation that fails changes nothing.  The     *)
(* shootdown that a close waits for ends when every thread of the process  *)
(* has left the kernel.                                                    *)
(***************************************************************************)
EXTENDS Naturals, FiniteSets

CONSTANTS
    Thread,     \* the threads of both processes
    SideOf,     \* the process, and so the side, of a thread
    Page        \* the pages of the connection

Side == {0, 1}
Peer(s) == 1 - s

VARIABLES
    sides,      \* ConnectionState.sides: Alive, Invited, Closed
    lease,      \* the sides with a mapping lease
    permit,     \* the WritePermit of the view of a side: none, view, retiring
    endpoint,   \* none, open (it has a handle), retiring (held by its close), gone
    signals,
    closure,    \* the close of an endpoint: none, retiring, closed, notice
    notice,     \* who is told: none, endpoint, invitation
    retired,    \* the pages whose fragments have arrived (LeaseRetireState.covered)
    invitation, \* where it is: none, creator, transit, peer, gone
    revoked,    \* Invitation.closed
    life,       \* of a process: running, dying, drained
    pc

vars == <<sides, lease, permit, endpoint, signals, closure, notice, retired, invitation, revoked, life, pc>>

Init ==
    /\ sides = [s \in Side |-> "Closed"] /\ lease = {}
    /\ permit = [s \in Side |-> "none"]
    /\ endpoint = [s \in Side |-> "none"]
    /\ signals = [s \in Side |-> {}]
    /\ closure = [s \in Side |-> "none"] /\ notice = [s \in Side |-> "none"]
    /\ retired = [s \in Side |-> {}]
    /\ invitation = "none" /\ revoked = FALSE
    /\ life = [s \in Side |-> "running"]
    /\ pc = [t \in Thread |-> "user"]

Goto(t, l) == pc' = [pc EXCEPT ![t] = l]
Enter(t) == pc[t] = "user" /\ life[SideOf[t]] = "running"

\* ObjectWaitState::update: a closed object is frozen.
Updated(level, clear, set) == IF "CLOSED" \in level THEN level ELSE (level \ clear) \cup set

\* Endpoint::set_signals, on an endpoint that still exists.
set_signals(s, set) ==
    signals' = [signals EXCEPT ![s] =
        IF endpoint[s] \in {"open", "retiring"}
        THEN Updated(@, IF "PEER_CLOSED" \in set THEN {"PEER_ATTACHED"} ELSE {}, set)
        ELSE @]

-----------------------------------------------------------------------------
(* Create and Attach.                                                      *)

\* reserve_mapping .. install_mapping: a failure on the way gives everything back.
install_mapping(s) ==
    /\ lease' = lease \cup {s}
    /\ permit' = [permit EXCEPT ![s] = "view"]
    /\ endpoint' = [endpoint EXCEPT ![s] = "open"]

create(t) ==
    /\ Enter(t) /\ SideOf[t] = 0 /\ endpoint[0] = "none"
    /\ sides' = [s \in Side |-> IF s = 0 THEN "Alive" ELSE "Invited"]
    /\ install_mapping(0)
    /\ invitation' = "creator"
    /\ UNCHANGED <<signals, closure, notice, retired, revoked, life, pc>>

\* The invitation goes to the other process in a message.
send_invitation(t) ==
    /\ Enter(t) /\ SideOf[t] = 0 /\ invitation = "creator"
    /\ invitation' = "transit"
    /\ UNCHANGED <<sides, lease, permit, endpoint, signals, closure, notice, retired, revoked, life, pc>>

receive_invitation(t) ==
    /\ Enter(t) /\ SideOf[t] = 1 /\ invitation = "transit"
    /\ invitation' = "peer"
    /\ UNCHANGED <<sides, lease, permit, endpoint, signals, closure, notice, retired, revoked, life, pc>>

\* The conditions under the connection lock.
Attachable == ~revoked /\ sides[1] = "Invited" /\ sides[0] = "Alive" /\ 1 \notin lease

\* An attach that commits consumes the invitation without its callback.
attach(t) ==
    /\ Enter(t) /\ SideOf[t] = 1 /\ invitation = "peer" /\ Attachable
    /\ sides' = [sides EXCEPT ![1] = "Alive"]
    /\ install_mapping(1)
    /\ invitation' = "gone" /\ revoked' = TRUE
    /\ Goto(t, "attached")
    /\ UNCHANGED <<signals, closure, notice, retired, life>>

\* The locks are gone: first the new endpoint, then its peer.
signal_attached(t) ==
    /\ pc[t] = "attached" /\ set_signals(1, {"PEER_ATTACHED"})
    /\ Goto(t, "signalled")
    /\ UNCHANGED <<sides, lease, permit, endpoint, closure, notice, retired, invitation, revoked, life>>

signal_peer(t) ==
    /\ pc[t] = "signalled" /\ set_signals(0, {"PEER_ATTACHED"})
    /\ Goto(t, "user")
    /\ UNCHANGED <<sides, lease, permit, endpoint, closure, notice, retired, invitation, revoked, life>>

-----------------------------------------------------------------------------
(* Data hints.                                                             *)

\* notify_peer: the peer is looked up under the lock and told without it.
notify(t) ==
    /\ Enter(t) /\ endpoint[SideOf[t]] = "open"
    /\ sides[SideOf[t]] = "Alive" /\ sides[Peer(SideOf[t])] = "Alive"
    /\ Goto(t, "notifying")
    /\ UNCHANGED <<sides, lease, permit, endpoint, signals, closure, notice, retired, invitation, revoked, life>>

set_data(t) ==
    /\ pc[t] = "notifying" /\ set_signals(Peer(SideOf[t]), {"DATA"})
    /\ Goto(t, "user")
    /\ UNCHANGED <<sides, lease, permit, endpoint, closure, notice, retired, invitation, revoked, life>>

acknowledge_data(t) ==
    /\ Enter(t) /\ endpoint[SideOf[t]] = "open" /\ "DATA" \in signals[SideOf[t]]
    /\ signals' = [signals EXCEPT ![SideOf[t]] = Updated(@, {"DATA"}, {})]
    /\ UNCHANGED <<sides, lease, permit, endpoint, closure, notice, retired, invitation, revoked, life, pc>>

-----------------------------------------------------------------------------
(* Close.                                                                  *)

\* commit_side_close: an invited peer side is closed with it.
NoticeOf(s) ==
    CASE sides[Peer(s)] = "Alive" -> "endpoint"
      [] sides[Peer(s)] = "Invited" -> "invitation"
      [] sides[Peer(s)] = "Closed" -> "none"

\* Mutant: the side of the invitation stays invited.
ClosedSides_Self(s) == [sides EXCEPT ![s] = "Closed"]

ClosedSides(s) ==
    [x \in Side |-> IF x = s \/ sides[x] = "Invited" THEN "Closed" ELSE sides[x]]

commit_side_close(s) ==
    /\ sides' = ClosedSides(s)
    /\ lease' = lease \ {s}
    /\ notice' = [notice EXCEPT ![s] = NoticeOf(s)]
    /\ endpoint' = [endpoint EXCEPT ![s] = "retiring"]

\* An explicit close unmaps first.
close_handle(t) ==
    LET s == SideOf[t] IN
    /\ Enter(t) /\ endpoint[s] = "open" /\ sides[s] = "Alive" /\ s \in lease
    /\ commit_side_close(s)
    /\ permit' = [permit EXCEPT ![s] = "retiring"]
    /\ closure' = [closure EXCEPT ![s] = "retiring"]
    /\ UNCHANGED <<signals, retired, invitation, revoked, life, pc>>

\* No thread of the process is in the kernel: the fences are acknowledged.
Synchronized(s) == \A t \in Thread : SideOf[t] = s => pc[t] = "user"

retire_fragment(s) ==
    /\ closure[s] = "retiring" /\ Synchronized(s)
    /\ \E fragment \in SUBSET (Page \ retired[s]) :
          fragment # {} /\ retired' = [retired EXCEPT ![s] = @ \cup fragment]
    /\ UNCHANGED <<sides, lease, permit, endpoint, signals, closure, notice, invitation, revoked, life, pc>>

\* finish: the whole range has arrived and the permit is back.
finish(s) ==
    /\ closure[s] = "retiring" /\ retired[s] = Page
    /\ permit' = [permit EXCEPT ![s] = "none"]
    /\ closure' = [closure EXCEPT ![s] = "closed"]
    /\ UNCHANGED <<sides, lease, endpoint, signals, notice, retired, invitation, revoked, life, pc>>

\* finish_close
publish_closed(s) ==
    /\ closure[s] = "closed"
    /\ signals' = [signals EXCEPT ![s] = Updated(@, {"DATA", "PEER_ATTACHED"}, {"CLOSED"})]
    /\ closure' = [closure EXCEPT ![s] = "notice"]
    /\ UNCHANGED <<sides, lease, permit, endpoint, notice, retired, invitation, revoked, life, pc>>

publish_peer_notice(s) ==
    /\ closure[s] = "notice"
    /\ IF notice[s] = "endpoint" THEN set_signals(Peer(s), {"PEER_CLOSED"}) ELSE UNCHANGED signals
    /\ revoked' = (revoked \/ notice[s] = "invitation")
    /\ endpoint' = [endpoint EXCEPT ![s] = "gone"]
    /\ closure' = [closure EXCEPT ![s] = "none"] /\ notice' = [notice EXCEPT ![s] = "none"]
    /\ UNCHANGED <<sides, lease, permit, retired, invitation, life, pc>>

-----------------------------------------------------------------------------
(* The invitation is given up: its handle is closed, or its message.       *)

\* abandon: first the flag,
abandon(t) ==
    /\ \/ Enter(t) /\ invitation = (IF SideOf[t] = 0 THEN "creator" ELSE "peer")
       \/ Enter(t) /\ SideOf[t] = 1 /\ invitation = "transit"
    /\ invitation' = "gone" /\ revoked' = TRUE
    /\ Goto(t, IF revoked THEN "user" ELSE "abandoning")
    /\ UNCHANGED <<sides, lease, permit, endpoint, signals, closure, notice, retired, life>>

\* then the side, under the lock,
abandon_side(t) ==
    /\ pc[t] = "abandoning"
    /\ IF sides[1] = "Invited"
       THEN /\ sides' = [sides EXCEPT ![1] = "Closed"]
            /\ Goto(t, IF sides[0] = "Alive" THEN "abandoned" ELSE "user")
       ELSE Goto(t, "user") /\ UNCHANGED sides
    /\ UNCHANGED <<lease, permit, endpoint, signals, closure, notice, retired, invitation, revoked, life>>

\* then the creator.
abandon_notice(t) ==
    /\ pc[t] = "abandoned" /\ set_signals(0, {"PEER_CLOSED"})
    /\ Goto(t, "user")
    /\ UNCHANGED <<sides, lease, permit, endpoint, closure, notice, retired, invitation, revoked, life>>

-----------------------------------------------------------------------------
(* A process ends.                                                         *)

kill(s) ==
    /\ life[s] = "running"
    /\ life' = [life EXCEPT ![s] = "dying"]
    /\ UNCHANGED <<sides, lease, permit, endpoint, signals, closure, notice, retired, invitation, revoked, pc>>

\* close_detached: no Unmap, the drain of the space returns the permit later.
close_detached(s) ==
    /\ life[s] = "dying" /\ Synchronized(s) /\ endpoint[s] = "open"
    /\ commit_side_close(s)
    /\ closure' = [closure EXCEPT ![s] = "closed"]
    /\ UNCHANGED <<permit, signals, retired, invitation, revoked, life, pc>>

\* The drain closes an invitation in the table: the whole of abandon.
drain_invitation(s) ==
    /\ life[s] = "dying" /\ Synchronized(s)
    /\ invitation = (IF s = 0 THEN "creator" ELSE "peer")
    /\ invitation' = "gone" /\ revoked' = TRUE
    /\ IF ~revoked /\ sides[1] = "Invited"
       THEN /\ sides' = [sides EXCEPT ![1] = "Closed"]
            /\ IF sides[0] = "Alive" THEN set_signals(0, {"PEER_CLOSED"}) ELSE UNCHANGED signals
       ELSE UNCHANGED <<sides, signals>>
    /\ UNCHANGED <<lease, permit, endpoint, closure, notice, retired, life, pc>>

\* After the handles the space is drained.
drain_space(s) ==
    /\ life[s] = "dying" /\ Synchronized(s) /\ endpoint[s] # "open" /\ closure[s] = "none"
    /\ invitation # (IF s = 0 THEN "creator" ELSE "peer")
    /\ permit' = [permit EXCEPT ![s] = "none"]
    /\ life' = [life EXCEPT ![s] = "drained"]
    /\ UNCHANGED <<sides, lease, endpoint, signals, closure, notice, retired, invitation, revoked, pc>>

\* The mailbox that holds the message goes with its owner: close_transit.
drop_message ==
    /\ invitation = "transit" /\ life[1] # "running"
    /\ invitation' = "gone" /\ revoked' = TRUE
    /\ IF ~revoked /\ sides[1] = "Invited"
       THEN /\ sides' = [sides EXCEPT ![1] = "Closed"]
            /\ IF sides[0] = "Alive" THEN set_signals(0, {"PEER_CLOSED"}) ELSE UNCHANGED signals
       ELSE UNCHANGED <<sides, signals>>
    /\ UNCHANGED <<lease, permit, endpoint, closure, notice, retired, life, pc>>

-----------------------------------------------------------------------------

Call(t) ==
    \/ create(t) \/ send_invitation(t) \/ receive_invitation(t) \/ attach(t)
    \/ notify(t) \/ acknowledge_data(t) \/ close_handle(t) \/ abandon(t)

Advance(t) ==
    signal_attached(t) \/ signal_peer(t) \/ set_data(t) \/ abandon_side(t) \/ abandon_notice(t)

Retire(s) == retire_fragment(s) \/ finish(s) \/ publish_closed(s) \/ publish_peer_notice(s)

Drain(s) == close_detached(s) \/ drain_invitation(s) \/ drain_space(s)

Next ==
    \/ \E t \in Thread : Call(t) \/ Advance(t)
    \/ \E s \in Side : Retire(s) \/ Drain(s) \/ kill(s)
    \/ drop_message

Spec == Init /\ [][Next]_vars

-----------------------------------------------------------------------------

\* Nothing is on its way.
Quiet ==
    /\ \A t \in Thread : pc[t] = "user"
    /\ \A s \in Side : closure[s] = "none"

\* Type correctness.
TypeOK ==
    /\ sides \in [Side -> {"Alive", "Invited", "Closed"}] /\ lease \subseteq Side
    /\ permit \in [Side -> {"none", "view", "retiring"}]
    /\ endpoint \in [Side -> {"none", "open", "retiring", "gone"}]
    /\ signals \in [Side -> SUBSET {"DATA", "PEER_ATTACHED", "PEER_CLOSED", "CLOSED"}]
    /\ invitation \in {"none", "creator", "transit", "peer", "gone"}

\* Attach, the two closes and the loss of the invitation race for the connection, and the winner
\* is consistent: a side has a lease exactly while it is alive, an open endpoint is a live side,
\* and a void invitation can no longer attach.  When nothing is on its way, a survivor knows that
\* its peer is gone, and no creator waits for an invitation that does not exist.
SurvivorInformed ==
    /\ \A s \in Side : (s \in lease <=> sides[s] = "Alive") /\ (endpoint[s] = "open" <=> sides[s] = "Alive")
    /\ Quiet => \A s \in Side :
          /\ sides[s] = "Alive" /\ sides[Peer(s)] = "Closed" => "PEER_CLOSED" \in signals[s]
          /\ endpoint[s] = "gone" => "CLOSED" \in signals[s]
    /\ Quiet /\ invitation = "gone" => sides[1] # "Invited"
    /\ Quiet /\ sides[1] = "Closed" /\ invitation \in {"creator", "transit", "peer"} => revoked

\* CLOSED and PEER_CLOSED of an explicit close are published after every page of the view was
\* retired and its WritePermit returned; no view survives the drain of its process.
ClosedAfterRetire ==
    \A s \in Side :
        /\ "CLOSED" \in signals[s] /\ life[s] = "running" => permit[s] = "none"
        /\ closure[s] = "notice" /\ life[s] = "running" => permit[s] = "none"
        /\ life[s] = "drained" => permit[s] = "none" /\ endpoint[s] \in {"none", "gone"}

\* What notes/ideas/tunnel.md says of PEER_ATTACHED: the peer has attached and has not closed.
\* Looked at only when nothing is on its way.
AttachedMeansOpen ==
    Quiet => \A s \in Side :
        endpoint[s] = "open" /\ "PEER_ATTACHED" \in signals[s] => sides[Peer(s)] = "Alive"

=============================================================================
