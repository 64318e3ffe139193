---------------------------- MODULE MemoryPools ----------------------------
(***************************************************************************)
(* Page quota and physical pages of user memory: the tree of MemoryPools   *)
(* (memory_pool and the kernel object around it), and the transaction that *)
(* pairs quota with frames (funded_frame and its adapters in frame.rs).    *)
(*                                                                         *)
(* A pool is locked by itself; the frame inventory by itself; no action    *)
(* takes two of these locks.  FramePool models which frames a claim takes; *)
(* here the inventory is their number.  A task (Fund, Derive) is a thread  *)
(* in the middle of a system call; an owner is a Funded or a boot extent.  *)
(* Arc references are what holds a pool: see Referenced.                   *)
(***************************************************************************)
EXTENDS Naturals, Sequences, FiniteSets, FiniteSetsExt

CONSTANTS
    Pool,           \* identities in the order of allocation: 1 .. n, 1 is the root
    Task,           \* threads in a system call
    Owner,          \* names for funded owners
    UserPages,      \* pages that are free at the start
    BootPages,      \* pages that are held for the boot, and funded or released later
    MaxExtents,     \* of one transaction
    MaxDepth,
    MaxRequests     \* system calls of a behaviour

VARIABLES pool, task, owner, free, boot, requests

vars == <<pool, task, owner, free, boot, requests>>

NoPool == [life |-> "none", parent |-> 0, depth |-> 0, handles |-> 0,
           total |-> 0, available |-> 0, reserved |-> 0, allocated |-> 0, delegated |-> 0]
Idle == [pc |-> "idle", pool |-> 0, child |-> 0, pages |-> 0, claims |-> <<>>]
NoOwner == [pool |-> 0, claims |-> <<>>, credit |-> 0, dropping |-> FALSE]

\* The root owns the quota of the free pages and of those the boot still holds.
Root == [NoPool EXCEPT !.life = "active", !.depth = 1, !.handles = 1,
                       !.total = UserPages + BootPages, !.available = UserPages + BootPages]

Init ==
    /\ pool = [p \in Pool |-> IF p = 1 THEN Root ELSE NoPool]
    /\ task = [t \in Task |-> Idle]
    /\ owner = [o \in Owner |-> NoOwner]
    /\ free = UserPages /\ boot = BootPages /\ requests = MaxRequests

Pages(claims) == FoldFunction(+, 0, claims)

\* Every owner of a reference: Handles, transactions, credits, and children.
Referenced(p) ==
    \/ pool[p].handles # 0
    \/ \E t \in Task : task[t].pc # "idle" /\ task[t].pool = p
    \/ \E o \in Owner : owner[o].pool = p
    \/ \E q \in Pool : pool[q].life # "none" /\ pool[q].parent = p

Usable(p) == pool[p].life = "active" /\ Referenced(p)

-----------------------------------------------------------------------------
(* The four accounts (PoolState).                                          *)

reserve(p, n) == [p EXCEPT !.available = @ - n, !.reserved = @ + n]
Reservable(p, n) == n # 0 /\ p.available >= n
rollback(p, n) == [p EXCEPT !.reserved = @ - n, !.available = @ + n]

\* Mutant: the reservation is committed and stays reserved.
commit_reserved_Twice(p, n, account) == [p EXCEPT ![account] = @ + n]
commit_reserved(p, n, account) == [p EXCEPT !.reserved = @ - n, ![account] = @ + n]
return_credit(p, n, account) == [p EXCEPT ![account] = @ - n, !.available = @ + n]

is_fully_available(p) == p.available = p.total /\ p.reserved = 0 /\ p.allocated = 0 /\ p.delegated = 0

-----------------------------------------------------------------------------
(* fund: reserve, claim, clear, commit.                                    *)

\* reserve_charge
reserve_charge(t) ==
    /\ task[t].pc = "idle" /\ requests # 0
    /\ \E p \in Pool, n \in 1 .. UserPages + BootPages :
          /\ Usable(p) /\ pool[p].handles # 0 /\ Reservable(pool[p], n)
          /\ pool' = [pool EXCEPT ![p] = reserve(@, n)]
          /\ task' = [task EXCEPT ![t] = [Idle EXCEPT !.pc = "claim", !.pool = p, !.pages = n]]
    /\ requests' = requests - 1
    /\ UNCHANGED <<owner, free, boot>>

Remaining(t) == task[t].pages - Pages(task[t].claims)

\* One claim_largest; the size is what the inventory has to offer.
claim_largest(t) ==
    /\ task[t].pc = "claim" /\ Remaining(t) # 0 /\ Len(task[t].claims) < MaxExtents /\ free # 0
    /\ \E n \in 1 .. Min({Remaining(t), free}) :
          /\ free' = free - n
          /\ task' = [task EXCEPT ![t].claims = Append(@, n)]
    /\ UNCHANGED <<pool, owner, boot, requests>>

\* OutOfMemory or ExtentLimit.
claim_fails(t) ==
    /\ task[t].pc = "claim" /\ Remaining(t) # 0
    /\ Len(task[t].claims) = MaxExtents \/ free = 0
    /\ task' = [task EXCEPT ![t].pc = "unclaim"]
    /\ UNCHANGED <<pool, owner, free, boot, requests>>

\* The failed transaction drops its claims first, and its reservation behind them.
unclaim(t) ==
    /\ task[t].pc = "unclaim" /\ task[t].claims # <<>>
    /\ free' = free + Head(task[t].claims)
    /\ task' = [task EXCEPT ![t].claims = Tail(@)]
    /\ UNCHANGED <<pool, owner, boot, requests>>

rollback_charge(t) ==
    /\ task[t].pc = "unclaim" /\ task[t].claims = <<>>
    /\ pool' = [pool EXCEPT ![task[t].pool] = rollback(@, task[t].pages)]
    /\ task' = [task EXCEPT ![t] = Idle]
    /\ UNCHANGED <<owner, free, boot, requests>>

\* All pages are there: the reservation becomes a credit, which lives as long as the claims.
commit_charge(t) ==
    /\ task[t].pc = "claim" /\ Remaining(t) = 0
    /\ \E o \in Owner :
          /\ owner[o] = NoOwner
          /\ owner' = [owner EXCEPT ![o] = [pool |-> task[t].pool, claims |-> task[t].claims, credit |-> task[t].pages,
                                             dropping |-> FALSE]]
    /\ pool' = [pool EXCEPT ![task[t].pool] = commit_reserved(@, task[t].pages, "allocated")]
    /\ task' = [task EXCEPT ![t] = Idle]
    /\ UNCHANGED <<free, boot, requests>>

-----------------------------------------------------------------------------
(* Funded owners: split, merge, drop.                                      *)

\* What split_off cuts off behind n pages of the first extent; the other extents go with it.
Right(f, n) ==
    LET rest == IF Head(f.claims) = n THEN Tail(f.claims) ELSE <<Head(f.claims) - n>> \o Tail(f.claims)
    IN  [f EXCEPT !.claims = rest, !.credit = Pages(rest)]

\* split_off, split_first and split_single: an extent and its credit are cut together.
split_off(o) ==
    /\ owner[o] # NoOwner /\ ~owner[o].dropping
    /\ \E n \in 1 .. Head(owner[o].claims), r \in Owner :
          /\ n < Pages(owner[o].claims) /\ owner[r] = NoOwner
          /\ owner' = [owner EXCEPT ![r] = Right(owner[o], n),
                                    ![o] = [@ EXCEPT !.claims = <<n>>, !.credit = @ - Right(owner[o], n).credit]]
    /\ UNCHANGED <<pool, task, free, boot, requests>>

\* merge_from: only credits of the same pool.
merge_from(o, r) ==
    /\ o # r /\ owner[o] # NoOwner /\ owner[r] # NoOwner
    /\ ~owner[o].dropping /\ ~owner[r].dropping
    /\ owner[o].pool = owner[r].pool /\ Len(owner[o].claims) + Len(owner[r].claims) <= MaxExtents
    /\ owner' = [owner EXCEPT ![o] = [@ EXCEPT !.claims = @ \o owner[r].claims, !.credit = @ + owner[r].credit],
                              ![r] = NoOwner]
    /\ UNCHANGED <<pool, task, free, boot, requests>>

\* The drop of an owner returns its extents, one lock after the other ...
drop_claim(o) ==
    /\ owner[o].claims # <<>>
    /\ free' = free + Head(owner[o].claims)
    /\ owner' = [owner EXCEPT ![o].claims = Tail(@), ![o].dropping = TRUE]
    /\ UNCHANGED <<pool, task, boot, requests>>

\* ... and its credit behind them.
return_charge(o) ==
    /\ owner[o] # NoOwner /\ owner[o].claims = <<>>
    /\ pool' = [pool EXCEPT ![owner[o].pool] = return_credit(@, owner[o].credit, "allocated")]
    /\ owner' = [owner EXCEPT ![o] = NoOwner]
    /\ UNCHANGED <<task, free, boot, requests>>

\* An extent that the boot holds is charged to the root and becomes an owner.
fund_boot_held ==
    /\ boot # 0
    /\ \E o \in Owner, n \in 1 .. boot :
          /\ owner[o] = NoOwner /\ Reservable(pool[1], n)
          /\ owner' = [owner EXCEPT ![o] = [pool |-> 1, claims |-> <<n>>, credit |-> n, dropping |-> FALSE]]
          /\ pool' = [pool EXCEPT ![1] = commit_reserved(reserve(@, n), n, "allocated")]
          /\ boot' = boot - n
    /\ UNCHANGED <<task, free, requests>>

\* BootHeldExtent::drop and release_device_tree.
free_range ==
    /\ \E n \in 1 .. boot : boot' = boot - n /\ free' = free + n
    /\ UNCHANGED <<pool, task, owner, requests>>

-----------------------------------------------------------------------------
(* derive: a child takes its quota from its parent.                        *)

Fresh == {p \in Pool : pool[p].life = "none" /\ pool[p].parent = 0}

\* reserve_delegation and prepared_child: the child is there, and cannot be used.
reserve_delegation(t) ==
    /\ task[t].pc = "idle" /\ requests # 0 /\ Fresh # {}
    /\ \E p \in Pool, n \in 1 .. UserPages + BootPages :
          LET c == Min(Fresh) IN
          /\ Usable(p) /\ pool[p].handles # 0 /\ pool[p].depth < MaxDepth /\ Reservable(pool[p], n)
          /\ pool' = [pool EXCEPT ![p] = reserve(@, n),
                                  ![c] = [NoPool EXCEPT !.life = "prepared", !.parent = p, !.depth = pool[p].depth + 1,
                                                        !.total = n, !.available = n]]
          /\ task' = [task EXCEPT ![t] = [Idle EXCEPT !.pc = "install", !.pool = p, !.child = c, !.pages = n]]
    /\ requests' = requests - 1
    /\ UNCHANGED <<owner, free, boot>>

\* The allocation or the publication fails: the drop of the child rolls its parent back.
rollback_child(t) ==
    /\ task[t].pc = "install"
    /\ pool' = [pool EXCEPT ![task[t].pool] = rollback(@, task[t].pages), ![task[t].child].life = "none"]
    /\ task' = [task EXCEPT ![t] = Idle]
    /\ UNCHANGED <<owner, free, boot, requests>>

\* commit_prepared, under three locks in turn.
mark_committing(t) ==
    /\ task[t].pc = "install"
    /\ pool' = [pool EXCEPT ![task[t].child].life = "committing"]
    /\ task' = [task EXCEPT ![t].pc = "commit"]
    /\ UNCHANGED <<owner, free, boot, requests>>

commit_child(t) ==
    /\ task[t].pc = "commit"
    /\ pool' = [pool EXCEPT ![task[t].pool] = commit_reserved(@, task[t].pages, "delegated")]
    /\ task' = [task EXCEPT ![t].pc = "activate"]
    /\ UNCHANGED <<owner, free, boot, requests>>

activate(t) ==
    /\ task[t].pc = "activate"
    /\ pool' = [pool EXCEPT ![task[t].child] = [@ EXCEPT !.life = "active", !.handles = 1]]
    /\ task' = [task EXCEPT ![t] = Idle]
    /\ UNCHANGED <<owner, free, boot, requests>>

\* The Handle of a child is closed; the root is anchored.
close_handle ==
    /\ \E p \in Pool \ {1} : pool[p].handles # 0 /\ pool' = [pool EXCEPT ![p].handles = @ - 1]
    /\ UNCHANGED <<task, owner, free, boot, requests>>

\* Drop for MemoryPool: the last reference returns the quota to the parent.
drop_pool ==
    /\ \E p \in Pool \ {1} :
          /\ pool[p].life = "active" /\ ~Referenced(p)
          /\ pool' = [pool EXCEPT ![p].life = "none",
                                  ![pool[p].parent] = return_credit(@, pool[p].total, "delegated")]
    /\ UNCHANGED <<task, owner, free, boot, requests>>

TaskStep(t) ==
    \/ reserve_charge(t) \/ claim_largest(t) \/ claim_fails(t) \/ unclaim(t) \/ rollback_charge(t) \/ commit_charge(t)
    \/ reserve_delegation(t) \/ rollback_child(t) \/ mark_committing(t) \/ commit_child(t) \/ activate(t)

Next ==
    \/ \E t \in Task : TaskStep(t)
    \/ \E o \in Owner : split_off(o) \/ drop_claim(o) \/ return_charge(o)
    \/ \E o, r \in Owner : merge_from(o, r)
    \/ fund_boot_held \/ free_range \/ close_handle \/ drop_pool

Spec == Init /\ [][Next]_vars

-----------------------------------------------------------------------------

SumOver(f(_), S) == FoldSet(LAMBDA x, acc : f(x) + acc, 0, S)

Live(p) == pool[p].life # "none"

\* The accounts of a pool are exactly what is outstanding: open reservations, credits that are held,
\* children that were committed; so none of the checks whose failure is a panic ever fails, and a
\* pool whose last reference goes is whole.
AccountsExact ==
    \A p \in Pool : Live(p) =>
        /\ pool[p].available + pool[p].reserved + pool[p].allocated + pool[p].delegated = pool[p].total
        /\ pool[p].reserved = SumOver(LAMBDA t : task[t].pages,
                                      {t \in Task : task[t].pool = p /\ task[t].pc \in {"claim", "unclaim", "install", "commit"}})
        /\ pool[p].allocated = SumOver(LAMBDA o : owner[o].credit, {o \in Owner : owner[o].pool = p})
        /\ pool[p].delegated = SumOver(LAMBDA q : pool[q].total,
               {q \in Pool : Live(q) /\ pool[q].parent = p
                             /\ ~\E t \in Task : task[t].child = q /\ task[t].pc \in {"install", "commit"}})
        /\ pool[p].life = "active" /\ ~Referenced(p) => is_fully_available(pool[p])

\* A credit is as large as the pages it pays for, until these are being returned; and the pages of
\* the machine are all somewhere.
PagesPaid ==
    /\ \A o \in Owner : IF owner[o].dropping THEN Pages(owner[o].claims) <= owner[o].credit
                                             ELSE Pages(owner[o].claims) = owner[o].credit
    /\ free + boot + SumOver(LAMBDA o : Pages(owner[o].claims), Owner) + SumOver(LAMBDA t : Pages(task[t].claims), Task)
         = UserPages + BootPages

\* A transaction that has its quota finds its pages: once the boot has let go of what it held, quota
\* is never ahead of the inventory, because pages always return before the quota that paid for them.
QuotaIsBacked ==
    boot = 0 => free >= SumOver(LAMBDA p : pool[p].available, {p \in Pool : Live(p)})
                         + SumOver(Remaining, {t \in Task : task[t].pc = "claim"})

=============================================================================
