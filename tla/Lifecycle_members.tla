------------------------- MODULE Lifecycle_members -------------------------
(***************************************************************************)
(* The member table of a process and the counts beside it, for any number  *)
(* of threads over its life, any member limit and any finite set of        *)
(* Building leases: the inductive invariant of the process, the lemmas on  *)
(* installing, moving and removing a member, and the proof that every step *)
(* of the process keeps the table and the counts.                          *)
(***************************************************************************)
EXTENDS Lifecycle, FiniteSetTheorems, TLAPS

USE BoundAssumption, LeaseAssumption

-----------------------------------------------------------------------------
(* The inductive invariant.                                                *)

Departures == {"live", "requested", "finalizing", "departed"}

TableType ==
  /\ members \in Seq(Tid \cup {None}) /\ generation \in Seq(Nat) /\ Len(generation) = Len(members)
  /\ next_tid \in 1..(MaxTid + 1)
  /\ key \in [Tid -> [slot : Nat, generation : Nat]]
  /\ at \in [Tid -> Containers] /\ departure \in [Tid -> Departures] /\ active \subseteq Tid

\* The other variables.
MemberType ==
  /\ mst \in [Tid -> MemberState] /\ bound \subseteq Tid /\ batch \subseteq Tid
  /\ control \in [Tid -> {"unborn", "staged", "visible", "closed"}]
  /\ making \in [Tid -> Tid \cup {None}]
WorkType ==
  /\ mapping \in [Tid -> {"none", "committed", "settled", "released"}]
  /\ result_obligations \in [Tid -> Nat]
  /\ lease \in [Lease -> {"idle", "open", "attached", "counted"}]
EndType ==
  /\ state \in {"Building", "Running", "Terminating", "Dead"}
  /\ todo \in {"none", "reapable", "cleanup", "cursor", "done"}
  /\ cursor \in Nat /\ (todo = "cursor" => cursor >= 1) /\ taken \in Tid \cup {None} /\ rings \in Nat
ShellType ==
  /\ shell \in {"none", "live"} /\ signals \subseteq {"REAPABLE", "CLOSED"}
  /\ reviving \in {"no", "minted", "dead", "alive", "reapable"} /\ draining \in {"no", "batch", "frozen"}
RestType == MemberType /\ WorkType /\ EndType /\ ShellType

\* Something still holds the thread, or its departure is under way.
Held(t) == at[t] # "none" \/ departure[t] \in {"requested", "finalizing"}

\* A thread is under its key in the table exactly while it is held, and a slot that is taken is named by
\* the key of the thread in it; a departing thread is held by nobody, and an unborn one has not begun to.
TableInv ==
  /\ \A t \in Tid : Held(t) <=> Keyed(t)
  /\ \A s \in 1..Len(members) : members[s] # None => key[members[s]].slot = s /\ key[members[s]].generation = generation[s]
  /\ \A t \in Tid : departure[t] # "live" => at[t] = "none"
  /\ \A t \in Tid : t >= next_tid => at[t] = "none" /\ departure[t] = "live"
  /\ \A t \in active : at[t] = "user"

\* A Created member is where its creation left it, and a process that is being built has no others.
BirthInv ==
  /\ \A t \in Tid : mst[t] = "Created" => at[t] = "table"
  /\ state = "Building" =>
       /\ todo = "none"
       /\ \A t \in Tid : at[t] \in {"none", "table"} /\ departure[t] = "live" /\ (at[t] = "table" => t \in batch)

\* Each count is the number of those that hold it.
Leased == {l \in Lease : lease[l] # "idle"}
Committed == {t \in Tid : mapping[t] = "committed"}
CountInv == building_ops = Cardinality(Leased) /\ mandatory_ops = Cardinality(Committed)

\* Nobody says that the process is reapable unless it is.
Announced ==
  draining # "no" \/ state = "Dead" \/ "REAPABLE" \in signals \/ rings > 0 \/ todo = "reapable" \/ reviving = "reapable"
ReapInv == Announced => is_reapable

\* What the shell shows, and who is about to make it show more.
ShellInv ==
  /\ "CLOSED" \in signals => signals = {"CLOSED"}
  /\ draining = "frozen" => signals = {"CLOSED"}
  /\ draining # "no" \/ reviving # "no" => shell = "live"
  /\ state = "Dead" /\ shell = "live" /\ reviving \notin {"minted", "dead"} => signals = {"CLOSED"}
Informed ==
  rings > 0 \/ todo = "reapable" \/ shell = "none" \/ reviving \in {"minted", "alive", "reapable"} \/ signals # {}
LevelInv == is_reapable /\ state = "Terminating" => Informed

\* With controls used only once their ThreadCreate has returned.
ReadyInv ==
  /\ \A t \in Tid : mst[t] = "Ready" => at[t] \in {"starting", "queue", "picked", "requeued", "released", "none"}
  /\ \A t \in Tid : at[t] = "starting" => t \in batch
  /\ \A t \in Tid : control[t] = "visible" /\ at[t] = "table" /\ (\A c \in Tid : making[c] # t) => t \in batch

\* The whole of it.
IInv == TableType /\ RestType /\ TableInv /\ BirthInv /\ CountInv /\ ReapInv /\ ShellInv /\ LevelInv

-----------------------------------------------------------------------------
(* The table.                                                              *)

\* None is no thread's number.
LEMMA Threads == None \notin Tid /\ Tid \subseteq Nat
BY DEF None, Tid

\* The lengths and domains that the steps use again and again.
LEMMA TableShape ==
  ASSUME TableType
  PROVE  /\ Len(members) \in Nat /\ DOMAIN members = 1..Len(members) /\ DOMAIN generation = 1..Len(members)
         /\ members \in [1..Len(members) -> Tid \cup {None}] /\ generation \in [1..Len(members) -> Nat]
<1>1. Len(members) \in Nat /\ members \in [1..Len(members) -> Tid \cup {None}] /\ DOMAIN members = 1..Len(members)
  BY DEF TableType
<1>2. generation \in [1..Len(generation) -> Nat] /\ DOMAIN generation = 1..Len(generation)
  BY DEF TableType
<1>. QED BY <1>1, <1>2 DEF TableType

\* A set of naturals has a least element.
LEMMA Least ==
  ASSUME NEW T, T \subseteq Nat, T # {}
  PROVE  \E x \in T : \A y \in T : x <= y
<1> DEFINE R == OpToRel(<, Nat)
<1>1. IsWellFoundedOn(R, Nat) BY NatLessThanWellFounded, Zenon
<1>2. \A x, y \in Nat : x < y => <<x, y>> \in R BY DEF OpToRel
<1> HIDE DEF R
<1>3. PICK x \in T : \A y \in T : ~ (<<y, x>> \in R) BY <1>1, WFMin, Zenon
<1>4. x \in Nat /\ \A y \in T : y \in Nat OBVIOUS
<1>5. \A y \in T : ~ (y < x) BY <1>2, <1>3, <1>4, Zenon
<1>6. \A y \in T : x <= y BY <1>4, <1>5
<1>. QED BY <1>6

\* A new member gets a vacant slot or the one behind the last.
LEMMA NewSlotIsFree ==
  ASSUME TableType
  PROVE  NewSlot = Len(members) + 1 \/ (NewSlot \in 1..Len(members) /\ members[NewSlot] = None)
<1>1. FreeSlots \subseteq Nat BY TableShape DEF FreeSlots
<1>2. CASE FreeSlots = {} BY <1>2 DEF NewSlot
<1>3. CASE FreeSlots # {}
  <2>1. \E s \in FreeSlots : \A u \in FreeSlots : s <= u BY <1>1, <1>3, Least, Zenon
  <2>2. NewSlot \in FreeSlots BY <1>3, <2>1, Zenon DEF NewSlot
  <2>. QED BY <2>2, TableShape DEF FreeSlots
<1>. QED BY <1>2, <1>3

\* prepare_member and install_member put a new member under a key that no other member has.
LEMMA Install ==
  ASSUME TableType, TableInv, prepare_member, NEW t, t = next_tid, install_member(t, NewSlot),
         UNCHANGED <<departure, active>>
  PROVE  TableType' /\ TableInv'
<1> DEFINE n == Len(members)
           s == NewSlot
<1>0. /\ n \in Nat /\ DOMAIN members = 1..n /\ DOMAIN generation = 1..n
      /\ members \in [1..n -> Tid \cup {None}] /\ generation \in [1..n -> Nat]
  BY TableShape
<1>1. t \in Tid /\ t \in Nat /\ next_tid' = t + 1 /\ t + 1 \in 1..(MaxTid + 1)
  BY DEF prepare_member, install_member, Tid
<1>2. s = n + 1 \/ (s \in 1..n /\ members[s] = None) BY NewSlotIsFree
<1> HIDE DEF s
<1>3. /\ Len(members') \in Nat /\ s \in 1..Len(members') /\ n <= Len(members')
      /\ members' \in Seq(Tid \cup {None}) /\ DOMAIN members' = 1..Len(members')
      /\ generation' \in Seq(Nat) /\ Len(generation') = Len(members') /\ generation'[s] \in Nat
      /\ members'[s] = t /\ \A x \in 1..n : x # s => members'[x] = members[x]
      /\ \A x \in 1..n : x # s => generation'[x] = generation[x]
      /\ \A x \in 1..Len(members') : x # s => x \in 1..n
      /\ key' = [key EXCEPT ![t] = [slot |-> s, generation |-> generation'[s]]]
  <2>1. CASE s = n + 1
    <3>1. s > Len(members) BY <1>0, <2>1
    <3>2. members' = Append(members, t) /\ generation' = Append(generation, 1)
          /\ key' = [key EXCEPT ![t] = [slot |-> s, generation |-> 1]]
      BY <3>1 DEF install_member, s
    <3>3. /\ members' \in Seq(Tid \cup {None}) /\ Len(members') = n + 1 /\ DOMAIN members' = 1..(n + 1)
          /\ members'[n + 1] = t /\ \A x \in 1..n : members'[x] = members[x]
      BY <1>0, <1>1, <3>2 DEF TableType
    <3>4. /\ generation' \in Seq(Nat) /\ Len(generation') = n + 1
          /\ generation'[n + 1] = 1 /\ \A x \in 1..n : generation'[x] = generation[x]
      BY <1>0, <3>2 DEF TableType
    <3>5. key' = [key EXCEPT ![t] = [slot |-> s, generation |-> generation'[s]]] BY <2>1, <3>2, <3>4, Zenon
    <3>6. \A x \in 1..(n + 1) : x # n + 1 => x \in 1..n BY <1>0
    <3>7. /\ Len(members') \in Nat /\ s \in 1..Len(members') /\ n <= Len(members')
          /\ Len(generation') = Len(members') /\ generation'[s] \in Nat /\ DOMAIN members' = 1..Len(members')
      BY <1>0, <2>1, <3>3, <3>4
    <3>8. \A x \in 1..Len(members') : x # s => x \in 1..n BY <2>1, <3>3, <3>6
    <3>. QED BY <2>1, <3>3, <3>4, <3>5, <3>7, <3>8, Zenon
  <2>2. CASE s \in 1..n
    <3>1. ~(s > Len(members)) BY <1>0, <2>2
    <3>2. members' = [members EXCEPT ![s] = t] /\ generation' = generation
          /\ key' = [key EXCEPT ![t] = [slot |-> s, generation |-> generation[s]]]
      BY <3>1 DEF install_member, s
    <3>3. /\ members' \in Seq(Tid \cup {None}) /\ Len(members') = n
          /\ \A x \in 1..n : members'[x] = IF x = s THEN t ELSE members[x]
      BY <1>1, <2>2, <3>2 DEF TableType
    <3>4. generation[s] \in Nat /\ DOMAIN members' = 1..n BY <1>0, <2>2, <3>2
    <3>. QED BY <1>0, <2>2, <3>2, <3>3, <3>4 DEF TableType
  <2>. QED BY <1>2, <2>1, <2>2
<1>4. at' = [at EXCEPT ![t] = "table"] BY DEF install_member
<1>5. ~Held(t) /\ ~Keyed(t)
  <2>1. t >= next_tid BY <1>1
  <2>. QED BY <1>1, <2>1 DEF TableInv, Held
<1>6. TableType'
  <2>1. at' \in [Tid -> Containers] BY <1>4, Zenon DEF TableType, Containers
  <2>2. key' \in [Tid -> [slot : Nat, generation : Nat]] BY <1>1, <1>3 DEF TableType
  <2>. QED BY <1>1, <1>3, <2>1, <2>2 DEF TableType
<1>7. ASSUME NEW u \in Tid, u # t PROVE (Held(u)' <=> Held(u)) /\ (Keyed(u)' <=> Keyed(u))
  <2>1. at'[u] = at[u] /\ departure'[u] = departure[u] /\ key'[u] = key[u]
    BY <1>3, <1>4, <1>7 DEF TableType
  <2>2. Keyed(u) => key[u].slot # s
    BY <1>0, <1>2, <1>7, Threads DEF Keyed
  <2>3. Keyed(u)' => key[u].slot # s
    BY <1>3, <1>7, <2>1 DEF Keyed
  <2>4. Keyed(u)' <=> Keyed(u)
    BY <1>0, <1>3, <2>1, <2>2, <2>3 DEF Keyed
  <2>. QED BY <2>1, <2>4 DEF Held
<1>8. Held(t)' /\ Keyed(t)'
  BY <1>1, <1>3, <1>4 DEF Held, Keyed, TableType
<1>9. TableInv'
  <2>1. \A u \in Tid : Held(u)' <=> Keyed(u)' BY <1>7, <1>8 DEF TableInv
  <2>2. \A x \in 1..Len(members') : members'[x] # None =>
           key'[members'[x]].slot = x /\ key'[members'[x]].generation = generation'[x]
    <3> SUFFICES ASSUME NEW x \in 1..Len(members'), members'[x] # None
                 PROVE  key'[members'[x]].slot = x /\ key'[members'[x]].generation = generation'[x]
      OBVIOUS
    <3>1. CASE x = s BY <1>1, <1>3, <3>1 DEF TableType
    <3>2. CASE x # s
      <4>1. x \in 1..n /\ members'[x] = members[x] /\ members[x] \in Tid BY <1>0, <1>3, <3>2
      <4>2. key[members[x]].slot = x /\ key[members[x]].generation = generation[x] BY <4>1 DEF TableInv
      <4>3. members[x] # t BY <1>0, <1>5, <4>1, <4>2 DEF Keyed
      <4>. QED BY <1>1, <1>3, <4>1, <4>2, <4>3 DEF TableType
    <3>. QED BY <3>1, <3>2
  <2>3. \A u \in Tid : departure'[u] # "live" => at'[u] = "none"
    BY <1>1, <1>4 DEF TableInv, TableType
  <2>4. \A u \in Tid : u >= next_tid' => at'[u] = "none" /\ departure'[u] = "live"
    BY <1>1, <1>4, Threads DEF TableInv, TableType
  <2>5. \A u \in active' : at'[u] = "user"
    BY <1>1, <1>4, <1>5 DEF TableInv, TableType, Held
  <2>. QED BY <2>1, <2>2, <2>3, <2>4, <2>5 DEF TableInv
<1>. QED BY <1>6, <1>9

\* A step that leaves the table and the holders alone keeps the table invariant.
LEMMA StillTable ==
  ASSUME TableType, TableInv, UNCHANGED <<members, generation, next_tid, key, at, departure, active>>
  PROVE  TableType' /\ TableInv'
<1>1. TableType' BY DEF TableType
<1>2. \A t \in Tid : (Held(t)' <=> Held(t)) /\ (Keyed(t)' <=> Keyed(t)) BY DEF Held, Keyed
<1>. QED BY <1>1, <1>2 DEF TableInv

\* A held thread passes from one holder to another.
LEMMA Move ==
  ASSUME TableType, TableInv, NEW t \in Tid, at[t] # "none", NEW c \in Containers \ {"none"},
         at' = [at EXCEPT ![t] = c], UNCHANGED <<members, generation, next_tid, key, departure>>,
         active' \subseteq Tid, \A u \in active' : u \in active \/ u = t, t \in active' => c = "user"
  PROVE  TableType' /\ TableInv'
<1>1. TableType' BY DEF TableType
<1>2. \A u \in Tid : Keyed(u)' <=> Keyed(u) BY DEF Keyed
<1>3. \A u \in Tid : Held(u)' <=> Held(u) BY DEF Held, TableType
<1>4. \A u \in active' : at'[u] = "user" BY DEF TableInv, TableType
<1>5. \A u \in Tid : departure'[u] # "live" => at'[u] = "none" BY DEF TableInv, TableType
<1>6. \A u \in Tid : u >= next_tid' => at'[u] = "none" /\ departure'[u] = "live" BY DEF TableInv, TableType
<1>7. \A s \in 1..Len(members') : members'[s] # None =>
         key'[members'[s]].slot = s /\ key'[members'[s]].generation = generation'[s]
  BY DEF TableInv
<1>8. \A u \in Tid : Held(u)' <=> Keyed(u)' BY <1>2, <1>3 DEF TableInv
<1>. QED BY <1>1, <1>4, <1>5, <1>6, <1>7, <1>8 DEF TableInv

\* All members of a process that has been built leave the table for their batches.
LEMMA StartAll ==
  ASSUME TableType, TableInv, BirthInv, state = "Building",
         at' = [t \in Tid |-> IF t \in {u \in Tid : Keyed(u)} THEN "starting" ELSE at[t]],
         UNCHANGED <<members, generation, next_tid, key, departure, active>>
  PROVE  TableType' /\ TableInv'
<1>1. TableType' BY DEF TableType, Containers
<1>2. \A u \in Tid : Keyed(u)' <=> Keyed(u) BY DEF Keyed
<1>3. \A u \in Tid : departure[u] = "live" /\ (at[u] = "none" \/ at[u] = "table") BY DEF BirthInv
<1>4. \A u \in Tid : Keyed(u) <=> at[u] # "none" BY <1>3 DEF TableInv, Held
<1>5. \A u \in Tid : at'[u] # "none" <=> at[u] # "none" BY <1>4
<1>6. \A u \in Tid : Held(u)' <=> Keyed(u)' BY <1>2, <1>3, <1>4, <1>5 DEF Held
<1>7. active = {} BY <1>3, Zenon DEF TableInv, TableType
<1>8. \A s \in 1..Len(members') : members'[s] # None =>
         key'[members'[s]].slot = s /\ key'[members'[s]].generation = generation'[s]
  BY DEF TableInv
<1>9. \A u \in Tid : u >= next_tid' => at'[u] = "none" /\ departure'[u] = "live"
  BY <1>3, <1>5 DEF TableInv
<1>. QED BY <1>1, <1>3, <1>6, <1>7, <1>8, <1>9 DEF TableInv

\* A departure begins, or an owed result is delivered to a thread that is departing.
LEMMA Depending ==
  ASSUME TableType, TableInv, NEW t \in Tid, Held(t), at' \in [Tid -> Containers], departure' \in [Tid -> Departures],
         \A u \in Tid : u # t => at'[u] = at[u] /\ departure'[u] = departure[u],
         at'[t] = "none", departure'[t] \in {"requested", "finalizing"}, at[t] # "user",
         UNCHANGED <<members, generation, next_tid, key, active>>
  PROVE  TableType' /\ TableInv'
<1>1. TableType' BY DEF TableType
<1>2. \A u \in Tid : Keyed(u)' <=> Keyed(u) BY DEF Keyed
<1>3. \A u \in Tid : Held(u)' <=> Held(u) BY DEF Held
<1>4. t < next_tid BY Threads DEF TableInv, TableType, Held
<1>5. \A u \in Tid : u >= next_tid' => at'[u] = "none" /\ departure'[u] = "live"
  BY <1>4, Threads DEF TableInv, TableType
<1>6. \A u \in active' : at'[u] = "user" BY DEF TableInv, TableType
<1>7. \A s \in 1..Len(members') : members'[s] # None =>
         key'[members'[s]].slot = s /\ key'[members'[s]].generation = generation'[s]
  BY DEF TableInv
<1>8. \A u \in Tid : departure'[u] # "live" => at'[u] = "none" BY DEF TableInv
<1>9. \A u \in Tid : Held(u)' <=> Keyed(u)' BY <1>2, <1>3 DEF TableInv
<1>. QED BY <1>1, <1>5, <1>6, <1>7, <1>8, <1>9 DEF TableInv

\* remove_member vacates the slot of the departing member and no other.
LEMMA Leave ==
  ASSUME TableType, TableInv, NEW t \in Tid, Depart(t)
  PROVE  /\ TableType' /\ TableInv'
         /\ member_count \in Nat \ {0} /\ member_count' = member_count - 1
<1> DEFINE n == Len(members)
           s == key[t].slot
<1>0. /\ n \in Nat /\ DOMAIN members = 1..n /\ DOMAIN generation = 1..n
      /\ members \in [1..n -> Tid \cup {None}] /\ generation \in [1..n -> Nat]
  BY TableShape
<1>1. departure[t] = "finalizing" /\ at[t] = "none" /\ Keyed(t)
  BY DEF Depart, TableInv, Held
<1>2. s \in 1..n /\ members[s] = t /\ generation[s] \in Nat BY <1>0, <1>1 DEF Keyed
<1> HIDE DEF s
<1>3. /\ members' = [members EXCEPT ![s] = None] /\ generation' = [generation EXCEPT ![s] = generation[s] + 1]
      /\ departure' = [departure EXCEPT ![t] = "departed"]
      /\ key' = [key EXCEPT ![t] = [slot |-> 0, generation |-> 0]] /\ UNCHANGED <<next_tid, active, at>>
  BY DEF Depart, remove_member, s
<1>4. /\ members' \in Seq(Tid \cup {None}) /\ Len(members') = n /\ DOMAIN members' = 1..n
      /\ members'[s] = None /\ \A x \in 1..n : x # s => members'[x] = members[x]
  <2>1. /\ members' \in Seq(Tid \cup {None}) /\ Len(members') = n
        /\ \A x \in 1..n : members'[x] = IF x = s THEN None ELSE members[x]
    BY <1>2, <1>3 DEF TableType
  <2>. QED BY <1>0, <1>2, <1>3, <2>1
<1>5. /\ generation' \in Seq(Nat) /\ Len(generation') = n
      /\ generation'[s] = generation[s] + 1 /\ \A x \in 1..n : x # s => generation'[x] = generation[x]
  <2>1. generation[s] + 1 \in Nat /\ Len(generation) = n BY <1>2 DEF TableType
  <2>2. /\ generation' \in Seq(Nat) /\ Len(generation') = n
        /\ \A x \in 1..n : generation'[x] = IF x = s THEN generation[s] + 1 ELSE generation[x]
    BY <1>2, <1>3, <2>1 DEF TableType
  <2>. QED BY <1>2, <2>2
<1>6. TableType'
  <2>1. key' \in [Tid -> [slot : Nat, generation : Nat]] BY <1>3 DEF TableType
  <2>2. departure' \in [Tid -> Departures] BY <1>3 DEF TableType, Departures
  <2>. QED BY <1>3, <1>4, <1>5, <2>1, <2>2 DEF TableType
<1>7. ~Held(t)' /\ ~Keyed(t)'
  <2>1. key'[t].slot = 0 BY <1>3 DEF TableType
  <2>2. ~Keyed(t)' BY <1>0, <1>4, <2>1 DEF Keyed
  <2>. QED BY <1>1, <1>3, <2>2 DEF Held, TableType
<1>8. ASSUME NEW u \in Tid, u # t PROVE (Held(u)' <=> Held(u)) /\ (Keyed(u)' <=> Keyed(u))
  <2>1. at'[u] = at[u] /\ departure'[u] = departure[u] /\ key'[u] = key[u] BY <1>3, <1>8 DEF TableType
  <2>2. Keyed(u) => key[u].slot # s BY <1>2, <1>8 DEF Keyed
  <2>3. Keyed(u)' => key[u].slot # s BY <1>4, <2>1, Threads DEF Keyed
  <2>4. Keyed(u)' <=> Keyed(u) BY <1>0, <1>4, <1>5, <2>1, <2>2, <2>3 DEF Keyed
  <2>. QED BY <2>1, <2>4 DEF Held
<1>9. TableInv'
  <2>1. \A u \in Tid : Held(u)' <=> Keyed(u)' BY <1>7, <1>8 DEF TableInv
  <2>2. \A x \in 1..Len(members') : members'[x] # None =>
           key'[members'[x]].slot = x /\ key'[members'[x]].generation = generation'[x]
    <3> SUFFICES ASSUME NEW x \in 1..n, members'[x] # None
                 PROVE  key'[members'[x]].slot = x /\ key'[members'[x]].generation = generation'[x]
      BY <1>4
    <3>1. x # s /\ members'[x] = members[x] /\ generation'[x] = generation[x] BY <1>4, <1>5, Zenon
    <3>2. members[x] \in Tid /\ key[members[x]].slot = x /\ key[members[x]].generation = generation[x]
      BY <1>0, <3>1 DEF TableInv
    <3>3. members[x] # t BY <3>1, <3>2 DEF s
    <3>. QED BY <1>3, <3>1, <3>2, <3>3 DEF TableType
  <2>3. \A u \in Tid : departure'[u] # "live" => at'[u] = "none" BY <1>1, <1>3 DEF TableInv, TableType
  <2>4. \A u \in Tid : u >= next_tid' => at'[u] = "none" /\ departure'[u] = "live"
    BY <1>1, <1>3 DEF TableInv, TableType
  <2>5. \A u \in active' : at'[u] = "user" BY <1>3 DEF TableInv
  <2>. QED BY <2>1, <2>2, <2>3, <2>4, <2>5 DEF TableInv
<1>10. member_count \in Nat \ {0} /\ member_count' = member_count - 1
  <2> DEFINE O == {x \in 1..n : members[x] # None}
  <2>1. IsFiniteSet(1..n) BY <1>0, FS_Interval
  <2>2. IsFiniteSet(O) BY <2>1, FS_Subset
  <2>3. s \in O BY <1>2, Threads
  <2>4. {x \in DOMAIN members' : members'[x] # None} = O \ {s} BY <1>4
  <2>5. Cardinality(O \ {s}) = Cardinality(O) - 1 BY <2>2, <2>3, FS_RemoveElement, Zenon
  <2>6. Cardinality(O) \in Nat /\ Cardinality(O) # 0 BY <2>2, <2>3, FS_CardinalityType, FS_EmptySet, Zenon
  <2>7. member_count = Cardinality(O) BY <1>0 DEF member_count
  <2>8. member_count' = Cardinality(O \ {s}) BY <2>4, Zenon DEF member_count
  <2>. QED BY <2>5, <2>6, <2>7, <2>8
<1>. QED BY <1>6, <1>9, <1>10

\* Without members nobody holds a thread and no departure is under way.
LEMMA NoMember ==
  ASSUME TableType, TableInv, member_count = 0
  PROVE  \A t \in Tid : at[t] = "none" /\ departure[t] \notin {"requested", "finalizing"} /\ ~Keyed(t)
<1> DEFINE O == {x \in DOMAIN members : members[x] # None}
<1>1. IsFiniteSet(DOMAIN members) BY TableShape, FS_Interval
<1>2. O = {} BY <1>1, FS_Subset, FS_EmptySet DEF member_count
<1>3. \A t \in Tid : ~Keyed(t) BY <1>2, Threads, Zenon DEF Keyed
<1>. QED BY <1>3, Zenon DEF TableInv, Held

\* The slot the termination cursor is at.
LEMMA CursorSlot ==
  ASSUME TableType, EndType, todo = "cursor", cursor <= Len(members)
  PROVE  cursor \in 1..Len(members) /\ (members[cursor] \in Tid \/ members[cursor] = None)
<1>1. cursor \in 1..Len(members) BY TableShape DEF EndType
<1>. QED BY <1>1, TableShape

\* The table keeps its shape in every step.
LEMMA TableStep ==
  ASSUME IInv, Next
  PROVE  TableType' /\ TableInv'
<1> USE DEF table, leaving
<1> TableType /\ RestType /\ TableInv /\ BirthInv BY DEF IInv
<1>1. ASSUME NEW l \in Lease, Assembly(l) \/ leave_building_op(l) PROVE TableType' /\ TableInv'
  <2>1. CASE enter_building_op(l) \/ CountMembers(l) \/ leave_building_op(l)
    <3>1. UNCHANGED <<members, generation, next_tid, key, at, departure, active>>
      BY <2>1 DEF enter_building_op, CountMembers, leave_building_op
    <3>. QED BY <3>1, StillTable
  <2>2. CASE attach_member(l)
    <3>1. prepare_member /\ install_member(next_tid, NewSlot) /\ UNCHANGED <<departure, active>>
      BY <2>2 DEF attach_member
    <3>. QED BY <3>1, Install
  <2>3. CASE begin_running(l)
    <3>1. /\ state = "Building" /\ UNCHANGED <<members, generation, next_tid, key, departure, active>>
          /\ at' = [t \in Tid |-> IF t \in {u \in Tid : Keyed(u)} THEN "starting" ELSE at[t]]
      BY <2>3 DEF begin_running
    <3>. QED BY <3>1, StartAll
  <2>. QED BY <1>1, <2>1, <2>2, <2>3 DEF Assembly
<1>2. ASSUME NEW t \in Tid, Syscall(t) \/ Advance(t) \/ on_requeue_if(t) \/ Killed(t) \/ offer(t)
      PROVE TableType' /\ TableInv'
  <2>1. CASE create_running(t)
    <3>1. prepare_member /\ install_member(next_tid, NewSlot) /\ UNCHANGED <<departure, active>>
      BY <2>1 DEF create_running
    <3>. QED BY <3>1, Install
  <2>2. CASE Exit(t) \/ CommitHandle(t) \/ bind_thread(t) \/ install_ready_batch(t) \/ complete_mandatory(t)
    <3>1. UNCHANGED <<members, generation, next_tid, key, at, departure, active>>
      BY <2>2 DEF Exit, CommitHandle, bind_thread, install_ready_batch, complete_mandatory
    <3>. QED BY <3>1, StillTable
  <2>3. ASSUME NEW u \in Tid, start_created(t, u) PROVE TableType' /\ TableInv'
    <3>1. /\ mst[u] = "Created" /\ at' = [at EXCEPT ![u] = "starting"]
          /\ UNCHANGED <<members, generation, next_tid, key, departure, active>>
      BY <2>3 DEF start_created
    <3>2. at[u] = "table" BY <3>1 DEF BirthInv
    <3>3. active' \subseteq Tid /\ (\A v \in active' : v \in active \/ v = u) /\ u \notin active'
      BY <3>1, <3>2 DEF TableType, TableInv
    <3>. QED BY <3>1, <3>2, <3>3, Move, Zenon DEF Containers
  <2>4. ASSUME NEW c \in Containers \ {"none"}, at[t] # "none", at' = [at EXCEPT ![t] = c],
               UNCHANGED <<members, generation, next_tid, key, departure>>,
               active' = active \/ active' = active \ {t} \/ (c = "user" /\ active' = active \cup {t}),
               active' = active => t \notin active
        PROVE TableType' /\ TableInv'
    <3>1. active' \subseteq Tid /\ (\A v \in active' : v \in active \/ v = t) BY <2>4 DEF TableType
    <3>2. t \in active' => c = "user" BY <2>4 DEF TableInv
    <3>. QED BY <2>4, <3>1, <3>2, Move, Zenon
  <2>5. CASE commit_running(t) \/ Park(t)
    <3>1. /\ at[t] = "user" /\ at' = [at EXCEPT ![t] = "parking"] /\ active' = active \ {t}
          /\ UNCHANGED <<members, generation, next_tid, key, departure>>
      BY <2>5 DEF commit_running, Park, User
    <3>2. at[t] # "none" /\ (active' = active => t \notin active) BY <3>1
    <3>. QED BY <2>4, <3>1, <3>2, Zenon DEF Containers
  <2>6. CASE release_capability(t)
    <3>1. CASE t \in bound /\ at[t] = "table" /\ mst[t] = "Created"
      BY <2>4, <2>6, <3>1 DEF release_capability, Containers, TableInv
    <3>2. CASE ~(t \in bound /\ at[t] = "table" /\ mst[t] = "Created")
      <4>1. UNCHANGED <<members, generation, next_tid, key, at, departure, active>>
        BY <2>6, <3>2 DEF release_capability
      <4>. QED BY <4>1, StillTable
    <3>. QED BY <3>1, <3>2
  <2>7. CASE publish_one(t) \/ pick(t) BY <2>4, <2>7 DEF publish_one, pick, Containers, TableInv
  <2>8. CASE enter_running_if(t) BY <2>4, <2>8, Zenon DEF enter_running_if, Containers, TableInv
  <2>9. CASE Requeue(t) \/ park_waiting(t) BY <2>4, <2>9 DEF Requeue, park_waiting, Containers, TableInv
  <2>10. CASE complete_finish(t) \/ offer(t) BY <2>4, <2>10, Zenon DEF complete_finish, offer, Containers, TableInv
  <2>11. CASE on_requeue_if(t) \/ Killed(t)
    <3>1. PICK c \in {"requeued", "released"} :
          /\ at[t] = "user" /\ at' = [at EXCEPT ![t] = c] /\ active' = active \ {t}
          /\ UNCHANGED <<members, generation, next_tid, key, departure>>
      BY <2>11 DEF on_requeue_if, Killed, User
    <3>2. at[t] # "none" /\ (active' = active => t \notin active) BY <3>1
    <3>. QED BY <2>4, <3>1, <3>2, Zenon DEF Containers
  <2>12. CASE request(t)
    <3>1. /\ at[t] = "released" /\ at' = [at EXCEPT ![t] = "none"]
          /\ claim_finalize(t, TRUE, result_obligations[t])
          /\ UNCHANGED <<members, generation, next_tid, key, active>>
      BY <2>12, Zenon DEF request
    <3>2. departure[t] = "live" BY <3>1, Zenon DEF TableInv
    <3>3. at' \in [Tid -> Containers] /\ at'[t] = "none" /\ \A u \in Tid : u # t => at'[u] = at[u]
      BY <3>1 DEF TableType, Containers
    <3>4. /\ departure' \in [Tid -> Departures] /\ departure'[t] \in {"requested", "finalizing"}
          /\ \A u \in Tid : u # t => departure'[u] = departure[u]
      BY <3>1, <3>2 DEF TableType, claim_finalize, Departures
    <3>. QED BY <3>1, <3>3, <3>4, Depending DEF Held
  <2>13. CASE complete_result(t)
    <3>1. UNCHANGED <<members, generation, next_tid, key, active, at>> BY <2>13 DEF complete_result
    <3>2. departure' = departure \/ (departure[t] = "requested" /\ departure' = [departure EXCEPT ![t] = "finalizing"])
      BY <2>13 DEF complete_result, claim_finalize, TableType, Departures
    <3>3. CASE departure' = departure
      <4>1. UNCHANGED <<members, generation, next_tid, key, at, departure, active>> BY <3>1, <3>3
      <4>. QED BY <4>1, StillTable
    <3>4. CASE departure[t] = "requested" /\ departure' = [departure EXCEPT ![t] = "finalizing"]
      <4>1. at[t] = "none" /\ Held(t) BY <3>4 DEF TableInv, Held
      <4>2. at' \in [Tid -> Containers] /\ at'[t] = "none" /\ \A u \in Tid : u # t => at'[u] = at[u]
        BY <3>1, <4>1 DEF TableType
      <4>3. /\ departure' \in [Tid -> Departures] /\ departure'[t] \in {"requested", "finalizing"}
            /\ \A u \in Tid : u # t => departure'[u] = departure[u]
        BY <3>4 DEF TableType, Departures
      <4>. QED BY <3>1, <4>1, <4>2, <4>3, Depending
    <3>. QED BY <3>2, <3>3, <3>4
  <2>14. CASE thread_departed(t)
    <3>1. Depart(t) BY <2>14 DEF thread_departed
    <3>. QED BY <3>1, Leave
  <2>. QED BY <1>2, <2>1, <2>2, <2>3, <2>5, <2>6, <2>7, <2>8, <2>9, <2>10, <2>11, <2>12, <2>13, <2>14
       DEF Syscall, Advance
<1>3. CASE Kill \/ run_termination_todo \/ CleanupDone \/ publish_reapable
  <2>1. UNCHANGED <<members, generation, next_tid, key, at, departure, active>>
    BY <1>3 DEF Kill, run_termination_todo, CleanupDone, publish_reapable
  <2>. QED BY <2>1, StillTable
<1>4. CASE take_termination_slot
  <2>1. UNCHANGED <<members, generation, next_tid, key, departure, active>> BY <1>4 DEF take_termination_slot
  <2>2. CASE at' = at
    <3>1. UNCHANGED <<members, generation, next_tid, key, at, departure, active>> BY <2>1, <2>2
    <3>. QED BY <3>1, StillTable
  <2>3. CASE at' # at
    <3>1. /\ cursor \in 1..Len(members) /\ members[cursor] # None /\ mst[members[cursor]] = "Created"
          /\ at' = [at EXCEPT ![members[cursor]] = "released"]
      BY <1>4, <2>3, CursorSlot DEF take_termination_slot, RestType
    <3>2. PICK t \in Tid : t = members[cursor] BY <3>1, TableShape
    <3>3. at[t] = "table" BY <3>1, <3>2 DEF BirthInv
    <3>4. active' \subseteq Tid /\ (\A v \in active' : v \in active \/ v = t) /\ t \notin active'
      BY <2>1, <3>3 DEF TableType, TableInv
    <3>5. at' = [at EXCEPT ![t] = "released"] /\ "released" \in Containers \ {"none"} BY <3>1, <3>2 DEF Containers
    <3>. QED BY <2>1, <3>3, <3>4, <3>5, Move, Zenon
  <2>. QED BY <2>2, <2>3
<1>5. CASE abandon
  <2>1. UNCHANGED <<members, generation, next_tid, key, departure, active>> BY <1>5 DEF abandon
  <2>2. taken \in Tid BY <1>5 DEF abandon, RestType, EndType
  <2>3. CASE at[taken] # "context"
    <3>1. at' = at BY <1>5, <2>2, <2>3 DEF abandon, TableType
    <3>2. UNCHANGED <<members, generation, next_tid, key, at, departure, active>> BY <2>1, <3>1
    <3>. QED BY <3>2, StillTable
  <2>4. CASE at[taken] = "context"
    <3>1. PICK t \in Tid : t = taken BY <2>2
    <3>2. at' = [at EXCEPT ![t] = "abandoned"] /\ "abandoned" \in Containers \ {"none"}
      BY <1>5, <2>4, <3>1 DEF abandon, Containers
    <3>3. active' \subseteq Tid /\ (\A v \in active' : v \in active \/ v = t) /\ t \notin active'
      BY <2>1, <2>4, <3>1 DEF TableType, TableInv
    <3>. QED BY <2>1, <2>4, <3>1, <3>2, <3>3, Move, Zenon
  <2>. QED BY <2>3, <2>4
<1>6. CASE Shell
  <2>1. UNCHANGED <<members, generation, next_tid, key, at, departure, active>>
    BY <1>6 DEF Shell, CloseShell, revive_control, drain, publish_dead, mark_dead, DrainStops
  <2>. QED BY <2>1, StillTable
<1>. QED BY <1>1, <1>2, <1>3, <1>4, <1>5, <1>6 DEF Next, Core, Cleanup

-----------------------------------------------------------------------------
(* The counts.                                                             *)

\* What the two counts are when they are counts.
LEMMA CountsOf ==
  ASSUME CountInv
  PROVE  /\ building_ops \in Nat /\ mandatory_ops \in Nat
         /\ \A l \in Lease : lease[l] # "idle" => building_ops # 0
         /\ \A t \in Tid : mapping[t] = "committed" => mandatory_ops # 0
<1>1. IsFiniteSet(Tid) BY FS_Interval DEF Tid
<1>2. IsFiniteSet(Leased) /\ IsFiniteSet(Committed) BY <1>1, FS_Subset DEF Leased, Committed
<1>3. building_ops \in Nat /\ mandatory_ops \in Nat BY <1>2, FS_CardinalityType DEF CountInv
<1>4. (building_ops = 0 => Leased = {}) /\ (mandatory_ops = 0 => Committed = {}) BY <1>2, FS_EmptySet DEF CountInv
<1>. QED BY <1>3, <1>4 DEF Leased, Committed

\* A holder that joins a finite set raises its count by one.
LEMMA CountMore ==
  ASSUME NEW S, IsFiniteSet(S), NEW x, x \notin S
  PROVE  Cardinality(S \cup {x}) = Cardinality(S) + 1
BY FS_AddElement

\* A holder that leaves a finite set lowers its count by one.
LEMMA CountLess ==
  ASSUME NEW S, IsFiniteSet(S), NEW x \in S
  PROVE  Cardinality(S \ {x}) = Cardinality(S) - 1
BY FS_RemoveElement

\* building_ops and mandatory_ops stay the numbers of open Building leases and of committed memory
\* changes.
LEMMA CountStep ==
  ASSUME IInv, Next
  PROVE  CountInv'
<1> USE DEF table, ops, handle, leaving, building, ending, shells
<1> WorkType /\ CountInv BY DEF IInv, RestType
<1>f. IsFiniteSet(Leased) /\ IsFiniteSet(Committed)
  <2>1. IsFiniteSet(Tid) BY FS_Interval DEF Tid
  <2>. QED BY <2>1, FS_Subset DEF Leased, Committed
<1>u. ASSUME UNCHANGED <<mapping, lease, building_ops, mandatory_ops>> PROVE CountInv'
  BY <1>u DEF CountInv, Leased, Committed
<1>1. ASSUME NEW l \in Lease, Assembly(l) \/ leave_building_op(l) PROVE CountInv'
  <2>1. CASE enter_building_op(l)
    <3>1. lease[l] = "idle" /\ lease' = [lease EXCEPT ![l] = "open"] /\ building_ops' = building_ops + 1
          /\ UNCHANGED <<mapping, mandatory_ops>>
      BY <2>1 DEF enter_building_op
    <3>2. Leased' = Leased \cup {l} /\ l \notin Leased /\ Committed' = Committed
      BY <3>1 DEF Leased, Committed, WorkType
    <3>3. Cardinality(Leased') = Cardinality(Leased) + 1 BY <1>f, <3>2, CountMore
    <3>. QED BY <3>1, <3>2, <3>3 DEF CountInv
  <2>2. CASE attach_member(l) \/ CountMembers(l)
    <3>1. PICK w \in {"attached", "counted"} : lease[l] = "open" /\ lease' = [lease EXCEPT ![l] = w]
          /\ UNCHANGED <<mapping, mandatory_ops, building_ops>>
      BY <2>2 DEF attach_member, CountMembers
    <3>2. Leased' = Leased /\ Committed' = Committed BY <3>1 DEF Leased, Committed, WorkType
    <3>. QED BY <3>1, <3>2 DEF CountInv
  <2>3. CASE begin_running(l) \/ leave_building_op(l)
    <3>1. lease[l] # "idle" /\ lease' = [lease EXCEPT ![l] = "idle"] /\ building_ops' = building_ops - 1
          /\ UNCHANGED <<mapping, mandatory_ops>>
      BY <2>3, Zenon DEF begin_running, leave_building_op
    <3>2. Leased' = Leased \ {l} /\ l \in Leased /\ Committed' = Committed
      BY <3>1 DEF Leased, Committed, WorkType
    <3>3. Cardinality(Leased') = Cardinality(Leased) - 1 BY <1>f, <3>2, CountLess
    <3>. QED BY <3>1, <3>2, <3>3 DEF CountInv
  <2>. QED BY <1>1, <2>1, <2>2, <2>3 DEF Assembly
<1>2. ASSUME NEW t \in Tid, Syscall(t) \/ Advance(t) \/ on_requeue_if(t) \/ Killed(t) \/ offer(t)
      PROVE CountInv'
  <2>1. CASE create_running(t) \/ Park(t) \/ pick(t) \/ Requeue(t) \/ complete_finish(t) \/ Killed(t) \/ request(t)
    BY <1>u, <2>1, Zenon DEF create_running, Park, pick, Requeue, complete_finish, Killed, request
  <2>2. CASE Exit(t) \/ release_capability(t) \/ CommitHandle(t) \/ bind_thread(t) \/ install_ready_batch(t)
    BY <1>u, <2>2, Zenon DEF Exit, release_capability, CommitHandle, bind_thread, install_ready_batch
  <2>3. CASE publish_one(t) \/ enter_running_if(t) \/ on_requeue_if(t) \/ park_waiting(t)
    BY <1>u, <2>3, Zenon DEF publish_one, enter_running_if, on_requeue_if, park_waiting
  <2>4. CASE thread_departed(t) BY <1>u, <2>4 DEF thread_departed, Depart
  <2>5. ASSUME NEW u \in Tid, start_created(t, u) PROVE CountInv' BY <1>u, <2>5 DEF start_created
  <2>6. CASE commit_running(t)
    <3>1. mapping[t] = "none" /\ mapping' = [mapping EXCEPT ![t] = "committed"]
          /\ mandatory_ops' = mandatory_ops + 1 /\ UNCHANGED <<lease, building_ops>>
      BY <2>6 DEF commit_running
    <3>2. Committed' = Committed \cup {t} /\ t \notin Committed /\ Leased' = Leased
      BY <3>1 DEF Leased, Committed, WorkType
    <3>3. Cardinality(Committed') = Cardinality(Committed) + 1 BY <1>f, <3>2, CountMore
    <3>. QED BY <3>1, <3>2, <3>3 DEF CountInv
  <2>7. CASE offer(t) \/ complete_result(t)
    <3>1. PICK w \in {"none", "released"} : mapping[t] # "committed" /\ mapping' = [mapping EXCEPT ![t] = w]
          /\ UNCHANGED <<lease, building_ops, mandatory_ops>>
      BY <2>7, Zenon DEF offer, complete_result
    <3>2. Leased' = Leased /\ Committed' = Committed BY <3>1 DEF Leased, Committed, WorkType
    <3>. QED BY <3>1, <3>2 DEF CountInv
  <2>8. CASE complete_mandatory(t)
    <3>1. mapping[t] = "committed" /\ mapping' = [mapping EXCEPT ![t] = "settled"]
          /\ mandatory_ops' = mandatory_ops - 1 /\ UNCHANGED <<lease, building_ops>>
      BY <2>8 DEF complete_mandatory
    <3>2. Committed' = Committed \ {t} /\ t \in Committed /\ Leased' = Leased
      BY <3>1 DEF Leased, Committed, WorkType
    <3>3. Cardinality(Committed') = Cardinality(Committed) - 1 BY <1>f, <3>2, CountLess
    <3>. QED BY <3>1, <3>2, <3>3 DEF CountInv
  <2>. QED BY <1>2, <2>1, <2>2, <2>3, <2>4, <2>5, <2>6, <2>7, <2>8 DEF Syscall, Advance
<1>3. CASE Kill \/ Cleanup \/ publish_reapable
  BY <1>u, <1>3, Zenon DEF Kill, Cleanup, CleanupDone, abandon, run_termination_todo, take_termination_slot, publish_reapable
<1>4. CASE Shell
  BY <1>u, <1>4, Zenon DEF Shell, CloseShell, revive_control, drain, publish_dead, mark_dead, DrainStops
<1>. QED BY <1>1, <1>2, <1>3, <1>4 DEF Next, Core

=============================================================================
