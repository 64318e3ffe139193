-------------------------------- MODULE Boot --------------------------------
(***************************************************************************)
(* From the device tree to the scheduler: admission of the cpu nodes       *)
(* (src/os/dtb/src/cpu.rs), the hart registry and its boot records         *)
(* (registry.rs, main.rs), the bring-up of the secondary harts (rt.rs),    *)
(* the runtime gate (src/os/runtime_gate) and the partition of the harts   *)
(* into scheduling domains (src/os/sched_domain, sched.rs).                *)
(*                                                                         *)
(* A cpu node is a record: hart id, whether its status is "okay", whether  *)
(* its ISA description passes the baseline checks, its state extensions    *)
(* and whether it has an MMU.  Harts are known by their dense slot.        *)
(***************************************************************************)
EXTENDS Integers, Sequences, FiniteSets

CONSTANTS
  Boards,       \* the node lists the device tree may hold
  BootHart,     \* the raw hart id of the boot contract
  HartLimit,    \* HART_NUM_LIMIT
  MaxPanics     \* bound: fatal traps during the bring-up

VARIABLES
  board,        \* frozen: the node list
  registry,     \* the admitted nodes in slot order, <<>> until installed
  record,       \* per slot: Prepared, Starting, Online
  pc,           \* per slot: where the hart is
  started,      \* how many slots the HSM loop has gone through
  gate,         \* the runtime gate
  reclaimed,    \* the bootstrap pages were given to the frame pool
  domains,      \* the published domain plan, or <<>>
  panics
vars == <<board, registry, record, pc, started, gate, reclaimed, domains, panics>>

Extensions == {"f", "d", "q"}
Requirements == {"Base64", "D64"}

-----------------------------------------------------------------------------
\* dtb::cpu::parse.
Available(nodes) == SelectSeq(nodes, LAMBDA n : n.okay)

Rejected(n) ==
  \/ ~n.isa
  \/ "d" \in n.caps /\ "f" \notin n.caps
  \/ "q" \in n.caps /\ "d" \notin n.caps

\* The canonical order: by hart id.
Sorted(nodes) ==
  [i \in DOMAIN nodes |->
     CHOOSE n \in {nodes[j] : j \in DOMAIN nodes} :
       Cardinality({j \in DOMAIN nodes : nodes[j].id < n.id}) = i - 1]

Admissible(nodes) ==
  LET a == Available(nodes) IN
  /\ a # <<>> /\ Len(a) <= HartLimit
  /\ \A i \in DOMAIN a : ~Rejected(a[i])
  /\ \A i, j \in DOMAIN a : i # j => a[i].id # a[j].id

\* construct_registry: harts without paging get no slot.
Slots(nodes) == SelectSeq(Sorted(Available(nodes)), LAMBDA n : n.mmu)

BootSlot == CHOOSE s \in DOMAIN registry : registry[s].id = BootHart

-----------------------------------------------------------------------------
\* sched_domain: FLEN, the signature of a hart and the partition by signature.
flen(caps) == IF "q" \in caps THEN 128 ELSE IF "d" \in caps THEN 64
              ELSE IF "f" \in caps THEN 32 ELSE 0

\* IsaRequirement::compatible.
compatible(req, width) == req = "Base64" \/ width = 64

signature(n) == {req \in Requirements : compatible(req, flen(n.caps))}

\* plan: the signatures in the order of their first slot.
RECURSIVE plan(_)
plan(slots) ==
  IF slots = <<>> THEN <<>>
  ELSE LET before == plan(SubSeq(slots, 1, Len(slots) - 1))
           sig == signature(slots[Len(slots)])
       IN IF \E i \in DOMAIN before : before[i] = sig THEN before ELSE Append(before, sig)

slot_domain(s) == CHOOSE i \in DOMAIN domains : domains[i] = signature(registry[s])

\* resolve: the weakest compatible domain, the first one among equals; 0 for none.
resolve(p, req) ==
  LET fit == {i \in DOMAIN p : req \in p[i]} IN
  IF fit = {} THEN 0
  ELSE CHOOSE i \in fit : \A j \in fit :
         \/ Cardinality(p[i]) < Cardinality(p[j])
         \/ Cardinality(p[i]) = Cardinality(p[j]) /\ i <= j

-----------------------------------------------------------------------------
Init ==
  /\ board \in Boards
  /\ registry = <<>> /\ record = <<>> /\ pc = <<>> /\ started = 0
  /\ gate = "Preparing" /\ reclaimed = FALSE /\ domains = <<>> /\ panics = 0

\* RuntimeGate: one transition out of Preparing, whoever comes first.
publish_failed == gate' = IF gate = "Preparing" THEN "Failed" ELSE gate

Goto(s, where) == pc' = [pc EXCEPT ![s] = where]

\* fatal_msg and handle_panic: broadcast the failure, park for ever.
Fatal(s) == publish_failed /\ Goto(s, "parked")

\* Mutant: a board that is not admitted is refused without publishing the failure.
construct_registry_Quiet ==
  /\ registry = <<>> /\ gate = "Preparing"
  /\ Admissible(board) /\ \E i \in DOMAIN Slots(board) : Slots(board)[i].id = BootHart
  /\ registry' = Slots(board)
  /\ record' = [s \in DOMAIN registry' |-> "Prepared"]
  /\ pc' = [s \in DOMAIN registry' |-> IF registry'[s].id = BootHart THEN "formal" ELSE "off"]
  /\ UNCHANGED <<board, started, gate, reclaimed, domains, panics>>

\* main: the boot hart alone admits the cpus and installs the registry.
construct_registry ==
  /\ registry = <<>> /\ gate = "Preparing"
  /\ IF Admissible(board) /\ \E i \in DOMAIN Slots(board) : Slots(board)[i].id = BootHart
     THEN /\ registry' = Slots(board)
          /\ record' = [s \in DOMAIN registry' |-> "Prepared"]
          /\ pc' = [s \in DOMAIN registry' |-> IF registry'[s].id = BootHart THEN "formal" ELSE "off"]
          /\ UNCHANGED gate
     ELSE publish_failed /\ UNCHANGED <<registry, record, pc>>
  /\ UNCHANGED <<board, started, reclaimed, domains, panics>>

\* hart_formal_entry: the CSR baseline holds, the hart publishes Online.
hart_formal_entry(s) ==
  /\ pc[s] = "formal"
  /\ record' = [record EXCEPT ![s] = "Online"]
  /\ Goto(s, IF s = BootSlot THEN "bring_up" ELSE "gate")
  /\ UNCHANGED <<board, registry, started, gate, reclaimed, domains, panics>>

\* The CSR baseline is refused, or a trap or panic ends the hart's bring-up.
handle_panic(s) ==
  /\ pc[s] \in {"formal", "gate", "bring_up", "await", "build", "ready"}
  /\ panics < MaxPanics
  /\ panics' = panics + 1
  /\ Fatal(s)
  /\ UNCHANGED <<board, registry, record, started, reclaimed, domains>>

\* bring_up_runtime: the whole expected set is Starting before the first start.
publish_starting(s) ==
  /\ pc[s] = "bring_up" /\ started = 0
  /\ record' = [t \in DOMAIN record |-> IF t = s THEN record[t] ELSE "Starting"]
  /\ started' = 1
  /\ UNCHANGED <<board, registry, pc, gate, reclaimed, domains, panics>>

\* One hart_start of the loop under the registry lock; the boot hart is skipped.
hart_start(s) ==
  /\ pc[s] = "bring_up" /\ started \in DOMAIN registry
  /\ \/ /\ pc' = IF started = s THEN pc ELSE [pc EXCEPT ![started] = "awaken"]
        /\ started' = started + 1
        /\ UNCHANGED gate
     \/ /\ started # s
        /\ Fatal(s)
        /\ UNCHANGED started
  /\ UNCHANGED <<board, registry, record, reclaimed, domains, panics>>

starts_done(s) ==
  /\ pc[s] = "bring_up" /\ started > Len(registry)
  /\ Goto(s, "await")
  /\ UNCHANGED <<board, registry, record, started, gate, reclaimed, domains, panics>>

\* _awaken: the PA prologue spins until its record is Starting, then runs on
\* the transition root until the formal entry has switched away from it.
awaken(s) ==
  /\ pc[s] = "awaken" /\ record[s] = "Starting"
  /\ Goto(s, "formal")
  /\ UNCHANGED <<board, registry, record, started, gate, reclaimed, domains, panics>>

\* Everyone is Online: the bootstrap pages are retired and freed.
AllOnline == \A s \in DOMAIN record : record[s] = "Online"

await_online(s) ==
  /\ pc[s] = "await"
  /\ IF gate = "Failed" THEN Fatal(s) /\ UNCHANGED reclaimed
     ELSE /\ AllOnline
          /\ reclaimed' = TRUE
          /\ Goto(s, "build")
          /\ UNCHANGED gate
  /\ UNCHANGED <<board, registry, record, started, domains, panics>>

await_timeout(s) ==
  /\ pc[s] = "await" /\ gate # "Failed" /\ ~AllOnline
  /\ Fatal(s)
  /\ UNCHANGED <<board, registry, record, started, reclaimed, domains, panics>>

\* build_domains and the load of the initial process.
build_domains(s) ==
  /\ pc[s] = "build"
  /\ domains' = plan(registry)
  /\ Goto(s, "ready")
  /\ UNCHANGED <<board, registry, record, started, gate, reclaimed, panics>>

\* publish_ready: the exchange out of Preparing, or a panic on what it finds.
\* Mutant: Ready is stored over a failure published meanwhile.
publish_ready_Store(s) ==
  /\ pc[s] = "ready"
  /\ gate' = "Ready" /\ Goto(s, "run")
  /\ UNCHANGED <<board, registry, record, started, reclaimed, domains, panics>>

publish_ready(s) ==
  /\ pc[s] = "ready"
  /\ IF gate = "Preparing" THEN gate' = "Ready" /\ Goto(s, "run") ELSE Fatal(s)
  /\ UNCHANGED <<board, registry, record, started, reclaimed, domains, panics>>

wait_for_runtime(s) ==
  /\ pc[s] = "gate" /\ gate # "Preparing"
  /\ Goto(s, IF gate = "Ready" THEN "run" ELSE "parked")
  /\ UNCHANGED <<board, registry, record, started, gate, reclaimed, domains, panics>>

HartStep(s) ==
  \/ hart_formal_entry(s) \/ publish_starting(s) \/ hart_start(s) \/ starts_done(s)
  \/ await_online(s) \/ await_timeout(s) \/ build_domains(s) \/ publish_ready(s)
  \/ wait_for_runtime(s)

Next ==
  \/ construct_registry
  \/ \E s \in DOMAIN pc : HartStep(s) \/ awaken(s) \/ handle_panic(s)

\* A running hart takes its steps and the boot deadline is a clock; whether the
\* firmware really starts a hart (awaken) is not assumed.
Fairness == /\ WF_vars(construct_registry)
            /\ \A s \in 1 .. HartLimit : WF_vars(s \in DOMAIN pc /\ HartStep(s))

Spec == Init /\ [][Next]_vars /\ Fairness

-----------------------------------------------------------------------------
\* Ready is published once, over no failure, and only for a whole boot: every
\* admitted hart is Online and waits at the gate, none has parked, and the
\* domains are built; no hart enters the scheduler under another verdict.
OnlyWholeBoot ==
  [][/\ gate # "Preparing" => gate' = gate
     /\ gate' = "Ready" /\ gate # "Ready" =>
          /\ domains # <<>>
          /\ \A s \in DOMAIN pc : record[s] = "Online" /\ pc[s] \in {"gate", "ready"}
     /\ \A s \in DOMAIN pc : pc'[s] = "run" => gate' = "Ready"]_vars

\* The bootstrap pages return to the frame pool only when no hart can still be
\* on the transition root or before it.
ReclaimSafe ==
  reclaimed => \A s \in DOMAIN pc : pc[s] \notin {"off", "awaken", "formal"}

\* Every slot has exactly one domain of its own signature; a requirement is
\* resolved to a domain all of whose harts satisfy it, to the weakest one, and
\* Base64 is always resolved: binding an execution never strands its threads.
DomainsFit ==
  domains # <<>> =>
    /\ \A i, j \in DOMAIN domains : i # j => domains[i] # domains[j]
    /\ resolve(domains, "Base64") # 0
    /\ \A req \in Requirements :
         LET d == resolve(domains, req)
             able == {s \in DOMAIN registry : req = "Base64" \/ flen(registry[s].caps) = 64}
         IN IF d = 0 THEN able = {}
            ELSE /\ {s \in DOMAIN registry : slot_domain(s) = d} \subseteq able
                 /\ \A s \in able : Cardinality(domains[d]) <= Cardinality(domains[slot_domain(s)])

\* The boot always ends with a verdict, and every hart that came up ends in the
\* scheduler or parked, even when a hart never appears.
Settled == gate # "Preparing" /\ \A s \in DOMAIN pc : pc[s] \in {"run", "parked", "off", "awaken"}
BootEnds == []<>Settled
=============================================================================
