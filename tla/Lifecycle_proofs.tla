-------------------------- MODULE Lifecycle_proofs --------------------------
(***************************************************************************)
(* The theorems about the life of a process: the assertions of the member  *)
(* table and of mark_dead cannot fail, the REAPABLE level is never lost,   *)
(* and a Ready member is on its way to a ready queue.                      *)
(***************************************************************************)
EXTENDS Lifecycle_members

USE BoundAssumption, LeaseAssumption, UseAssumption

-----------------------------------------------------------------------------
(* Types, and the members of a process that is being built.                *)

\* The other variables keep their types.
LEMMA MemberTypes ==
  ASSUME IInv, Next
  PROVE  MemberType'
<1> USE DEF table, handle, leaving, building, ending, shells
<1> TableType /\ MemberType /\ EndType BY DEF IInv, RestType
<1>u. ASSUME UNCHANGED <<mst, bound, batch, control, making>> PROVE MemberType' BY <1>u DEF MemberType
<1>m. ASSUME mst' \in [Tid -> MemberState], UNCHANGED <<bound, batch, control, making>> PROVE MemberType'
  BY <1>m DEF MemberType
<1>1. ASSUME NEW l \in Lease, Assembly(l) \/ leave_building_op(l) PROVE MemberType'
  <2>1. CASE enter_building_op(l) \/ CountMembers(l) \/ leave_building_op(l)
    BY <1>u, <2>1 DEF enter_building_op, CountMembers, leave_building_op
  <2>2. CASE attach_member(l)
    BY <2>2, Zenon DEF attach_member, prepare_member, install_member, MemberState, MemberType
  <2>3. CASE begin_running(l) BY <1>m, <2>3 DEF begin_running, MemberState, MemberType
  <2>. QED BY <1>1, <2>1, <2>2, <2>3 DEF Assembly
<1>2. ASSUME NEW t \in Tid, Syscall(t) \/ Advance(t) \/ on_requeue_if(t) \/ Killed(t) \/ offer(t)
      PROVE MemberType'
  <2>1. CASE create_running(t)
    BY <2>1 DEF create_running, prepare_member, install_member, MemberState, MemberType
  <2>2. CASE commit_running(t) \/ Park(t) \/ pick(t) \/ Requeue(t) \/ complete_finish(t)
    BY <1>u, <2>2, Zenon DEF commit_running, Park, pick, Requeue, complete_finish
  <2>3. CASE Killed(t) \/ request(t) \/ offer(t) \/ complete_mandatory(t) \/ complete_result(t)
    BY <1>u, <2>3, Zenon DEF Killed, request, offer, complete_mandatory, complete_result
  <2>4. CASE Exit(t) BY <1>m, <2>4 DEF Exit, MemberState, MemberType
  <2>5. CASE release_capability(t) BY <2>5 DEF release_capability, MemberState, MemberType
  <2>6. ASSUME NEW u \in Tid, start_created(t, u) PROVE MemberType'
    BY <1>m, <2>6 DEF start_created, MemberState, MemberType
  <2>7. CASE CommitHandle(t) \/ bind_thread(t) BY <2>7 DEF CommitHandle, bind_thread, MemberType
  <2>8. CASE install_ready_batch(t) BY <2>8 DEF install_ready_batch, MemberType
  <2>9. CASE publish_one(t) BY <2>9 DEF publish_one, MemberType
  <2>10. CASE enter_running_if(t) BY <1>m, <2>10 DEF enter_running_if, MemberState, MemberType
  <2>11. CASE on_requeue_if(t) BY <1>m, <2>11 DEF on_requeue_if, MemberState, MemberType
  <2>12. CASE park_waiting(t) BY <1>m, <2>12 DEF park_waiting, MemberState, MemberType
  <2>13. CASE thread_departed(t) BY <2>13 DEF thread_departed, Depart, MemberState, MemberType
  <2>. QED BY <1>2, <2>1, <2>2, <2>3, <2>4, <2>5, <2>6, <2>7, <2>8, <2>9, <2>10, <2>11, <2>12, <2>13
       DEF Syscall, Advance
<1>3. CASE Kill \/ CleanupDone \/ abandon \/ run_termination_todo \/ publish_reapable
  BY <1>u, <1>3 DEF Kill, CleanupDone, abandon, run_termination_todo, publish_reapable
<1>4. CASE take_termination_slot
  <2>1. mst' \in [Tid -> MemberState]
    BY <1>4, CursorSlot DEF take_termination_slot, MemberState, MemberType
  <2>. QED BY <1>m, <1>4, <2>1 DEF take_termination_slot
<1>5. CASE Shell
  BY <1>u, <1>5 DEF Shell, CloseShell, revive_control, drain, publish_dead, mark_dead, DrainStops
<1>. QED BY <1>1, <1>2, <1>3, <1>4, <1>5 DEF Next, Core, Cleanup

\* The memory changes, the owed results and the Building leases keep their types.
LEMMA WorkTypes ==
  ASSUME IInv, Next
  PROVE  WorkType'
<1> USE DEF table, handle, leaving, building, ending, shells
<1> WorkType BY DEF IInv, RestType
<1>u. ASSUME UNCHANGED <<mapping, result_obligations, lease>> PROVE WorkType' BY <1>u DEF WorkType
<1>1. ASSUME NEW l \in Lease, Assembly(l) \/ leave_building_op(l) PROVE WorkType'
  BY <1>1, Zenon DEF Assembly, enter_building_op, CountMembers, leave_building_op, attach_member, begin_running,
     WorkType
<1>2. ASSUME NEW t \in Tid, Syscall(t) \/ Advance(t) \/ on_requeue_if(t) \/ Killed(t) \/ offer(t)
      PROVE WorkType'
  <2>1. CASE create_running(t) \/ Park(t) \/ pick(t) \/ Requeue(t) \/ complete_finish(t) \/ Killed(t) \/ request(t)
    BY <1>u, <2>1, Zenon DEF create_running, Park, pick, Requeue, complete_finish, Killed, request
  <2>2. CASE Exit(t) \/ release_capability(t) \/ CommitHandle(t) \/ bind_thread(t) \/ install_ready_batch(t)
    BY <1>u, <2>2, Zenon DEF Exit, release_capability, CommitHandle, bind_thread, install_ready_batch
  <2>3. CASE publish_one(t) \/ enter_running_if(t) \/ on_requeue_if(t) \/ park_waiting(t)
    BY <1>u, <2>3, Zenon DEF publish_one, enter_running_if, on_requeue_if, park_waiting
  <2>4. CASE thread_departed(t) BY <1>u, <2>4 DEF thread_departed, Depart
  <2>5. ASSUME NEW u \in Tid, start_created(t, u) PROVE WorkType' BY <1>u, <2>5 DEF start_created
  <2>6. CASE commit_running(t) BY <2>6 DEF commit_running, WorkType
  <2>7. CASE offer(t) BY <2>7 DEF offer, WorkType
  <2>8. CASE complete_mandatory(t) BY <2>8 DEF complete_mandatory, WorkType
  <2>9. CASE complete_result(t) BY <2>9 DEF complete_result, WorkType
  <2>. QED BY <1>2, <2>1, <2>2, <2>3, <2>4, <2>5, <2>6, <2>7, <2>8, <2>9 DEF Syscall, Advance
<1>3. CASE Kill \/ Cleanup \/ publish_reapable
  BY <1>u, <1>3, Zenon DEF Kill, Cleanup, CleanupDone, abandon, run_termination_todo, take_termination_slot, publish_reapable
<1>4. CASE Shell
  BY <1>u, <1>4, Zenon DEF Shell, CloseShell, revive_control, drain, publish_dead, mark_dead, DrainStops
<1>. QED BY <1>1, <1>2, <1>3, <1>4 DEF Next, Core

\* The state of the process and its termination cursor keep their types.
LEMMA EndTypes ==
  ASSUME IInv, Next
  PROVE  EndType'
<1> USE DEF table, handle, leaving, building, ending, shells
<1> TableType /\ EndType BY DEF IInv, RestType
<1>u. ASSUME UNCHANGED <<state, todo, cursor, taken, rings>> PROVE EndType' BY <1>u DEF EndType
<1>1. ASSUME NEW l \in Lease, Assembly(l) \/ leave_building_op(l) PROVE EndType'
  <2>1. CASE enter_building_op(l) \/ CountMembers(l) \/ attach_member(l)
    BY <1>u, <2>1 DEF enter_building_op, CountMembers, attach_member
  <2>2. CASE leave_building_op(l) BY <2>2 DEF leave_building_op, EndType
  <2>3. CASE begin_running(l) BY <2>3, Zenon DEF begin_running, EndType
  <2>. QED BY <1>1, <2>1, <2>2, <2>3 DEF Assembly
<1>2. ASSUME NEW t \in Tid, Syscall(t) \/ Advance(t) \/ on_requeue_if(t) \/ Killed(t) \/ offer(t)
      PROVE EndType'
  <2>1. CASE create_running(t) \/ commit_running(t) \/ Park(t) \/ pick(t) \/ Requeue(t) \/ complete_finish(t)
    BY <1>u, <2>1, Zenon DEF create_running, commit_running, Park, pick, Requeue, complete_finish
  <2>2. CASE release_capability(t) \/ CommitHandle(t) \/ bind_thread(t) \/ install_ready_batch(t)
    BY <1>u, <2>2, Zenon DEF release_capability, CommitHandle, bind_thread, install_ready_batch
  <2>3. CASE publish_one(t) \/ enter_running_if(t) \/ on_requeue_if(t) \/ park_waiting(t)
    BY <1>u, <2>3, Zenon DEF publish_one, enter_running_if, on_requeue_if, park_waiting
  <2>4. CASE Killed(t) \/ request(t) \/ offer(t) \/ complete_result(t)
    BY <1>u, <2>4, Zenon DEF Killed, request, offer, complete_result
  <2>5. ASSUME NEW u \in Tid, start_created(t, u) PROVE EndType' BY <1>u, <2>5 DEF start_created
  <2>6. CASE Exit(t) BY <2>6 DEF Exit, request_termination, EndType
  <2>7. CASE complete_mandatory(t) BY <2>7 DEF complete_mandatory, EndType
  <2>8. CASE thread_departed(t) BY <2>8 DEF thread_departed, Depart, EndType
  <2>. QED BY <1>2, <2>1, <2>2, <2>3, <2>4, <2>5, <2>6, <2>7, <2>8 DEF Syscall, Advance
<1>3. CASE Kill BY <1>3 DEF Kill, request_termination, EndType
<1>4. CASE CleanupDone BY <1>4 DEF CleanupDone, EndType
<1>5. CASE abandon BY <1>5 DEF abandon, EndType
<1>6. CASE run_termination_todo BY <1>6 DEF run_termination_todo, EndType
<1>7. CASE take_termination_slot
  <2>1. cursor' = cursor + 1 /\ UNCHANGED <<state, todo, rings>> BY <1>7 DEF take_termination_slot
  <2>2. taken' \in Tid \cup {None} BY <1>7, CursorSlot DEF take_termination_slot
  <2>. QED BY <2>1, <2>2 DEF EndType
<1>8. CASE publish_reapable BY <1>8 DEF publish_reapable, EndType
<1>9. CASE CloseShell \/ revive_control \/ drain \/ publish_dead \/ DrainStops
  BY <1>u, <1>9, Zenon DEF CloseShell, revive_control, drain, publish_dead, DrainStops
<1>10. CASE mark_dead BY <1>10 DEF mark_dead, EndType
<1>. QED BY <1>1, <1>2, <1>3, <1>4, <1>5, <1>6, <1>7, <1>8, <1>9, <1>10 DEF Next, Core, Cleanup, Shell

\* The shell stays as it is, and the process does not become Dead.
Aside == UNCHANGED <<shell, signals, reviving, draining>> /\ (state' = "Dead" => state = "Dead")
\* No step but publish_reapable and the calls on the shell touches the shell's level or makes the
\* process Dead.
LEMMA ShellFrame ==
  ASSUME Next, ~publish_reapable, ~Shell
  PROVE  Aside
<1> USE DEF table, handle, leaving, building, ending, shells, Aside
<1>1. ASSUME NEW l \in Lease, Assembly(l) \/ leave_building_op(l)
      PROVE  Aside
  BY <1>1, Zenon DEF Assembly, enter_building_op, CountMembers, leave_building_op, attach_member, begin_running
<1>2. ASSUME NEW t \in Tid, Syscall(t) \/ Advance(t) \/ on_requeue_if(t) \/ Killed(t) \/ offer(t)
      PROVE  Aside
  <2>1. CASE create_running(t) \/ commit_running(t) \/ Park(t) \/ pick(t) \/ Requeue(t) \/ complete_finish(t)
    BY <2>1, Zenon DEF create_running, commit_running, Park, pick, Requeue, complete_finish
  <2>2. CASE release_capability(t) \/ CommitHandle(t) \/ bind_thread(t) \/ install_ready_batch(t)
    BY <2>2, Zenon DEF release_capability, CommitHandle, bind_thread, install_ready_batch
  <2>3. CASE publish_one(t) \/ enter_running_if(t) \/ on_requeue_if(t) \/ park_waiting(t)
    BY <2>3 DEF publish_one, enter_running_if, on_requeue_if, park_waiting
  <2>4. CASE Killed(t) \/ request(t) \/ offer(t) \/ complete_result(t) \/ complete_mandatory(t)
    BY <2>4, Zenon DEF Killed, request, offer, complete_result, complete_mandatory
  <2>5. ASSUME NEW u \in Tid, start_created(t, u) PROVE Aside
    BY <2>5 DEF start_created
  <2>6. CASE Exit(t) \/ thread_departed(t) BY <2>6 DEF Exit, request_termination, thread_departed, Depart
  <2>. QED BY <1>2, <2>1, <2>2, <2>3, <2>4, <2>5, <2>6 DEF Syscall, Advance
<1>3. CASE Kill \/ Cleanup
  BY <1>3, Zenon DEF Kill, request_termination, Cleanup, CleanupDone, abandon, run_termination_todo, take_termination_slot
<1>. QED BY <1>1, <1>2, <1>3 DEF Next, Core

\* The shell keeps its type.
LEMMA ShellTypes ==
  ASSUME IInv, Next
  PROVE  ShellType'
<1> USE DEF ShellType
<1> ShellType BY DEF IInv, RestType
<1>1. CASE publish_reapable BY <1>1, Zenon DEF publish_reapable, Publish
<1>2. CASE CloseShell BY <1>2 DEF CloseShell
<1>3. CASE revive_control BY <1>3, Zenon DEF revive_control, Publish
<1>4. CASE drain \/ mark_dead \/ DrainStops BY <1>4, Zenon DEF drain, mark_dead, DrainStops
<1>5. CASE publish_dead BY <1>5 DEF publish_dead, Publish
<1>6. CASE ~publish_reapable /\ ~Shell BY <1>6, ShellFrame, Zenon DEF Aside
<1>. QED BY <1>1, <1>2, <1>3, <1>4, <1>5, <1>6 DEF Shell

\* Every variable that TableStep does not speak of keeps its type.
LEMMA RestStep ==
  ASSUME IInv, Next
  PROVE  RestType'
BY MemberTypes, WorkTypes, EndTypes, ShellTypes DEF RestType

\* A Created member is in the table, and a Building process has nothing but created members.
LEMMA BirthStep ==
  ASSUME IInv, Next
  PROVE  BirthInv'
<1> USE DEF table, handle, leaving, building, ending, shells, BirthInv
<1> TableType /\ RestType /\ TableInv /\ BirthInv BY DEF IInv
<1>1. ASSUME NEW l \in Lease, Assembly(l) \/ leave_building_op(l) PROVE BirthInv'
  <2>1. CASE enter_building_op(l) \/ CountMembers(l) \/ leave_building_op(l)
    BY <2>1, Zenon DEF enter_building_op, CountMembers, leave_building_op
  <2>2. CASE attach_member(l)
    BY <2>2, Zenon DEF attach_member, prepare_member, install_member, TableType, RestType, MemberType
  <2>3. CASE begin_running(l)
    BY <2>3, Zenon DEF begin_running, TableInv, Held
  <2>. QED BY <1>1, <2>1, <2>2, <2>3, Zenon DEF Assembly
<1>2. ASSUME NEW t \in Tid, Syscall(t) \/ Advance(t) \/ on_requeue_if(t) \/ Killed(t) \/ offer(t)
      PROVE BirthInv'
  <2> USE DEF TableType, RestType, MemberType
  <2>1. CASE create_running(t)
    BY <2>1, Zenon DEF create_running, prepare_member, install_member
  <2>2. CASE commit_running(t) \/ Park(t) BY <2>2, Zenon DEF commit_running, Park, User
  <2>3. CASE pick(t) \/ Requeue(t) \/ complete_finish(t) BY <2>3, Zenon DEF pick, Requeue, complete_finish
  <2>4. CASE Killed(t) BY <2>4 DEF Killed, User
  <2>5. CASE request(t) BY <2>5, Zenon DEF request
  <2>6. CASE Exit(t) BY <2>6 DEF Exit, request_termination
  <2>7. CASE release_capability(t) BY <2>7, Zenon DEF release_capability
  <2>8. ASSUME NEW u \in Tid, start_created(t, u) PROVE BirthInv' BY <2>8 DEF start_created
  <2>9. CASE CommitHandle(t) \/ bind_thread(t) \/ install_ready_batch(t)
    BY <2>9, Zenon DEF CommitHandle, bind_thread, install_ready_batch
  <2>10. CASE publish_one(t) BY <2>10 DEF publish_one
  <2>11. CASE enter_running_if(t) BY <2>11, Zenon DEF enter_running_if
  <2>16. CASE park_waiting(t) BY <2>16, Zenon DEF park_waiting
  <2>12. CASE on_requeue_if(t) BY <2>12 DEF on_requeue_if, User
  <2>13. CASE offer(t) \/ complete_mandatory(t) BY <2>13, Zenon DEF offer, complete_mandatory
  <2>14. CASE complete_result(t) BY <2>14 DEF complete_result, claim_finalize
  <2>15. CASE thread_departed(t)
    <3>1. departure[t] = "finalizing" /\ mst' = [mst EXCEPT ![t] = "Exiting"] /\ at' = at
      BY <2>15 DEF thread_departed, Depart
    <3>2. state # "Building" BY <3>1
    <3>3. state' # "Building" BY <2>15, <3>2 DEF thread_departed
    <3>. QED BY <3>1, <3>3
  <2>. QED BY <1>2, <2>1, <2>2, <2>3, <2>4, <2>5, <2>6, <2>7, <2>8, <2>9, <2>10, <2>11, <2>12, <2>13,
              <2>14, <2>15, <2>16, Zenon
       DEF Syscall, Advance
<1>3. CASE Kill \/ CleanupDone \/ run_termination_todo
  BY <1>3, Zenon DEF Kill, request_termination, CleanupDone, run_termination_todo
<1>4. CASE take_termination_slot
  <2>1. members[cursor] \in Tid \/ members[cursor] = None BY <1>4, CursorSlot, Zenon DEF take_termination_slot, RestType
  <2>2. state' = state /\ state # "Building" BY <1>4 DEF take_termination_slot
  <2>3. \A u \in Tid : mst'[u] = "Created" => mst[u] = "Created" /\ at'[u] = at[u]
    BY <1>4, <2>1, Zenon DEF take_termination_slot, TableType, RestType, MemberType
  <2>. QED BY <2>2, <2>3, Zenon
<1>5. CASE abandon BY <1>5 DEF abandon, TableType, RestType, EndType
<1>6. CASE publish_reapable BY <1>6, Zenon DEF publish_reapable
<1>7. CASE Shell
  BY <1>7, Zenon DEF Shell, CloseShell, revive_control, drain, publish_dead, mark_dead, DrainStops
<1>. QED BY <1>1, <1>2, <1>3, <1>4, <1>5, <1>6, <1>7, Zenon DEF Next, Core, Cleanup

-----------------------------------------------------------------------------
(* Reapable: who decides it, who says it, who shows it.                    *)

\* What a reapable process is made of.
LEMMA ReapableMeans ==
  ASSUME IInv, is_reapable
  PROVE  /\ state \in {"Terminating", "Dead"} /\ building_ops = 0 /\ mandatory_ops = 0 /\ active = {} /\ member_count = 0
         /\ \A t \in Tid : at[t] = "none" /\ departure[t] # "finalizing" /\ ~Keyed(t) /\ mapping[t] # "committed"
         /\ \A l \in Lease : lease[l] = "idle"
<1>1. TableType /\ TableInv /\ CountInv BY DEF IInv
<1>2. state \in {"Terminating", "Dead"} /\ building_ops = 0 /\ mandatory_ops = 0 /\ active = {} /\ member_count = 0
  BY DEF is_reapable, is_terminating
<1>3. \A t \in Tid : at[t] = "none" /\ departure[t] # "finalizing" /\ ~Keyed(t) BY <1>1, <1>2, NoMember
<1>4. (\A t \in Tid : mapping[t] # "committed") /\ (\A l \in Lease : lease[l] = "idle") BY <1>1, <1>2, CountsOf
<1>. QED BY <1>2, <1>3, <1>4

\* The process is over: what decides is_reapable does not change, and no pending publication is dropped.
Over ==
  /\ UNCHANGED <<state, members, active, building_ops, mandatory_ops>>
  /\ rings' >= rings /\ (todo = "reapable" => todo' = "reapable" \/ rings' > 0)
\* Nothing but the shell is left to move once the process is reapable.
LEMMA Still ==
  ASSUME IInv, Next, is_reapable, ~publish_reapable, ~Shell
  PROVE  Over
<1> USE DEF table, ops, handle, leaving, building, ending, shells
<1> rings \in Nat BY DEF IInv, RestType, EndType
<1>1. /\ state \in {"Terminating", "Dead"}
      /\ \A t \in Tid : at[t] = "none" /\ departure[t] # "finalizing" /\ ~Keyed(t) /\ mapping[t] # "committed"
      /\ \A l \in Lease : lease[l] = "idle"
  BY ReapableMeans
<1>u. ASSUME UNCHANGED <<state, members, active, building_ops, mandatory_ops, rings, todo>> PROVE Over
  BY <1>u DEF Over
<1>2. ASSUME NEW l \in Lease PROVE ~(Assembly(l) \/ leave_building_op(l))
  BY <1>1, <1>2 DEF Assembly, enter_building_op, attach_member, CountMembers, begin_running, leave_building_op
<1>3. ASSUME NEW t \in Tid, Syscall(t) \/ Advance(t) \/ on_requeue_if(t) \/ Killed(t) \/ offer(t) PROVE Over
  <2>1. ~create_running(t) /\ ~commit_running(t) /\ ~Park(t) /\ ~Exit(t) /\ ~on_requeue_if(t) /\ ~Killed(t)
    BY <1>1 DEF create_running, commit_running, Park, Exit, on_requeue_if, Killed, User
  <2>2. ~publish_one(t) /\ ~pick(t) /\ ~enter_running_if(t) /\ ~Requeue(t) /\ ~park_waiting(t)
    BY <1>1, Zenon DEF publish_one, pick, enter_running_if, Requeue, park_waiting
  <2>3. ~complete_finish(t) /\ ~complete_mandatory(t) /\ ~request(t) /\ ~thread_departed(t) /\ ~offer(t)
    BY <1>1, Zenon DEF complete_finish, complete_mandatory, request, thread_departed, Depart, offer
  <2>4. ASSUME NEW u \in Tid PROVE ~start_created(t, u) BY <1>1 DEF start_created
  <2>5. CASE CommitHandle(t) \/ bind_thread(t) \/ install_ready_batch(t) \/ complete_result(t) \/ release_capability(t)
    BY <1>u, <2>5, Zenon DEF CommitHandle, bind_thread, install_ready_batch, complete_result, release_capability
  <2>. QED BY <1>3, <2>1, <2>2, <2>3, <2>4, <2>5, Zenon DEF Syscall, Advance
<1>4. ~Kill BY <1>1, Zenon DEF Kill, request_termination, is_terminating
<1>5. CASE run_termination_todo BY <1>5 DEF run_termination_todo, Over
<1>6. CASE take_termination_slot BY <1>u, <1>6 DEF take_termination_slot
<1>7. CASE abandon BY <1>u, <1>7 DEF abandon
<1>8. CASE CleanupDone BY <1>8 DEF CleanupDone, Over
<1>. QED BY <1>2, <1>3, <1>4, <1>5, <1>6, <1>7, <1>8, Zenon DEF Next, Core, Cleanup

\* A reapable process stays reapable.
LEMMA ReapableStays ==
  ASSUME IInv, Next, is_reapable
  PROVE  is_reapable'
<1> USE DEF table, ops
<1>1. CASE publish_reapable \/ Shell
  <2>1. UNCHANGED <<members, active, building_ops, mandatory_ops>> /\ (state' = state \/ state' = "Dead")
    BY <1>1 DEF publish_reapable, Shell, CloseShell, revive_control, drain, publish_dead, mark_dead, DrainStops
  <2>. QED BY <2>1 DEF is_reapable, is_terminating, member_count
<1>2. CASE ~(publish_reapable \/ Shell)
  <2>1. UNCHANGED <<state, members, active, building_ops, mandatory_ops>> BY <1>2, Still DEF Over
  <2>. QED BY <2>1 DEF is_reapable, is_terminating, member_count
<1>. QED BY <1>1, <1>2

\* A publication of REAPABLE has been decided.
Rung == rings' > 0 \/ todo' = "reapable"
\* Whichever of a departure, a completed memory change, a Building operation's end and a kill makes
\* the process reapable has decided, in the same step, to publish it.
LEMMA Edge ==
  ASSUME IInv, Next, ~is_reapable, is_reapable'
  PROVE  Rung
<1> USE DEF table, ops, handle, leaving, building, ending, shells
<1> TableType /\ TableInv /\ CountInv /\ ReapInv /\ rings \in Nat /\ building_ops \in Nat /\ mandatory_ops \in Nat
  BY CountsOf DEF IInv, RestType, EndType
<1>1. /\ is_terminating' /\ member_count' = 0 /\ active' = {} /\ building_ops' = 0 /\ mandatory_ops' = 0
  BY DEF is_reapable
<1>u. ASSUME UNCHANGED <<state, members, active, building_ops, mandatory_ops>> PROVE FALSE
  BY <1>u DEF is_reapable, is_terminating, member_count
<1>m. ASSUME NEW t \in Tid, at[t] # "none", members' = members PROVE FALSE
  <2>1. member_count = 0 BY <1>1, <1>m DEF member_count
  <2>. QED BY <1>m, <2>1, NoMember
<1>2. ASSUME NEW l \in Lease, Assembly(l) \/ leave_building_op(l) PROVE Rung
  <2>1. CASE enter_building_op(l) BY <1>1, <2>1 DEF enter_building_op
  <2>2. CASE attach_member(l) BY <1>1, <2>2 DEF attach_member, is_terminating
  <2>3. CASE CountMembers(l) BY <1>u, <2>3 DEF CountMembers
  <2>4. CASE begin_running(l) BY <1>1, <2>4 DEF begin_running, is_terminating
  <2>5. CASE leave_building_op(l)
    <3>1. member_count = 0 /\ is_terminating /\ active = {} /\ building_ops = 1 /\ mandatory_ops = 0
      BY <1>1, <2>5 DEF leave_building_op, member_count, is_terminating
    <3>2. rings' = rings + 1 BY <2>5, <3>1 DEF leave_building_op
    <3>. QED BY <3>2 DEF Rung
  <2>. QED BY <1>2, <2>1, <2>2, <2>3, <2>4, <2>5 DEF Assembly
<1>3. ASSUME NEW t \in Tid, Syscall(t) \/ Advance(t) \/ on_requeue_if(t) \/ Killed(t) \/ offer(t) PROVE Rung
  <2>1. CASE create_running(t) BY <1>1, <2>1 DEF create_running, is_terminating
  <2>2. CASE commit_running(t) \/ Park(t) \/ on_requeue_if(t) \/ Killed(t)
    BY <1>m, <2>2 DEF commit_running, Park, on_requeue_if, Killed, User
  <2>3. CASE publish_one(t) \/ pick(t) \/ enter_running_if(t) \/ Requeue(t) \/ park_waiting(t)
    BY <1>m, <2>3 DEF publish_one, pick, enter_running_if, Requeue, park_waiting
  <2>4. CASE offer(t) \/ complete_finish(t) \/ request(t)
    BY <1>m, <2>4, Zenon DEF offer, complete_finish, request
  <2>5. ASSUME NEW u \in Tid, start_created(t, u) PROVE Rung BY <1>u, <2>5 DEF start_created
  <2>6. CASE CommitHandle(t) \/ bind_thread(t) \/ install_ready_batch(t) \/ complete_result(t) \/ release_capability(t)
    BY <1>u, <2>6, Zenon DEF CommitHandle, bind_thread, install_ready_batch, complete_result, release_capability
  <2>7. CASE Exit(t)
    <3>1. member_count = 0 BY <1>1, <2>7 DEF Exit, member_count
    <3>. QED BY <1>1, <2>7, <3>1 DEF Exit, request_termination, Rung
  <2>8. CASE complete_mandatory(t)
    <3>1. member_count = 0 /\ is_terminating /\ active = {} /\ building_ops = 0 /\ mandatory_ops = 1
      BY <1>1, <2>8 DEF complete_mandatory, member_count, is_terminating
    <3>2. rings' = rings + 1 BY <2>8, <3>1 DEF complete_mandatory
    <3>. QED BY <3>2 DEF Rung
  <2>9. CASE thread_departed(t)
    <3>1. Depart(t) BY <2>9 DEF thread_departed
    <3>2. member_count = 1 BY <1>1, <3>1, Leave
    <3>3. active = {} /\ building_ops = 0 /\ mandatory_ops = 0 BY <1>1, <3>1 DEF Depart
    <3>4. is_terminating \/ state = "Running" BY <1>1, <2>9 DEF thread_departed, is_terminating
    <3>. QED BY <2>9, <3>2, <3>3, <3>4 DEF thread_departed, Rung
  <2>. QED BY <1>3, <2>1, <2>2, <2>3, <2>4, <2>5, <2>6, <2>7, <2>8, <2>9, Zenon DEF Syscall, Advance
<1>4. CASE Kill
  <2>1. member_count = 0 /\ active = {} /\ building_ops = 0 /\ mandatory_ops = 0 BY <1>1, <1>4 DEF Kill, member_count
  <2>. QED BY <1>4, <2>1 DEF Kill, request_termination, Rung
<1>5. CASE Cleanup \/ publish_reapable
  BY <1>u, <1>5, Zenon DEF Cleanup, run_termination_todo, take_termination_slot, abandon, CleanupDone, publish_reapable
<1>6. CASE CloseShell \/ revive_control \/ drain \/ publish_dead \/ DrainStops
  BY <1>u, <1>6 DEF CloseShell, revive_control, drain, publish_dead, DrainStops
<1>7. CASE mark_dead BY <1>7 DEF mark_dead, ReapInv, Announced
<1>. QED BY <1>2, <1>3, <1>4, <1>5, <1>6, <1>7, Zenon DEF Next, Core, Shell

\* A step that announces anything anew is one after which the process is reapable.
LEMMA AnnounceStep ==
  ASSUME IInv, Next, ~Announced, ~publish_reapable, ~Shell, Announced'
  PROVE  is_reapable'
<1> USE DEF table, ops, handle, leaving, building, ending, shells
<1> TableType /\ TableInv /\ CountInv /\ rings = 0 /\ state # "Dead" /\ todo # "reapable"
  BY DEF IInv, RestType, EndType, Announced
<1>c. building_ops \in Nat /\ mandatory_ops \in Nat BY CountsOf
<1>1. UNCHANGED <<shell, signals, reviving, draining>> BY ShellFrame DEF Aside
<1>2. state' = "Dead" \/ rings' > 0 \/ todo' = "reapable" BY <1>1 DEF Announced
<1>u. ASSUME UNCHANGED <<state, todo, rings>> PROVE is_reapable' BY <1>2, <1>u
<1>3. ASSUME NEW l \in Lease, Assembly(l) \/ leave_building_op(l) PROVE is_reapable'
  <2>1. CASE enter_building_op(l) \/ CountMembers(l) \/ attach_member(l)
    BY <1>u, <2>1 DEF enter_building_op, CountMembers, attach_member
  <2>2. CASE begin_running(l) BY <1>2, <2>2 DEF begin_running
  <2>3. CASE leave_building_op(l)
    <3>1. is_terminating /\ member_count = 0 /\ active = {} /\ building_ops = 1 /\ mandatory_ops = 0
      BY <1>2, <2>3 DEF leave_building_op
    <3>2. UNCHANGED <<state, members, active, mandatory_ops>> /\ building_ops' = 0 BY <2>3, <3>1 DEF leave_building_op
    <3>. QED BY <3>1, <3>2 DEF is_reapable, is_terminating, member_count
  <2>. QED BY <1>3, <2>1, <2>2, <2>3 DEF Assembly
<1>4. ASSUME NEW t \in Tid, Syscall(t) \/ Advance(t) \/ on_requeue_if(t) \/ Killed(t) \/ offer(t) PROVE is_reapable'
  <2>1. CASE create_running(t) \/ commit_running(t) \/ Park(t) \/ pick(t) \/ Requeue(t) \/ complete_finish(t)
    BY <1>u, <2>1, Zenon DEF create_running, commit_running, Park, pick, Requeue, complete_finish
  <2>2. CASE release_capability(t) \/ CommitHandle(t) \/ bind_thread(t) \/ install_ready_batch(t)
    BY <1>u, <2>2 DEF release_capability, CommitHandle, bind_thread, install_ready_batch
  <2>3. CASE publish_one(t) \/ enter_running_if(t) \/ on_requeue_if(t) \/ park_waiting(t)
    BY <1>u, <2>3 DEF publish_one, enter_running_if, on_requeue_if, park_waiting
  <2>4. CASE Killed(t) \/ request(t) \/ offer(t) \/ complete_result(t)
    BY <1>u, <2>4, Zenon DEF Killed, request, offer, complete_result
  <2>5. ASSUME NEW u \in Tid, start_created(t, u) PROVE is_reapable' BY <1>u, <2>5 DEF start_created
  <2>6. CASE Exit(t)
    <3>1. member_count = 0 /\ active = {} /\ building_ops = 0 /\ mandatory_ops = 0 /\ state' = "Terminating"
      BY <1>2, <2>6 DEF Exit, request_termination
    <3>. QED BY <2>6, <3>1 DEF Exit, is_reapable, is_terminating, member_count
  <2>7. CASE complete_mandatory(t)
    <3>1. is_terminating /\ member_count = 0 /\ active = {} /\ building_ops = 0 /\ mandatory_ops = 1
      BY <1>2, <2>7 DEF complete_mandatory
    <3>2. UNCHANGED <<state, members, active, building_ops>> /\ mandatory_ops' = 0 BY <2>7, <3>1 DEF complete_mandatory
    <3>. QED BY <3>1, <3>2 DEF is_reapable, is_terminating, member_count
  <2>8. CASE thread_departed(t)
    <3>1. Depart(t) BY <2>8 DEF thread_departed
    <3>2. /\ is_terminating \/ state = "Running"
          /\ member_count = 1 /\ active = {} /\ building_ops = 0 /\ mandatory_ops = 0
      BY <1>2, <2>8 DEF thread_departed
    <3>3. member_count' = 0 BY <3>1, <3>2, Leave
    <3>4. is_terminating' BY <2>8, <3>2 DEF thread_departed, is_terminating
    <3>5. UNCHANGED <<active, building_ops, mandatory_ops>> BY <3>1 DEF Depart
    <3>. QED BY <3>2, <3>3, <3>4, <3>5 DEF is_reapable
  <2>. QED BY <1>4, <2>1, <2>2, <2>3, <2>4, <2>5, <2>6, <2>7, <2>8, Zenon DEF Syscall, Advance
<1>5. CASE Kill
  <2>1. member_count = 0 /\ active = {} /\ building_ops = 0 /\ mandatory_ops = 0 /\ state' = "Terminating"
    BY <1>2, <1>5 DEF Kill, request_termination
  <2>. QED BY <1>5, <2>1 DEF Kill, is_reapable, is_terminating, member_count
<1>6. CASE take_termination_slot \/ abandon BY <1>u, <1>6 DEF take_termination_slot, abandon
<1>7. CASE run_termination_todo BY <1>2, <1>7 DEF run_termination_todo
<1>8. CASE CleanupDone
  <2>1. is_reapable BY <1>2, <1>8 DEF CleanupDone
  <2>. QED BY <2>1, ReapableStays
<1>. QED BY <1>3, <1>4, <1>5, <1>6, <1>7, <1>8, Zenon DEF Next, Core, Cleanup

\* No step leaves the process announced as reapable and not reapable.
LEMMA ReapStep ==
  ASSUME IInv, Next
  PROVE  ReapInv'
<1> ReapInv /\ ShellType /\ rings \in Nat BY DEF IInv, RestType, EndType
<1>1. SUFFICES ASSUME Announced' PROVE is_reapable' BY DEF ReapInv
<1>2. CASE Announced BY <1>2, ReapableStays DEF ReapInv
<1>3. CASE ~Announced /\ ~publish_reapable /\ ~Shell BY <1>1, <1>3, AnnounceStep
<1>4. CASE ~Announced /\ (publish_reapable \/ Shell)
  <2> USE DEF ending, Announced
  <2>1. draining = "no" /\ state # "Dead" /\ "REAPABLE" \notin signals /\ rings = 0 /\ todo # "reapable" /\ reviving # "reapable"
    BY <1>4
  <2>2. ~publish_reapable /\ ~drain /\ ~publish_dead /\ ~mark_dead /\ ~DrainStops
    BY <2>1 DEF publish_reapable, drain, publish_dead, mark_dead, DrainStops
  <2>3. CASE CloseShell BY <1>1, <2>1, <2>3 DEF CloseShell
  <2>4. CASE revive_control
    <3>1. "REAPABLE" \notin signals' /\ UNCHANGED <<draining, state, rings, todo>>
      BY <2>1, <2>4 DEF revive_control, Publish
    <3>2. reviving' = "reapable" BY <1>1, <2>1, <3>1
    <3>3. is_reapable BY <2>1, <2>4, <3>2 DEF revive_control
    <3>. QED BY <3>3, ReapableStays
  <2>. QED BY <1>4, <2>2, <2>3, <2>4 DEF Shell
<1>. QED BY <1>2, <1>3, <1>4

\* CLOSED replaces the other signals for good, and a Dead process shows it on every minted shell.
LEMMA ShellStep ==
  ASSUME IInv, Next
  PROVE  ShellInv'
<1> USE DEF ShellInv
<1> ShellInv /\ ShellType BY DEF IInv, RestType
<1>1. CASE publish_reapable BY <1>1 DEF publish_reapable, Publish, ShellType
<1>2. CASE CloseShell BY <1>2 DEF CloseShell
<1>3. CASE revive_control BY <1>3 DEF revive_control, Publish, ShellType
<1>4. CASE drain \/ DrainStops BY <1>4 DEF drain, DrainStops
<1>5. CASE publish_dead BY <1>5 DEF publish_dead, Publish
<1>6. CASE mark_dead BY <1>6 DEF mark_dead
<1>7. CASE ~publish_reapable /\ ~Shell
  <2>1. UNCHANGED <<shell, signals, reviving, draining>> /\ (state' = "Dead" => state = "Dead") BY <1>7, ShellFrame DEF Aside
  <2>. QED BY <2>1
<1>. QED BY <1>1, <1>2, <1>3, <1>4, <1>5, <1>6, <1>7 DEF Shell

\* A reapable process has a publication under way, or a shell that shows it, or no shell.
LEMMA LevelStep ==
  ASSUME IInv, Next
  PROVE  LevelInv'
<1> USE DEF Informed, ending
<1> LevelInv /\ ShellInv /\ ShellType /\ rings \in Nat BY DEF IInv, RestType, EndType
<1>1. SUFFICES ASSUME is_reapable', state' = "Terminating" PROVE Informed' BY DEF LevelInv
<1>2. CASE ~is_reapable BY <1>1, <1>2, Edge DEF Rung
<1>3. CASE is_reapable /\ ~publish_reapable /\ ~Shell
  <2>1. Over BY <1>3, Still
  <2>2. Informed BY <1>1, <1>3, <2>1 DEF Over, LevelInv
  <2>3. UNCHANGED <<shell, signals, reviving, draining>> BY <1>3, ShellFrame DEF Aside
  <2>4. rings' \in Nat BY EndTypes DEF EndType
  <2>. QED BY <2>1, <2>2, <2>3, <2>4 DEF Over
<1>4. CASE is_reapable /\ (publish_reapable \/ Shell)
  <2>1. CASE publish_reapable BY <2>1 DEF publish_reapable, Publish, ShellType
  <2>2. CASE CloseShell BY <2>2 DEF CloseShell
  <2>3. CASE revive_control
    <3>1. Informed /\ state # "Dead" BY <1>1, <1>4, <2>3 DEF revive_control, LevelInv
    <3>. QED BY <1>4, <2>3, <3>1 DEF revive_control, Publish
  <2>4. CASE drain \/ DrainStops BY <1>1, <1>4, <2>4 DEF drain, DrainStops, LevelInv
  <2>5. CASE publish_dead BY <2>5 DEF publish_dead, Publish
  <2>6. CASE mark_dead BY <1>1, <2>6 DEF mark_dead
  <2>. QED BY <1>4, <2>1, <2>2, <2>3, <2>4, <2>5, <2>6 DEF Shell
<1>. QED BY <1>2, <1>3, <1>4

-----------------------------------------------------------------------------
(* Ready members, when a control is used only once its ThreadCreate has    *)
(* returned.                                                               *)

\* A member becomes Ready only where a batch, a queue or a hart takes it over.
LEMMA ReadyStep ==
  ASSUME ~EarlyUse, IInv, ReadyInv, Next
  PROVE  ReadyInv'
<1> USE DEF table, handle, leaving, building, ending, shells, ReadyInv
<1> TableType /\ MemberType /\ EndType /\ TableInv /\ BirthInv BY DEF IInv, RestType
<1>u. ASSUME UNCHANGED <<mst, at, batch, control, making>> PROVE ReadyInv' BY <1>u
    \* A thread passes from one holder to another, to none that is the table or a start.
<1>m. ASSUME NEW t \in Tid, NEW c \in Containers \ {"table", "starting"}, at' = [at EXCEPT ![t] = c],
             mst' \in [Tid -> MemberState], \A u \in Tid : u # t => mst'[u] = mst[u],
             mst'[t] = "Ready" => c \in {"queue", "picked", "requeued", "released", "none"},
             \A u \in Tid : u # t => (u \in batch' <=> u \in batch), UNCHANGED <<control, making>>
      PROVE  ReadyInv'
  <2>1. \A u \in Tid : at'[u] = IF u = t THEN c ELSE at[u] BY <1>m DEF TableType
  <2>2. \A u \in Tid : mst'[u] = "Ready" => at'[u] \in {"starting", "queue", "picked", "requeued", "released", "none"}
    BY <1>m, <2>1
  <2>3. \A u \in Tid : at'[u] = "starting" => u \in batch' BY <1>m, <2>1
  <2>4. \A u \in Tid : control'[u] = "visible" /\ at'[u] = "table" /\ (\A d \in Tid : making'[d] # u) => u \in batch'
    BY <1>m, <2>1
  <2>. QED BY <2>2, <2>3, <2>4
<1>1. ASSUME NEW l \in Lease, Assembly(l) \/ leave_building_op(l) PROVE ReadyInv'
  <2>1. CASE enter_building_op(l) \/ CountMembers(l) \/ leave_building_op(l)
    BY <1>u, <2>1, Zenon DEF enter_building_op, CountMembers, leave_building_op
  <2>2. CASE attach_member(l)
    BY <2>2, Zenon DEF attach_member, prepare_member, install_member, TableType, MemberType
  <2>3. CASE begin_running(l)
    <3>1. /\ mst' = [t \in Tid |-> IF Keyed(t) THEN "Ready" ELSE mst[t]]
          /\ at' = [t \in Tid |-> IF Keyed(t) THEN "starting" ELSE at[t]]
          /\ state = "Building" /\ UNCHANGED <<batch, control, making>>
      BY <2>3, Zenon DEF begin_running
    <3>2. \A t \in Tid : Keyed(t) => t \in batch BY <3>1, Zenon DEF TableInv, Held, BirthInv
    <3>. QED BY <3>1, <3>2, Zenon
  <2>. QED BY <1>1, <2>1, <2>2, <2>3, Zenon DEF Assembly
<1>2. ASSUME NEW t \in Tid, Syscall(t) \/ Advance(t) \/ on_requeue_if(t) \/ Killed(t) \/ offer(t)
      PROVE ReadyInv'
  <2>1. CASE create_running(t)
    <3> DEFINE n == next_tid
    <3>1. /\ n \in Tid /\ making[t] = None /\ at' = [at EXCEPT ![n] = "table"] /\ mst' = [mst EXCEPT ![n] = "Created"]
          /\ control' = [control EXCEPT ![n] = "staged"] /\ making' = [making EXCEPT ![t] = n] /\ batch' = batch
      BY <2>1, Zenon DEF create_running, prepare_member, install_member, User
    <3>2. \A u \in Tid : u # n => at'[u] = at[u] /\ mst'[u] = mst[u] /\ control'[u] = control[u]
      BY <3>1 DEF TableType, MemberType
    <3>3. at'[n] = "table" /\ mst'[n] = "Created" /\ control'[n] = "staged" BY <3>1 DEF TableType, MemberType
    <3>4. \A u \in Tid : (\A c \in Tid : making'[c] # u) => (\A c \in Tid : making[c] # u)
      BY <3>1, Threads DEF MemberType
    <3> HIDE DEF n
    <3>. QED BY <3>1, <3>2, <3>3, <3>4
  <2>2. CASE commit_running(t) \/ Park(t)
    BY <1>m, <2>2, Zenon DEF commit_running, Park, User, Containers, MemberType
  <2>3. CASE pick(t) BY <1>m, <2>3 DEF pick, Containers, MemberType
  <2>4. CASE Requeue(t) BY <1>m, <2>4 DEF Requeue, Containers, MemberType
  <2>5. CASE complete_finish(t) BY <1>m, <2>5 DEF complete_finish, Containers, MemberType
  <2>6. CASE Killed(t) \/ request(t) BY <1>m, <2>6, Zenon DEF Killed, request, Containers, MemberType
  <2>7. CASE offer(t) BY <1>m, <2>7 DEF offer, Containers, MemberType
  <2>8. CASE Exit(t) BY <2>8 DEF Exit, MemberType
  <2>9. CASE release_capability(t) BY <2>9, Zenon DEF release_capability, MemberType, TableType
  <2>10. ASSUME NEW u \in Tid, start_created(t, u) PROVE ReadyInv'
    <3>1. /\ control[u] = "visible" /\ (\A c \in Tid : making[c] # u) /\ mst[u] = "Created"
          /\ mst' = [mst EXCEPT ![u] = "Ready"] /\ at' = [at EXCEPT ![u] = "starting"]
          /\ UNCHANGED <<batch, control, making>>
      BY <2>10, Zenon DEF start_created, Usable
    <3>2. at[u] = "table" BY <3>1, Zenon DEF BirthInv
    <3>3. u \in batch BY <3>1, <3>2, Zenon
    <3>. QED BY <3>1, <3>3 DEF TableType, MemberType
  <2>11. CASE CommitHandle(t)
    <3>1. PICK n \in Tid : n = making[t] BY <2>11 DEF CommitHandle, MemberType
    <3>2. control' = [control EXCEPT ![n] = "visible"] /\ UNCHANGED <<mst, at, batch, making>>
      BY <2>11, <3>1 DEF CommitHandle
    <3>. QED BY <3>1, <3>2 DEF MemberType
  <2>12. CASE bind_thread(t) \/ complete_mandatory(t) \/ complete_result(t)
    BY <1>u, <2>12, Zenon DEF bind_thread, complete_mandatory, complete_result
  <2>13. CASE install_ready_batch(t)
    <3>1. PICK n \in Tid : n = making[t] BY <2>13 DEF install_ready_batch, MemberType
    <3>2. /\ batch' = batch \cup {n} /\ making' = [making EXCEPT ![t] = None] /\ UNCHANGED <<mst, at, control>>
      BY <2>13, <3>1 DEF install_ready_batch
    <3>3. \A u \in Tid : u # n /\ (\A c \in Tid : making'[c] # u) => (\A c \in Tid : making[c] # u)
      BY <3>1, <3>2 DEF MemberType
    <3>. QED BY <3>1, <3>2, <3>3
  <2>14. CASE publish_one(t)
    <3>1. at[t] = "starting" /\ t \in batch BY <2>14 DEF publish_one
    <3>2. /\ at' = [at EXCEPT ![t] = "queue"] /\ batch' = batch \ {t} /\ UNCHANGED <<mst, control, making>>
      BY <2>14, <3>1 DEF publish_one
    <3>. QED BY <1>m, <3>2, Zenon DEF Containers, MemberType
  <2>15. CASE enter_running_if(t)
    <3>1. UNCHANGED <<batch, control, making>> BY <2>15 DEF enter_running_if
    <3>2. \/ at' = [at EXCEPT ![t] = "released"] /\ mst' = mst
          \/ at' = [at EXCEPT ![t] = "user"] /\ mst' = [mst EXCEPT ![t] = "Running"]
      BY <2>15, Zenon DEF enter_running_if
    <3>3. CASE at' = [at EXCEPT ![t] = "released"] /\ mst' = mst
      <4>1. mst'[t] = "Ready" => "released" \in {"queue", "picked", "requeued", "released", "none"}
        OBVIOUS
      <4>. QED BY <1>m, <3>1, <3>3, <4>1 DEF Containers, MemberType
    <3>4. CASE at' = [at EXCEPT ![t] = "user"] /\ mst' = [mst EXCEPT ![t] = "Running"]
      <4>1. /\ mst' \in [Tid -> MemberState] /\ mst'[t] = "Running" /\ \A u \in Tid : u # t => mst'[u] = mst[u]
        BY <3>4 DEF MemberType, MemberState
      <4>. QED BY <1>m, <3>1, <3>4, <4>1 DEF Containers
    <3>. QED BY <3>2, <3>3, <3>4, Zenon
  <2>16. CASE on_requeue_if(t)
    BY <1>m, <2>16, Zenon DEF on_requeue_if, Containers, MemberType, MemberState
  <2>17. CASE park_waiting(t)
    <3>1. UNCHANGED <<batch, control, making>> BY <2>17, Zenon DEF park_waiting
    <3>2. \/ at' = [at EXCEPT ![t] = "abandoned"] /\ mst' = mst
          \/ at' = [at EXCEPT ![t] = "context"] /\ mst' = [mst EXCEPT ![t] = "Waiting"]
      BY <2>17, Zenon DEF park_waiting
    <3>3. CASE at' = [at EXCEPT ![t] = "abandoned"] /\ mst' = mst
      <4>1. mst'[t] = "Ready" => "abandoned" \in {"queue", "picked", "requeued", "released", "none"}
        BY <2>17, <3>3, Zenon DEF park_waiting
      <4>. QED BY <1>m, <3>1, <3>3, <4>1, Zenon DEF Containers, MemberType
    <3>4. CASE at' = [at EXCEPT ![t] = "context"] /\ mst' = [mst EXCEPT ![t] = "Waiting"]
      <4>1. /\ mst' \in [Tid -> MemberState] /\ mst'[t] = "Waiting" /\ \A u \in Tid : u # t => mst'[u] = mst[u]
        BY <3>4 DEF MemberType, MemberState
      <4>. QED BY <1>m, <3>1, <3>4, <4>1 DEF Containers
    <3>. QED BY <3>2, <3>3, <3>4, Zenon
  <2>18. CASE thread_departed(t)
    <3>1. /\ departure[t] = "finalizing" /\ mst' = [mst EXCEPT ![t] = "Exiting"] /\ batch' = batch \ {t}
          /\ control' = [control EXCEPT ![t] = "closed"] /\ UNCHANGED <<at, making>>
      BY <2>18, Zenon DEF thread_departed, Depart
    <3>2. at[t] = "none" BY <3>1, Zenon DEF TableInv
    <3>. QED BY <3>1, <3>2 DEF MemberType
  <2>. QED BY <1>2, <2>1, <2>2, <2>3, <2>4, <2>5, <2>6, <2>7, <2>8, <2>9, <2>10, <2>11, <2>12, <2>13,
              <2>14, <2>15, <2>16, <2>17, <2>18, Zenon
       DEF Syscall, Advance
<1>3. CASE Kill \/ run_termination_todo \/ CleanupDone \/ publish_reapable
  BY <1>u, <1>3, Zenon DEF Kill, run_termination_todo, CleanupDone, publish_reapable
<1>4. CASE take_termination_slot
  <2>1. UNCHANGED <<batch, control, making>> BY <1>4, Zenon DEF take_termination_slot
  <2>2. CASE mst' = mst
    <3>1. at' = at BY <1>4, <2>2, CursorSlot DEF take_termination_slot, MemberType
    <3>. QED BY <1>u, <2>1, <2>2, <3>1
  <2>3. CASE mst' # mst
    <3>1. PICK t \in Tid : /\ mst' = [mst EXCEPT ![t] = "Exiting"]
                           /\ at' = at \/ at' = [at EXCEPT ![t] = "released"]
      BY <1>4, <2>3, CursorSlot, Zenon DEF take_termination_slot
    <3>. QED BY <2>1, <3>1, Zenon DEF TableType, MemberType
  <2>. QED BY <2>2, <2>3, Zenon
<1>5. CASE abandon
  <2>1. PICK t \in Tid : t = taken BY <1>5 DEF abandon, EndType
  <2>2. at' = [at EXCEPT ![t] = IF at[t] = "context" THEN "abandoned" ELSE at[t]] /\ UNCHANGED <<mst, batch, control, making>>
    BY <1>5, <2>1 DEF abandon
  <2>. QED BY <2>2 DEF TableType
<1>6. CASE Shell
  BY <1>u, <1>6, Zenon DEF Shell, CloseShell, revive_control, drain, publish_dead, mark_dead, DrainStops
<1>. QED BY <1>1, <1>2, <1>3, <1>4, <1>5, <1>6, Zenon DEF Next, Core, Cleanup

-----------------------------------------------------------------------------
(* The theorems.                                                           *)

\* A process begins with an empty table, nothing counted and no shell.
LEMMA Begins == Init => IInv /\ ReadyInv
<1> SUFFICES ASSUME Init PROVE IInv /\ ReadyInv OBVIOUS
<1> USE DEF Init
<1>1. TableType BY DEF TableType, Containers, Departures
<1>2. RestType BY DEF RestType, MemberType, WorkType, EndType, ShellType, MemberState
<1>3. TableInv
  <2>1. DOMAIN members = {} /\ Len(members) = 0 OBVIOUS
  <2>2. \A t \in Tid : ~Held(t) /\ ~Keyed(t) BY <2>1 DEF Held, Keyed
  <2>. QED BY <2>1, <2>2 DEF TableInv
<1>4. BirthInv BY DEF BirthInv
<1>5. CountInv
  <2>1. Leased = {} /\ Committed = {} BY DEF Leased, Committed
  <2>. QED BY <2>1, FS_EmptySet DEF CountInv
<1>6. ReapInv /\ ShellInv /\ LevelInv BY DEF ReapInv, Announced, ShellInv, LevelInv, Informed, is_reapable, is_terminating
<1>7. ReadyInv BY DEF ReadyInv
<1>. QED BY <1>1, <1>2, <1>3, <1>4, <1>5, <1>6, <1>7 DEF IInv

\* A step of somebody else leaves all of it alone.
LEMMA Stutter == IInv /\ UNCHANGED vars => IInv'
<1> SUFFICES ASSUME IInv, UNCHANGED vars PROVE IInv' OBVIOUS
<1> USE DEF IInv, vars, table, ops, handle, leaving, building, ending, shells
<1>1. TableType' /\ TableInv' BY StillTable
<1>2. RestType' BY DEF RestType, MemberType, WorkType, EndType, ShellType
<1>3. BirthInv' BY Zenon DEF BirthInv
<1>4. CountInv' BY Zenon DEF CountInv, Leased, Committed
<1>5. is_reapable' <=> is_reapable BY DEF is_reapable, is_terminating, member_count
<1>6. ReapInv' /\ LevelInv' BY <1>5 DEF ReapInv, Announced, LevelInv, Informed
<1>7. ShellInv' BY DEF ShellInv
<1>. QED BY <1>1, <1>2, <1>3, <1>4, <1>6, <1>7

\* The member table, the operation counts and the REAPABLE level of a process agree with who holds
\* its threads, its leases and its memory changes (lifecycle.rs), in every order of creation,
\* scheduling, departure, kill and teardown.
THEOREM ProcessInvariant == Spec => []IInv
<1>1. Init => IInv BY Begins
<1>2. IInv /\ [Next]_vars => IInv'
  <2>1. IInv /\ Next => IInv'
    BY TableStep, RestStep, BirthStep, CountStep, ReapStep, ShellStep, LevelStep DEF IInv
  <2>. QED BY <2>1, Stutter
<1>. QED BY <1>1, <1>2, PTL DEF Spec

\* A thread that a queue, a hart, a wait or a departure still holds is in the member table under its
\* own key, and a process is drained or Dead only with no member, no hart, no Building operation and
\* no committed memory change: the assertions of member_mut, remove_member and mark_dead cannot fail.
THEOREM AssertionsAlwaysHold == Spec => []AssertionsHold
<1>1. IInv => AssertionsHold
  BY DEF IInv, AssertionsHold, KeysFresh, DrainedEmpty, TableInv, Held, ReapInv, Announced
<1>. QED BY <1>1, ProcessInvariant, PTL

\* Whoever makes the process reapable last, and however publish_reapable interleaves with
\* revive_control, drain and mark_dead: once no publication and no minting is under way, a live shell
\* of a reapable process shows REAPABLE or, when the process is Dead, CLOSED.
THEOREM LevelAlwaysKept == Spec => []LevelKept
<1>1. IInv => LevelKept
  BY DEF IInv, LevelKept, LevelInv, Informed, ShellInv, is_reapable, is_terminating, RestType, ShellType, EndType
<1>. QED BY <1>1, ProcessInvariant, PTL

\* When a thread's control is used only once its ThreadCreate has returned, a member that the table
\* calls Ready is in a ready queue or in the hands of publish_one, pick, the requeue or the release:
\* no Ready thread is forgotten. Without that premise it is not so (the run lifecycle_early_start).
THEOREM ReadyAlwaysQueued == ~EarlyUse => (Spec => []ReadyIsQueued)
<1> SUFFICES ASSUME ~EarlyUse PROVE Spec => []ReadyIsQueued OBVIOUS
<1>1. Init => ReadyInv BY Begins
<1>2. IInv /\ ReadyInv /\ [Next]_vars => ReadyInv'
  <2>1. IInv /\ ReadyInv /\ Next => ReadyInv' BY ReadyStep
  <2>2. ReadyInv /\ UNCHANGED vars => ReadyInv' BY Zenon DEF ReadyInv, vars, table, handle
  <2>. QED BY <2>1, <2>2
<1>3. ReadyInv => ReadyIsQueued BY DEF ReadyInv, ReadyIsQueued
<1>. QED BY <1>1, <1>2, <1>3, ProcessInvariant, PTL DEF Spec

=============================================================================
