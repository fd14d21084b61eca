--------------------------- MODULE DispatchProofs ---------------------------
(***************************************************************************)
(* Theorems about Dispatch for every set of runs, slots and organizations, *)
(* every assignment of slots to processes, every MaxAttempts and every     *)
(* capacity, in four parts: types; the safety properties, from the         *)
(* invariant RowsInvariant of the rows and FencesDistinct, the invariant   *)
(* of the slots; and the counters of the partitions, which are exact:      *)
(* ready_count is the number of open outbox rows, and what admission sums  *)
(* over the partitions never passes queue_total_capacity; and the          *)
(* refinement: the initial rows map to an empty queue, and every           *)
(* transaction and every step of a slot to one step of FencedQueue or to   *)
(* none.                                                                   *)
(***************************************************************************)
EXTENDS DispatchRefinement, FiniteSetTheorems, SequenceTheorems, WellFoundedInduction, TLAPS

-----------------------------------------------------------------------------
(* Types of what the transactions are built from.                          *)

LEMMA OrgTyped == \A r \in Runs : OrgOf[r] \in Orgs
  BY ConstantsAssumption DEF ConstantsAssumption

LEMMA CloseLeaseTyped ==
    ASSUME NEW r \in Runs, RowsTyped, CloseLease(r)
    PROVE  history' \in [Runs -> SUBSET Nat]
  <1>1. outbox[r].fence \in Nat
    BY DEF RowsTyped, OutboxRow
  <1>2. QED
    BY <1>1 DEF RowsTyped, CloseLease

LEMMA UncountTyped ==
    ASSUME NEW r \in Runs, RowsTyped, Uncount(r)
    PROVE  partition' \in [Orgs -> PartitionRow]
  <1>1. partition \in [Orgs -> PartitionRow] /\ OrgOf[r] \in Orgs
    BY OrgTyped DEF RowsTyped
  <1>2. QED
    BY <1>1 DEF Uncount, PartitionRow

LEMMA EnqueueTyped ==
    ASSUME NEW r \in Runs, RowsTyped, Enqueue(r)
    PROVE  outbox' \in [Runs -> OutboxRow] /\ partition' \in [Orgs -> PartitionRow]
  <1>1. outbox' \in [Runs -> OutboxRow]
    BY DEF RowsTyped, Enqueue, OutboxRow, OutboxStatus
  <1>2. partition \in [Orgs -> PartitionRow] /\ OrgOf[r] \in Orgs
    BY OrgTyped DEF RowsTyped
  <1>3. partition' \in [Orgs -> PartitionRow]
    BY <1>2 DEF Enqueue, PartitionRow
  <1>4. QED
    BY <1>1, <1>3

LEMMA FailLockedTyped ==
    ASSUME NEW r \in Runs, RowsTyped, FailLocked(r)
    PROVE  RowsTyped'
  <1>1. history' \in [Runs -> SUBSET Nat] /\ partition' \in [Orgs -> PartitionRow]
    BY CloseLeaseTyped, UncountTyped DEF FailLocked
  <1>2. run \in [Runs -> RunRow] /\ outbox \in [Runs -> OutboxRow]
    BY DEF RowsTyped
  <1>3. run' \in [Runs -> RunRow]
    BY <1>2 DEF FailLocked, RunRow, RunStatus
  <1>4. outbox' \in [Runs -> OutboxRow]
    BY <1>2 DEF FailLocked, OutboxRow, OutboxStatus
  <1>5. request' \in [Runs -> RequestStatus] /\ grant' \in [Runs -> GrantStatus]
    BY DEF FailLocked, RowsTyped, RequestStatus, GrantStatus
  <1>6. QED
    BY <1>1, <1>3, <1>4, <1>5 DEF RowsTyped

LEMMA SettleTyped ==
    ASSUME NEW r \in Runs, NEW ok \in BOOLEAN, RowsTyped, Settle(r, ok)
    PROVE  RowsTyped'
  <1>1. history' \in [Runs -> SUBSET Nat] /\ partition' \in [Orgs -> PartitionRow]
    BY CloseLeaseTyped, UncountTyped DEF Settle
  <1>2. run \in [Runs -> RunRow] /\ outbox \in [Runs -> OutboxRow]
    BY DEF RowsTyped
  <1>3. run' \in [Runs -> RunRow]
    BY <1>2 DEF Settle, RunRow, RunStatus
  <1>4. outbox' \in [Runs -> OutboxRow]
    BY <1>2 DEF Settle, OutboxRow, OutboxStatus
  <1>5. request' \in [Runs -> RequestStatus] /\ grant' \in [Runs -> GrantStatus]
    BY DEF Settle, RowsTyped, RequestStatus, GrantStatus
  <1>6. QED
    BY <1>1, <1>3, <1>4, <1>5 DEF RowsTyped

LEMMA RequeueTyped ==
    ASSUME NEW s \in Slots, NEW r \in Runs, RowsTyped, Requeue(s, r)
    PROVE  RowsTyped'
  <1>1. history' \in [Runs -> SUBSET Nat]
    BY CloseLeaseTyped DEF Requeue
  <1>2. run \in [Runs -> RunRow] /\ outbox \in [Runs -> OutboxRow]
    BY DEF RowsTyped
  <1>3. run' \in [Runs -> RunRow]
    BY <1>2 DEF Requeue, RunRow, RunStatus
  <1>4. outbox' \in [Runs -> OutboxRow]
    BY <1>2 DEF Requeue, OutboxRow, OutboxStatus
  <1>5. QED
    BY <1>1, <1>3, <1>4 DEF Requeue, RowsTyped

\* What a slot turns to when process moves on, returns or stops.
LEMMA GoToTyped ==
    ASSUME NEW s \in Slots, NEW pc \in Busy, SlotsTyped, slot[s].pc \in Busy,
           GoTo(s, pc), lapsed' \in SUBSET Runs
    PROVE  SlotsTyped'
  BY DEF GoTo, SlotsTyped, SlotState

LEMMA WorkTyped ==
    ASSUME NEW s \in Slots, SlotsTyped, lapsed' \in SUBSET Runs,
           NEW work \in SlotState, work.run \in Runs,
           slot' = [slot EXCEPT ![s] = work]
    PROVE  SlotsTyped'
  BY DEF SlotsTyped

LEMMA RestTyped ==
    ASSUME NEW s \in Slots, SlotsTyped, lapsed' \in SUBSET Runs,
           slot' = [slot EXCEPT ![s] = Idle] \/ slot' = [slot EXCEPT ![s] = Stopped]
    PROVE  SlotsTyped'
  <1>1. /\ Idle \in SlotState /\ Idle.pc \notin Busy
        /\ Stopped \in SlotState /\ Stopped.pc \notin Busy
    BY DEF Idle, Stopped, SlotState, Resting, Busy, InProcess
  <1>2. QED
    BY <1>1 DEF SlotsTyped

LEMMA ReturnTyped ==
    ASSUME NEW s \in Slots, SlotsTyped, lapsed' \in SUBSET Runs, Return(s)
    PROVE  SlotsTyped'
  BY RestTyped DEF Return

-----------------------------------------------------------------------------
(* Every step keeps the types.                                             *)

\* All of the types but that of the traces, which come last.
CoreTyped == RowsTyped /\ EnvTyped /\ SlotsTyped

LEMMA InitTyped == Init => CoreTyped
  <1> SUFFICES ASSUME Init PROVE CoreTyped
    OBVIOUS
  <1>1. RowsTyped
    BY DEF Init, RowsTyped, RunRow, RunStatus, OutboxRow, OutboxStatus,
           PartitionRow, RequestStatus, GrantStatus
  <1>2. EnvTyped
    BY DEF Init, EnvTyped, RunStatus
  <1>3. SlotsTyped
    BY DEF Init, SlotsTyped, SlotState, Idle, Resting, Busy, InProcess
  <1>4. QED
    BY <1>1, <1>2, <1>3 DEF CoreTyped

LEMMA ControlTyped ==
    ASSUME NEW r \in Runs, CoreTyped, Control(r)
    PROVE  CoreTyped'
  <1>1. RowsTyped /\ EnvTyped /\ SlotsTyped
    BY DEF CoreTyped
  <1>2. run \in [Runs -> RunRow] /\ outbox \in [Runs -> OutboxRow]
    BY <1>1 DEF RowsTyped
  <1>3. CASE AdmitQueued(r)
    <2>1. run' \in [Runs -> RunRow]
      BY <1>2, <1>3 DEF AdmitQueued, RunRow, RunStatus
    <2>2. RowsTyped'
      BY <1>1, <1>3, <2>1, EnqueueTyped DEF AdmitQueued, RowsTyped
    <2>3. EnvTyped' /\ SlotsTyped'
      BY <1>1, <1>3 DEF AdmitQueued, EnvTyped, SlotsTyped
    <2>4. QED
      BY <2>2, <2>3 DEF CoreTyped
  <1>4. CASE AdmitWaiting(r)
    <2>1. run' \in [Runs -> RunRow]
      BY <1>2, <1>4 DEF AdmitWaiting, RunRow, RunStatus
    <2>2. RowsTyped'
      BY <1>1, <1>4, <2>1 DEF AdmitWaiting, RowsTyped, RequestStatus
    <2>3. EnvTyped' /\ SlotsTyped'
      BY <1>1, <1>4 DEF AdmitWaiting, EnvTyped, SlotsTyped
    <2>4. QED
      BY <2>2, <2>3 DEF CoreTyped
  <1>5. CASE ProductionClaim(r)
    <2>1. run' \in [Runs -> RunRow]
      BY <1>2, <1>5 DEF ProductionClaim, RunRow, RunStatus
    <2>2. RowsTyped'
      BY <1>1, <1>5, <2>1, EnqueueTyped
      DEF ProductionClaim, RowsTyped, RequestStatus, GrantStatus
    <2>3. EnvTyped' /\ SlotsTyped'
      BY <1>1, <1>5 DEF ProductionClaim, EnvTyped, SlotsTyped
    <2>4. QED
      BY <2>2, <2>3 DEF CoreTyped
  <1>6. CASE CloseApproval(r)
    BY <1>1, <1>6
    DEF CloseApproval, CoreTyped, RowsTyped, RequestStatus, EnvTyped, SlotsTyped, envVars
  <1>7. CASE ReadRun(r)
    <2>1. RowsTyped' /\ SlotsTyped'
      BY <1>1, <1>7 DEF ReadRun, RowsTyped, SlotsTyped, rowVars
    <2>2. run[r].version \in Nat /\ run[r].status \in RunStatus
      BY <1>2 DEF RunRow
    <2>3. EnvTyped'
      BY <1>1, <1>7, <2>2 DEF ReadRun, EnvTyped
    <2>4. QED
      BY <2>1, <2>3 DEF CoreTyped
  <1>8. CASE Cancel(r)
    <2>1. run' \in [Runs -> RunRow]
      BY <1>2, <1>8 DEF Cancel, RunRow, RunStatus
    <2>2. outbox' \in [Runs -> OutboxRow]
      BY <1>2, <1>8 DEF Cancel, OutboxRow, OutboxStatus
    <2>3. partition \in [Orgs -> PartitionRow] /\ OrgOf[r] \in Orgs
      BY <1>1, OrgTyped DEF RowsTyped
    <2>4. partition' \in [Orgs -> PartitionRow]
      BY <1>8, <2>3 DEF Cancel, PartitionRow
    <2>5. RowsTyped'
      BY <1>1, <1>8, <2>1, <2>2, <2>4
      DEF Cancel, RowsTyped, RequestStatus, GrantStatus
    <2>6. EnvTyped' /\ SlotsTyped'
      BY <1>1, <1>8 DEF Cancel, EnvTyped, SlotsTyped, envVars
    <2>7. QED
      BY <2>5, <2>6 DEF CoreTyped
  <1>9. QED
    BY <1>3, <1>4, <1>5, <1>6, <1>7, <1>8 DEF Control

LEMMA EnvironmentTyped ==
    ASSUME NEW r \in Runs, CoreTyped, Environment(r)
    PROVE  CoreTyped'
  <1>1. RowsTyped /\ EnvTyped /\ SlotsTyped
    BY DEF CoreTyped
  <1>2. CASE ChangeAuthority(r)
    BY <1>1, <1>2 DEF ChangeAuthority, CoreTyped, RowsTyped, EnvTyped, SlotsTyped, rowVars
  <1>3. CASE LapseLease(r)
    BY <1>1, <1>3
    DEF LapseLease, CoreTyped, RowsTyped, EnvTyped, SlotsTyped, rowVars, envVars
  <1>4. CASE PassDeadline(r)
    BY <1>1, <1>4 DEF PassDeadline, CoreTyped, RowsTyped, EnvTyped, SlotsTyped, rowVars
  <1>5. CASE EndExecution(r)
    <2>1. RowsTyped' /\ SlotsTyped'
      BY <1>1, <1>5 DEF EndExecution, RowsTyped, SlotsTyped, rowVars
    <2>2. PICK verdict \in Verdicts :
              execs' = [execs EXCEPT ![r][Len(execs[r])] = verdict]
      BY <1>5 DEF EndExecution
    <2>3. execs[r] \in Seq({"running"} \cup Verdicts) /\ execs[r] # <<>>
      BY <1>1, <1>5 DEF EndExecution, Running, EnvTyped
    <2>4. Len(execs[r]) \in 1..Len(execs[r])
      BY <2>3, EmptySeq, LenProperties
    <2>5. [execs[r] EXCEPT ![Len(execs[r])] = verdict] \in Seq({"running"} \cup Verdicts)
      BY <2>3, <2>4, ExceptSeq
    <2>6. EnvTyped'
      BY <1>1, <1>5, <2>2, <2>5 DEF EndExecution, EnvTyped
    <2>7. QED
      BY <2>1, <2>6 DEF CoreTyped
  <1>6. QED
    BY <1>2, <1>3, <1>4, <1>5 DEF Environment

LEMMA ClaimNextTyped ==
    ASSUME NEW s \in Slots, NEW r \in Runs, CoreTyped, ClaimNext(s, r)
    PROVE  CoreTyped'
  <1>1. RowsTyped /\ EnvTyped /\ SlotsTyped
    BY DEF CoreTyped
  <1>2. run \in [Runs -> RunRow] /\ outbox \in [Runs -> OutboxRow]
    BY <1>1 DEF RowsTyped
  <1>3. CASE Claim(s, r)
    <2>1. OwnerOf[s] \in Owners
      BY ConstantsAssumption DEF ConstantsAssumption
    <2>2. /\ outbox[r].attempts \in Nat /\ outbox[r].fence \in Nat
          /\ run[r].version \in Nat
      BY <1>2 DEF OutboxRow, RunRow
    <2>3. outbox' \in [Runs -> OutboxRow] /\ run' \in [Runs -> RunRow]
      <3>1. outbox' = [outbox EXCEPT ![r] =
                         [status |-> "leased", attempts |-> outbox[r].attempts + 1,
                          fence |-> outbox[r].fence + 1, owner |-> OwnerOf[s]]]
        BY <1>3 DEF Claim
      <3>2. PICK st \in {"recovering", "leased"} :
                run' = [run EXCEPT ![r] =
                          [status |-> st, version |-> run[r].version + 1,
                           fence |-> outbox[r].fence + 1, owner |-> OwnerOf[s]]]
        BY <1>3 DEF Claim
      <3>3. outbox' \in [Runs -> OutboxRow]
        BY <1>2, <2>1, <2>2, <3>1 DEF OutboxRow, OutboxStatus
      <3>4. run' \in [Runs -> RunRow]
        BY <1>2, <2>1, <2>2, <3>2 DEF RunRow, RunStatus
      <3>5. QED
        BY <3>3, <3>4
    <2>4. history' \in [Runs -> SUBSET Nat]
      BY <1>1, <1>3, CloseLeaseTyped DEF Claim, RowsTyped
    <2>5. RowsTyped' /\ EnvTyped'
      BY <1>1, <1>3, <2>3, <2>4 DEF Claim, RowsTyped, EnvTyped, envVars
    <2>6. outbox[r].fence + 1 \in Nat
      BY <2>2
    <2>7. /\ slot' = [slot EXCEPT ![s] = WorkItem(r, outbox[r].fence + 1)]
          /\ lapsed' \in SUBSET Runs
      BY <1>1, <1>3 DEF Claim, SlotsTyped
    <2>8. /\ WorkItem(r, outbox[r].fence + 1) \in SlotState
          /\ WorkItem(r, outbox[r].fence + 1).run = r
      BY <2>6 DEF WorkItem, SlotState, Busy, InProcess
    <2>9. SlotsTyped'
      BY <1>1, <2>7, <2>8 DEF SlotsTyped
    <2>10. QED
      BY <2>5, <2>9 DEF CoreTyped
  <1>4. CASE ClaimExpired(s, r)
    <2>1. run' \in [Runs -> RunRow]
      BY <1>2, <1>4 DEF ClaimExpired, RunRow, RunStatus
    <2>2. outbox' \in [Runs -> OutboxRow]
      BY <1>2, <1>4 DEF ClaimExpired, OutboxRow, OutboxStatus
    <2>3. RowsTyped'
      BY <1>1, <1>4, <2>1, <2>2, CloseLeaseTyped, UncountTyped
      DEF ClaimExpired, RowsTyped
    <2>4. EnvTyped' /\ SlotsTyped'
      BY <1>1, <1>4 DEF ClaimExpired, EnvTyped, SlotsTyped, envVars
    <2>5. QED
      BY <2>3, <2>4 DEF CoreTyped
  <1>5. CASE ClaimExhausted(s, r)
    <2>1. RowsTyped'
      BY <1>1, <1>5, FailLockedTyped DEF ClaimExhausted
    <2>2. EnvTyped' /\ SlotsTyped'
      BY <1>1, <1>5 DEF ClaimExhausted, FailLocked, EnvTyped, SlotsTyped, envVars
    <2>3. QED
      BY <2>1, <2>2 DEF CoreTyped
  <1>6. CASE ClaimAborted(s, r)
    <2>1. RowsTyped' /\ EnvTyped'
      BY <1>1, <1>6 DEF ClaimAborted, RowsTyped, EnvTyped, rowVars, envVars
    <2>2. SlotsTyped'
      BY <1>1, <1>6, RestTyped DEF ClaimAborted, SlotsTyped
    <2>3. QED
      BY <2>1, <2>2 DEF CoreTyped
  <1>7. QED
    BY <1>3, <1>4, <1>5, <1>6 DEF ClaimNext

\* A call that loses its row, or that settles it, keeps the rows typed.
LEMMA WriteTyped ==
    ASSUME NEW r \in Runs, NEW ok \in BOOLEAN, RowsTyped,
           Stale(r) \/ FailLocked(r) \/ Settle(r, ok)
    PROVE  RowsTyped' /\ UNCHANGED lapsed
  <1>1. CASE Stale(r)
    BY <1>1 DEF Stale, RowsTyped, rowVars
  <1>2. CASE FailLocked(r)
    BY <1>2, FailLockedTyped DEF FailLocked
  <1>3. CASE Settle(r, ok)
    BY <1>3, SettleTyped DEF Settle
  <1>4. QED
    BY <1>1, <1>2, <1>3

LEMMA ProcessTyped ==
    ASSUME NEW s \in Slots, CoreTyped, Process(s)
    PROVE  CoreTyped'
  <1>1. RowsTyped /\ EnvTyped /\ SlotsTyped
    BY DEF CoreTyped
  <1>2. slot[s].pc \in Busy => slot[s].run \in Runs
    BY <1>1 DEF SlotsTyped
  <1>3. CASE CheckBinding(s)
    <2>1. RowsTyped' /\ EnvTyped'
      BY <1>1, <1>3 DEF CheckBinding, RowsTyped, EnvTyped, rowVars, envVars
    <2>2. PICK pc \in Busy : GoTo(s, pc)
      BY <1>3 DEF CheckBinding, Busy, InProcess
    <2>3. SlotsTyped'
      BY <1>1, <1>3, <2>2, GoToTyped DEF CheckBinding, SlotsTyped, Busy, InProcess
    <2>4. QED
      BY <2>1, <2>3 DEF CoreTyped
  <1>4. CASE MarkStarted(s)
    <2>1. PICK r \in Runs : r = slot[s].run
      BY <1>2, <1>4 DEF MarkStarted, Busy, InProcess
    <2>2. EnvTyped'
      BY <1>1, <1>4 DEF MarkStarted, EnvTyped, envVars
    <2>3. CASE (Stale(r) \/ FailLocked(r)) /\ Return(s)
      <3>1. RowsTyped' /\ UNCHANGED lapsed
        BY <1>1, <2>3, WriteTyped
      <3>2. SlotsTyped'
        BY <1>1, <2>3, <3>1, ReturnTyped DEF SlotsTyped
      <3>3. QED
        BY <2>2, <3>1, <3>2 DEF CoreTyped
    <2>4. CASE /\ outbox' = [outbox EXCEPT ![r].status = "dispatched"]
               /\ run' = [run EXCEPT ![r].status = "running", ![r].version = @ + 1]
               /\ slot' = [slot EXCEPT ![s] = [@ EXCEPT !.pc = "dispatching",
                                                       !.beat = "on"]]
               /\ UNCHANGED <<partition, request, grant, history, lapsed>>
      <3>1. run \in [Runs -> RunRow] /\ outbox \in [Runs -> OutboxRow]
        BY <1>1 DEF RowsTyped
      <3>2. run' \in [Runs -> RunRow]
        BY <2>4, <3>1 DEF RunRow, RunStatus
      <3>3. outbox' \in [Runs -> OutboxRow]
        BY <2>4, <3>1 DEF OutboxRow, OutboxStatus
      <3>4. RowsTyped'
        BY <1>1, <2>4, <3>2, <3>3 DEF RowsTyped
      <3>5. slot[s] \in SlotState
        BY <1>1 DEF SlotsTyped
      <3>6. /\ [slot[s] EXCEPT !.pc = "dispatching", !.beat = "on"] \in SlotState
            /\ [slot[s] EXCEPT !.pc = "dispatching", !.beat = "on"].run \in Runs
        BY <2>1, <3>5 DEF SlotState, Busy, InProcess
      <3>7. SlotsTyped'
        BY <1>1, <2>4, <3>6, WorkTyped DEF SlotsTyped
      <3>8. QED
        BY <2>2, <3>4, <3>7 DEF CoreTyped
    <2>5. QED
      BY <1>4, <2>1, <2>3, <2>4 DEF MarkStarted
  <1>5. CASE StartWorkflow(s)
    <2>1. PICK r \in Runs : r = slot[s].run
      BY <1>2, <1>5 DEF StartWorkflow, Busy, InProcess
    <2>2. RowsTyped' /\ lapsed' \in SUBSET Runs
      BY <1>1, <1>5 DEF StartWorkflow, RowsTyped, SlotsTyped, rowVars
    <2>3. execs' \in [Runs -> Seq({"running"} \cup Verdicts)]
      <3>1. execs[r] \in Seq({"running"} \cup Verdicts)
        BY <1>1 DEF EnvTyped
      <3>2. Append(execs[r], "running") \in Seq({"running"} \cup Verdicts)
        BY <3>1, AppendProperties
      <3>3. QED
        BY <1>1, <1>5, <2>1, <3>2 DEF StartWorkflow, StartExecution, EnvTyped
    <2>4. EnvTyped'
      BY <1>1, <1>5, <2>3 DEF StartWorkflow, EnvTyped
    <2>5. CASE r \notin BoundRuns
      <3>1. slot[s].pc \in Busy /\ GoTo(s, "failing")
        BY <1>5, <2>1, <2>5 DEF StartWorkflow, Busy, InProcess
      <3>2. SlotsTyped'
        BY <1>1, <2>2, <3>1, GoToTyped DEF Busy
      <3>3. QED
        BY <2>2, <2>4, <3>2 DEF CoreTyped
    <2>6. CASE r \in BoundRuns
      <3>1. PICK n \in Nat : n = Len(execs'[r])
        BY <2>3, LenProperties
      <3>2. PICK pc \in Awaiting :
                slot' = [slot EXCEPT ![s] = [slot[s] EXCEPT !.pc = pc, !.exec = n]]
        BY <1>5, <2>1, <2>6, <3>1 DEF StartWorkflow, Awaiting
      <3>3. slot[s] \in SlotState
        BY <1>1 DEF SlotsTyped
      <3>4. /\ [slot[s] EXCEPT !.pc = pc, !.exec = n] \in SlotState
            /\ [slot[s] EXCEPT !.pc = pc, !.exec = n].run \in Runs
        BY <2>1, <3>3 DEF SlotState, Busy, InProcess, Awaiting
      <3>5. SlotsTyped'
        BY <1>1, <2>2, <3>2, <3>4, WorkTyped
      <3>6. QED
        BY <2>2, <2>4, <3>5 DEF CoreTyped
    <2>7. QED
      BY <2>5, <2>6
  <1>6. CASE AwaitResult(s)
    <2>1. RowsTyped' /\ EnvTyped'
      BY <1>1, <1>6 DEF AwaitResult, RowsTyped, EnvTyped, rowVars, envVars
    <2>2. PICK pc \in Busy : GoTo(s, pc)
      BY <1>6 DEF AwaitResult, Busy, InProcess
    <2>3. SlotsTyped'
      BY <1>1, <1>6, <2>2, GoToTyped
      DEF AwaitResult, Awaiting, SlotsTyped, Busy, InProcess
    <2>4. QED
      BY <2>1, <2>3 DEF CoreTyped
  <1>7. CASE Complete(s)
    <2>1. slot[s].run \in Runs
      BY <1>2, <1>7 DEF Complete, Busy, InProcess
    <2>2. RowsTyped' /\ UNCHANGED lapsed
      BY <1>1, <1>7, <2>1, WriteTyped DEF Complete
    <2>3. EnvTyped' /\ SlotsTyped'
      BY <1>1, <1>7, <2>2, ReturnTyped DEF Complete, EnvTyped, SlotsTyped, envVars
    <2>4. QED
      BY <2>2, <2>3 DEF CoreTyped
  <1>8. CASE Fail(s)
    <2>1. slot[s].run \in Runs
      BY <1>2, <1>8 DEF Fail, Busy, InProcess
    <2>2. RowsTyped' /\ UNCHANGED lapsed
      BY <1>1, <1>8, <2>1, WriteTyped DEF Fail
    <2>3. EnvTyped' /\ SlotsTyped'
      BY <1>1, <1>8, <2>2, ReturnTyped DEF Fail, EnvTyped, SlotsTyped, envVars
    <2>4. QED
      BY <2>2, <2>3 DEF CoreTyped
  <1>9. CASE ClaimNothing(s)
    BY <1>1, <1>9
    DEF ClaimNothing, vars, rowVars, envVars, CoreTyped, RowsTyped, EnvTyped, SlotsTyped
  <1>10. CASE RecordDeduplicated(s) \/ TraceRaises(s)
    <2>1. RowsTyped' /\ EnvTyped' /\ lapsed' \in SUBSET Runs
      BY <1>1, <1>10
      DEF RecordDeduplicated, TraceRaises, RowsTyped, EnvTyped, SlotsTyped, rowVars, envVars
    <2>2. slot[s].pc \in Busy
      BY <1>10 DEF RecordDeduplicated, TraceRaises, Busy, InProcess
    <2>3. \/ slot' = [slot EXCEPT ![s] = Stopped]
          \/ \E pc \in Busy : GoTo(s, pc)
      BY <1>10 DEF RecordDeduplicated, TraceRaises, Busy, InProcess
    <2>4. SlotsTyped'
      BY <1>1, <2>1, <2>2, <2>3, GoToTyped, RestTyped
    <2>5. QED
      BY <2>1, <2>4 DEF CoreTyped
  <1>11. QED
    BY <1>3, <1>4, <1>5, <1>6, <1>7, <1>8, <1>9, <1>10 DEF Process

LEMMA DisturbTyped ==
    ASSUME NEW s \in Slots, CoreTyped, Disturb(s)
    PROVE  CoreTyped'
  <1>1. RowsTyped /\ EnvTyped /\ SlotsTyped
    BY DEF CoreTyped
  <1>2. /\ slot[s].pc \in Busy => slot[s].run \in Runs
        /\ lapsed \in SUBSET Runs
    BY <1>1 DEF SlotsTyped
  <1>3. CASE Heartbeat(s)
    <2>1. RowsTyped' /\ EnvTyped'
      BY <1>1, <1>3 DEF Heartbeat, RowsTyped, EnvTyped, rowVars, envVars
    <2>2. SlotsTyped'
      BY <1>1, <1>3 DEF Heartbeat, SlotsTyped, SlotState
    <2>3. QED
      BY <2>1, <2>2 DEF CoreTyped
  <1>4. CASE HeartbeatRaises(s)
    <2>1. RowsTyped' /\ EnvTyped'
      BY <1>1, <1>4 DEF HeartbeatRaises, RowsTyped, EnvTyped, rowVars, envVars
    <2>2. SlotsTyped'
      BY <1>1, <1>4 DEF HeartbeatRaises, SlotsTyped, SlotState
    <2>3. QED
      BY <2>1, <2>2 DEF CoreTyped
  <1>5. CASE Raise(s)
    <2>1. RowsTyped' /\ EnvTyped' /\ lapsed' \in SUBSET Runs
      BY <1>1, <1>5 DEF Raise, RowsTyped, EnvTyped, SlotsTyped, rowVars, envVars
    <2>2. SlotsTyped'
      BY <1>1, <1>5, <2>1, GoToTyped DEF Raise, Busy
    <2>3. QED
      BY <2>1, <2>2 DEF CoreTyped
  <1>6. CASE Drain(s)
    <2>1. slot[s].run \in Runs
      BY <1>2, <1>6 DEF Drain, Busy
    <2>2. RowsTyped' /\ lapsed' \in SUBSET Runs
      BY <1>1, <1>2, <1>6, <2>1, RequeueTyped
      DEF Drain, Stale, Requeue, RowsTyped, rowVars
    <2>3. EnvTyped' /\ SlotsTyped'
      BY <1>1, <1>6, <2>2, RestTyped DEF Drain, EnvTyped, envVars
    <2>4. QED
      BY <2>2, <2>3 DEF CoreTyped
  <1>7. CASE Crash(s) \/ Restart(s)
    <2>1. RowsTyped' /\ EnvTyped' /\ lapsed' \in SUBSET Runs
      BY <1>1, <1>2, <1>7 DEF Crash, Restart, RowsTyped, EnvTyped, rowVars, envVars
    <2>2. SlotsTyped'
      BY <1>1, <1>7, <2>1, RestTyped DEF Crash, Restart
    <2>3. QED
      BY <2>1, <2>2 DEF CoreTyped
  <1>8. QED
    BY <1>3, <1>4, <1>5, <1>6, <1>7 DEF Disturb

\* No transaction takes a trace past its limit, however many events it appends.
LEMMA TracedTyped ==
    ASSUME NEW r, NEW n \in Nat, TraceTyped, Traced(r, n)
    PROVE  TraceTyped'
  <1>1. CASE r \in Runs
    <2>1. trace[r] \in Nat /\ trace[r] + n \in 0..TraceLimit
      BY <1>1, ConstantsAssumption DEF TraceTyped, Traced, Fits, ConstantsAssumption
    <2>2. trace' = [trace EXCEPT ![r] = trace[r] + n]
      BY DEF Traced
    <2>3. QED
      BY <2>1, <2>2 DEF TraceTyped
  <1>2. CASE r \notin Runs
    <2>1. trace' = trace
      BY <1>2 DEF TraceTyped, Traced
    <2>2. QED
      BY <2>1 DEF TraceTyped
  <1>3. QED
    BY <1>1, <1>2

AppendsSome == \E r, n : n \in Nat /\ Traced(r, n)

LEMMA ControlTraces ==
    ASSUME NEW r \in Runs, Control(r)
    PROVE  UNCHANGED trace \/ AppendsSome
  <1>1. 1 \in Nat /\ 2 \in Nat
    OBVIOUS
  <1>2. CASE AdmitQueued(r) \/ AdmitWaiting(r) \/ ProductionClaim(r) \/ Cancel(r)
    BY <1>1, <1>2 DEF AdmitQueued, AdmitWaiting, ProductionClaim, Cancel, AppendsSome
  <1>3. CASE CloseApproval(r) \/ ReadRun(r)
    BY <1>3 DEF CloseApproval, ReadRun
  <1>4. QED
    BY <1>2, <1>3 DEF Control

LEMMA ClaimNextTraces ==
    ASSUME NEW s \in Slots, NEW r \in Runs, ClaimNext(s, r)
    PROVE  UNCHANGED trace \/ AppendsSome
  <1>1. 1 \in Nat
    OBVIOUS
  <1>2. QED
    BY <1>1
    DEF ClaimNext, Claim, ClaimExpired, ClaimExhausted, FailLocked, ClaimAborted,
        AppendsSome

LEMMA ProcessTraces ==
    ASSUME NEW s \in Slots, Process(s)
    PROVE  UNCHANGED trace \/ AppendsSome
  <1>1. /\ 1 \in Nat /\ 2 \in Nat
        /\ \A n \in OutcomeEvents : n \in Nat
    BY ConstantsAssumption DEF ConstantsAssumption
  <1>2. CASE CheckBinding(s) \/ StartWorkflow(s) \/ AwaitResult(s) \/ TraceRaises(s)
             \/ ClaimNothing(s)
    BY <1>2
    DEF CheckBinding, StartWorkflow, AwaitResult, TraceRaises, ClaimNothing, vars
  <1>3. CASE MarkStarted(s) \/ RecordDeduplicated(s) \/ Fail(s)
    BY <1>1, <1>3
    DEF MarkStarted, RecordDeduplicated, Fail, Stale, FailLocked, AppendsSome
  <1>4. CASE Complete(s)
    BY <1>1, <1>4 DEF Complete, Stale, FailLocked, Settle, AppendsSome
  <1>5. QED
    BY <1>2, <1>3, <1>4 DEF Process

LEMMA DisturbTraces ==
    ASSUME NEW s \in Slots, Disturb(s)
    PROVE  UNCHANGED trace \/ AppendsSome
  <1>1. 1 \in Nat
    OBVIOUS
  <1>2. QED
    BY <1>1
    DEF Disturb, Heartbeat, HeartbeatRaises, Raise, Drain, Stale, Requeue, Crash,
        Restart, AppendsSome

LEMMA NextTyped ==
    ASSUME TypeOK, [Next]_vars
    PROVE  TypeOK'
  <1>1. CASE UNCHANGED vars
    BY <1>1
    DEF vars, rowVars, envVars, TypeOK, RowsTyped, EnvTyped, SlotsTyped, TraceTyped
  <1>2. CASE Next
    <2>1. CoreTyped
      BY DEF TypeOK, CoreTyped
    <2>2. CoreTyped'
      BY <1>2, <2>1, ControlTyped, EnvironmentTyped, ClaimNextTyped, ProcessTyped,
         DisturbTyped DEF Next
    <2>3. ASSUME NEW r \in Runs, Environment(r)
          PROVE  UNCHANGED trace
      BY <2>3
      DEF Environment, ChangeAuthority, LapseLease, PassDeadline, EndExecution
    <2>4. UNCHANGED trace \/ AppendsSome
      BY <1>2, <2>3, ControlTraces, ClaimNextTraces, ProcessTraces, DisturbTraces
      DEF Next
    <2>5. TraceTyped'
      BY <2>4, TracedTyped DEF TypeOK, TraceTyped, AppendsSome
    <2>6. QED
      BY <2>2, <2>5 DEF TypeOK, CoreTyped
  <1>3. QED
    BY <1>1, <1>2

\* Every row, slot and Temporal execution stays within the states the code has
\* names for, and a slot inside process always works on a run.
THEOREM TypeCorrect == Spec => []TypeOK
  <1>1. Init => TypeOK
    <2>1. Init => TraceTyped
      BY ConstantsAssumption DEF Init, TraceTyped, ConstantsAssumption
    <2>2. QED
      BY <2>1, InitTyped DEF TypeOK, CoreTyped
  <1>2. TypeOK /\ [Next]_vars => TypeOK'
    BY NextTyped
  <1>3. QED
    BY <1>1, <1>2, PTL DEF Spec

-----------------------------------------------------------------------------
(* A transaction writes the rows of one run.  What it leaves alone keeps   *)
(* the invariant; of the run it writes, each lemma first states the fields *)
(* it leaves behind.                                                       *)

SameRows(q) ==
    /\ run'[q] = run[q] /\ outbox'[q] = outbox[q] /\ history'[q] = history[q]
    /\ request'[q] = request[q] /\ grant'[q] = grant[q] /\ view'[q] = view[q]

OnlyWrites(r) == \A q \in Runs \ {r} : SameRows(q)

\* What every step owes a run: the invariant of its rows, and what a step may
\* never do to them.
StepSafe(r) == RowInv(r)' /\ Final(r) /\ AsRead(r) /\ Committed(r)

LEMMA SameRowsSafe ==
    ASSUME NEW q \in Runs, RowInv(q), SameRows(q)
    PROVE  StepSafe(q)
  <1>1. Agree(q)'
    BY DEF RowInv, SameRows, Agree
  <1>2. Fresh(q)' /\ Ledger(q)' /\ Attempts(q)'
    BY DEF RowInv, SameRows, Fresh, Ledger, Attempts
  <1>3. Approved(q)' /\ Seen(q)'
    BY DEF RowInv, SameRows, Approved, Seen
  <1>4. Final(q) /\ AsRead(q) /\ Committed(q)
    BY DEF SameRows, Final, AsRead, Committed
  <1>5. QED
    BY <1>1, <1>2, <1>3, <1>4 DEF RowInv, StepSafe

\* The rows of one run, as the provers need them typed.
LEMMA RowTypes ==
    ASSUME NEW r \in Runs, TypeOK
    PROVE  /\ run[r].version \in Nat /\ run[r].fence \in Nat
           /\ run[r].status \in RunStatus /\ run[r].owner \in Owners \cup {NoOwner}
           /\ outbox[r].fence \in Nat /\ outbox[r].attempts \in Nat
           /\ outbox[r].status \in OutboxStatus
           /\ history[r] \in SUBSET Nat /\ view[r].version \in Nat
           /\ request[r] \in RequestStatus /\ grant[r] \in GrantStatus
  <1>1. run[r] \in RunRow /\ outbox[r] \in OutboxRow
    BY DEF TypeOK, RowsTyped
  <1>2. /\ history[r] \in SUBSET Nat /\ view[r] \in [version: Nat, status: RunStatus]
        /\ request[r] \in RequestStatus /\ grant[r] \in GrantStatus
    BY DEF TypeOK, RowsTyped, EnvTyped
  <1>3. QED
    BY <1>1, <1>2 DEF RunRow, OutboxRow

\* Closing the current lease completes the history.
LEMMA CloseLeaseLedger ==
    ASSUME NEW r \in Runs, TypeOK, Ledger(r), CloseLease(r)
    PROVE  /\ history'[r] = 1..outbox[r].fence
           /\ \A q \in Runs \ {r} : history'[q] = history[q]
  <1>1. outbox[r].fence \in Nat
    BY RowTypes
  <1>2. /\ history'[r] = history[r] \cup ({outbox[r].fence} \ {0})
        /\ \A q \in Runs \ {r} : history'[q] = history[q]
    BY DEF CloseLease, TypeOK, RowsTyped
  <1>3. history[r] \in {1..outbox[r].fence, 1..(outbox[r].fence - 1)}
    BY DEF Ledger
  <1>4. history[r] \cup ({outbox[r].fence} \ {0}) = 1..outbox[r].fence
    BY <1>1, <1>3
  <1>5. QED
    BY <1>2, <1>4

-----------------------------------------------------------------------------
(* The transactions of the worker, one lemma per write of a run.           *)

LEMMA FailLockedSafe ==
    ASSUME NEW r \in Runs, TypeOK, RowInv(r), FailLocked(r), view' = view,
           outbox[r].status \in Open
    PROVE  StepSafe(r) /\ OnlyWrites(r)
  <1>1. run \in [Runs -> RunRow] /\ outbox \in [Runs -> OutboxRow]
    BY DEF TypeOK, RowsTyped
  <1>2. /\ run'[r].status = "failed" /\ run'[r].version = run[r].version + 1
        /\ run'[r].fence = run[r].fence /\ run'[r].owner = run[r].owner
    BY <1>1 DEF FailLocked, RunRow
  <1>3. /\ outbox'[r].status = "failed" /\ outbox'[r].fence = outbox[r].fence
        /\ outbox'[r].owner = outbox[r].owner
        /\ outbox'[r].attempts = outbox[r].attempts
    BY <1>1 DEF FailLocked, OutboxRow
  <1>4. history'[r] = 1..outbox[r].fence
    BY CloseLeaseLedger DEF FailLocked, RowInv
  <1>5. r \in NeedsApproval => request'[r] = "failed" /\ grant'[r] = "failed"
    <2>1. r \in NeedsApproval => request[r] = "claimed" /\ grant[r] = "claimed"
      BY DEF RowInv, Agree, Approved, Open, Held
    <2>2. QED
      BY <2>1 DEF FailLocked, TypeOK, RowsTyped
  <1>6. Agree(r)'
    BY <1>2, <1>3 DEF RowInv, Agree, Held
  <1>7. Fresh(r)' /\ Ledger(r)' /\ Attempts(r)'
    BY <1>2, <1>3, <1>4 DEF RowInv, Fresh, Ledger, Attempts, Held
  <1>8. Approved(r)' /\ Seen(r)'
    BY <1>2, <1>5, RowTypes DEF RowInv, Approved, Seen
  <1>9. Final(r) /\ AsRead(r) /\ Committed(r)
    BY <1>2 DEF RowInv, Agree, Final, AsRead, Committed, Terminal, Open, Held
  <1>10. OnlyWrites(r)
    BY <1>1, CloseLeaseLedger
    DEF FailLocked, OnlyWrites, SameRows, TypeOK, RowsTyped, RowInv
  <1>11. QED
    BY <1>6, <1>7, <1>8, <1>9, <1>10 DEF RowInv, StepSafe

\* claim_next: a queued run, or one whose lease has lapsed, gets a new lease.
LEMMA ClaimSafe ==
    ASSUME NEW s \in Slots, NEW r \in Runs, TypeOK, RowInv(r), Claim(s, r)
    PROVE  StepSafe(r) /\ OnlyWrites(r)
  <1>1. run \in [Runs -> RunRow] /\ outbox \in [Runs -> OutboxRow]
    BY DEF TypeOK, RowsTyped
  <1>2. OwnerOf[s] # NoOwner
    BY ConstantsAssumption DEF ConstantsAssumption
  <1>3. /\ outbox'[r].status = "leased" /\ outbox'[r].fence = outbox[r].fence + 1
        /\ outbox'[r].owner = OwnerOf[s]
        /\ outbox'[r].attempts = outbox[r].attempts + 1
    BY <1>1 DEF Claim
  <1>4. /\ run'[r].status \in {"leased", "recovering"}
        /\ run'[r].version = run[r].version + 1
        /\ run'[r].fence = outbox[r].fence + 1 /\ run'[r].owner = OwnerOf[s]
    BY <1>1 DEF Claim
  <1>5. outbox[r].status \in Open
    BY DEF Claim, Due, Open
  <1>6. history'[r] = 1..outbox[r].fence
    <2>1. CASE outbox[r].status = "ready"
      BY <2>1 DEF Claim, RowInv, Ledger
    <2>2. CASE outbox[r].status # "ready"
      BY <2>2, CloseLeaseLedger DEF Claim, RowInv
    <2>3. QED
      BY <2>1, <2>2
  <1>7. request' = request /\ grant' = grant /\ view' = view
    BY DEF Claim, envVars
  <1>8. Agree(r)'
    BY <1>2, <1>3, <1>4 DEF Agree, Held
  <1>9. Fresh(r)' /\ Ledger(r)'
    <2>1. outbox[r].fence \in Nat
      BY RowTypes
    <2>2. (outbox[r].fence + 1) - 1 = outbox[r].fence
      BY <2>1
    <2>3. outbox[r].fence + 1 \notin 1..outbox[r].fence
      BY <2>1
    <2>4. QED
      BY <1>3, <1>4, <1>6, <2>2, <2>3 DEF Fresh, Ledger, Held
  <1>10. Attempts(r)'
    <2>1. outbox[r].attempts \in Nat /\ outbox[r].fence \in Nat
      BY RowTypes
    <2>2. outbox[r].attempts < MaxAttempts
      BY <2>1, ConstantsAssumption DEF Claim, Exhausted, ConstantsAssumption
    <2>3. outbox[r].attempts + 1 <= MaxAttempts
      BY <2>1, <2>2, ConstantsAssumption DEF ConstantsAssumption
    <2>4. QED
      BY <1>3, <2>3 DEF RowInv, Attempts
  <1>11. Approved(r)'
    <2>1. r \in NeedsApproval => request[r] = "claimed" /\ grant[r] = "claimed"
      BY <1>5 DEF RowInv, Agree, Approved, Open, Held
    <2>2. QED
      BY <1>4, <1>7, <2>1 DEF Approved
  <1>12. Seen(r)'
    BY <1>4, <1>7, RowTypes DEF RowInv, Seen
  <1>13. Final(r) /\ AsRead(r) /\ Committed(r)
    BY <1>4, <1>5 DEF RowInv, Agree, Final, AsRead, Committed, Terminal, Open, Held
  <1>14. OnlyWrites(r)
    <2>1. \A q \in Runs \ {r} : history'[q] = history[q]
      BY CloseLeaseLedger DEF Claim, RowInv
    <2>2. \A q \in Runs \ {r} : run'[q] = run[q] /\ outbox'[q] = outbox[q]
      BY <1>1 DEF Claim
    <2>3. QED
      BY <1>7, <2>1, <2>2 DEF OnlyWrites, SameRows
  <1>15. QED
    BY <1>8, <1>9, <1>10, <1>11, <1>12, <1>13, <1>14 DEF RowInv, StepSafe

\* claim_next: the queue deadline of the run has passed.
LEMMA ClaimExpiredSafe ==
    ASSUME NEW s \in Slots, NEW r \in Runs, TypeOK, RowInv(r), ClaimExpired(s, r)
    PROVE  StepSafe(r) /\ OnlyWrites(r)
  <1>1. run \in [Runs -> RunRow] /\ outbox \in [Runs -> OutboxRow]
    BY DEF TypeOK, RowsTyped
  <1>2. /\ run'[r].status = "expired" /\ run'[r].version = run[r].version + 1
        /\ run'[r].fence = run[r].fence /\ run'[r].owner = run[r].owner
    BY <1>1 DEF ClaimExpired, RunRow
  <1>3. /\ outbox'[r].status = "expired" /\ outbox'[r].fence = outbox[r].fence
        /\ outbox'[r].owner = outbox[r].owner
        /\ outbox'[r].attempts = outbox[r].attempts
    BY <1>1 DEF ClaimExpired, OutboxRow
  <1>4. history'[r] = 1..outbox[r].fence
    BY CloseLeaseLedger DEF ClaimExpired, RowInv
  <1>5. outbox[r].status \in Open
    BY DEF ClaimExpired, Due, Open
  <1>6. request' = request /\ grant' = grant /\ view' = view
    BY DEF ClaimExpired, envVars
  <1>7. Agree(r)'
    BY <1>2, <1>3 DEF RowInv, Agree, Held
  <1>8. Fresh(r)' /\ Ledger(r)' /\ Attempts(r)'
    BY <1>2, <1>3, <1>4 DEF RowInv, Fresh, Ledger, Attempts, Held
  <1>9. Approved(r)'
    <2>1. r \in NeedsApproval => request[r] = "claimed" /\ grant[r] = "claimed"
      BY <1>5 DEF RowInv, Agree, Approved, Open, Held
    <2>2. QED
      BY <1>2, <1>6, <2>1 DEF Approved
  <1>10. Seen(r)'
    BY <1>2, <1>6, RowTypes DEF RowInv, Seen
  <1>11. Final(r) /\ AsRead(r) /\ Committed(r)
    BY <1>2, <1>5 DEF RowInv, Agree, Final, AsRead, Committed, Terminal, Open, Held
  <1>12. OnlyWrites(r)
    BY <1>1, <1>6, CloseLeaseLedger DEF ClaimExpired, OnlyWrites, SameRows, RowInv
  <1>13. QED
    BY <1>7, <1>8, <1>9, <1>10, <1>11, <1>12 DEF RowInv, StepSafe

\* mark_started, once the row is found and the binding holds.
Start(r) ==
    /\ outbox' = [outbox EXCEPT ![r].status = "dispatched"]
    /\ run' = [run EXCEPT ![r].status = "running", ![r].version = @ + 1]
    /\ UNCHANGED <<request, grant, history, view>>

LEMMA StartSafe ==
    ASSUME NEW r \in Runs, TypeOK, RowInv(r), Start(r), outbox[r].status = "leased"
    PROVE  StepSafe(r) /\ OnlyWrites(r)
  <1>1. run \in [Runs -> RunRow] /\ outbox \in [Runs -> OutboxRow]
    BY DEF TypeOK, RowsTyped
  <1>2. /\ run'[r].status = "running" /\ run'[r].version = run[r].version + 1
        /\ run'[r].fence = run[r].fence /\ run'[r].owner = run[r].owner
    BY <1>1 DEF Start, RunRow
  <1>3. /\ outbox'[r].status = "dispatched" /\ outbox'[r].fence = outbox[r].fence
        /\ outbox'[r].owner = outbox[r].owner
        /\ outbox'[r].attempts = outbox[r].attempts
    BY <1>1 DEF Start, OutboxRow
  <1>4. Agree(r)'
    BY <1>2, <1>3 DEF RowInv, Agree, Held
  <1>5. Fresh(r)' /\ Ledger(r)' /\ Attempts(r)'
    BY <1>2, <1>3 DEF Start, RowInv, Fresh, Ledger, Attempts, Held
  <1>6. Approved(r)'
    <2>1. r \in NeedsApproval => request[r] = "claimed" /\ grant[r] = "claimed"
      BY DEF RowInv, Agree, Approved
    <2>2. QED
      BY <1>2, <2>1 DEF Start, Approved
  <1>7. Seen(r)'
    BY <1>2, RowTypes DEF Start, RowInv, Seen
  <1>8. Final(r) /\ AsRead(r) /\ Committed(r)
    BY <1>2 DEF RowInv, Agree, Final, AsRead, Committed, Terminal
  <1>9. OnlyWrites(r)
    BY <1>1 DEF Start, OnlyWrites, SameRows
  <1>10. QED
    BY <1>4, <1>5, <1>6, <1>7, <1>8, <1>9 DEF RowInv, StepSafe

\* complete, by the slot that holds the fence in force.
LEMMA SettleSafe ==
    ASSUME NEW s \in Slots, NEW r \in Runs, r = slot[s].run, TypeOK, RowInv(r),
           slot[s].pc = "settling", Holds(s, {"dispatched"}, {"running"}),
           BindingValid(r), Settle(r, Verdict(s) = "finished"), view' = view
    PROVE  StepSafe(r) /\ OnlyWrites(r)
  <1>1. run \in [Runs -> RunRow] /\ outbox \in [Runs -> OutboxRow]
    BY DEF TypeOK, RowsTyped
  <1>2. /\ outbox[r].status = "dispatched" /\ run[r].status = "running"
        /\ slot[s].fence = outbox[r].fence
    BY DEF Holds
  <1>3. PICK ok \in BOOLEAN : ok <=> Verdict(s) = "finished"
    OBVIOUS
  <1>4. /\ ok => run'[r].status = "finished_ungraded"
        /\ ~ok => run'[r].status = "failed"
        /\ run'[r].version \in {run[r].version + 1, run[r].version + 2}
        /\ run'[r].fence = run[r].fence /\ run'[r].owner = run[r].owner
    BY <1>1, <1>3 DEF Settle, RunRow
  <1>5. /\ ok => outbox'[r].status = "closed"
        /\ ~ok => outbox'[r].status = "failed"
        /\ outbox'[r].fence = outbox[r].fence /\ outbox'[r].owner = outbox[r].owner
        /\ outbox'[r].attempts = outbox[r].attempts
    BY <1>1, <1>3 DEF Settle, OutboxRow
  <1>6. history'[r] = 1..outbox[r].fence
    BY CloseLeaseLedger DEF Settle, RowInv
  <1>7. r \in NeedsApproval =>
          /\ ok => request'[r] = "consumed" /\ grant'[r] = "consumed"
          /\ ~ok => request'[r] = "failed" /\ grant'[r] = "failed"
    BY <1>3 DEF Settle, TypeOK, RowsTyped
  <1>8. Agree(r)'
    BY <1>4, <1>5 DEF RowInv, Agree, Held
  <1>9. Fresh(r)' /\ Ledger(r)' /\ Attempts(r)'
    BY <1>4, <1>5, <1>6 DEF RowInv, Fresh, Ledger, Attempts, Held
  <1>10. Approved(r)' /\ Seen(r)'
    BY <1>4, <1>7, RowTypes DEF RowInv, Approved, Seen
  <1>11. Final(r) /\ AsRead(r)
    BY <1>2, <1>4 DEF Final, AsRead, Terminal
  <1>12. Committed(r)
    BY <1>2, <1>3, <1>4 DEF BindingValid, Committed
  <1>13. OnlyWrites(r)
    BY <1>1, CloseLeaseLedger
    DEF Settle, OnlyWrites, SameRows, TypeOK, RowsTyped, RowInv
  <1>14. QED
    BY <1>8, <1>9, <1>10, <1>11, <1>12, <1>13 DEF RowInv, StepSafe

\* release, by a slot whose fence is the one of the outbox.
LEMMA RequeueSafe ==
    ASSUME NEW s \in Slots, NEW r \in Runs, r = slot[s].run, TypeOK, RowInv(r),
           HoldsOutbox(s), Requeue(s, r), view' = view
    PROVE  StepSafe(r) /\ OnlyWrites(r)
  <1>1. run \in [Runs -> RunRow] /\ outbox \in [Runs -> OutboxRow]
    BY DEF TypeOK, RowsTyped
  <1>2. outbox[r].status \in Held /\ run[r].fence = slot[s].fence
    BY DEF HoldsOutbox, RowInv, Agree
  <1>3. run' = [run EXCEPT ![r].status = "queued", ![r].version = @ + 1,
                          ![r].owner = NoOwner]
    BY <1>2 DEF Requeue
  <1>4. /\ run'[r].status = "queued" /\ run'[r].version = run[r].version + 1
        /\ run'[r].fence = run[r].fence /\ run'[r].owner = NoOwner
    BY <1>1, <1>3 DEF RunRow
  <1>5. /\ outbox'[r].status = "ready" /\ outbox'[r].fence = outbox[r].fence
        /\ outbox'[r].owner = NoOwner /\ outbox'[r].attempts = outbox[r].attempts
    BY <1>1 DEF Requeue, OutboxRow
  <1>6. history'[r] = 1..outbox[r].fence
    BY CloseLeaseLedger DEF Requeue, RowInv
  <1>7. Agree(r)'
    BY <1>4, <1>5 DEF RowInv, Agree, Held
  <1>8. Fresh(r)' /\ Ledger(r)' /\ Attempts(r)'
    BY <1>4, <1>5, <1>6 DEF RowInv, Fresh, Ledger, Attempts, Held
  <1>9. Approved(r)'
    <2>1. r \in NeedsApproval => request[r] = "claimed" /\ grant[r] = "claimed"
      BY <1>2 DEF RowInv, Agree, Approved, Held
    <2>2. QED
      BY <1>4, <2>1 DEF Requeue, Approved
  <1>10. Seen(r)'
    BY <1>4, RowTypes DEF RowInv, Seen
  <1>11. Final(r) /\ AsRead(r) /\ Committed(r)
    BY <1>2, <1>4 DEF RowInv, Agree, Final, AsRead, Committed, Terminal, Held
  <1>12. OnlyWrites(r)
    BY <1>1, <1>3, CloseLeaseLedger DEF Requeue, OnlyWrites, SameRows, RowInv
  <1>13. QED
    BY <1>7, <1>8, <1>9, <1>10, <1>11, <1>12 DEF RowInv, StepSafe

-----------------------------------------------------------------------------
(* The transactions of the Control API.                                    *)

LEMMA AdmitSafe ==
    ASSUME NEW r \in Runs, TypeOK, RowInv(r), AdmitQueued(r) \/ AdmitWaiting(r)
    PROVE  StepSafe(r) /\ OnlyWrites(r)
  <1>1. run \in [Runs -> RunRow] /\ outbox \in [Runs -> OutboxRow]
    BY DEF TypeOK, RowsTyped
  <1>2. /\ run[r].version = 0 /\ outbox[r].status = "none" /\ outbox[r].fence = 0
        /\ outbox[r].attempts = 0 /\ view[r].version = 0
    <2>1. run[r].status = "none"
      BY DEF AdmitQueued, AdmitWaiting
    <2>2. run[r].version = 0 /\ outbox[r].status = "none"
      BY <2>1 DEF RowInv, Agree, Fresh
    <2>3. outbox[r].fence = 0 /\ outbox[r].attempts = 0
      BY <2>2 DEF RowInv, Fresh, Attempts
    <2>4. view[r].version \in Nat /\ view[r].version <= run[r].version
      BY RowTypes DEF RowInv, Seen
    <2>5. QED
      BY <2>2, <2>3, <2>4
  <1>3. /\ run'[r].version = 1 /\ view' = view
        /\ run'[r].fence = run[r].fence /\ run'[r].owner = run[r].owner
        /\ run'[r].status \in {"queued", "waiting_approval"}
    <2>1. CASE AdmitQueued(r)
      BY <1>1, <2>1 DEF AdmitQueued, RunRow
    <2>2. CASE AdmitWaiting(r)
      BY <1>1, <2>2 DEF AdmitWaiting, RunRow
    <2>3. QED
      BY <2>1, <2>2
  <1>4. /\ outbox'[r].fence = outbox[r].fence /\ outbox'[r].owner = outbox[r].owner
        /\ outbox'[r].attempts = outbox[r].attempts
        /\ outbox'[r].status = IF run'[r].status = "queued" THEN "ready" ELSE "none"
    <2>1. CASE AdmitQueued(r)
      <3>1. run'[r].status = "queued"
        BY <1>1, <2>1 DEF AdmitQueued, RunRow
      <3>2. QED
        BY <1>1, <2>1, <3>1 DEF AdmitQueued, Enqueue, OutboxRow
    <2>2. CASE AdmitWaiting(r)
      <3>1. run'[r].status = "waiting_approval"
        BY <1>1, <2>2 DEF AdmitWaiting, RunRow
      <3>2. QED
        BY <1>2, <2>2, <3>1 DEF AdmitWaiting
    <2>3. QED
      BY <2>1, <2>2
  <1>5. history' = history /\ grant' = grant
    BY DEF AdmitQueued, AdmitWaiting
  <1>6. Agree(r)'
    BY <1>3, <1>4 DEF RowInv, Agree, Held
  <1>7. Fresh(r)' /\ Attempts(r)'
    BY <1>2, <1>3, <1>4 DEF RowInv, Fresh, Attempts
  <1>8. Ledger(r)'
    <2>1. 1..(0 - 1) = 1..0
      OBVIOUS
    <2>2. history[r] = 1..0
      BY <1>2, <2>1 DEF RowInv, Ledger
    <2>3. QED
      BY <1>2, <1>4, <1>5, <2>2 DEF Ledger, Held
  <1>9. Approved(r)'
    <2>1. CASE AdmitQueued(r)
      BY <2>1 DEF AdmitQueued, Approved
    <2>2. CASE AdmitWaiting(r)
      <3>1. run'[r].status = "waiting_approval" /\ request'[r] = "open"
        BY <1>1, <2>2 DEF AdmitWaiting, TypeOK, RowsTyped, RunRow
      <3>2. run[r].status = "none"
        BY <2>2 DEF AdmitWaiting
      <3>3. r \in NeedsApproval => grant[r] = "none"
        BY <3>2 DEF RowInv, Approved
      <3>4. QED
        BY <1>5, <3>1, <3>3 DEF Approved
    <2>3. QED
      BY <2>1, <2>2
  <1>10. Seen(r)'
    BY <1>2, <1>3 DEF RowInv, Seen
  <1>11. Final(r) /\ AsRead(r) /\ Committed(r)
    BY <1>3 DEF AdmitQueued, AdmitWaiting, Final, AsRead, Committed, Terminal
  <1>12. OnlyWrites(r)
    BY <1>1, <1>3, <1>5
    DEF AdmitQueued, AdmitWaiting, Enqueue, OnlyWrites, SameRows, TypeOK, RowsTyped
  <1>13. QED
    BY <1>6, <1>7, <1>8, <1>9, <1>10, <1>11, <1>12 DEF RowInv, StepSafe

LEMMA ProductionClaimSafe ==
    ASSUME NEW r \in Runs, TypeOK, RowInv(r), ProductionClaim(r)
    PROVE  StepSafe(r) /\ OnlyWrites(r)
  <1>1. run \in [Runs -> RunRow] /\ outbox \in [Runs -> OutboxRow]
    BY DEF TypeOK, RowsTyped
  <1>2. run[r].status = "waiting_approval" /\ outbox[r].status = "none"
    BY DEF ProductionClaim, RowInv, Agree
  <1>3. /\ run'[r].status = "queued" /\ run'[r].version = run[r].version + 1
        /\ run'[r].fence = run[r].fence /\ run'[r].owner = run[r].owner
    BY <1>1 DEF ProductionClaim, RunRow
  <1>4. /\ outbox'[r].status = "ready" /\ outbox'[r].fence = outbox[r].fence
        /\ outbox'[r].owner = outbox[r].owner
        /\ outbox'[r].attempts = outbox[r].attempts
    BY <1>1 DEF ProductionClaim, Enqueue, OutboxRow
  <1>5. history' = history /\ view' = view
    BY DEF ProductionClaim
  <1>6. Agree(r)'
    BY <1>3, <1>4 DEF RowInv, Agree, Held
  <1>7. Fresh(r)' /\ Attempts(r)'
    BY <1>3, <1>4 DEF RowInv, Fresh, Attempts
  <1>8. Ledger(r)'
    <2>1. 1..(0 - 1) = 1..0
      OBVIOUS
    <2>2. history[r] = 1..0 /\ outbox[r].fence = 0
      BY <1>2, <2>1 DEF RowInv, Ledger, Fresh
    <2>3. QED
      BY <1>4, <1>5, <2>2 DEF Ledger, Held
  <1>9. Approved(r)' /\ Seen(r)'
    <2>1. request'[r] = "claimed" /\ grant'[r] = "claimed"
      BY DEF ProductionClaim, TypeOK, RowsTyped
    <2>2. QED
      BY <1>3, <1>5, <2>1, RowTypes DEF RowInv, Approved, Seen
  <1>10. Final(r) /\ AsRead(r) /\ Committed(r)
    BY <1>2, <1>3 DEF Final, AsRead, Committed, Terminal
  <1>11. OnlyWrites(r)
    BY <1>1, <1>5
    DEF ProductionClaim, Enqueue, OnlyWrites, SameRows, TypeOK, RowsTyped
  <1>12. QED
    BY <1>6, <1>7, <1>8, <1>9, <1>10, <1>11 DEF RowInv, StepSafe

LEMMA CloseApprovalSafe ==
    ASSUME NEW r \in Runs, TypeOK, RowInv(r), CloseApproval(r)
    PROVE  StepSafe(r) /\ OnlyWrites(r)
  <1>1. /\ request'[r] = "closed" /\ \A q \in Runs \ {r} : request'[q] = request[q]
        /\ UNCHANGED <<run, outbox, history, grant, view>>
    BY DEF CloseApproval, TypeOK, RowsTyped, envVars
  <1>2. Agree(r)' /\ Fresh(r)' /\ Ledger(r)' /\ Attempts(r)' /\ Seen(r)'
    BY <1>1 DEF RowInv, Agree, Fresh, Ledger, Attempts, Seen
  <1>3. Approved(r)'
    <2>1. r \in NeedsApproval => run[r].status = "waiting_approval" \/
                                 run[r].status = "cancelled"
      BY DEF CloseApproval, RowInv, Approved
    <2>2. r \in NeedsApproval => /\ run[r].status = "waiting_approval" =>
                                       grant[r] = "none"
                                 /\ run[r].status = "cancelled" =>
                                       grant[r] \in {"none", "failed"}
      BY DEF RowInv, Approved
    <2>3. QED
      BY <1>1, <2>1, <2>2 DEF Approved
  <1>4. Final(r) /\ AsRead(r) /\ Committed(r)
    BY <1>1 DEF Final, AsRead, Committed
  <1>5. OnlyWrites(r)
    BY <1>1 DEF OnlyWrites, SameRows
  <1>6. QED
    BY <1>2, <1>3, <1>4, <1>5 DEF RowInv, StepSafe

LEMMA ReadRunSafe ==
    ASSUME NEW r \in Runs, TypeOK, RowInv(r), ReadRun(r)
    PROVE  StepSafe(r) /\ OnlyWrites(r)
  <1>1. /\ view'[r] = [version |-> run[r].version, status |-> run[r].status]
        /\ \A q \in Runs \ {r} : view'[q] = view[q]
        /\ UNCHANGED <<run, outbox, history, request, grant>>
    BY DEF ReadRun, TypeOK, EnvTyped, rowVars
  <1>2. Agree(r)' /\ Fresh(r)' /\ Ledger(r)' /\ Attempts(r)' /\ Approved(r)'
    BY <1>1 DEF RowInv, Agree, Fresh, Ledger, Attempts, Approved
  <1>3. Seen(r)'
    BY <1>1, RowTypes DEF Seen
  <1>4. Final(r) /\ AsRead(r) /\ Committed(r)
    BY <1>1 DEF Final, AsRead, Committed
  <1>5. OnlyWrites(r)
    BY <1>1 DEF OnlyWrites, SameRows
  <1>6. QED
    BY <1>2, <1>3, <1>4, <1>5 DEF RowInv, StepSafe

LEMMA CancelSafe ==
    ASSUME NEW r \in Runs, TypeOK, RowInv(r), Cancel(r)
    PROVE  StepSafe(r) /\ OnlyWrites(r)
  <1>1. run \in [Runs -> RunRow] /\ outbox \in [Runs -> OutboxRow]
    BY DEF TypeOK, RowsTyped
  <1>2. /\ run'[r].status = "cancelled" /\ run'[r].version = run[r].version + 1
        /\ run'[r].fence = run[r].fence /\ run'[r].owner = run[r].owner
    BY <1>1 DEF Cancel, RunRow
  <1>3. /\ outbox'[r].fence = outbox[r].fence /\ outbox'[r].owner = outbox[r].owner
        /\ outbox'[r].attempts = outbox[r].attempts
        /\ outbox'[r].status = IF run[r].status = "waiting_approval"
                               THEN "none" ELSE "cancelled"
    <2>1. CASE run[r].status = "waiting_approval"
      BY <2>1 DEF Cancel, RowInv, Agree
    <2>2. CASE run[r].status # "waiting_approval"
      BY <1>1, <2>2 DEF Cancel, OutboxRow
    <2>3. QED
      BY <2>1, <2>2
  <1>4. history' = history /\ view' = view
    BY DEF Cancel, envVars
  <1>5. Agree(r)'
    BY <1>2, <1>3 DEF RowInv, Agree, Held
  <1>6. Fresh(r)' /\ Attempts(r)'
    BY <1>2, <1>3 DEF Cancel, RowInv, Fresh, Attempts, Agree
  <1>7. Ledger(r)'
    BY <1>3, <1>4 DEF RowInv, Ledger, Held
  <1>8. Approved(r)'
    <2>1. r \in NeedsApproval =>
            \/ request[r] \in {"open", "closed"} /\ grant[r] = "none"
            \/ request[r] = "claimed" /\ grant[r] = "claimed"
      BY DEF Cancel, RowInv, Approved
    <2>2. /\ request'[r] = IF request[r] \in {"open", "claimed"}
                           THEN "cancelled" ELSE request[r]
          /\ grant'[r] = IF grant[r] = "claimed" THEN "failed" ELSE grant[r]
      BY DEF Cancel, TypeOK, RowsTyped
    <2>3. QED
      BY <1>2, <2>1, <2>2 DEF Approved
  <1>9. Seen(r)'
    BY <1>2, <1>4, RowTypes DEF RowInv, Seen
  <1>10. Final(r) /\ AsRead(r) /\ Committed(r)
    BY <1>2 DEF Cancel, RowInv, Seen, Final, AsRead, Committed, Terminal
  <1>11. OnlyWrites(r)
    BY <1>1, <1>4 DEF Cancel, OnlyWrites, SameRows, TypeOK, RowsTyped
  <1>12. QED
    BY <1>5, <1>6, <1>7, <1>8, <1>9, <1>10, <1>11 DEF RowInv, StepSafe

-----------------------------------------------------------------------------
(* Every step is safe for every run.                                       *)

LEMMA WriteIsSafe ==
    ASSUME RowsInvariant, NEW r \in Runs, StepSafe(r), OnlyWrites(r)
    PROVE  \A q \in Runs : StepSafe(q)
  BY SameRowsSafe DEF RowsInvariant, OnlyWrites

LEMMA NoWriteIsSafe ==
    ASSUME RowsInvariant, UNCHANGED <<run, outbox, history, request, grant, view>>
    PROVE  \A q \in Runs : StepSafe(q)
  BY SameRowsSafe DEF RowsInvariant, SameRows

LEMMA ControlSafe ==
    ASSUME NEW r \in Runs, TypeOK, RowsInvariant, Control(r)
    PROVE  \A q \in Runs : StepSafe(q)
  <1>1. RowInv(r)
    BY DEF RowsInvariant
  <1>2. StepSafe(r) /\ OnlyWrites(r)
    BY <1>1, AdmitSafe, ProductionClaimSafe, CloseApprovalSafe, ReadRunSafe,
       CancelSafe DEF Control
  <1>3. QED
    BY <1>2, WriteIsSafe

LEMMA ClaimNextSafe ==
    ASSUME NEW s \in Slots, NEW r \in Runs, TypeOK, RowsInvariant, ClaimNext(s, r)
    PROVE  \A q \in Runs : StepSafe(q)
  <1>1. RowInv(r)
    BY DEF RowsInvariant
  <1>2. CASE Claim(s, r) \/ ClaimExpired(s, r)
    BY <1>1, <1>2, ClaimSafe, ClaimExpiredSafe, WriteIsSafe
  <1>3. CASE ClaimExhausted(s, r)
    <2>1. FailLocked(r) /\ view' = view /\ outbox[r].status \in Open
      BY <1>3 DEF ClaimExhausted, Due, Open, envVars
    <2>2. QED
      BY <1>1, <2>1, FailLockedSafe, WriteIsSafe
  <1>4. CASE ClaimAborted(s, r)
    BY <1>4, NoWriteIsSafe DEF ClaimAborted, rowVars, envVars
  <1>5. QED
    BY <1>2, <1>3, <1>4 DEF ClaimNext

LEMMA ProcessSafe ==
    ASSUME NEW s \in Slots, TypeOK, RowsInvariant, Process(s)
    PROVE  \A q \in Runs : StepSafe(q)
  <1>1. slot[s].pc \in Busy => slot[s].run \in Runs
    BY DEF TypeOK, SlotsTyped
  <1>2. CASE CheckBinding(s) \/ StartWorkflow(s) \/ AwaitResult(s) \/ ClaimNothing(s)
             \/ RecordDeduplicated(s) \/ TraceRaises(s)
    BY <1>2, NoWriteIsSafe
    DEF CheckBinding, StartWorkflow, AwaitResult, ClaimNothing, RecordDeduplicated,
        TraceRaises, vars, rowVars, envVars
  <1>3. CASE MarkStarted(s)
    <2>1. PICK r \in Runs : r = slot[s].run
      BY <1>1, <1>3 DEF MarkStarted, Busy, InProcess
    <2>2. view' = view /\ RowInv(r)
      BY <1>3 DEF MarkStarted, envVars, RowsInvariant
    <2>3. CASE Stale(r)
      BY <2>2, <2>3, NoWriteIsSafe DEF Stale, rowVars
    <2>4. CASE FailLocked(r) /\ Holds(s, {"leased"}, {"leased", "recovering"})
      <3>1. outbox[r].status \in Open
        BY <2>1, <2>4 DEF Holds, Open, Held
      <3>2. QED
        BY <2>2, <2>4, <3>1, FailLockedSafe, WriteIsSafe
    <2>5. CASE Start(r) /\ Holds(s, {"leased"}, {"leased", "recovering"})
      <3>1. outbox[r].status = "leased"
        BY <2>1, <2>5 DEF Holds
      <3>2. QED
        BY <2>2, <2>5, <3>1, StartSafe, WriteIsSafe
    <2>6. QED
      BY <1>3, <2>1, <2>2, <2>3, <2>4, <2>5 DEF MarkStarted, Start
  <1>4. CASE Complete(s)
    <2>1. PICK r \in Runs : r = slot[s].run
      BY <1>1, <1>4 DEF Complete, Busy, InProcess
    <2>2. view' = view /\ RowInv(r) /\ slot[s].pc = "settling"
      BY <1>4 DEF Complete, envVars, RowsInvariant
    <2>3. CASE Stale(r)
      BY <2>2, <2>3, NoWriteIsSafe DEF Stale, rowVars
    <2>4. CASE FailLocked(r) /\ Holds(s, {"dispatched"}, {"running"})
      <3>1. outbox[r].status \in Open
        BY <2>1, <2>4 DEF Holds, Open, Held
      <3>2. QED
        BY <2>2, <2>4, <3>1, FailLockedSafe, WriteIsSafe
    <2>5. CASE /\ Holds(s, {"dispatched"}, {"running"}) /\ BindingValid(r)
               /\ Settle(r, Verdict(s) = "finished")
      BY <2>1, <2>2, <2>5, SettleSafe, WriteIsSafe
    <2>6. QED
      BY <1>4, <2>1, <2>3, <2>4, <2>5 DEF Complete
  <1>5. CASE Fail(s)
    <2>1. PICK r \in Runs : r = slot[s].run
      BY <1>1, <1>5 DEF Fail, Busy, InProcess
    <2>2. view' = view /\ RowInv(r)
      BY <1>5 DEF Fail, envVars, RowsInvariant
    <2>3. CASE Stale(r)
      BY <2>2, <2>3, NoWriteIsSafe DEF Stale, rowVars
    <2>4. CASE FailLocked(r) /\ Holds(s, Held, {"leased", "recovering", "running"})
      <3>1. outbox[r].status \in Open
        BY <2>1, <2>4 DEF Holds, Open
      <3>2. QED
        BY <2>2, <2>4, <3>1, FailLockedSafe, WriteIsSafe
    <2>5. QED
      BY <1>5, <2>1, <2>3, <2>4 DEF Fail
  <1>6. QED
    BY <1>2, <1>3, <1>4, <1>5 DEF Process

LEMMA DisturbSafe ==
    ASSUME NEW s \in Slots, TypeOK, RowsInvariant, Disturb(s)
    PROVE  \A q \in Runs : StepSafe(q)
  <1>1. CASE Heartbeat(s) \/ HeartbeatRaises(s) \/ Raise(s) \/ Crash(s) \/ Restart(s)
    BY <1>1, NoWriteIsSafe
    DEF Heartbeat, HeartbeatRaises, Raise, Crash, Restart, rowVars, envVars
  <1>2. CASE Drain(s)
    <2>1. PICK r \in Runs : r = slot[s].run
      BY <1>2 DEF TypeOK, SlotsTyped, Drain, Busy
    <2>2. view' = view /\ RowInv(r)
      BY <1>2 DEF Drain, envVars, RowsInvariant
    <2>3. CASE UNCHANGED rowVars
      BY <2>2, <2>3, NoWriteIsSafe DEF rowVars
    <2>4. CASE HoldsOutbox(s) /\ Requeue(s, r)
      BY <2>1, <2>2, <2>4, RequeueSafe, WriteIsSafe
    <2>5. QED
      BY <1>2, <2>1, <2>3, <2>4 DEF Drain, Stale
  <1>3. QED
    BY <1>1, <1>2 DEF Disturb

LEMMA NextSafe ==
    ASSUME TypeOK, RowsInvariant, [Next]_vars
    PROVE  \A q \in Runs : StepSafe(q)
  <1>1. CASE UNCHANGED vars
    BY <1>1, NoWriteIsSafe DEF vars, rowVars, envVars
  <1>2. CASE \E r \in Runs : Environment(r)
    <2>1. UNCHANGED <<run, outbox, history, request, grant, view>>
      BY <1>2
      DEF Environment, ChangeAuthority, LapseLease, PassDeadline, EndExecution,
          rowVars, envVars
    <2>2. QED
      BY <2>1, NoWriteIsSafe
  <1>3. QED
    BY <1>1, <1>2, ControlSafe, ClaimNextSafe, ProcessSafe, DisturbSafe DEF Next

LEMMA InitSafe == Init => RowsInvariant
  <1> SUFFICES ASSUME Init, NEW r \in Runs PROVE RowInv(r)
    BY DEF RowsInvariant
  <1>1. Agree(r) /\ Fresh(r)
    BY DEF Init, Agree, Fresh, Held
  <1>2. Ledger(r)
    BY DEF Init, Ledger, Held
  <1>3. Attempts(r)
    BY ConstantsAssumption DEF Init, Attempts, ConstantsAssumption
  <1>4. Approved(r) /\ Seen(r)
    BY DEF Init, Approved, Seen
  <1>5. QED
    BY <1>1, <1>2, <1>3, <1>4 DEF RowInv

LEMMA RowsInvariantNext ==
    ASSUME TypeOK, RowsInvariant, [Next]_vars
    PROVE  RowsInvariant'
  BY NextSafe DEF StepSafe, RowsInvariant

-----------------------------------------------------------------------------
(* Fences.  Only Claim issues one and hands it to a slot; every other step  *)
(* leaves the fences of the outbox as they are, and a slot that is busy     *)
(* after it carries the run and the fence it carried before.                *)

KeepsFences == \A r \in Runs : outbox'[r].fence = outbox[r].fence

KeepsWork ==
    \A s \in Slots : slot'[s].pc \in Busy =>
        /\ slot[s].pc \in Busy
        /\ slot'[s].run = slot[s].run /\ slot'[s].fence = slot[s].fence

LEMMA KeptFences ==
    ASSUME TypeOK, FencesDistinct, KeepsFences, KeepsWork
    PROVE  FencesDistinct'
  <1>1. \A s \in Slots : slot[s].pc \in Busy => slot[s].run \in Runs
    BY DEF TypeOK, SlotsTyped
  <1>2. QED
    BY <1>1 DEF FencesDistinct, KeepsFences, KeepsWork

LEMMA WorkKept ==
    ASSUME NEW s \in Slots, TypeOK,
           \/ UNCHANGED slot
           \/ Return(s)
           \/ slot' = [slot EXCEPT ![s] = Stopped]
           \/ slot' = [slot EXCEPT ![s] = Idle]
           \/ slot[s].pc \in Busy /\ \E pc \in Busy : GoTo(s, pc)
           \/ \E beat \in {"off", "on", "lost", "raised"} :
                 slot' = [slot EXCEPT ![s].beat = beat]
    PROVE  KeepsWork
  <1>1. slot \in [Slots -> SlotState]
    BY DEF TypeOK, SlotsTyped
  <1>2. Idle.pc \notin Busy /\ Stopped.pc \notin Busy
    BY DEF Idle, Stopped, Busy, InProcess
  <1>3. CASE UNCHANGED slot
    BY <1>3 DEF KeepsWork
  <1>4. CASE \/ Return(s) \/ slot' = [slot EXCEPT ![s] = Stopped]
             \/ slot' = [slot EXCEPT ![s] = Idle]
    BY <1>1, <1>2, <1>4 DEF Return, KeepsWork
  <1>5. CASE slot[s].pc \in Busy /\ \E pc \in Busy : GoTo(s, pc)
    BY <1>1, <1>5 DEF GoTo, KeepsWork, SlotState
  <1>6. CASE \E beat \in {"off", "on", "lost", "raised"} :
                slot' = [slot EXCEPT ![s].beat = beat]
    BY <1>1, <1>6 DEF KeepsWork, SlotState
  <1>7. QED
    BY <1>3, <1>4, <1>5, <1>6

\* A write of a run's status leaves its fence alone.
LEMMA FenceKept ==
    ASSUME NEW r \in Runs, NEW st, TypeOK,
           \/ outbox' = [outbox EXCEPT ![r].status = st]
           \/ outbox' = [outbox EXCEPT ![r].status = st, ![r].owner = NoOwner]
    PROVE  KeepsFences
  BY DEF TypeOK, RowsTyped, OutboxRow, KeepsFences

LEMMA ClaimFences ==
    ASSUME NEW s \in Slots, NEW r \in Runs, TypeOK, FencesDistinct, Claim(s, r)
    PROVE  FencesDistinct'
  <1>1. /\ outbox'[r].fence = outbox[r].fence + 1
        /\ \A q \in Runs \ {r} : outbox'[q].fence = outbox[q].fence
    BY DEF Claim, TypeOK, RowsTyped
  <1>2. /\ slot'[s].run = r /\ slot'[s].fence = outbox[r].fence + 1
        /\ \A t \in Slots \ {s} : slot'[t] = slot[t]
    BY DEF Claim, WorkItem, TypeOK, SlotsTyped
  <1>3. \A q \in Runs : outbox[q].fence \in Nat
    BY RowTypes
  <1>4. \A t \in Slots \ {s} : slot[t].pc \in Busy =>
            slot[t].run \in Runs /\ slot[t].fence \in 1..outbox[slot[t].run].fence
    BY DEF FencesDistinct, TypeOK, SlotsTyped
  <1>5. ASSUME NEW t \in Slots, slot'[t].pc \in Busy
        PROVE  slot'[t].fence \in 1..outbox'[slot'[t].run].fence
    <2>1. CASE t = s
      BY <1>1, <1>2, <1>3, <2>1
    <2>2. CASE t # s
      <3>1. PICK q \in Runs : q = slot[t].run
        BY <1>2, <1>4, <1>5, <2>2
      <3>2. slot'[t] = slot[t] /\ slot[t].fence \in 1..outbox[q].fence
        BY <1>2, <1>4, <1>5, <2>2, <3>1
      <3>3. outbox'[q].fence \in {outbox[q].fence, outbox[q].fence + 1}
        BY <1>1
      <3>4. QED
        BY <1>3, <3>1, <3>2, <3>3
    <2>3. QED
      BY <2>1, <2>2
  <1>6. ASSUME NEW t \in Slots, NEW u \in Slots, t # u, slot'[t].pc \in Busy,
               slot'[u].pc \in Busy, slot'[u].run = slot'[t].run
        PROVE  slot'[u].fence # slot'[t].fence
    <2>1. CASE t # s /\ u # s
      BY <1>2, <1>6, <2>1 DEF FencesDistinct
    <2>2. CASE t = s
      BY <1>2, <1>3, <1>4, <1>6, <2>2
    <2>3. CASE u = s
      BY <1>2, <1>3, <1>4, <1>6, <2>3
    <2>4. QED
      BY <2>1, <2>2, <2>3
  <1>7. QED
    BY <1>5, <1>6 DEF FencesDistinct

LEMMA FencesNext ==
    ASSUME TypeOK, FencesDistinct, [Next]_vars
    PROVE  FencesDistinct'
  <1>1. \A s \in Slots : slot[s].pc \in Busy => slot[s].run \in Runs
    BY DEF TypeOK, SlotsTyped
  <1>2. CASE UNCHANGED vars
    BY <1>2, KeptFences DEF vars, rowVars, KeepsFences, KeepsWork
  <1>3. ASSUME NEW r \in Runs, Control(r) PROVE FencesDistinct'
    <2>1. KeepsFences
      BY <1>3, FenceKept
      DEF Control, AdmitQueued, AdmitWaiting, ProductionClaim, CloseApproval, ReadRun,
          Cancel, Enqueue, rowVars, KeepsFences
    <2>2. KeepsWork
      BY <1>3
      DEF Control, AdmitQueued, AdmitWaiting, ProductionClaim, CloseApproval, ReadRun,
          Cancel, KeepsWork
    <2>3. QED
      BY <2>1, <2>2, KeptFences
  <1>4. ASSUME NEW r \in Runs, Environment(r) PROVE FencesDistinct'
    BY <1>4, KeptFences
    DEF Environment, ChangeAuthority, LapseLease, PassDeadline, EndExecution,
        rowVars, KeepsFences, KeepsWork
  <1>5. ASSUME NEW s \in Slots, NEW r \in Runs, ClaimNext(s, r) PROVE FencesDistinct'
    <2>1. CASE Claim(s, r)
      BY <2>1, ClaimFences
    <2>2. CASE ClaimExpired(s, r) \/ ClaimExhausted(s, r) \/ ClaimAborted(s, r)
      <3>1. KeepsFences
        BY <2>2, FenceKept
        DEF ClaimExpired, ClaimExhausted, FailLocked, ClaimAborted, rowVars, KeepsFences
      <3>2. KeepsWork
        BY <2>2, WorkKept DEF ClaimExpired, ClaimExhausted, ClaimAborted
      <3>3. QED
        BY <3>1, <3>2, KeptFences
    <2>3. QED
      BY <1>5, <2>1, <2>2 DEF ClaimNext
  <1>6. ASSUME NEW s \in Slots, Process(s) PROVE FencesDistinct'
    <2>1. slot[s].pc \in Busy => slot[s].run \in Runs
      BY <1>1
    <2>2. CASE ClaimNothing(s)
      BY <2>2, KeptFences DEF ClaimNothing, vars, rowVars, KeepsFences, KeepsWork
    <2>3. CASE CheckBinding(s) \/ AwaitResult(s) \/ RecordDeduplicated(s) \/ TraceRaises(s)
      <3>1. KeepsFences
        BY <2>3
        DEF CheckBinding, AwaitResult, RecordDeduplicated, TraceRaises, rowVars,
            KeepsFences
      <3>2. \/ slot' = [slot EXCEPT ![s] = Stopped]
            \/ slot[s].pc \in Busy /\ \E pc \in Busy : GoTo(s, pc)
        BY <2>3
        DEF CheckBinding, AwaitResult, Awaiting, RecordDeduplicated, TraceRaises, Busy,
            InProcess
      <3>3. QED
        BY <3>1, <3>2, WorkKept, KeptFences
    <2>4. CASE MarkStarted(s)
      <3>1. PICK r \in Runs : r = slot[s].run
        BY <2>1, <2>4 DEF MarkStarted, Busy, InProcess
      <3>2. KeepsFences
        BY <2>4, <3>1, FenceKept
        DEF MarkStarted, Stale, rowVars, FailLocked, KeepsFences
      <3>3. KeepsWork
        <4>1. CASE Return(s)
          BY <4>1, WorkKept
        <4>2. CASE slot' = [slot EXCEPT ![s] = [@ EXCEPT !.pc = "dispatching",
                                                        !.beat = "on"]]
          <5>1. slot \in [Slots -> SlotState] /\ slot[s].pc \in Busy
            BY <2>4 DEF MarkStarted, TypeOK, SlotsTyped, Busy, InProcess
          <5>2. QED
            BY <4>2, <5>1 DEF KeepsWork, SlotState
        <4>3. QED
          BY <2>4, <4>1, <4>2 DEF MarkStarted
      <3>4. QED
        BY <3>2, <3>3, KeptFences
    <2>5. CASE StartWorkflow(s)
      <3>1. KeepsFences
        BY <2>5 DEF StartWorkflow, rowVars, KeepsFences
      <3>2. slot \in [Slots -> SlotState] /\ slot[s].pc \in Busy
        BY <2>5 DEF StartWorkflow, TypeOK, SlotsTyped, Busy, InProcess
      <3>3. CASE GoTo(s, "failing")
        BY <3>1, <3>2, <3>3, WorkKept, KeptFences DEF Busy
      <3>4. CASE \E pc \in Awaiting : \E n :
                    slot' = [slot EXCEPT ![s] = [@ EXCEPT !.pc = pc, !.exec = n]]
        <4>1. KeepsWork
          BY <3>2, <3>4 DEF KeepsWork, SlotState
        <4>2. QED
          BY <3>1, <4>1, KeptFences
      <3>5. QED
        BY <2>5, <3>3, <3>4 DEF StartWorkflow, Awaiting
    <2>6. CASE Complete(s)
      <3>1. PICK r \in Runs : r = slot[s].run
        BY <2>1, <2>6 DEF Complete, Busy, InProcess
      <3>2. KeepsFences
        BY <2>6, <3>1, FenceKept
        DEF Complete, Stale, rowVars, FailLocked, Settle, KeepsFences
      <3>3. QED
        BY <2>6, <3>2, WorkKept, KeptFences DEF Complete
    <2>7. CASE Fail(s)
      <3>1. PICK r \in Runs : r = slot[s].run
        BY <2>1, <2>7 DEF Fail, Busy, InProcess
      <3>2. KeepsFences
        BY <2>7, <3>1, FenceKept DEF Fail, Stale, rowVars, FailLocked, KeepsFences
      <3>3. QED
        BY <2>7, <3>2, WorkKept, KeptFences DEF Fail
    <2>8. QED
      BY <1>6, <2>2, <2>3, <2>4, <2>5, <2>6, <2>7 DEF Process
  <1>7. ASSUME NEW s \in Slots, Disturb(s) PROVE FencesDistinct'
    <2>1. CASE Drain(s)
      <3>1. PICK r \in Runs : r = slot[s].run
        BY <1>1, <2>1 DEF Drain, Busy
      <3>2. KeepsFences
        BY <2>1, <3>1, FenceKept DEF Drain, Stale, rowVars, Requeue, KeepsFences
      <3>3. QED
        BY <2>1, <3>2, WorkKept, KeptFences DEF Drain
    <2>2. CASE Heartbeat(s) \/ HeartbeatRaises(s) \/ Raise(s) \/ Crash(s) \/ Restart(s)
      <3>1. KeepsFences
        BY <2>2
        DEF Heartbeat, HeartbeatRaises, Raise, Crash, Restart, rowVars, KeepsFences
      <3>2. KeepsWork
        BY <2>2, WorkKept
        DEF Heartbeat, HeartbeatRaises, Raise, Crash, Restart, Busy
      <3>3. QED
        BY <3>1, <3>2, KeptFences
    <2>3. QED
      BY <1>7, <2>1, <2>2 DEF Disturb
  <1>8. QED
    BY <1>2, <1>3, <1>4, <1>5, <1>6, <1>7 DEF Next

-----------------------------------------------------------------------------
(* The theorems.                                                           *)

\* Whatever transactions of clients, slots and failures come in which order, the
\* rows of every run stay in step: see the parts of RowInv.
THEOREM RowsInvariantHolds == Spec => []RowsInvariant
  <1>1. Init => RowsInvariant
    BY InitSafe
  <1>2. TypeOK /\ RowsInvariant /\ [Next]_vars => RowsInvariant'
    BY RowsInvariantNext
  <1>3. QED
    BY <1>1, <1>2, TypeCorrect, PTL DEF Spec

\* Run row and outbox row never part, under one fence and one owner, for every
\* number of runs, slots and processes.
THEOREM RowsAlwaysAgree == Spec => []RowsAgree
  <1>1. RowsInvariant => RowsAgree
    BY DEF RowsInvariant, RowInv, RowsAgree
  <1>2. QED
    BY <1>1, RowsInvariantHolds, PTL

\* Slots that work on one run never share a fence, however many slots, processes
\* and lost leases there are.
THEOREM FencesAlwaysDistinct == Spec => []FencesDistinct
  <1>1. Init => FencesDistinct
    BY DEF Init, FencesDistinct, Idle, Busy, InProcess
  <1>2. TypeOK /\ FencesDistinct /\ [Next]_vars => FencesDistinct'
    BY FencesNext
  <1>3. QED
    BY <1>1, <1>2, TypeCorrect, PTL DEF Spec

\* The lease history has one row for every fence that is over and no other.
THEOREM LeaseLedgerExact == Spec => []LeaseLedger
  <1>1. RowsInvariant => LeaseLedger
    BY DEF RowsInvariant, RowInv, LeaseLedger
  <1>2. QED
    BY <1>1, RowsInvariantHolds, PTL

\* A run is never leased more than settings.maximum_attempts times.
THEOREM AttemptsAlwaysBounded == Spec => []AttemptsBounded
  <1>1. RowsInvariant => AttemptsBounded
    BY DEF RowsInvariant, RowInv, AttemptsBounded
  <1>2. QED
    BY <1>1, RowsInvariantHolds, PTL

\* Request, grant and run of an approved run end together.
THEOREM GrantAlwaysFollowsRun == Spec => []GrantFollowsRun
  <1>1. ASSUME TypeOK, RowsInvariant, NEW r \in Runs, r \in NeedsApproval
        PROVE  /\ grant[r] = "consumed" <=> run[r].status = "finished_ungraded"
               /\ grant[r] = "claimed" <=> \/ outbox[r].status \in Open
                                         \/ run[r].status = "expired"
               /\ run[r].status = "failed" => grant[r] = "failed"
               /\ \A st \in {"claimed", "consumed"} : request[r] = st <=> grant[r] = st
               /\ request[r] = "failed" => grant[r] = "failed"
    <2>1. Agree(r) /\ Approved(r) /\ run[r].status \in RunStatus
      BY <1>1, RowTypes DEF RowsInvariant, RowInv
    <2>2. outbox[r].status \in Open <=>
            run[r].status \in {"queued", "leased", "recovering", "running"}
      BY <2>1 DEF Agree, Open, Held
    <2>3. QED
      BY <1>1, <2>1, <2>2 DEF Approved, RunStatus
  <1>2. TypeOK /\ RowsInvariant => GrantFollowsRun
    BY <1>1, ConstantsAssumption DEF GrantFollowsRun, ConstantsAssumption
  <1>3. QED
    BY <1>2, TypeCorrect, RowsInvariantHolds, PTL

\* A run that ended, its outbox, grant and lease history never change again.
THEOREM TerminalStaysFinal == Spec => TerminalIsFinal
  <1>1. TypeOK /\ RowsInvariant /\ [Next]_vars => [\A r \in Runs : Final(r)]_vars
    BY NextSafe DEF StepSafe
  <1>2. QED
    BY <1>1, TypeCorrect, RowsInvariantHolds, PTL DEF Spec, TerminalIsFinal

\* Only the slot that bears the fence in force finishes a run, after a finished
\* execution and while authorization holds.
THEOREM CommitStaysFenced == Spec => CommitIsFenced
  <1>1. TypeOK /\ RowsInvariant /\ [Next]_vars => [\A r \in Runs : Committed(r)]_vars
    BY NextSafe DEF StepSafe
  <1>2. QED
    BY <1>1, TypeCorrect, RowsInvariantHolds, PTL DEF Spec, CommitIsFenced

\* A cancellation that passes If-Match sees the status its client read.
THEOREM CancelAlwaysCurrent == Spec => CancelSeesCurrent
  <1>1. TypeOK /\ RowsInvariant /\ [Next]_vars => [\A r \in Runs : AsRead(r)]_vars
    BY NextSafe DEF StepSafe
  <1>2. QED
    BY <1>1, TypeCorrect, RowsInvariantHolds, PTL DEF Spec, CancelSeesCurrent

-----------------------------------------------------------------------------
(* TotalReady is a fold, defined by recursion over the subsets of Orgs.    *)
(* The lemmas below say what such a sum is: the recursion has a solution,  *)
(* and adding d to one summand adds d to the sum.  Each is an induction    *)
(* that argues from a smallest counterexample.                             *)

LEMMA SmallestNat ==
    ASSUME NEW T, T \subseteq Nat, T # {}
    PROVE  \E n \in T : \A m \in T : n <= m
  <1>1. PICK n \in T : \A m \in T : ~(<<m, n>> \in OpToRel(<, Nat))
    BY WFMin, NatLessThanWellFounded
  <1>2. \A m \in T : ~(m < n)
    BY <1>1 DEF OpToRel
  <1>3. QED
    BY <1>2

Least(s) == CHOOSE x \in s : TRUE

\* The body of the fold: the sum of f over the set s, by way of `sum`.
SumStep(f, sum, s) == IF s = {} THEN 0 ELSE f[Least(s)] + sum[s \ {Least(s)}]

\* sum[s] is the sum of f over s, for the subsets s of S with at most n members.
Level(S, n) == {s \in SUBSET S : Cardinality(s) <= n}
SumsTo(f, S, n, sum) ==
    /\ sum \in [Level(S, n) -> Int]
    /\ \A s \in Level(S, n) : sum[s] = SumStep(f, sum, s)

LEMMA LeastOf ==
    ASSUME NEW S, IsFiniteSet(S), NEW s \in SUBSET S, s # {}
    PROVE  /\ Least(s) \in s /\ s \ {Least(s)} \in SUBSET S
           /\ Cardinality(s) \in Nat \ {0}
           /\ Cardinality(s \ {Least(s)}) = Cardinality(s) - 1
  <1>1. Least(s) \in s
    BY DEF Least
  <1>2. IsFiniteSet(s)
    BY FS_Subset
  <1>3. Cardinality(s) \in Nat /\ Cardinality(s) # 0
    BY <1>2, FS_CardinalityType, FS_EmptySet
  <1>4. QED
    BY <1>1, <1>2, <1>3, FS_RemoveElement

LEMMA SumsExistTo ==
    ASSUME NEW S, IsFiniteSet(S), NEW f \in [S -> Int], NEW n \in Nat
    PROVE  \E sum : SumsTo(f, S, n, sum)
  <1> DEFINE Bad == {m \in Nat : ~ \E sum : SumsTo(f, S, m, sum)}
  <1> SUFFICES ASSUME Bad # {} PROVE FALSE
    OBVIOUS
  <1>1. PICK m \in Bad : \A k \in Bad : m <= k
    BY SmallestNat
  <1>2. CASE m = 0
    <2> DEFINE zero == [s \in Level(S, 0) |-> 0]
    <2>1. \A s \in Level(S, 0) : s = {}
      <3> SUFFICES ASSUME NEW s \in Level(S, 0), s # {} PROVE FALSE
        OBVIOUS
      <3>1. Cardinality(s) \in Nat \ {0} /\ Cardinality(s) <= 0
        BY LeastOf DEF Level
      <3>2. QED
        BY <3>1
    <2>2. SumsTo(f, S, 0, zero)
      BY <2>1 DEF SumsTo, SumStep
    <2>3. QED
      BY <1>2, <2>2
  <1>3. CASE m # 0
    <2>1. m - 1 \in Nat /\ m - 1 \notin Bad
      BY <1>1, <1>3
    <2>2. PICK sum : SumsTo(f, S, m - 1, sum)
      BY <2>1
    <2> DEFINE next == [s \in Level(S, m) |-> SumStep(f, sum, s)]
    <2>3. \A s \in Level(S, m) : s # {} => /\ s \ {Least(s)} \in Level(S, m - 1)
                                           /\ Least(s) \in S
      <3> SUFFICES ASSUME NEW s \in Level(S, m), s # {}
                   PROVE  s \ {Least(s)} \in Level(S, m - 1) /\ Least(s) \in S
        OBVIOUS
      <3>1. s \in SUBSET S /\ Cardinality(s) <= m
        BY DEF Level
      <3>2. QED
        BY <3>1, LeastOf DEF Level
    <2>4. \A s \in Level(S, m - 1) : s \in Level(S, m) /\ next[s] = sum[s]
      <3>1. \A s \in Level(S, m - 1) : s \in Level(S, m)
        <4> SUFFICES ASSUME NEW s \in Level(S, m - 1) PROVE s \in Level(S, m)
          OBVIOUS
        <4>1. s \in SUBSET S /\ Cardinality(s) <= m - 1
          BY DEF Level
        <4>2. Cardinality(s) \in Nat
          BY <4>1, FS_Subset, FS_CardinalityType
        <4>3. QED
          BY <4>1, <4>2 DEF Level
      <3>2. QED
        BY <2>2, <3>1 DEF SumsTo
    <2>5. next \in [Level(S, m) -> Int]
      BY <2>2, <2>3 DEF SumsTo, SumStep
    <2>6. \A s \in Level(S, m) : next[s] = SumStep(f, next, s)
      BY <2>3, <2>4 DEF SumStep
    <2>7. SumsTo(f, S, m, next)
      BY <2>5, <2>6 DEF SumsTo
    <2>8. QED
      BY <2>7
  <1>4. QED
    BY <1>2, <1>3

Sums(f, S, sum) == sum = [s \in SUBSET S |-> SumStep(f, sum, s)]

LEMMA SumsExist ==
    ASSUME NEW S, IsFiniteSet(S), NEW f \in [S -> Int]
    PROVE  \E sum : Sums(f, S, sum)
  <1>1. Cardinality(S) \in Nat
    BY FS_CardinalityType
  <1>2. Level(S, Cardinality(S)) = SUBSET S
    <2>1. \A s \in SUBSET S : Cardinality(s) <= Cardinality(S)
      BY FS_Subset
    <2>2. QED
      BY <2>1 DEF Level
  <1>3. PICK sum : SumsTo(f, S, Cardinality(S), sum)
    BY <1>1, SumsExistTo
  <1>4. Sums(f, S, sum)
    BY <1>2, <1>3 DEF SumsTo, Sums
  <1>5. QED
    BY <1>4

\* Two functions that differ at x have sums that differ by as much, over the
\* sets that contain x.
LEMMA SumsDiffer ==
    ASSUME NEW S, IsFiniteSet(S), NEW f \in [S -> Int], NEW g \in [S -> Int],
           NEW x \in S, \A y \in S \ {x} : g[y] = f[y],
           NEW sum, Sums(f, S, sum), NEW more, Sums(g, S, more)
    PROVE  \A s \in SUBSET S :
              /\ sum[s] \in Int
              /\ more[s] = sum[s] + (IF x \in s THEN g[x] - f[x] ELSE 0)
  <1> DEFINE Right(s) == /\ sum[s] \in Int
                          /\ more[s] = sum[s] + (IF x \in s THEN g[x] - f[x] ELSE 0)
             Bad == {n \in Nat : \E s \in SUBSET S : Cardinality(s) = n /\ ~Right(s)}
  <1>1. SUFFICES Bad = {}
    <2>1. \A s \in SUBSET S : Cardinality(s) \in Nat
      BY FS_Subset, FS_CardinalityType
    <2>2. QED
      BY <2>1
  <1>2. SUFFICES ASSUME Bad # {} PROVE FALSE
    OBVIOUS
  <1>3. PICK n \in Bad : \A k \in Bad : n <= k
    <2>1. Bad \subseteq Nat
      OBVIOUS
    <2> HIDE DEF Bad
    <2>2. QED
      BY <1>2, <2>1, SmallestNat
  <1>4. PICK s \in SUBSET S : Cardinality(s) = n /\ ~Right(s)
    BY <1>3
  <1>5. sum[s] = SumStep(f, sum, s) /\ more[s] = SumStep(g, more, s)
    BY DEF Sums
  <1>6. s # {}
    BY <1>4, <1>5 DEF SumStep
  <1> DEFINE y == Least(s)
             t == s \ {y}
  <1>7. y \in s /\ y \in S /\ t \in SUBSET S /\ n \in Nat /\ Cardinality(t) = n - 1
        /\ Cardinality(t) \in Nat
    <2>1. y \in s /\ t \in SUBSET S /\ n \in Nat \ {0} /\ Cardinality(t) = n - 1
      BY <1>4, <1>6, LeastOf
    <2>2. QED
      BY <2>1
  <1>8. Right(t)
    BY <1>3, <1>7
  <1>9. sum[s] = f[y] + sum[t] /\ more[s] = g[y] + more[t]
    BY <1>5, <1>6 DEF SumStep
  <1>10. f[y] \in Int /\ g[x] - f[x] \in Int
         /\ g[y] = f[y] + (IF x = y THEN g[x] - f[x] ELSE 0)
    BY <1>7
  <1>11. /\ x = y => x \in s /\ x \notin t
         /\ x # y => (x \in s <=> x \in t)
    BY <1>7
  <1>12. Right(s)
    <2>1. sum[t] \in Int /\ more[t] = sum[t] + (IF x \in t THEN g[x] - f[x] ELSE 0)
      BY <1>8
    <2> HIDE DEF y, t
    <2>2. sum[s] \in Int
      BY <1>9, <1>10, <2>1
    <2>3. more[s] = sum[s] + (IF x \in s THEN g[x] - f[x] ELSE 0)
      BY <1>9, <1>10, <1>11, <2>1
    <2>4. QED
      BY <2>2, <2>3
  <1>13. QED
    BY <1>4, <1>12

Total(f) == FoldFunction(+, 0, f)

LEMMA TotalIsSum ==
    ASSUME NEW S, IsFiniteSet(S), NEW f \in [S -> Int]
    PROVE  \E sum : Sums(f, S, sum) /\ Total(f) = sum[S]
  <1> DEFINE sum == CHOOSE it : Sums(f, S, it)
  <1>1. Sums(f, S, sum)
    BY SumsExist
  <1>2. DOMAIN f = S
    OBVIOUS
  <1>3. Total(f) = sum[S]
    BY <1>2
    DEF Total, FoldFunction, FoldFunctionOnSet, MapThenFoldSet, Sums, SumStep, Least
  <1>4. QED
    BY <1>1, <1>3

\* A sum moves with its summands.
LEMMA TotalMoves ==
    ASSUME NEW S, IsFiniteSet(S), NEW f \in [S -> Int], NEW g \in [S -> Int],
           NEW x \in S, \A y \in S \ {x} : g[y] = f[y]
    PROVE  Total(f) \in Int /\ Total(g) = Total(f) + (g[x] - f[x])
  <1>1. PICK sum : Sums(f, S, sum) /\ Total(f) = sum[S]
    BY TotalIsSum
  <1>2. PICK more : Sums(g, S, more) /\ Total(g) = more[S]
    BY TotalIsSum
  <1>3. \A s \in SUBSET S : /\ sum[s] \in Int
                            /\ more[s] = sum[s] + (IF x \in s THEN g[x] - f[x] ELSE 0)
    BY <1>1, <1>2, SumsDiffer
  <1>4. S \in SUBSET S
    OBVIOUS
  <1>5. QED
    BY <1>1, <1>2, <1>3, <1>4

\* A sum of zeros is zero.
LEMMA TotalOfZeros ==
    ASSUME NEW S, IsFiniteSet(S)
    PROVE  Total([s \in S |-> 0]) = 0
  <1> DEFINE f == [s \in S |-> 0]
  <1>1. f \in [S -> Int]
    OBVIOUS
  <1>2. PICK sum : Sums(f, S, sum) /\ Total(f) = sum[S]
    BY <1>1, TotalIsSum
  <1> DEFINE Bad == {n \in Nat : \E s \in SUBSET S : Cardinality(s) = n /\ sum[s] # 0}
  <1>3. Bad = {}
    <2> SUFFICES ASSUME Bad # {} PROVE FALSE
      OBVIOUS
    <2>1. PICK n \in Bad : \A k \in Bad : n <= k
      BY SmallestNat
    <2>2. PICK s \in SUBSET S : Cardinality(s) = n /\ sum[s] # 0
      BY <2>1
    <2>3. sum[s] = SumStep(f, sum, s)
      BY <1>2 DEF Sums
    <2>4. s # {}
      BY <2>2, <2>3 DEF SumStep
    <2> DEFINE t == s \ {Least(s)}
    <2>5. /\ Least(s) \in S /\ t \in SUBSET S /\ Cardinality(t) = n - 1
          /\ n - 1 \in Nat /\ n \in Nat
      BY <2>2, <2>4, LeastOf
    <2>6. sum[t] = 0
      BY <2>1, <2>5
    <2>7. sum[s] = 0
      BY <2>3, <2>4, <2>5, <2>6 DEF SumStep
    <2>8. QED
      BY <2>2, <2>7
  <1>4. Cardinality(S) \in Nat
    BY FS_CardinalityType
  <1>5. QED
    BY <1>2, <1>3, <1>4

-----------------------------------------------------------------------------
(* What a write of a run's outbox row does to the counters.                *)

IsOpen(r) == outbox[r].status \in Open
OthersStayOpen(r) == \A q \in Runs \ {r} : IsOpen(q)' <=> IsOpen(q)

Readies == [o \in Orgs |-> partition[o].ready]

LEMMA ReadiesTyped == RowsTyped => Readies \in [Orgs -> Int] /\ IsFiniteSet(Orgs)
  BY ConstantsAssumption DEF RowsTyped, PartitionRow, Readies, ConstantsAssumption

LEMMA TotalOfReadies == TotalReady = Total(Readies) /\ TotalReady' = Total(Readies')
  <1>1. TotalReady = Total(Readies)
    BY DEF TotalReady, Total, Readies, FoldFunction, FoldFunctionOnSet, MapThenFoldSet
  <1>2. TotalReady' = Total(Readies')
    BY DEF TotalReady, Total, Readies, FoldFunction, FoldFunctionOnSet, MapThenFoldSet
  <1>3. QED
    BY <1>1, <1>2

LEMMA OpenRunsFinite ==
    ASSUME NEW o \in Orgs
    PROVE  IsFiniteSet(OpenRuns(o)) /\ Cardinality(OpenRuns(o)) \in Nat
  <1>1. OpenRuns(o) \in SUBSET Runs /\ IsFiniteSet(Runs)
    BY ConstantsAssumption DEF OpenRuns, ConstantsAssumption
  <1>2. QED
    BY <1>1, FS_Subset, FS_CardinalityType

\* No row is opened or closed, and no counter is written.
LEMMA CountSame ==
    ASSUME ReadyCountExact, UNCHANGED partition,
           \A q \in Runs : IsOpen(q)' <=> IsOpen(q)
    PROVE  ReadyCountExact'
  <1>1. \A o \in Orgs : OpenRuns(o)' = OpenRuns(o)
    BY DEF OpenRuns, IsOpen
  <1>2. TotalReady' = TotalReady
    BY TotalOfReadies DEF Readies
  <1>3. QED
    BY <1>1, <1>2 DEF ReadyCountExact

\* A row is opened under _lock_capacity, and counted.
LEMMA CountUp ==
    ASSUME NEW r \in Runs, RowsTyped, ReadyCountExact, HasCapacity(OrgOf[r]), Enqueue(r),
           outbox[r].status = "none"
    PROVE  ReadyCountExact'
  <1>1. OrgOf[r] \in Orgs
    BY OrgTyped
  <1>2. outbox \in [Runs -> OutboxRow] /\ partition \in [Orgs -> PartitionRow]
    BY DEF RowsTyped
  <1>3. ~IsOpen(r) /\ IsOpen(r)' /\ OthersStayOpen(r)
    BY <1>2 DEF Enqueue, IsOpen, OthersStayOpen, Open, Held, OutboxRow
  <1>4. /\ partition'[OrgOf[r]].ready = partition[OrgOf[r]].ready + 1
        /\ partition'[OrgOf[r]].status = "ready"
        /\ \A o \in Orgs \ {OrgOf[r]} : partition'[o] = partition[o]
        /\ \A o \in Orgs : partition[o].ready \in Int /\ partition'[o].ready \in Int
    BY <1>1, <1>2 DEF Enqueue, PartitionRow
  <1>5. /\ OpenRuns(OrgOf[r])' = OpenRuns(OrgOf[r]) \cup {r}
        /\ r \notin OpenRuns(OrgOf[r])
        /\ \A o \in Orgs \ {OrgOf[r]} : OpenRuns(o)' = OpenRuns(o)
    BY <1>3 DEF OpenRuns, IsOpen, OthersStayOpen
  <1>6. Cardinality(OpenRuns(OrgOf[r])') = Cardinality(OpenRuns(OrgOf[r])) + 1
    BY <1>1, <1>5, OpenRunsFinite, FS_AddElement
  <1>7. TotalReady' = TotalReady + 1 /\ TotalReady \in Int
    <2>1. Readies \in [Orgs -> Int] /\ Readies' \in [Orgs -> Int] /\ IsFiniteSet(Orgs)
      BY <1>4, ReadiesTyped DEF Readies
    <2>2. \A o \in Orgs \ {OrgOf[r]} : Readies'[o] = Readies[o]
      BY <1>4 DEF Readies
    <2>3. /\ Total(Readies) \in Int
          /\ Total(Readies') = Total(Readies)
                                 + (Readies'[OrgOf[r]] - Readies[OrgOf[r]])
      BY <1>1, <2>1, <2>2, TotalMoves
    <2>4. Readies'[OrgOf[r]] - Readies[OrgOf[r]] = 1
      BY <1>1, <1>4 DEF Readies
    <2>5. QED
      BY <2>3, <2>4, TotalOfReadies
  <1>8. /\ partition[OrgOf[r]].ready + 1 <= OrgCapacity
        /\ TotalReady + 1 <= TotalCapacity
    BY <1>1, <1>4, <1>7, ConstantsAssumption DEF HasCapacity, ConstantsAssumption
  <1>9. ASSUME NEW o \in Orgs
        PROVE  /\ partition'[o].ready = Cardinality(OpenRuns(o)')
               /\ partition'[o].ready <= OrgCapacity
               /\ partition'[o].ready > 0 => partition'[o].status = "ready"
    <2>1. CASE o = OrgOf[r]
      BY <1>1, <1>4, <1>6, <1>8, <2>1 DEF ReadyCountExact
    <2>2. CASE o # OrgOf[r]
      BY <1>4, <1>5, <2>2 DEF ReadyCountExact
    <2>3. QED
      BY <2>1, <2>2
  <1>10. QED
    BY <1>7, <1>8, <1>9 DEF ReadyCountExact

\* A row is closed, and no longer counted.
CountedDown(r) ==
    /\ partition'[OrgOf[r]].ready = partition[OrgOf[r]].ready - 1
    /\ partition'[OrgOf[r]].ready > 0 =>
          partition'[OrgOf[r]].status \in {"ready", partition[OrgOf[r]].status}
    /\ \A o \in Orgs \ {OrgOf[r]} : partition'[o] = partition[o]

LEMMA CountDown ==
    ASSUME NEW r \in Runs, RowsTyped, ReadyCountExact, CountedDown(r),
           IsOpen(r), ~IsOpen(r)', OthersStayOpen(r)
    PROVE  ReadyCountExact'
  <1>1. OrgOf[r] \in Orgs
    BY OrgTyped
  <1>2. \A o \in Orgs : partition[o].ready \in Int /\ partition'[o].ready \in Int
    BY <1>1 DEF RowsTyped, PartitionRow, CountedDown
  <1>3. /\ OpenRuns(OrgOf[r])' = OpenRuns(OrgOf[r]) \ {r}
        /\ r \in OpenRuns(OrgOf[r])
        /\ \A o \in Orgs \ {OrgOf[r]} : OpenRuns(o)' = OpenRuns(o)
    BY DEF OpenRuns, IsOpen, OthersStayOpen
  <1>4. Cardinality(OpenRuns(OrgOf[r])') = Cardinality(OpenRuns(OrgOf[r])) - 1
    BY <1>1, <1>3, OpenRunsFinite, FS_RemoveElement
  <1>5. TotalReady' = TotalReady - 1 /\ TotalReady \in Int
    <2>1. Readies \in [Orgs -> Int] /\ Readies' \in [Orgs -> Int] /\ IsFiniteSet(Orgs)
      BY <1>2, ReadiesTyped DEF Readies
    <2>2. \A o \in Orgs \ {OrgOf[r]} : Readies'[o] = Readies[o]
      BY DEF Readies, CountedDown
    <2>3. /\ Total(Readies) \in Int
          /\ Total(Readies') = Total(Readies)
                                 + (Readies'[OrgOf[r]] - Readies[OrgOf[r]])
      BY <1>1, <2>1, <2>2, TotalMoves
    <2>4. Readies'[OrgOf[r]] - Readies[OrgOf[r]] = 0 - 1
      BY <1>1, <1>2 DEF Readies, CountedDown
    <2>5. QED
      BY <2>3, <2>4, TotalOfReadies
  <1>6. ASSUME NEW o \in Orgs
        PROVE  /\ partition'[o].ready = Cardinality(OpenRuns(o)')
               /\ partition'[o].ready <= OrgCapacity
               /\ partition'[o].ready > 0 => partition'[o].status = "ready"
    <2>1. CASE o = OrgOf[r]
      BY <1>1, <1>2, <1>4, <2>1, ConstantsAssumption
      DEF ReadyCountExact, CountedDown, ConstantsAssumption
    <2>2. CASE o # OrgOf[r]
      BY <1>3, <2>2 DEF ReadyCountExact, CountedDown
    <2>3. QED
      BY <2>1, <2>2
  <1>7. TotalReady' <= TotalCapacity
    BY <1>5, ConstantsAssumption DEF ReadyCountExact, ConstantsAssumption
  <1>8. QED
    BY <1>6, <1>7 DEF ReadyCountExact

\* Every row write is to the run it names: the others stay open or closed.
LEMMA OthersStay ==
    ASSUME NEW r \in Runs, OnlyWrites(r)
    PROVE  OthersStayOpen(r)
  BY DEF OnlyWrites, SameRows, OthersStayOpen, IsOpen

\* Uncount, of a run that ends.
LEMMA UncountIsDown ==
    ASSUME NEW r \in Runs, RowsTyped, ReadyCountExact, Uncount(r)
    PROVE  CountedDown(r)
  <1>1. partition \in [Orgs -> PartitionRow] /\ OrgOf[r] \in Orgs
    BY OrgTyped DEF RowsTyped
  <1>2. QED
    BY <1>1 DEF Uncount, CountedDown, PartitionRow

LEMMA FailLockedCounts ==
    ASSUME NEW r \in Runs, TypeOK, RowInv(r), ReadyCountExact, FailLocked(r),
           view' = view, IsOpen(r)
    PROVE  ReadyCountExact'
  <1>1. RowsTyped
    BY DEF TypeOK
  <1>2. outbox'[r].status = "failed"
    BY DEF FailLocked, TypeOK, RowsTyped, OutboxRow
  <1>3. ~IsOpen(r)'
    BY <1>2 DEF IsOpen, Open, Held
  <1>4. OthersStayOpen(r)
    BY FailLockedSafe, OthersStay DEF IsOpen
  <1>5. CountedDown(r)
    BY <1>1, UncountIsDown DEF FailLocked
  <1>6. QED
    BY <1>1, <1>3, <1>4, <1>5, CountDown

LEMMA ControlCounts ==
    ASSUME NEW r \in Runs, TypeOK, RowsInvariant, ReadyCountExact, Control(r)
    PROVE  ReadyCountExact'
  <1>1. RowInv(r) /\ RowsTyped
    BY DEF RowsInvariant, TypeOK
  <1>2. CASE AdmitQueued(r) \/ ProductionClaim(r)
    <2>1. outbox[r].status = "none"
      BY <1>1, <1>2 DEF AdmitQueued, ProductionClaim, RowInv, Agree
    <2>2. QED
      BY <1>1, <1>2, <2>1, CountUp DEF AdmitQueued, ProductionClaim
  <1>3. CASE AdmitWaiting(r) \/ CloseApproval(r) \/ ReadRun(r)
    BY <1>3, CountSame DEF AdmitWaiting, CloseApproval, ReadRun, rowVars, IsOpen
  <1>4. CASE Cancel(r) /\ run[r].status = "waiting_approval"
    BY <1>4, CountSame DEF Cancel, IsOpen
  <1>5. CASE Cancel(r) /\ run[r].status # "waiting_approval"
    <2>1. partition \in [Orgs -> PartitionRow] /\ OrgOf[r] \in Orgs
      BY <1>1, OrgTyped DEF RowsTyped
    <2>2. IsOpen(r)
      BY <1>5 DEF Cancel, IsOpen
    <2>3. ~IsOpen(r)'
      <3>1. outbox'[r].status = "cancelled"
        BY <1>1, <1>5 DEF Cancel, RowsTyped, OutboxRow
      <3>2. QED
        BY <3>1 DEF IsOpen, Open, Held
    <2>4. OthersStayOpen(r)
      BY <1>1, <1>5, CancelSafe, OthersStay
    <2>5. partition[OrgOf[r]].ready \in Int /\ partition[OrgOf[r]].ready > 0
      <3>1. r \in OpenRuns(OrgOf[r])
        BY <2>2 DEF OpenRuns, IsOpen
      <3>2. Cardinality(OpenRuns(OrgOf[r])) \in Nat \ {0}
        BY <2>1, <3>1, OpenRunsFinite, FS_EmptySet
      <3>3. QED
        BY <2>1, <3>2 DEF ReadyCountExact
    <2>6. CountedDown(r)
      <3>1. PICK left \in {IF partition[OrgOf[r]].ready > 0
                           THEN partition[OrgOf[r]].ready - 1 ELSE 0} :
              partition' = [partition EXCEPT ![OrgOf[r]] =
                    [ready |-> left,
                     status |-> IF left = 0 THEN "empty" ELSE "ready"]]
        BY <1>5 DEF Cancel
      <3>2. left = partition[OrgOf[r]].ready - 1
        BY <2>5
      <3>3. /\ partition'[OrgOf[r]].ready = left
            /\ left # 0 => partition'[OrgOf[r]].status = "ready"
            /\ \A o \in Orgs \ {OrgOf[r]} : partition'[o] = partition[o]
        BY <2>1, <3>1
      <3>4. QED
        BY <2>5, <3>2, <3>3 DEF CountedDown
    <2>7. QED
      BY <1>1, <2>2, <2>3, <2>4, <2>6, CountDown
  <1>6. QED
    BY <1>2, <1>3, <1>4, <1>5 DEF Control

LEMMA EnvironmentCounts ==
    ASSUME NEW r \in Runs, ReadyCountExact, Environment(r)
    PROVE  ReadyCountExact'
  <1>1. UNCHANGED <<outbox, partition>>
    BY DEF Environment, ChangeAuthority, LapseLease, PassDeadline, EndExecution, rowVars
  <1>2. QED
    BY <1>1, CountSame DEF IsOpen

LEMMA ClaimNextCounts ==
    ASSUME NEW s \in Slots, NEW r \in Runs, TypeOK, RowsInvariant, ReadyCountExact,
           ClaimNext(s, r)
    PROVE  ReadyCountExact'
  <1>1. RowInv(r) /\ RowsTyped /\ outbox \in [Runs -> OutboxRow]
    BY DEF RowsInvariant, TypeOK, RowsTyped
  <1>2. IsOpen(r)
    BY DEF ClaimNext, Claim, ClaimExpired, ClaimExhausted, ClaimAborted, Due, IsOpen, Open
  <1>3. CASE Claim(s, r)
    <2>1. OthersStayOpen(r)
      BY <1>1, <1>3, ClaimSafe, OthersStay
    <2>2. outbox'[r].status = "leased"
      BY <1>1, <1>3 DEF Claim
    <2>3. \A q \in Runs : IsOpen(q)' <=> IsOpen(q)
      BY <1>2, <2>1, <2>2 DEF OthersStayOpen, IsOpen, Open, Held
    <2>4. QED
      BY <1>3, <2>3, CountSame DEF Claim
  <1>4. CASE ClaimExpired(s, r)
    <2>1. OthersStayOpen(r)
      BY <1>1, <1>4, ClaimExpiredSafe, OthersStay
    <2>2. outbox'[r].status = "expired"
      BY <1>1, <1>4 DEF ClaimExpired, OutboxRow
    <2>3. ~IsOpen(r)'
      BY <2>2 DEF IsOpen, Open, Held
    <2>4. CountedDown(r)
      BY <1>1, <1>4, UncountIsDown DEF ClaimExpired
    <2>5. QED
      BY <1>1, <1>2, <2>1, <2>3, <2>4, CountDown
  <1>5. CASE ClaimExhausted(s, r)
    BY <1>1, <1>2, <1>5, FailLockedCounts DEF ClaimExhausted, envVars
  <1>6. CASE ClaimAborted(s, r)
    BY <1>6, CountSame DEF ClaimAborted, rowVars, IsOpen
  <1>7. QED
    BY <1>3, <1>4, <1>5, <1>6 DEF ClaimNext

LEMMA ProcessCounts ==
    ASSUME NEW s \in Slots, TypeOK, RowsInvariant, ReadyCountExact, Process(s)
    PROVE  ReadyCountExact'
  <1>1. RowsTyped /\ outbox \in [Runs -> OutboxRow]
    BY DEF TypeOK, RowsTyped
  <1>2. CASE CheckBinding(s) \/ StartWorkflow(s) \/ AwaitResult(s) \/ ClaimNothing(s)
             \/ RecordDeduplicated(s) \/ TraceRaises(s)
    BY <1>2, CountSame
    DEF CheckBinding, StartWorkflow, AwaitResult, ClaimNothing, RecordDeduplicated,
        TraceRaises, vars, rowVars, IsOpen
  <1>3. CASE MarkStarted(s) \/ Complete(s) \/ Fail(s)
    <2>1. PICK r \in Runs : r = slot[s].run
      BY <1>3 DEF MarkStarted, Complete, Fail, TypeOK, SlotsTyped, Busy, InProcess
    <2>2. view' = view /\ RowInv(r)
      BY <1>3 DEF MarkStarted, Complete, Fail, envVars, RowsInvariant
    <2>3. CASE Stale(r)
      BY <2>3, CountSame DEF Stale, rowVars, IsOpen
    <2>4. CASE FailLocked(r) /\ IsOpen(r)
      BY <2>2, <2>4, FailLockedCounts
    <2>5. CASE MarkStarted(s) /\ Start(r) /\ Holds(s, {"leased"}, {"leased", "recovering"})
      <3>1. outbox[r].status = "leased"
        BY <2>1, <2>5 DEF Holds
      <3>2. OthersStayOpen(r)
        BY <2>2, <2>5, <3>1, StartSafe, OthersStay
      <3>3. outbox'[r].status = "dispatched"
        BY <1>1, <2>5 DEF Start, OutboxRow
      <3>4. \A q \in Runs : IsOpen(q)' <=> IsOpen(q)
        BY <3>1, <3>2, <3>3 DEF OthersStayOpen, IsOpen, Open, Held
      <3>5. UNCHANGED partition
        <4>1. run[r].status # run'[r].status
          <5>1. run[r].status \in {"leased", "recovering"}
            BY <2>1, <2>5 DEF Holds
          <5>2. run'[r].status = "running"
            BY <2>5 DEF Start, TypeOK, RowsTyped, RunRow
          <5>3. QED
            BY <5>1, <5>2
        <4>2. ~Stale(r)
          BY <4>1 DEF Stale, rowVars
        <4>3. ~FailLocked(r)
          BY <1>1, <3>3 DEF FailLocked, OutboxRow
        <4>4. QED
          BY <2>1, <2>5, <4>2, <4>3 DEF MarkStarted
      <3>6. QED
        BY <3>4, <3>5, CountSame
    <2>6. CASE /\ slot[s].pc = "settling" /\ BindingValid(r)
               /\ Holds(s, {"dispatched"}, {"running"})
               /\ Settle(r, Verdict(s) = "finished")
      <3>1. IsOpen(r)
        BY <2>1, <2>6 DEF Holds, IsOpen, Open, Held
      <3>2. OthersStayOpen(r)
        BY <2>1, <2>2, <2>6, SettleSafe, OthersStay
      <3>3. outbox'[r].status \in {"closed", "failed"}
        BY <1>1, <2>6 DEF Settle, OutboxRow
      <3>4. ~IsOpen(r)'
        BY <3>3 DEF IsOpen, Open, Held
      <3>5. CountedDown(r)
        BY <1>1, <2>6, UncountIsDown DEF Settle
      <3>6. QED
        BY <1>1, <3>1, <3>2, <3>4, <3>5, CountDown
    <2>7. QED
      <3>1. CASE MarkStarted(s)
        BY <2>1, <2>3, <2>4, <2>5, <3>1
        DEF MarkStarted, Start, Holds, IsOpen, Open, Held, envVars
      <3>2. CASE Complete(s)
        BY <2>1, <2>3, <2>4, <2>6, <3>2 DEF Complete, Holds, IsOpen, Open, Held
      <3>3. CASE Fail(s)
        BY <2>1, <2>3, <2>4, <3>3 DEF Fail, Holds, IsOpen, Open
      <3>4. QED
        BY <1>3, <3>1, <3>2, <3>3
  <1>4. QED
    BY <1>2, <1>3 DEF Process

LEMMA DisturbCounts ==
    ASSUME NEW s \in Slots, TypeOK, RowsInvariant, ReadyCountExact, Disturb(s)
    PROVE  ReadyCountExact'
  <1>1. CASE Heartbeat(s) \/ HeartbeatRaises(s) \/ Raise(s) \/ Crash(s) \/ Restart(s)
    BY <1>1, CountSame DEF Heartbeat, HeartbeatRaises, Raise, Crash, Restart, rowVars, IsOpen
  <1>2. CASE Drain(s)
    <2>1. PICK r \in Runs : r = slot[s].run
      BY <1>2 DEF TypeOK, SlotsTyped, Drain, Busy
    <2>2. view' = view /\ RowInv(r) /\ outbox \in [Runs -> OutboxRow]
      BY <1>2 DEF Drain, envVars, RowsInvariant, TypeOK, RowsTyped
    <2>3. CASE UNCHANGED rowVars
      BY <2>3, CountSame DEF rowVars, IsOpen
    <2>4. CASE HoldsOutbox(s) /\ Requeue(s, r)
      <3>1. OthersStayOpen(r)
        BY <2>1, <2>2, <2>4, RequeueSafe, OthersStay
      <3>2. outbox[r].status \in Held /\ outbox'[r].status = "ready"
        BY <2>1, <2>2, <2>4 DEF HoldsOutbox, Requeue, OutboxRow
      <3>3. \A q \in Runs : IsOpen(q)' <=> IsOpen(q)
        BY <3>1, <3>2 DEF OthersStayOpen, IsOpen, Open
      <3>4. QED
        BY <2>4, <3>3, CountSame DEF Requeue
    <2>5. QED
      BY <1>2, <2>1, <2>3, <2>4 DEF Drain, Stale
  <1>3. QED
    BY <1>1, <1>2 DEF Disturb

LEMMA InitCounts == Init => ReadyCountExact
  <1> SUFFICES ASSUME Init PROVE ReadyCountExact
    OBVIOUS
  <1>1. \A o \in Orgs : OpenRuns(o) = {}
    BY DEF Init, OpenRuns, Open, Held
  <1>2. Readies = [o \in Orgs |-> 0]
    BY DEF Init, Readies
  <1>3. TotalReady = 0
    BY <1>2, TotalOfReadies, TotalOfZeros, ConstantsAssumption DEF ConstantsAssumption
  <1>4. \A o \in Orgs : partition[o].ready = 0 /\ Cardinality(OpenRuns(o)) = 0
    BY <1>1, FS_EmptySet DEF Init
  <1>5. 0 <= OrgCapacity /\ 0 <= TotalCapacity
    BY ConstantsAssumption DEF ConstantsAssumption
  <1>6. QED
    BY <1>3, <1>4, <1>5 DEF ReadyCountExact

LEMMA NextCounts ==
    ASSUME TypeOK, RowsInvariant, ReadyCountExact, [Next]_vars
    PROVE  ReadyCountExact'
  <1>1. CASE UNCHANGED vars
    BY <1>1, CountSame DEF vars, rowVars, IsOpen
  <1>2. QED
    BY <1>1, ControlCounts, EnvironmentCounts, ClaimNextCounts, ProcessCounts,
       DisturbCounts DEF Next

\* Backpressure: ready_count counts the open outbox rows of its organization
\* exactly, and neither it nor the sum over the partitions passes its capacity,
\* whatever crashes, takeovers, cancellations and late writes do to the queue.
THEOREM ReadyCountAlwaysExact == Spec => []ReadyCountExact
  <1>1. TypeOK /\ RowsInvariant /\ ReadyCountExact /\ [Next]_vars => ReadyCountExact'
    BY NextCounts
  <1>2. QED
    BY <1>1, InitCounts, TypeCorrect, RowsInvariantHolds, PTL DEF Spec

-----------------------------------------------------------------------------
(* The refinement mapping, part by part, and what a change of the rows or  *)
(* of a slot does to it.                                                   *)

Stages == [r \in Runs |-> StageOf(run[r].status)]
Tokens == [r \in Runs |-> outbox[r].fence]
Bearers == [s \in Slots |->
              [item |-> IF slot[s].pc \in Busy THEN slot[s].run ELSE NoRun,
               token |-> IF slot[s].pc \in Busy THEN slot[s].fence ELSE 0]]

LEMMA StageMoves ==
    ASSUME NEW r \in Runs, NEW to, StageOf(run'[r].status) = to,
           \A q \in Runs \ {r} : run'[q] = run[q]
    PROVE  Queue!Move(r, to)
  BY DEF Queue!Move

LEMMA StagesKept ==
    ASSUME \A q \in Runs : run'[q].status = run[q].status
    PROVE  UNCHANGED Stages
  BY DEF Stages

LEMMA TokensKept ==
    ASSUME \A q \in Runs : outbox'[q].fence = outbox[q].fence
    PROVE  UNCHANGED Tokens
  BY DEF Tokens

\* A slot that goes on with its work carries what it carried.
LEMMA BearersKept ==
    ASSUME \A s \in Slots :
              \/ slot'[s].pc \notin Busy /\ slot[s].pc \notin Busy
              \/ /\ slot'[s].pc \in Busy /\ slot[s].pc \in Busy
                 /\ slot'[s].run = slot[s].run /\ slot'[s].fence = slot[s].fence
    PROVE  UNCHANGED Bearers
  BY DEF Bearers

\* A slot that rests carries nothing.
LEMMA BearerLaysDown ==
    ASSUME NEW s \in Slots, slot'[s].pc \notin Busy,
           \A t \in Slots \ {s} : slot'[t] = slot[t]
    PROVE  Queue!LayDown(s)
  BY DEF Queue!LayDown, Queue!Free

\* A busy slot carries its run, and a resting one carries nothing.
LEMMA BearerOf ==
    ASSUME NEW s \in Slots, TypeOK
    PROVE  /\ slot[s].pc \in Busy => /\ Bearers[s] # Queue!Free
                                     /\ Bearers[s].item = slot[s].run
                                     /\ Bearers[s].token = slot[s].fence
           /\ slot[s].pc \notin Busy => Bearers[s] = Queue!Free
  BY ConstantsAssumption
  DEF Bearers, Queue!Free, TypeOK, SlotsTyped, ConstantsAssumption

\* The slot whose fence is the one of the outbox is the current bearer.
LEMMA CurrentBearer ==
    ASSUME NEW s \in Slots, TypeOK, slot[s].pc \in Busy,
           outbox[slot[s].run].fence = slot[s].fence
    PROVE  Queue!Current(s) /\ Bearers[s].item = slot[s].run /\ slot[s].run \in Runs
  <1>1. slot[s].run \in Runs
    BY DEF TypeOK, SlotsTyped
  <1>2. Tokens[slot[s].run] = slot[s].fence
    BY <1>1 DEF Tokens
  <1>3. /\ Bearers[s] # Queue!Free /\ Bearers[s].item = slot[s].run
        /\ Bearers[s].token = Tokens[Bearers[s].item]
    BY <1>2, BearerOf
  <1>4. QED
    BY <1>1, <1>3 DEF Queue!Current, Bearers, Tokens

-----------------------------------------------------------------------------
(* The writes of a run.                                                    *)

\* A transaction that writes no row and moves no slot off its work stutters.
LEMMA RowsStand ==
    ASSUME UNCHANGED <<run, outbox>>
    PROVE  UNCHANGED Stages /\ UNCHANGED Tokens
  BY StagesKept, TokensKept

\* _fail_locked ends the item as failed.
LEMMA FailLockedMoves ==
    ASSUME NEW r \in Runs, TypeOK, FailLocked(r)
    PROVE  Queue!Move(r, "failed") /\ UNCHANGED Tokens
  <1>1. run \in [Runs -> RunRow] /\ outbox \in [Runs -> OutboxRow]
    BY DEF TypeOK, RowsTyped
  <1>2. run'[r].status = "failed" /\ \A q \in Runs \ {r} : run'[q] = run[q]
    BY <1>1 DEF FailLocked, RunRow
  <1>3. \A q \in Runs : outbox'[q].fence = outbox[q].fence
    BY <1>1 DEF FailLocked, OutboxRow
  <1>4. StageOf("failed") = "failed"
    BY DEF StageOf
  <1>5. QED
    BY <1>2, <1>3, <1>4, StageMoves, TokensKept

\* complete ends it as finished or failed.
LEMMA SettleMoves ==
    ASSUME NEW r \in Runs, NEW ok \in BOOLEAN, TypeOK, Settle(r, ok)
    PROVE  /\ Queue!Move(r, "finished") \/ Queue!Move(r, "failed")
           /\ UNCHANGED Tokens
  <1>1. run \in [Runs -> RunRow] /\ outbox \in [Runs -> OutboxRow]
    BY DEF TypeOK, RowsTyped
  <1>2. /\ run'[r].status \in {"finished_ungraded", "failed"}
        /\ \A q \in Runs \ {r} : run'[q] = run[q]
    BY <1>1 DEF Settle, RunRow
  <1>3. \A q \in Runs : outbox'[q].fence = outbox[q].fence
    BY <1>1 DEF Settle, OutboxRow
  <1>4. StageOf("failed") = "failed" /\ StageOf("finished_ungraded") = "finished"
    BY DEF StageOf
  <1>5. QED
    BY <1>2, <1>3, <1>4, StageMoves, TokensKept

\* mark_started begins it.
LEMMA StartMoves ==
    ASSUME NEW r \in Runs, TypeOK, Start(r)
    PROVE  Queue!Move(r, "begun") /\ UNCHANGED Tokens
  <1>1. run \in [Runs -> RunRow] /\ outbox \in [Runs -> OutboxRow]
    BY DEF TypeOK, RowsTyped
  <1>2. run'[r].status = "running" /\ \A q \in Runs \ {r} : run'[q] = run[q]
    BY <1>1 DEF Start, RunRow
  <1>3. \A q \in Runs : outbox'[q].fence = outbox[q].fence
    BY <1>1 DEF Start, OutboxRow
  <1>4. StageOf("running") = "begun"
    BY DEF StageOf
  <1>5. QED
    BY <1>2, <1>3, <1>4, StageMoves, TokensKept

\* release puts it back in the queue.
LEMMA RequeueMoves ==
    ASSUME NEW s \in Slots, NEW r \in Runs, TypeOK, RowInv(r), r = slot[s].run,
           HoldsOutbox(s), Requeue(s, r)
    PROVE  Queue!Move(r, "queued") /\ UNCHANGED Tokens
  <1>1. run \in [Runs -> RunRow] /\ outbox \in [Runs -> OutboxRow]
    BY DEF TypeOK, RowsTyped
  <1>2. run[r].fence = slot[s].fence
    BY DEF HoldsOutbox, RowInv, Agree
  <1>3. run'[r].status = "queued" /\ \A q \in Runs \ {r} : run'[q] = run[q]
    BY <1>1, <1>2 DEF Requeue, RunRow
  <1>4. \A q \in Runs : outbox'[q].fence = outbox[q].fence
    BY <1>1 DEF Requeue, OutboxRow
  <1>5. StageOf("queued") = "queued"
    BY DEF StageOf
  <1>6. QED
    BY <1>3, <1>4, <1>5, StageMoves, TokensKept

\* What the outbox row says of the stage of an item.
LEMMA StageOfOutbox ==
    ASSUME NEW r \in Runs, RowInv(r)
    PROVE  /\ outbox[r].status = "ready" => Stages[r] = "queued"
           /\ outbox[r].status = "leased" => Stages[r] = "lent"
           /\ outbox[r].status = "dispatched" => Stages[r] = "begun"
           /\ outbox[r].status \in Held => Stages[r] \in Queue!InHand
  BY DEF RowInv, Agree, Stages, StageOf, Held, Queue!InHand

-----------------------------------------------------------------------------
(* The actions, one by one.                                                *)

Mapped == Queue!Next \/ UNCHANGED Queue!queueVars

LEMMA Stutters ==
    ASSUME UNCHANGED Stages, UNCHANGED Tokens, UNCHANGED Bearers
    PROVE  Mapped
  BY DEF Mapped, Queue!queueVars, Stages, Tokens, Bearers

LEMMA ControlMapped ==
    ASSUME NEW r \in Runs, TypeOK, RowsInvariant, Control(r)
    PROVE  Mapped
  <1>1. run \in [Runs -> RunRow] /\ outbox \in [Runs -> OutboxRow]
    BY DEF TypeOK, RowsTyped
  <1>2. UNCHANGED Bearers
    BY DEF Control, AdmitQueued, AdmitWaiting, ProductionClaim, CloseApproval,
           ReadRun, Cancel, Bearers
  <1>3. CASE AdmitQueued(r) \/ AdmitWaiting(r) \/ ProductionClaim(r)
    <2>1. Stages[r] \in Queue!Waiting
      BY <1>3 DEF AdmitQueued, AdmitWaiting, ProductionClaim, Stages, StageOf,
                  Queue!Waiting
    <2>2. /\ run'[r].status \in {"queued", "waiting_approval"}
          /\ \A q \in Runs \ {r} : run'[q] = run[q]
      BY <1>1, <1>3 DEF AdmitQueued, AdmitWaiting, ProductionClaim, RunRow
    <2>3. \A q \in Runs : outbox'[q].fence = outbox[q].fence
      BY <1>1, <1>3 DEF AdmitQueued, AdmitWaiting, ProductionClaim, Enqueue, OutboxRow
    <2>4. StageOf("queued") = "queued" /\ StageOf("waiting_approval") = "parked"
      BY DEF StageOf
    <2>5. \E to \in {"parked", "queued"} : Queue!Move(r, to)
      BY <2>2, <2>4, StageMoves
    <2>6. Queue!Submit(r)
      BY <1>2, <2>1, <2>3, <2>5, TokensKept
      DEF Queue!Submit, Stages, Tokens, Bearers
    <2>7. QED
      BY <2>6 DEF Mapped, Queue!Next
  <1>4. CASE CloseApproval(r) \/ ReadRun(r)
    BY <1>2, <1>4, RowsStand, Stutters DEF CloseApproval, ReadRun, rowVars
  <1>5. CASE Cancel(r)
    <2>1. Stages[r] \in {"parked", "queued", "lent"}
      BY <1>5 DEF Cancel, Stages, StageOf
    <2>2. run'[r].status = "cancelled" /\ \A q \in Runs \ {r} : run'[q] = run[q]
      BY <1>1, <1>5 DEF Cancel, RunRow
    <2>3. \A q \in Runs : outbox'[q].fence = outbox[q].fence
      BY <1>1, <1>5 DEF Cancel, OutboxRow
    <2>4. StageOf("cancelled") = "withdrawn"
      BY DEF StageOf
    <2>5. Queue!Withdraw(r)
      BY <1>2, <2>1, <2>2, <2>3, <2>4, StageMoves, TokensKept
      DEF Queue!Withdraw, Stages, Tokens, Bearers
    <2>6. QED
      BY <2>5 DEF Mapped, Queue!Next
  <1>6. QED
    BY <1>3, <1>4, <1>5 DEF Control

LEMMA EnvironmentMapped ==
    ASSUME NEW r \in Runs, Environment(r)
    PROVE  Mapped
  <1>1. UNCHANGED <<run, outbox, slot>>
    BY DEF Environment, ChangeAuthority, LapseLease, PassDeadline, EndExecution, rowVars
  <1>2. QED
    BY <1>1, RowsStand, Stutters DEF Bearers

LEMMA ClaimNextMapped ==
    ASSUME NEW s \in Slots, NEW r \in Runs, TypeOK, RowsInvariant, ClaimNext(s, r)
    PROVE  Mapped
  <1>1. run \in [Runs -> RunRow] /\ outbox \in [Runs -> OutboxRow]
    BY DEF TypeOK, RowsTyped
  <1>2. RowInv(r)
    BY DEF RowsInvariant
  <1>3. slot[s].pc = "idle" /\ "idle" \notin Busy /\ "stopped" \notin Busy
    BY DEF ClaimNext, Claim, ClaimExpired, ClaimExhausted, ClaimAborted, Busy, InProcess
  <1>4. outbox[r].status \in Open /\ Stages[r] \in {"queued"} \cup Queue!InHand
    <2>1. outbox[r].status \in Open
      BY DEF ClaimNext, Claim, ClaimExpired, ClaimExhausted, ClaimAborted, Due, Open
    <2>2. QED
      BY <1>2, <2>1, StageOfOutbox DEF Open
  <1>5. outbox[r].fence \in Nat /\ outbox[r].attempts = outbox[r].fence
    BY <1>2, RowTypes DEF RowInv, Attempts
  <1>6. CASE Claim(s, r)
    <2>1. Bearers[s] = Queue!Free
      BY <1>3, BearerOf
    <2>2. Tokens[r] < MaxAttempts
      BY <1>5, <1>6, ConstantsAssumption DEF Claim, Exhausted, Tokens, ConstantsAssumption
    <2>3. Queue!Move(r, "lent")
      <3>1. /\ run'[r].status \in {"leased", "recovering"}
            /\ \A q \in Runs \ {r} : run'[q] = run[q]
        BY <1>1, <1>6 DEF Claim
      <3>2. StageOf("leased") = "lent" /\ StageOf("recovering") = "lent"
        BY DEF StageOf
      <3>3. QED
        BY <3>1, <3>2, StageMoves
    <2>4. Tokens' = [Tokens EXCEPT ![r] = Tokens[r] + 1]
      <3>1. /\ outbox'[r].fence = outbox[r].fence + 1
            /\ \A q \in Runs \ {r} : outbox'[q] = outbox[q]
        BY <1>1, <1>6 DEF Claim
      <3>2. QED
        BY <3>1 DEF Tokens
    <2>5. Bearers' = [Bearers EXCEPT ![s] = [item |-> r, token |-> Tokens[r] + 1]]
      <3>1. /\ slot'[s] = WorkItem(r, outbox[r].fence + 1)
            /\ \A t \in Slots \ {s} : slot'[t] = slot[t]
        BY <1>6 DEF Claim, TypeOK, SlotsTyped
      <3>2. slot'[s].pc \in Busy /\ slot'[s].run = r /\ slot'[s].fence = Tokens[r] + 1
        BY <3>1 DEF WorkItem, Busy, InProcess, Tokens
      <3>3. QED
        BY <3>1, <3>2 DEF Bearers
    <2>6. Queue!Lend(s, r)
      BY <1>4, <2>1, <2>2, <2>3, <2>4, <2>5 DEF Queue!Lend, Stages, Tokens, Bearers
    <2>7. QED
      BY <2>6 DEF Mapped, Queue!Next
  <1>7. CASE ClaimExpired(s, r)
    <2>1. run'[r].status = "expired" /\ \A q \in Runs \ {r} : run'[q] = run[q]
      BY <1>1, <1>7 DEF ClaimExpired, RunRow
    <2>2. \A q \in Runs : outbox'[q].fence = outbox[q].fence
      BY <1>1, <1>7 DEF ClaimExpired, OutboxRow
    <2>3. StageOf("expired") = "expired"
      BY DEF StageOf
    <2>4. Queue!Move(r, "expired") /\ UNCHANGED Tokens /\ UNCHANGED Bearers
      BY <1>7, <2>1, <2>2, <2>3, StageMoves, TokensKept DEF ClaimExpired, Bearers
    <2>5. Queue!GiveUp(r)
      BY <1>4, <2>4 DEF Queue!GiveUp, Stages, Tokens, Bearers
    <2>6. QED
      BY <2>5 DEF Mapped, Queue!Next
  <1>8. CASE ClaimExhausted(s, r)
    <2>1. Queue!Move(r, "failed") /\ UNCHANGED Tokens /\ UNCHANGED Bearers
      BY <1>8, FailLockedMoves DEF ClaimExhausted, Bearers
    <2>2. Tokens[r] = MaxAttempts
      <3>1. outbox[r].attempts >= MaxAttempts /\ outbox[r].attempts <= MaxAttempts
        BY <1>2, <1>8 DEF ClaimExhausted, Exhausted, RowInv, Attempts
      <3>2. QED
        BY <1>5, <3>1, ConstantsAssumption DEF Tokens, ConstantsAssumption
    <2>3. Queue!GiveUp(r)
      BY <1>4, <2>1, <2>2 DEF Queue!GiveUp, Stages, Tokens, Bearers
    <2>4. QED
      BY <2>3 DEF Mapped, Queue!Next
  <1>9. CASE ClaimAborted(s, r)
    <2>1. /\ slot'[s].pc \notin Busy
          /\ \A t \in Slots \ {s} : slot'[t] = slot[t]
      BY <1>3, <1>9 DEF ClaimAborted, Stopped, TypeOK, SlotsTyped
    <2>2. UNCHANGED Bearers
      BY <1>3, <2>1, BearersKept
    <2>3. QED
      BY <1>9, <2>2, RowsStand, Stutters DEF ClaimAborted, rowVars
  <1>10. QED
    BY <1>6, <1>7, <1>8, <1>9 DEF ClaimNext

\* Dispatcher.process returns: the slot lays its item down.
LEMMA ReturnLaysDown ==
    ASSUME NEW s \in Slots, TypeOK, Return(s)
    PROVE  Queue!LayDown(s)
  <1>1. /\ slot'[s] \in {Idle, Stopped}
        /\ \A t \in Slots \ {s} : slot'[t] = slot[t]
    BY DEF Return, TypeOK, SlotsTyped
  <1>2. Idle.pc \notin Busy /\ Stopped.pc \notin Busy
    BY DEF Idle, Stopped, Busy, InProcess
  <1>3. QED
    BY <1>1, <1>2, BearerLaysDown

\* A slot whose fence finds no row leaves the item to whoever holds it.
LEMMA StaleDrops ==
    ASSUME NEW s \in Slots, TypeOK, slot[s].pc \in Busy,
           UNCHANGED <<run, outbox>>, Queue!LayDown(s)
    PROVE  Mapped
  <1>1. Bearers[s] # Queue!Free
    BY BearerOf
  <1>2. Queue!Drop(s)
    BY <1>1, RowsStand DEF Queue!Drop, Stages, Tokens, Bearers
  <1>3. QED
    BY <1>2 DEF Mapped, Queue!Next

\* A slot that fails the run it holds.
LEMMA HolderFails ==
    ASSUME NEW s \in Slots, TypeOK, RowsInvariant, slot[s].pc \in Busy,
           HoldsOutbox(s), FailLocked(slot[s].run), Return(s)
    PROVE  Mapped
  <1>1. Queue!Current(s) /\ Bearers[s].item = slot[s].run /\ slot[s].run \in Runs
    BY CurrentBearer DEF HoldsOutbox
  <1>2. Stages[slot[s].run] \in Queue!InHand
    BY <1>1, StageOfOutbox DEF HoldsOutbox, RowsInvariant
  <1>3. Queue!Move(slot[s].run, "failed") /\ UNCHANGED Tokens
    BY <1>1, FailLockedMoves
  <1>4. Queue!Fail(s)
    BY <1>1, <1>2, <1>3, ReturnLaysDown DEF Queue!Fail, Stages, Tokens, Bearers
  <1>5. QED
    BY <1>4 DEF Mapped, Queue!Next

LEMMA ProcessMapped ==
    ASSUME NEW s \in Slots, TypeOK, RowsInvariant, Process(s)
    PROVE  Mapped
  <1>1. slot \in [Slots -> SlotState]
    BY DEF TypeOK, SlotsTyped
  <1>2. slot[s].pc \in Busy => slot[s].run \in Runs
    BY DEF TypeOK, SlotsTyped
  <1>3. CASE CheckBinding(s)
    <2>1. slot[s].pc \in Busy
      BY <1>3 DEF CheckBinding, Busy, InProcess
    <2>2. PICK pc \in {"starting", "rejecting"} : slot' = [slot EXCEPT ![s].pc = pc]
      BY <1>3 DEF CheckBinding, GoTo
    <2>3. /\ slot'[s].pc = pc /\ slot'[s].run = slot[s].run
          /\ slot'[s].fence = slot[s].fence
          /\ \A t \in Slots \ {s} : slot'[t] = slot[t]
      BY <1>1, <2>2 DEF SlotState
    <2>4. UNCHANGED Bearers
      BY <2>1, <2>3, BearersKept DEF Busy, InProcess
    <2>5. QED
      BY <1>3, <2>4, RowsStand, Stutters DEF CheckBinding, rowVars
  <1>4. CASE MarkStarted(s)
    <2>1. slot[s].pc \in Busy
      BY <1>4 DEF MarkStarted, Busy, InProcess
    <2>2. CASE Stale(slot[s].run) /\ Return(s)
      BY <2>1, <2>2, StaleDrops, ReturnLaysDown DEF Stale, rowVars
    <2>3. CASE /\ Holds(s, {"leased"}, {"leased", "recovering"})
               /\ FailLocked(slot[s].run) /\ Return(s)
      <3>1. HoldsOutbox(s)
        BY <2>3 DEF Holds, HoldsOutbox, Held
      <3>2. QED
        BY <2>1, <2>3, <3>1, HolderFails
    <2>4. CASE /\ Holds(s, {"leased"}, {"leased", "recovering"})
               /\ Start(slot[s].run)
               /\ slot' = [slot EXCEPT ![s] = [@ EXCEPT !.pc = "dispatching",
                                                         !.beat = "on"]]
      <3>1. Queue!Current(s) /\ Bearers[s].item = slot[s].run /\ slot[s].run \in Runs
        BY <2>1, <2>4, CurrentBearer DEF Holds
      <3>2. Stages[slot[s].run] = "lent"
        BY <2>4, <3>1, StageOfOutbox DEF Holds, RowsInvariant
      <3>3. Queue!Move(slot[s].run, "begun") /\ UNCHANGED Tokens
        BY <2>4, <3>1, StartMoves
      <3>4. /\ slot'[s].pc = "dispatching" /\ slot'[s].run = slot[s].run
            /\ slot'[s].fence = slot[s].fence
            /\ \A t \in Slots \ {s} : slot'[t] = slot[t]
        BY <1>1, <2>4 DEF SlotState
      <3>5. UNCHANGED Bearers
        BY <2>1, <3>4, BearersKept DEF Busy, InProcess
      <3>6. Queue!Begin(s)
        BY <3>1, <3>2, <3>3, <3>5 DEF Queue!Begin, Stages, Tokens, Bearers
      <3>7. QED
        BY <3>6 DEF Mapped, Queue!Next
    <2>5. QED
      BY <1>4, <2>2, <2>3, <2>4 DEF MarkStarted, Start, envVars
  <1>5. CASE StartWorkflow(s)
    <2>1. slot[s].pc \in Busy
      BY <1>5 DEF StartWorkflow, Busy, InProcess
    <2>2. PICK pc \in {"failing", "waiting", "attached"} :
              \E exec : slot' = [slot EXCEPT ![s] = [@ EXCEPT !.pc = pc, !.exec = exec]]
      <3>1. CASE slot[s].run \notin BoundRuns
        <4>1. slot' = [slot EXCEPT ![s] = [@ EXCEPT !.pc = "failing",
                                                     !.exec = slot[s].exec]]
          BY <1>1, <1>5, <3>1 DEF StartWorkflow, GoTo, SlotState
        <4>2. QED
          BY <4>1
      <3>2. CASE slot[s].run \in BoundRuns
        BY <1>5, <3>2 DEF StartWorkflow
      <3>3. QED
        BY <3>1, <3>2
    <2>3. /\ slot'[s].pc = pc /\ slot'[s].run = slot[s].run
          /\ slot'[s].fence = slot[s].fence
          /\ \A t \in Slots \ {s} : slot'[t] = slot[t]
      BY <1>1, <2>2 DEF SlotState
    <2>4. UNCHANGED Bearers
      BY <2>1, <2>3, BearersKept DEF Busy, InProcess
    <2>5. QED
      BY <1>5, <2>4, RowsStand, Stutters DEF StartWorkflow, rowVars
  <1>6. CASE AwaitResult(s)
    <2>1. slot[s].pc \in Busy
      BY <1>6 DEF AwaitResult, Awaiting, Busy, InProcess
    <2>2. /\ slot'[s].pc \in {"recording", "settling"} /\ slot'[s].run = slot[s].run
          /\ slot'[s].fence = slot[s].fence
          /\ \A t \in Slots \ {s} : slot'[t] = slot[t]
      BY <1>1, <1>6 DEF AwaitResult, GoTo, SlotState
    <2>3. UNCHANGED Bearers
      BY <2>1, <2>2, BearersKept DEF Busy, InProcess
    <2>4. QED
      BY <1>6, <2>3, RowsStand, Stutters DEF AwaitResult, rowVars
  <1>7. CASE Complete(s)
    <2>1. slot[s].pc \in Busy /\ Return(s)
      BY <1>7 DEF Complete, Busy, InProcess
    <2>2. CASE Stale(slot[s].run)
      BY <2>1, <2>2, StaleDrops, ReturnLaysDown DEF Stale, rowVars
    <2>3. CASE Holds(s, {"dispatched"}, {"running"}) /\ FailLocked(slot[s].run)
      <3>1. HoldsOutbox(s)
        BY <2>3 DEF Holds, HoldsOutbox, Held
      <3>2. QED
        BY <2>1, <2>3, <3>1, HolderFails
    <2>4. CASE /\ Holds(s, {"dispatched"}, {"running"})
               /\ Settle(slot[s].run, Verdict(s) = "finished")
      <3>1. Queue!Current(s) /\ Bearers[s].item = slot[s].run /\ slot[s].run \in Runs
        BY <2>1, <2>4, CurrentBearer DEF Holds
      <3>2. Stages[slot[s].run] = "begun"
        BY <2>4, <3>1, StageOfOutbox DEF Holds, RowsInvariant
      <3>3. /\ Queue!Move(slot[s].run, "finished") \/ Queue!Move(slot[s].run, "failed")
            /\ UNCHANGED Tokens
        <4>1. (Verdict(s) = "finished") \in BOOLEAN
          OBVIOUS
        <4>2. QED
          BY <2>4, <3>1, <4>1, SettleMoves
      <3>4. Queue!Finish(s) \/ Queue!Fail(s)
        BY <2>1, <3>1, <3>2, <3>3, ReturnLaysDown
        DEF Queue!Finish, Queue!Fail, Queue!InHand, Stages, Tokens, Bearers
      <3>5. QED
        BY <3>4 DEF Mapped, Queue!Next
    <2>5. QED
      BY <1>7, <2>2, <2>3, <2>4 DEF Complete
  <1>8. CASE Fail(s)
    <2>1. slot[s].pc \in Busy /\ Return(s)
      BY <1>8 DEF Fail, Busy, InProcess
    <2>2. CASE Stale(slot[s].run)
      BY <2>1, <2>2, StaleDrops, ReturnLaysDown DEF Stale, rowVars
    <2>3. CASE /\ Holds(s, Held, {"leased", "recovering", "running"})
               /\ FailLocked(slot[s].run)
      <3>1. HoldsOutbox(s)
        BY <2>3 DEF Holds, HoldsOutbox
      <3>2. QED
        BY <2>1, <2>3, <3>1, HolderFails
    <2>4. QED
      BY <1>8, <2>2, <2>3 DEF Fail
  <1>9. CASE ClaimNothing(s)
    BY <1>9, RowsStand, Stutters DEF ClaimNothing, vars, rowVars, Bearers
  <1>10. CASE \/ RecordDeduplicated(s) /\ GoTo(s, "settling")
              \/ TraceRaises(s) /\ GoTo(s, "failing")
    <2>1. slot[s].pc \in Busy
      BY <1>10 DEF RecordDeduplicated, TraceRaises, Busy, InProcess
    <2>2. /\ slot'[s].pc \in {"settling", "failing"} /\ slot'[s].run = slot[s].run
          /\ slot'[s].fence = slot[s].fence
          /\ \A t \in Slots \ {s} : slot'[t] = slot[t]
      BY <1>1, <1>10 DEF GoTo, SlotState
    <2>3. UNCHANGED Bearers
      BY <2>1, <2>2, BearersKept DEF Busy, InProcess
    <2>4. QED
      BY <1>10, <2>3, RowsStand, Stutters DEF RecordDeduplicated, TraceRaises, rowVars
  <1>11. CASE TraceRaises(s) /\ slot' = [slot EXCEPT ![s] = Stopped]
    <2>1. slot'[s] = Stopped /\ \A t \in Slots \ {s} : slot'[t] = slot[t]
      BY <1>1, <1>11
    <2>2. Queue!LayDown(s)
      BY <2>1, BearerLaysDown DEF Stopped, Busy, InProcess
    <2>3. slot[s].pc \in Busy
      BY <1>11 DEF TraceRaises, Busy, InProcess
    <2>4. QED
      BY <1>11, <2>2, <2>3, StaleDrops DEF TraceRaises, rowVars
  <1>12. QED
    BY <1>3, <1>4, <1>5, <1>6, <1>7, <1>8, <1>9, <1>10, <1>11
    DEF Process, RecordDeduplicated, TraceRaises

LEMMA DisturbMapped ==
    ASSUME NEW s \in Slots, TypeOK, RowsInvariant, Disturb(s)
    PROVE  Mapped
  <1>1. slot \in [Slots -> SlotState]
    BY DEF TypeOK, SlotsTyped
  <1>2. slot[s].pc \in Busy => slot[s].run \in Runs
    BY DEF TypeOK, SlotsTyped
  <1>3. CASE Heartbeat(s) \/ HeartbeatRaises(s)
    <2>1. \A t \in Slots : /\ slot'[t].pc = slot[t].pc /\ slot'[t].run = slot[t].run
                          /\ slot'[t].fence = slot[t].fence
      BY <1>1, <1>3 DEF Heartbeat, HeartbeatRaises, SlotState
    <2>2. UNCHANGED Bearers
      BY <2>1, BearersKept
    <2>3. QED
      BY <1>3, <2>2, RowsStand, Stutters DEF Heartbeat, HeartbeatRaises, rowVars
  <1>4. CASE Raise(s)
    <2>1. /\ slot'[s].pc = "failing" /\ slot'[s].run = slot[s].run
          /\ slot'[s].fence = slot[s].fence
          /\ \A t \in Slots \ {s} : slot'[t] = slot[t]
      BY <1>1, <1>4 DEF Raise, GoTo, SlotState
    <2>2. UNCHANGED Bearers
      BY <1>4, <2>1, BearersKept DEF Raise, Busy
    <2>3. QED
      BY <1>4, <2>2, RowsStand, Stutters DEF Raise, rowVars
  <1>5. CASE Drain(s)
    <2>1. slot[s].pc \in Busy
      BY <1>5 DEF Drain, Busy
    <2>2. Queue!LayDown(s)
      <3>1. slot'[s] = Stopped /\ \A t \in Slots \ {s} : slot'[t] = slot[t]
        BY <1>1, <1>5 DEF Drain
      <3>2. QED
        BY <3>1, BearerLaysDown DEF Stopped, Busy, InProcess
    <2>3. CASE UNCHANGED rowVars
      BY <2>1, <2>2, <2>3, StaleDrops DEF rowVars
    <2>4. CASE HoldsOutbox(s) /\ Requeue(s, slot[s].run)
      <3>1. Queue!Current(s) /\ Bearers[s].item = slot[s].run /\ slot[s].run \in Runs
        BY <2>1, <2>4, CurrentBearer DEF HoldsOutbox
      <3>2. RowInv(slot[s].run)
        BY <3>1 DEF RowsInvariant
      <3>3. Stages[slot[s].run] \in Queue!InHand
        BY <2>4, <3>1, <3>2, StageOfOutbox DEF HoldsOutbox
      <3>4. Queue!Move(slot[s].run, "queued") /\ UNCHANGED Tokens
        BY <2>4, <3>1, <3>2, RequeueMoves
      <3>5. Queue!GiveBack(s)
        BY <2>2, <3>1, <3>3, <3>4 DEF Queue!GiveBack, Stages, Tokens, Bearers
      <3>6. QED
        BY <3>5 DEF Mapped, Queue!Next
    <2>5. QED
      BY <1>5, <2>3, <2>4 DEF Drain, Stale
  <1>6. CASE Crash(s)
    <2>1. slot'[s] = Stopped /\ \A t \in Slots \ {s} : slot'[t] = slot[t]
      BY <1>1, <1>6 DEF Crash
    <2>2. Queue!LayDown(s)
      BY <2>1, BearerLaysDown DEF Stopped, Busy, InProcess
    <2>3. QED
      BY <1>6, <2>2, StaleDrops DEF Crash, rowVars
  <1>7. CASE Restart(s)
    <2>1. slot'[s] = Idle /\ \A t \in Slots \ {s} : slot'[t] = slot[t]
      BY <1>1, <1>7 DEF Restart
    <2>2. UNCHANGED Bearers
      BY <1>7, <2>1, BearersKept DEF Restart, Idle, Busy, InProcess
    <2>3. QED
      BY <1>7, <2>2, RowsStand, Stutters DEF Restart, rowVars
  <1>8. QED
    BY <1>3, <1>4, <1>5, <1>6, <1>7 DEF Disturb

LEMMA InitMapped == Init => Queue!Init
  <1> SUFFICES ASSUME Init PROVE Queue!Init
    OBVIOUS
  <1>1. Stages = [r \in Runs |-> "absent"]
    BY DEF Init, Stages, StageOf
  <1>2. Tokens = [r \in Runs |-> 0]
    BY DEF Init, Tokens
  <1>3. Bearers = [s \in Slots |-> Queue!Free]
    BY DEF Init, Bearers, Idle, Busy, InProcess, Queue!Free
  <1>4. QED
    BY <1>1, <1>2, <1>3 DEF Queue!Init, Stages, Tokens, Bearers

LEMMA NextMapped ==
    ASSUME TypeOK, RowsInvariant, [Next]_vars
    PROVE  Mapped
  <1>1. CASE UNCHANGED vars
    BY <1>1, RowsStand, Stutters DEF vars, rowVars, Bearers
  <1>2. ASSUME NEW r \in Runs, Control(r) \/ Environment(r)
        PROVE  Mapped
    BY <1>2, ControlMapped, EnvironmentMapped
  <1>3. ASSUME NEW s \in Slots, Process(s) \/ Disturb(s)
        PROVE  Mapped
    BY <1>3, ProcessMapped, DisturbMapped
  <1>4. ASSUME NEW s \in Slots, NEW r \in Runs, ClaimNext(s, r)
        PROVE  Mapped
    BY <1>4, ClaimNextMapped
  <1>5. QED
    BY <1>1, <1>2, <1>3, <1>4 DEF Next

\* Durable dispatch implements the fenced queue: every transaction of the
\* Control API and of the worker, every crash, drain, lost lease and late return
\* is one step of FencedQueue, or changes nothing that it shows.
THEOREM DispatchImplementsQueue == Spec => DispatchIsFencedQueue
  <1>1. Init => Queue!Init
    BY InitMapped
  <1>2. TypeOK /\ RowsInvariant /\ [Next]_vars => [Queue!Next]_Queue!queueVars
    BY NextMapped DEF Mapped
  <1>3. QED
    BY <1>1, <1>2, TypeCorrect, RowsInvariantHolds, PTL
    DEF Spec, DispatchIsFencedQueue, Queue!Spec
=============================================================================
