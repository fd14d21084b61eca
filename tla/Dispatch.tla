------------------------------ MODULE Dispatch ------------------------------
(***************************************************************************)
(* Durable dispatch of production runs: the rows of one organization-      *)
(* qualified run (w12_production_runs, w12_dispatch_outbox,                *)
(* w12_worker_leases, w12_scheduler_partitions and the W11 request/grant   *)
(* it was approved by), the Control API handlers that admit, hand over and *)
(* cancel a run, and the slots of the Workflow Worker that claim it, start *)
(* its Temporal workflow and commit the outcome.                           *)
(*                                                                         *)
(* One action is one database transaction, or one await of                 *)
(* Dispatcher.process: nothing can come between two statements of a        *)
(* transaction that hold the same row locks, anything can come between two *)
(* transactions.  What a slot remembers between them (its WorkItem) is in  *)
(* `slot`.                                                                 *)
(*                                                                         *)
(* Abstractions.  A run has at most one outbox row (uq_w12_outbox_run), so *)
(* outbox rows are indexed by run.  lease_version moves only in claim_next,*)
(* together with fencing_token, and is not kept.  Time is kept as what the *)
(* code compares it with: `lapsed` holds the runs with lease_expires_at <= *)
(* now, `overdue` those with expires_at <= now.  Of the trace of a run     *)
(* (w13_observability_events) only its length is kept: a transaction that  *)
(* would take it past TraceLimit raises and is rolled back.  Audit rows    *)
(* are not kept: nothing here reads them.                                  *)
(***************************************************************************)
EXTENDS Integers, Sequences, FiniteSets, Functions

CONSTANTS
    Runs,            \* production runs that may be submitted
    NeedsApproval,   \* the runs classified L2/L3; the others are L0/L1
    Watched,         \* the runs whose requester reads them again (and may cancel)
    BoundRuns,       \* runs whose effect binding build_workflow_start accepts
    Orgs,            \* organizations
    OrgOf,           \* the organization of a run
    Slots,           \* worker slots, over all worker processes
    Owners,          \* worker instance hashes
    OwnerOf,         \* the instance hash of a slot's process
    MaxAttempts,     \* settings.maximum_attempts
    OrgCapacity,     \* policy.queue_organization_capacity
    TotalCapacity,   \* policy.queue_total_capacity
    TraceLimit,      \* the last event_sequence of a trace (256)
    OutcomeEvents,   \* how many events an outcome may add: 8, and 1 per step
    Draining,        \* whether worker processes may be shut down gracefully
    NoRun, NoOwner   \* null values

ASSUME ConstantsAssumption ==
    /\ IsFiniteSet(Runs) /\ NoRun \notin Runs
    /\ NeedsApproval \subseteq Runs /\ BoundRuns \subseteq Runs /\ Watched \subseteq Runs
    /\ IsFiniteSet(Orgs) /\ OrgOf \in [Runs -> Orgs]
    /\ OwnerOf \in [Slots -> Owners] /\ NoOwner \notin Owners
    /\ MaxAttempts \in Nat \ {0}
    /\ OrgCapacity \in Nat /\ TotalCapacity \in Nat
    /\ TraceLimit \in Nat /\ OutcomeEvents \subseteq Nat \ {0}
    /\ Draining \in BOOLEAN

VARIABLES
    run,        \* run row: status, version, fencing_token, lease_owner_hash
    outbox,     \* outbox row: status, attempt_count, fencing_token, lease_owner_hash
    partition,  \* partition row: ready_count, status
    request,    \* status of the approval request of a run
    grant,      \* status of the grant that let a run into the queue
    history,    \* fencing tokens that have a w12_worker_leases row
    trace,      \* how many observability events a run has
    auth,       \* runs whose bound authorization and approval hashes still hold
    lapsed,     \* runs whose lease_expires_at has passed
    overdue,    \* runs whose outbox expires_at has passed
    slot,       \* what each slot is doing, and for which WorkItem
    execs,      \* Temporal executions started under the run's workflow_id
    view        \* the version and status a client last read (its ETag)

rowVars == <<run, outbox, partition, request, grant, history>>
envVars == <<auth, overdue, execs, view>>
vars == <<rowVars, trace, envVars, lapsed, slot>>

-----------------------------------------------------------------------------
RunStatus == {"none", "waiting_approval", "queued", "leased", "recovering",
              "running", "finished_ungraded", "failed", "cancelled", "expired"}
Terminal == {"finished_ungraded", "failed", "cancelled", "expired"}

OutboxStatus == {"none", "ready", "leased", "dispatched", "closed",
                 "cancelled", "expired", "failed"}
Held == {"leased", "dispatched"}
Open == {"ready"} \cup Held

\* Where Dispatcher.process is: "claimed" before binding_valid, "starting"
\* before mark_started, "dispatching" before start_workflow, "waiting" for
\* the result of an execution it started, "attached" for that of another's,
\* "recording" before record_deduplicated, "settling" before complete;
\* "rejecting" and "failing" before the two calls of fail; "stopped" when
\* run_slot has ended.
Resting == {"idle", "stopped"}
Awaiting == {"waiting", "attached"}
InProcess == {"claimed", "starting", "dispatching", "waiting", "attached",
              "recording", "settling", "rejecting"}
Busy == InProcess \cup {"failing"}

Idle == [pc |-> "idle", run |-> NoRun, fence |-> 0, exec |-> 0, beat |-> "off"]
Stopped == [pc |-> "stopped", run |-> NoRun, fence |-> 0, exec |-> 0, beat |-> "off"]
WorkItem(r, fence) ==
    [pc |-> "claimed", run |-> r, fence |-> fence, exec |-> 0, beat |-> "off"]

RunRow == [status: RunStatus, version: Nat, fence: Nat, owner: Owners \cup {NoOwner}]
OutboxRow == [status: OutboxStatus, attempts: Nat, fence: Nat,
              owner: Owners \cup {NoOwner}]
PartitionRow == [ready: Int, status: {"empty", "ready"}]
RequestStatus == {"none", "open", "claimed", "consumed", "failed", "cancelled", "closed"}
GrantStatus == {"none", "claimed", "consumed", "failed"}
SlotState == [pc: Resting \cup Busy, run: Runs \cup {NoRun}, fence: Nat, exec: Nat,
              beat: {"off", "on", "lost", "raised"}]
Verdicts == {"finished", "failed"}

RowsTyped ==
    /\ run \in [Runs -> RunRow]
    /\ outbox \in [Runs -> OutboxRow]
    /\ partition \in [Orgs -> PartitionRow]
    /\ request \in [Runs -> RequestStatus]
    /\ grant \in [Runs -> GrantStatus]
    /\ history \in [Runs -> SUBSET Nat]

EnvTyped ==
    /\ auth \subseteq Runs /\ overdue \subseteq Runs
    /\ execs \in [Runs -> Seq({"running"} \cup Verdicts)]
    /\ view \in [Runs -> [version: Nat, status: RunStatus]]

SlotsTyped ==
    /\ lapsed \subseteq Runs
    /\ slot \in [Slots -> SlotState]
    /\ \A s \in Slots : slot[s].pc \in Busy => slot[s].run \in Runs

TraceTyped == trace \in [Runs -> 0..TraceLimit]

TypeOK == RowsTyped /\ EnvTyped /\ SlotsTyped /\ TraceTyped

Init ==
    /\ run = [r \in Runs |-> [status |-> "none", version |-> 0, fence |-> 0,
                              owner |-> NoOwner]]
    /\ outbox = [r \in Runs |-> [status |-> "none", attempts |-> 0, fence |-> 0,
                                 owner |-> NoOwner]]
    /\ partition = [o \in Orgs |-> [ready |-> 0, status |-> "empty"]]
    /\ request = [r \in Runs |-> "none"]
    /\ grant = [r \in Runs |-> "none"]
    /\ history = [r \in Runs |-> {}]
    /\ trace = [r \in Runs |-> 0]
    /\ auth = {} /\ lapsed = {} /\ overdue = {}
    /\ slot = [s \in Slots |-> Idle]
    /\ execs = [r \in Runs |-> <<>>]
    /\ view = [r \in Runs |-> [version |-> 0, status |-> "none"]]

-----------------------------------------------------------------------------
(* The trace of a run.                                                     *)

\* _append_trace_event and append_observability_event lock the run and raise
\* when its next event_sequence is past the limit.
Fits(r, n) == trace[r] + n <= TraceLimit
TraceFull(r) == ~Fits(r, 1)

\* A transaction that appends n events to the trace of a run.
Traced(r, n) ==
    /\ Fits(r, n)
    /\ trace' = [trace EXCEPT ![r] = @ + n]

-----------------------------------------------------------------------------
(* Control API: admission, hand-over of a claimed grant, cancellation.     *)

TotalReady == FoldFunction(+, 0, [o \in Orgs |-> partition[o].ready])

\* _lock_capacity, with every partition row locked.
HasCapacity(o) == TotalReady < TotalCapacity /\ partition[o].ready < OrgCapacity

\* A new outbox row, counted in the partition of its organization.
Enqueue(r) ==
    /\ outbox' = [outbox EXCEPT ![r].status = "ready"]
    /\ partition' = [partition EXCEPT ![OrgOf[r]] =
                        [ready |-> @.ready + 1, status |-> "ready"]]

\* admit_production_run for an automatic (L0/L1) run; a full queue rejects it.
AdmitQueued(r) ==
    /\ run[r].status = "none" /\ r \notin NeedsApproval
    /\ HasCapacity(OrgOf[r])
    /\ Enqueue(r)
    /\ run' = [run EXCEPT ![r] = [@ EXCEPT !.status = "queued", !.version = 1]]
    /\ auth' = auth \cup {r}
    /\ Traced(r, 2)
    /\ UNCHANGED <<request, grant, history, overdue, execs, view, lapsed, slot>>

\* admit_production_run for an L2/L3 run: a pending request and no outbox.
AdmitWaiting(r) ==
    /\ run[r].status = "none" /\ r \in NeedsApproval
    /\ run' = [run EXCEPT ![r] = [@ EXCEPT !.status = "waiting_approval",
                                           !.version = 1]]
    /\ request' = [request EXCEPT ![r] = "open"]
    /\ auth' = auth \cup {r}
    /\ Traced(r, 1)
    /\ UNCHANGED <<outbox, partition, grant, history, overdue, execs, view,
                   lapsed, slot>>

\* claim_production_run with claim_grant and on_claim, one transaction.  The
\* claim binds the run to the executor's authorization of this moment.
ProductionClaim(r) ==
    /\ run[r].status = "waiting_approval" /\ request[r] = "open"
    /\ HasCapacity(OrgOf[r])
    /\ Enqueue(r)
    /\ run' = [run EXCEPT ![r].status = "queued", ![r].version = @ + 1]
    /\ request' = [request EXCEPT ![r] = "claimed"]
    /\ grant' = [grant EXCEPT ![r] = "claimed"]
    /\ auth' = auth \cup {r}
    /\ Traced(r, 2)
    /\ UNCHANGED <<history, overdue, execs, view, lapsed, slot>>

\* The W11 routes reject, expire, withdraw or invalidate the request.
CloseApproval(r) ==
    /\ request[r] = "open"
    /\ request' = [request EXCEPT ![r] = "closed"]
    /\ UNCHANGED <<run, outbox, partition, grant, history, trace, envVars, lapsed, slot>>

\* get_production_run: the client keeps the version as its ETag.
ReadRun(r) ==
    /\ r \in Watched /\ run[r].status # "none"
    /\ view' = [view EXCEPT ![r] = [version |-> run[r].version,
                                    status |-> run[r].status]]
    /\ UNCHANGED <<rowVars, trace, auth, overdue, execs, lapsed, slot>>

\* cancel_production_run under the If-Match version the client last read.
Cancel(r) ==
    /\ run[r].version = view[r].version
    /\ run[r].status \in {"waiting_approval", "queued", "leased"}
    /\ IF run[r].status = "waiting_approval"
       THEN UNCHANGED <<outbox, partition>>
       ELSE /\ outbox[r].status \in Open
            /\ outbox' = [outbox EXCEPT ![r].status = "cancelled"]
            /\ \E left \in {IF partition[OrgOf[r]].ready > 0
                            THEN partition[OrgOf[r]].ready - 1 ELSE 0} :
                 partition' = [partition EXCEPT ![OrgOf[r]] =
                    [ready |-> left,
                     status |-> IF left = 0 THEN "empty" ELSE "ready"]]
    /\ run' = [run EXCEPT ![r].status = "cancelled", ![r].version = @ + 1]
    /\ request' = [request EXCEPT ![r] = IF @ \in {"open", "claimed"}
                                         THEN "cancelled" ELSE @]
    /\ grant' = [grant EXCEPT ![r] = IF @ = "claimed" THEN "failed" ELSE @]
    /\ Traced(r, 1)
    /\ UNCHANGED <<history, envVars, lapsed, slot>>

-----------------------------------------------------------------------------
(* What happens around the worker.                                         *)

\* An identity, membership or authority row of the executor or an approver
\* changes; versions only grow, so the bound hashes never match again.
ChangeAuthority(r) ==
    /\ r \in auth
    /\ auth' = auth \ {r}
    /\ UNCHANGED <<rowVars, trace, overdue, execs, view, lapsed, slot>>

LapseLease(r) ==
    /\ outbox[r].status \in Held /\ r \notin lapsed
    /\ lapsed' = lapsed \cup {r}
    /\ UNCHANGED <<rowVars, trace, envVars, slot>>

PassDeadline(r) ==
    /\ outbox[r].status \in Open /\ r \notin overdue
    /\ overdue' = overdue \cup {r}
    /\ UNCHANGED <<rowVars, trace, auth, execs, view, lapsed, slot>>

\* The Temporal execution that is running ends (recovery worker, external).
Running(r) == execs[r] # <<>> /\ execs[r][Len(execs[r])] = "running"

EndExecution(r) ==
    /\ Running(r)
    /\ \E verdict \in Verdicts :
         execs' = [execs EXCEPT ![r][Len(execs[r])] = verdict]
    /\ UNCHANGED <<rowVars, trace, auth, overdue, view, lapsed, slot>>

-----------------------------------------------------------------------------
(* WorkflowRepository: building blocks of the worker's transactions.       *)

\* _lease_history writes no row for an outbox that was never leased; else
\* worker_owner_hash is NOT NULL and (outbox, fencing_token) is unique.
RowInsertable(r) ==
    \/ outbox[r].fence = 0
    \/ outbox[r].owner # NoOwner /\ outbox[r].fence \notin history[r]

CloseLease(r) ==
    /\ RowInsertable(r)
    /\ history' = [history EXCEPT ![r] = @ \cup ({outbox[r].fence} \ {0})]

\* Mutation: a run that ends is not taken off its partition's ready_count.
UncountForgotten(r) == UNCHANGED partition

Uncount(r) == partition' = [partition EXCEPT ![OrgOf[r]].ready = @ - 1]

\* _binding_valid: the authorization hash, and for an approved run the claimed
\* request, the claimed grant and the approval set they were issued on.
BindingValid(r) ==
    /\ r \in auth
    /\ r \in NeedsApproval => request[r] = "claimed" /\ grant[r] = "claimed"

\* Mutation: the run fails and its grant stays claimed.
FailLockedKeepsGrant(r) ==
    /\ CloseLease(r)
    /\ outbox' = [outbox EXCEPT ![r].status = "failed"]
    /\ run' = [run EXCEPT ![r].status = "failed", ![r].version = @ + 1]
    /\ Uncount(r)
    /\ Traced(r, 1)
    /\ UNCHANGED <<request, grant, lapsed>>

\* _fail_locked
FailLocked(r) ==
    /\ CloseLease(r)
    /\ outbox' = [outbox EXCEPT ![r].status = "failed"]
    /\ run' = [run EXCEPT ![r].status = "failed", ![r].version = @ + 1]
    /\ Uncount(r)
    /\ IF request[r] = "claimed" /\ grant[r] = "claimed"
       THEN /\ request' = [request EXCEPT ![r] = "failed"]
            /\ grant' = [grant EXCEPT ![r] = "failed"]
       ELSE UNCHANGED <<request, grant>>
    /\ Traced(r, 1)
    /\ UNCHANGED lapsed

\* Mutation: the owner hash is matched, the fencing token is not.
HoldsByOwner(s, outStatus, runStatus) ==
    LET r == slot[s].run IN
    /\ outbox[r].status \in outStatus /\ outbox[r].owner = OwnerOf[s]
    /\ run[r].status \in runStatus /\ run[r].owner = OwnerOf[s]

\* Mutation: owner and fence are matched, the statuses are not.
HoldsByFence(s, outStatus, runStatus) ==
    LET r == slot[s].run IN
    /\ outbox[r].owner = OwnerOf[s] /\ outbox[r].fence = slot[s].fence
    /\ run[r].owner = OwnerOf[s] /\ run[r].fence = slot[s].fence

\* The row predicates every later write of a slot carries.
Holds(s, outStatus, runStatus) ==
    LET r == slot[s].run IN
    /\ outbox[r].status \in outStatus
    /\ outbox[r].owner = OwnerOf[s] /\ outbox[r].fence = slot[s].fence
    /\ run[r].status \in runStatus
    /\ run[r].owner = OwnerOf[s] /\ run[r].fence = slot[s].fence

\* A rejected write only appends stale_fence_rejected, to the audit chain and
\* to the trace of the run.
Stale(r) == Traced(r, 1) /\ UNCHANGED rowVars /\ UNCHANGED lapsed

\* process returns: awaiting a heartbeat task that raised ends run_slot too.
Return(s) ==
    slot' = [slot EXCEPT ![s] = IF slot[s].beat = "raised" THEN Stopped ELSE Idle]

GoTo(s, pc) == slot' = [slot EXCEPT ![s].pc = pc]

-----------------------------------------------------------------------------
(* claim_next.  SKIP LOCKED and the rotation of last_selected_at make every *)
(* partition that is ready a possible choice; an outbox row is due when it  *)
(* is ready or its lease has passed.                                        *)

\* Mutation: a lease that lapsed is not taken over.
DueReadyOnly(r) ==
    /\ partition[OrgOf[r]].status = "ready" /\ partition[OrgOf[r]].ready > 0
    /\ outbox[r].status = "ready"

Due(r) ==
    /\ partition[OrgOf[r]].status = "ready" /\ partition[OrgOf[r]].ready > 0
    /\ \/ outbox[r].status = "ready"
       \/ outbox[r].status \in Held /\ r \in lapsed

Exhausted(r) == outbox[r].attempts >= MaxAttempts

\* Mutation: a lease that is taken over keeps its fence.
ClaimSameFence(s, r) ==
    LET reclaimed == outbox[r].status # "ready"
        fence == outbox[r].fence + (IF reclaimed THEN 0 ELSE 1)
    IN
    /\ slot[s].pc = "idle"
    /\ Due(r) /\ r \notin overdue /\ ~Exhausted(r)
    /\ outbox' = [outbox EXCEPT ![r] =
                    [status |-> "leased", attempts |-> @.attempts + 1,
                     fence |-> fence, owner |-> OwnerOf[s]]]
    /\ run' = [run EXCEPT ![r] =
                 [status |-> IF reclaimed THEN "recovering" ELSE "leased",
                  version |-> @.version + 1, fence |-> fence,
                  owner |-> OwnerOf[s]]]
    /\ lapsed' = lapsed \ {r}
    /\ slot' = [slot EXCEPT ![s] = WorkItem(r, fence)]
    /\ Traced(r, 1)
    /\ UNCHANGED <<partition, history, request, grant, envVars>>

Claim(s, r) ==
    LET reclaimed == outbox[r].status # "ready"
        fence == outbox[r].fence + 1
    IN
    /\ slot[s].pc = "idle"
    /\ Due(r) /\ r \notin overdue /\ ~Exhausted(r)
    /\ IF reclaimed THEN CloseLease(r) ELSE UNCHANGED history
    /\ outbox' = [outbox EXCEPT ![r] =
                    [status |-> "leased", attempts |-> @.attempts + 1,
                     fence |-> fence, owner |-> OwnerOf[s]]]
    /\ run' = [run EXCEPT ![r] =
                 [status |-> IF reclaimed THEN "recovering" ELSE "leased",
                  version |-> @.version + 1, fence |-> fence,
                  owner |-> OwnerOf[s]]]
    /\ lapsed' = lapsed \ {r}
    /\ slot' = [slot EXCEPT ![s] = WorkItem(r, fence)]
    /\ Traced(r, 1)
    /\ UNCHANGED <<partition, request, grant, envVars>>

\* The queue deadline has passed: the run ends, its grant is left claimed.
ClaimExpired(s, r) ==
    /\ slot[s].pc = "idle"
    /\ Due(r) /\ r \in overdue
    /\ CloseLease(r)
    /\ outbox' = [outbox EXCEPT ![r].status = "expired"]
    /\ run' = [run EXCEPT ![r].status = "expired", ![r].version = @ + 1]
    /\ Uncount(r)
    /\ Traced(r, 1)
    /\ UNCHANGED <<request, grant, envVars, lapsed, slot>>

ClaimExhausted(s, r) ==
    /\ slot[s].pc = "idle"
    /\ Due(r) /\ r \notin overdue /\ Exhausted(r)
    /\ FailLocked(r)
    /\ UNCHANGED <<envVars, slot>>

\* The lease row cannot be inserted, or the trace is full: the transaction
\* rolls back and the exception, which run_slot does not catch, ends the slot.
ClaimAborted(s, r) ==
    /\ slot[s].pc = "idle"
    /\ Due(r)
    /\ \/ TraceFull(r)
       \/ /\ ~RowInsertable(r)
          /\ outbox[r].status \in Held \/ r \in overdue \/ Exhausted(r)
    /\ slot' = [slot EXCEPT ![s] = Stopped]
    /\ UNCHANGED <<rowVars, trace, envVars, lapsed>>

\* Nothing is due: run_slot waits for poll_milliseconds and asks again.
ClaimNothing(s) ==
    /\ slot[s].pc = "idle" /\ \A r \in Runs : ~Due(r)
    /\ UNCHANGED vars

-----------------------------------------------------------------------------
(* Dispatcher.process, one action per await.                               *)

CheckBinding(s) ==
    /\ slot[s].pc = "claimed"
    /\ GoTo(s, IF BindingValid(slot[s].run) THEN "starting" ELSE "rejecting")
    /\ UNCHANGED <<rowVars, trace, envVars, lapsed>>

\* mark_started.  `now` is read before the row locks are taken, so a lease that
\* lapses meanwhile may still pass; one that is reclaimed meanwhile cannot.
MarkStarted(s) ==
    LET r == slot[s].run
        mine == Holds(s, {"leased"}, {"leased", "recovering"})
    IN
    /\ slot[s].pc = "starting"
    /\ \/ (~mine \/ r \in lapsed) /\ Stale(r) /\ Return(s)
       \/ mine /\ ~BindingValid(r) /\ FailLocked(r) /\ Return(s)
       \/ /\ mine /\ BindingValid(r)
          /\ outbox' = [outbox EXCEPT ![r].status = "dispatched"]
          /\ run' = [run EXCEPT ![r].status = "running", ![r].version = @ + 1]
          /\ slot' = [slot EXCEPT ![s] = [@ EXCEPT !.pc = "dispatching",
                                                    !.beat = "on"]]
          /\ Traced(r, 2)
          /\ UNCHANGED <<partition, request, grant, history, lapsed>>
    /\ UNCHANGED envVars

\* start_workflow under the run's workflow_id.  Temporal refuses a second open
\* execution (the slot attaches to the open one) and, under the default reuse
\* policy, accepts a new one once the earlier execution has closed.
StartExecution(r) == execs' = [execs EXCEPT ![r] = Append(@, "running")]

StartWorkflow(s) ==
    LET r == slot[s].run IN
    /\ slot[s].pc = "dispatching"
    /\ IF r \notin BoundRuns
       THEN GoTo(s, "failing") /\ UNCHANGED execs
       ELSE /\ IF Running(r) THEN UNCHANGED execs ELSE StartExecution(r)
            /\ slot' = [slot EXCEPT ![s] =
                          [@ EXCEPT !.pc = IF Running(r) THEN "attached" ELSE "waiting",
                                    !.exec = Len(execs'[r])]]
    /\ UNCHANGED <<rowVars, trace, auth, overdue, view, lapsed>>

Verdict(s) == execs[slot[s].run][slot[s].exec]

AwaitResult(s) ==
    /\ slot[s].pc \in Awaiting /\ Verdict(s) # "running"
    /\ GoTo(s, IF slot[s].pc = "attached" THEN "recording" ELSE "settling")
    /\ UNCHANGED <<rowVars, trace, envVars, lapsed>>

\* record_deduplicated: process goes on to complete even when it is refused.
RecordDeduplicated(s) ==
    /\ slot[s].pc = "recording"
    /\ Traced(slot[s].run, 1)
    /\ GoTo(s, "settling")
    /\ UNCHANGED <<rowVars, envVars, lapsed>>

\* The terminal updates of complete; "verifying" is never visible outside it.
Settle(r, ok) ==
    /\ CloseLease(r)
    /\ outbox' = [outbox EXCEPT ![r].status = IF ok THEN "closed" ELSE "failed"]
    /\ run' = [run EXCEPT ![r].status = IF ok THEN "finished_ungraded" ELSE "failed",
                          ![r].version = @ + (IF ok THEN 2 ELSE 1)]
    /\ Uncount(r)
    /\ IF r \in NeedsApproval
       THEN /\ request' = [request EXCEPT ![r] = IF ok THEN "consumed" ELSE "failed"]
            /\ grant' = [grant EXCEPT ![r] = IF ok THEN "consumed" ELSE "failed"]
       ELSE UNCHANGED <<request, grant>>
    /\ \E n \in OutcomeEvents : Traced(r, n)
    /\ UNCHANGED lapsed

Complete(s) ==
    LET r == slot[s].run
        mine == Holds(s, {"dispatched"}, {"running"})
    IN
    /\ slot[s].pc = "settling"
    /\ \/ ~mine /\ Stale(r)
       \/ mine /\ ~BindingValid(r) /\ FailLocked(r)
       \/ mine /\ BindingValid(r) /\ Settle(r, Verdict(s) = "finished")
    /\ Return(s)
    /\ UNCHANGED envVars

\* fail, called after a rejected binding check and from the exception handler.
Fail(s) ==
    LET mine == Holds(s, Held, {"leased", "recovering", "running"}) IN
    /\ slot[s].pc \in {"rejecting", "failing"}
    /\ \/ ~mine /\ Stale(slot[s].run)
       \/ mine /\ FailLocked(slot[s].run)
    /\ Return(s)
    /\ UNCHANGED envVars

Starts(s) ==
    /\ slot[s].pc = "starting" /\ BindingValid(slot[s].run)
    /\ Holds(s, {"leased"}, {"leased", "recovering"})

Settles(s) ==
    /\ slot[s].pc = "settling" /\ BindingValid(slot[s].run)
    /\ Holds(s, {"dispatched"}, {"running"})

\* How many events the next transaction of a slot may append: the start of a
\* run appends two, an outcome as many as it has to tell, all others one.
Appends(s) ==
    {1} \cup (IF Starts(s) THEN {2} ELSE {})
        \cup (IF Settles(s) THEN OutcomeEvents ELSE {})

\* They do not fit: the transaction of process raises and is rolled back, and
\* the exception handler calls fail; when fail raises there, the slot ends.
TraceRaises(s) ==
    /\ slot[s].pc \in {"starting", "recording", "settling", "rejecting", "failing"}
    /\ \E n \in Appends(s) : ~Fits(slot[s].run, n)
    /\ IF slot[s].pc = "failing"
       THEN slot' = [slot EXCEPT ![s] = Stopped]
       ELSE GoTo(s, "failing")
    /\ UNCHANGED <<rowVars, trace, envVars, lapsed>>

-----------------------------------------------------------------------------
(* The heartbeat task, failures, shutdown.                                 *)

HoldsOutbox(s) ==
    LET r == slot[s].run IN
    /\ outbox[r].status \in Held
    /\ outbox[r].owner = OwnerOf[s] /\ outbox[r].fence = slot[s].fence

\* heartbeat; its `now` too is read before the update.  A refused heartbeat
\* ends the task but not the work it was beating for.  When the trace is full
\* it raises, and the exception surfaces when process returns.
Heartbeat(s) ==
    LET r == slot[s].run IN
    /\ slot[s].beat = "on"
    /\ \/ /\ HoldsOutbox(s) /\ Traced(r, 1)
          /\ lapsed' = lapsed \ {r} /\ UNCHANGED slot
       \/ /\ ~HoldsOutbox(s) \/ r \in lapsed
          /\ Traced(r, 1)
          /\ slot' = [slot EXCEPT ![s].beat = "lost"]
          /\ UNCHANGED lapsed
       \/ /\ TraceFull(r)
          /\ slot' = [slot EXCEPT ![s].beat = "raised"]
          /\ UNCHANGED <<trace, lapsed>>
    /\ UNCHANGED <<rowVars, envVars>>

\* A heartbeat transaction raises for another reason (the database).
HeartbeatRaises(s) ==
    /\ slot[s].beat = "on"
    /\ slot' = [slot EXCEPT ![s].beat = "raised"]
    /\ UNCHANGED <<rowVars, trace, envVars, lapsed>>

\* A call of process raises (database, Temporal): the handler will call fail.
Raise(s) ==
    /\ slot[s].pc \in InProcess
    /\ GoTo(s, "failing")
    /\ UNCHANGED <<rowVars, trace, envVars, lapsed>>

\* Mutations of release: the outbox gets the run's status, the run row is
\* forgotten, the lease is not closed, the version is not moved.
RequeueStatus(s, r) ==
    /\ CloseLease(r)
    /\ outbox' = [outbox EXCEPT ![r].status = "queued", ![r].owner = NoOwner]
    /\ run' = [run EXCEPT ![r].status = "queued", ![r].version = @ + 1,
                          ![r].owner = NoOwner]
    /\ lapsed' = lapsed \ {r}
    /\ Traced(r, 1)
    /\ UNCHANGED <<partition, request, grant>>

RequeueForgetsRun(s, r) ==
    /\ CloseLease(r)
    /\ outbox' = [outbox EXCEPT ![r].status = "ready", ![r].owner = NoOwner]
    /\ lapsed' = lapsed \ {r}
    /\ Traced(r, 1)
    /\ UNCHANGED <<run, partition, request, grant>>

RequeueUnclosed(s, r) ==
    /\ outbox' = [outbox EXCEPT ![r].status = "ready", ![r].owner = NoOwner]
    /\ run' = [run EXCEPT ![r].status = "queued", ![r].version = @ + 1,
                          ![r].owner = NoOwner]
    /\ lapsed' = lapsed \ {r}
    /\ Traced(r, 1)
    /\ UNCHANGED <<history, partition, request, grant>>

RequeueSameVersion(s, r) ==
    /\ CloseLease(r)
    /\ outbox' = [outbox EXCEPT ![r].status = "ready", ![r].owner = NoOwner]
    /\ run' = [run EXCEPT ![r].status = "queued", ![r].owner = NoOwner]
    /\ lapsed' = lapsed \ {r}
    /\ Traced(r, 1)
    /\ UNCHANGED <<partition, request, grant>>

\* release: the outbox goes back to the queue with no owner, no lease deadline
\* and its fence and attempts as they are.
Requeue(s, r) ==
    /\ CloseLease(r)
    /\ outbox' = [outbox EXCEPT ![r].status = "ready", ![r].owner = NoOwner]
    /\ run' = IF run[r].fence # slot[s].fence THEN run
              ELSE [run EXCEPT ![r].status = "queued", ![r].version = @ + 1,
                               ![r].owner = NoOwner]
    /\ lapsed' = lapsed \ {r}
    /\ Traced(r, 1)
    /\ UNCHANGED <<partition, request, grant>>

\* The drain timeout cancels the slot inside process.  A call already running in
\* its thread commits before or after release; after, its fence finds no row.
\* release itself raises when the trace is full, and the lease is left to lapse.
Drain(s) ==
    LET r == slot[s].run IN
    /\ Draining /\ slot[s].pc \in InProcess
    /\ \/ HoldsOutbox(s) /\ Requeue(s, r)
       \/ ~HoldsOutbox(s) /\ Stale(r)
       \/ TraceFull(r) /\ UNCHANGED <<rowVars, trace, lapsed>>
    /\ slot' = [slot EXCEPT ![s] = Stopped]
    /\ UNCHANGED envVars

\* The process dies, or fail itself raises: the lease is left to lapse.
Crash(s) ==
    /\ slot[s].pc \in Busy
    /\ slot' = [slot EXCEPT ![s] = Stopped]
    /\ UNCHANGED <<rowVars, trace, envVars, lapsed>>

\* A process is started, and with it its slots.  Nothing in the repository does
\* this for a process that stays healthy while its slots have ended.
Restart(s) ==
    /\ slot[s].pc = "stopped"
    /\ slot' = [slot EXCEPT ![s] = Idle]
    /\ UNCHANGED <<rowVars, trace, envVars, lapsed>>

-----------------------------------------------------------------------------
ClaimNext(s, r) ==
    \/ Claim(s, r) \/ ClaimExpired(s, r) \/ ClaimExhausted(s, r)
    \/ ClaimAborted(s, r)

Process(s) ==
    \/ CheckBinding(s) \/ MarkStarted(s) \/ StartWorkflow(s) \/ AwaitResult(s)
    \/ RecordDeduplicated(s) \/ Complete(s) \/ Fail(s) \/ TraceRaises(s)
    \/ ClaimNothing(s)

Disturb(s) ==
    \/ Heartbeat(s) \/ HeartbeatRaises(s) \/ Raise(s) \/ Drain(s)
    \/ Crash(s) \/ Restart(s)

Control(r) ==
    \/ AdmitQueued(r) \/ AdmitWaiting(r) \/ ProductionClaim(r)
    \/ CloseApproval(r) \/ ReadRun(r) \/ Cancel(r)

Environment(r) ==
    \/ ChangeAuthority(r) \/ LapseLease(r) \/ PassDeadline(r) \/ EndExecution(r)

Next ==
    \/ \E r \in Runs : Control(r) \/ Environment(r)
    \/ \E s \in Slots : Process(s) \/ Disturb(s)
    \/ \E s \in Slots, r \in Runs : ClaimNext(s, r)

Spec == Init /\ [][Next]_vars

-----------------------------------------------------------------------------
(* Correctness.                                                            *)

\* The two rows every worker transaction matches on never part: the run and
\* its outbox are in corresponding states, under one fence and one owner, and
\* no transaction (claim_next, mark_started, fail, complete, release, cancel)
\* leaves one behind.
Agree(r) ==
    /\ outbox[r].status = "none" =>
          run[r].status \in {"none", "waiting_approval", "cancelled"}
    /\ run[r].status \in {"none", "waiting_approval"} => outbox[r].status = "none"
    /\ outbox[r].status = "ready" <=> run[r].status = "queued"
    /\ outbox[r].status = "leased" <=> run[r].status \in {"leased", "recovering"}
    /\ outbox[r].status = "dispatched" <=> run[r].status = "running"
    /\ outbox[r].status = "closed" <=> run[r].status = "finished_ungraded"
    /\ outbox[r].status = "failed" <=> run[r].status = "failed"
    /\ outbox[r].status = "expired" <=> run[r].status = "expired"
    /\ outbox[r].status = "cancelled" => run[r].status = "cancelled"
    /\ run[r].fence = outbox[r].fence /\ run[r].owner = outbox[r].owner
    /\ outbox[r].status \in Held => run[r].owner # NoOwner

RowsAgree == \A r \in Runs : Agree(r)

\* Fencing: two slots that work on one run, because the first lost its lease,
\* never carry the same fence, and none carries a fence that was not issued.
\* All slots of a process share one owner hash, so nothing else tells them apart.
FencesDistinct ==
    \A s \in Slots : slot[s].pc \in Busy =>
        /\ slot[s].fence \in 1..outbox[slot[s].run].fence
        /\ \A t \in Slots \ {s} :
              slot[t].pc \in Busy /\ slot[t].run = slot[s].run
                => slot[t].fence # slot[s].fence

OpenRuns(o) == {r \in Runs : OrgOf[r] = o /\ outbox[r].status \in Open}

\* ready_count, which admission trusts for backpressure and claim_next to find
\* work, is the number of open outbox rows of the organization, stays in its
\* bounds, and an organization with work is never marked empty.
ReadyCountExact ==
    /\ \A o \in Orgs :
         /\ partition[o].ready = Cardinality(OpenRuns(o))
         /\ partition[o].ready <= OrgCapacity
         /\ partition[o].ready > 0 => partition[o].status = "ready"
    /\ TotalReady <= TotalCapacity

\* The lease history is append-only with one row per fence: every fence below
\* the current one is closed, the current one exactly when its lease is over.
\* Only cancel_production_run ends a lease without closing it.
Ledger(r) ==
    LET fence == outbox[r].fence IN
    /\ history[r] \in {1..fence, 1..(fence - 1)}
    /\ outbox[r].status \in Held => fence \notin history[r]
    /\ outbox[r].status \in {"ready", "closed", "failed", "expired"} =>
          history[r] = 1..fence

LeaseLedger == \A r \in Runs : Ledger(r)

\* The grant and the run end together: a grant is consumed by a finished run
\* and by nothing else, is claimed only while its run is in the queue or was
\* expired from it, and request and grant never disagree.
GrantFollowsRun ==
    \A r \in NeedsApproval :
        /\ grant[r] = "consumed" <=> run[r].status = "finished_ungraded"
        /\ grant[r] = "claimed" <=> \/ outbox[r].status \in Open
                                  \/ run[r].status = "expired"
        /\ run[r].status = "failed" => grant[r] = "failed"
        /\ \A st \in {"claimed", "consumed"} : request[r] = st <=> grant[r] = st
        /\ request[r] = "failed" => grant[r] = "failed"

\* No more leases are handed out than settings.maximum_attempts: a drained
\* lease counts, so fence and attempt_count stay in step.
Attempts(r) ==
    outbox[r].attempts = outbox[r].fence /\ outbox[r].attempts <= MaxAttempts

AttemptsBounded == \A r \in Runs : Attempts(r)

\* A run is finished only by a slot whose fence is the one in force, after an
\* execution it started or attached to has finished, and while authorization
\* and approval hold: no stale slot, failed execution or lost authority commits.
Committed(r) ==
    run'[r].status = "finished_ungraded" /\ run[r].status # "finished_ungraded" =>
        /\ r \in auth
        /\ \E s \in Slots : /\ slot[s].pc = "settling" /\ slot[s].run = r
                           /\ slot[s].fence = outbox[r].fence
                           /\ Verdict(s) = "finished"

CommitIsFenced == [][\A r \in Runs : Committed(r)]_vars

\* Terminal run states never reactivate, whichever slot or client is late: the
\* run, its outbox and its grant keep what they ended with.
Final(r) ==
    run[r].status \in Terminal =>
        /\ run'[r] = run[r] /\ outbox'[r] = outbox[r]
        /\ grant'[r] = grant[r] /\ history'[r] = history[r]

TerminalIsFinal == [][\A r \in Runs : Final(r)]_vars

\* A cancellation that passes If-Match ends the run in the state its client
\* read: every change of status in between moved the version.
AsRead(r) ==
    run'[r].status = "cancelled" /\ run[r].status # "cancelled" =>
        view[r].status = run[r].status

CancelSeesCurrent == [][\A r \in Runs : AsRead(r)]_vars

-----------------------------------------------------------------------------
(* What the properties above rest on: no row has a version or a fence      *)
(* before it exists, the approval rows follow the run row, and a version a *)
(* client has read is only shared by the status it was read with.          *)

Fresh(r) ==
    /\ run[r].status = "none" => run[r].version = 0
    /\ outbox[r].status = "none" => outbox[r].fence = 0

Approved(r) ==
    r \in NeedsApproval =>
        CASE run[r].status = "none" -> request[r] = "none" /\ grant[r] = "none"
          [] run[r].status = "waiting_approval" ->
                request[r] \in {"open", "closed"} /\ grant[r] = "none"
          [] run[r].status = "finished_ungraded" ->
                request[r] = "consumed" /\ grant[r] = "consumed"
          [] run[r].status = "failed" -> request[r] = "failed" /\ grant[r] = "failed"
          [] run[r].status = "cancelled" ->
                request[r] \in {"closed", "cancelled"} /\ grant[r] \in {"none", "failed"}
          [] OTHER -> request[r] = "claimed" /\ grant[r] = "claimed"

Seen(r) ==
    /\ view[r].version <= run[r].version
    /\ view[r].version = run[r].version => view[r].status = run[r].status

\* The inductive invariant, run by run: what every transaction of the Control
\* API and of the worker finds and leaves in the rows of a run.
RowInv(r) ==
    Agree(r) /\ Fresh(r) /\ Ledger(r) /\ Attempts(r) /\ Approved(r) /\ Seen(r)

RowsInvariant == \A r \in Runs : RowInv(r)

-----------------------------------------------------------------------------
(* Progress.  The code and the clock owe this much: a call of process       *)
(* returns, an idle slot polls, a heartbeat task beats, a lease nobody beats *)
(* for lapses, a deadline passes.  Clients, authorities and failures owe     *)
(* nothing; nor do executions, which are started without a timeout, or       *)
(* slots that ended, which nothing starts again.                             *)

\* No heartbeat task keeps the lease of a run.
Unattended(r) ==
    \A s \in Slots : ~(slot[s].beat = "on" /\ slot[s].run = r /\ HoldsOutbox(s))

Fairness ==
    /\ \A s \in Slots : WF_vars(Process(s)) /\ WF_vars(Heartbeat(s))
    /\ \A r \in Runs : /\ WF_vars(\E s \in Slots : ClaimNext(s, r))
                       /\ WF_vars(Unattended(r) /\ LapseLease(r))
                       /\ WF_vars(PassDeadline(r))

FairSpec == Spec /\ Fairness

\* The premise of "survives process restart": somebody restarts what ended,
\* and the recovery workers see every execution to its end.
Cared ==
    /\ \A s \in Slots : WF_vars(Restart(s))
    /\ \A r \in Runs : WF_vars(EndExecution(r))

CaredSpec == FairSpec /\ Cared

\* Accepted work survives process restart and can be reclaimed: a queued run
\* reaches a terminal state.
AcceptedWorkSettles ==
    \A r \in Runs : run[r].status = "queued" ~> run[r].status \in Terminal

\* The same of runs whose trace stays below its limit.
TraceableWorkSettles ==
    \A r \in Runs :
        run[r].status = "queued" ~> run[r].status \in Terminal \/ TraceFull(r)

\* A slot that will claim nothing unless somebody acts: run_slot has ended, or
\* it awaits an execution that does not end and its heartbeat task is over.
Gone(s) ==
    \/ slot[s].pc = "stopped"
    \/ slot[s].pc \in Awaiting /\ Verdict(s) = "running" /\ slot[s].beat # "on"

\* Whatever crashes, raises, lapses or comes late, accepted work is left only
\* for one of two reasons: its trace is full, or no slot is left to do it.
LeftOnlyWithoutSlots ==
    \A r \in Runs :
        run[r].status = "queued" ~>
            \/ run[r].status \in Terminal
            \/ TraceFull(r)
            \/ [](\A s \in Slots : Gone(s))
=============================================================================
