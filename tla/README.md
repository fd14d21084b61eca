# FlowPilot Arena: verification project

TLA+ models of FlowPilot Arena's control flow, TLC configurations that
model-check them on small instances, and theorems checked by TLAPS. Every
definition is translated from the source under `src/`; `PROJECT.json` maps each
definition to the lines it stands for.

Run inside this directory:

    tlc -workers 2 -config Dispatch_lease.cfg MCDispatch.tla   # any Dispatch cfg below
    tlc -workers 2 -config Recovery_faults.cfg MCRecovery.tla  # any Recovery cfg
    tlc -workers 2 -config Approval_race.cfg MCApproval.tla
    tlc -workers 2 -config Browser.cfg MCBrowser.tla
    tlc -workers 2 -config Components.cfg MCComponents.tla
    tlc -workers 2 -config Admission_replay.cfg MCAdmission.tla   # finds a violation
    tlapm DispatchProofs.tla      # likewise ApprovalProofs, BrowserSessionProofs,
                                  # PlanGraphProofs, RecoveryProofs, RecoveryImplements,
                                  # ControlProofs, ComponentProofs

## 1. The system

FlowPilot Arena runs browser tasks for the members of organizations. A run is
submitted to the **Control API**, is approved by people when its effect is
classified L2/L3, waits in a durable queue in PostgreSQL, is claimed by a
**Workflow Worker** under a lease with a fencing token, and is executed as a
Temporal workflow by the **Recovery Worker**, which plans with the **Planning
Agent**, acts through the **Browser Worker** on the **Sandbox**, and reports a
verdict. Services share no memory: they talk through rows of one database (row
locks, `SKIP LOCKED`, unique constraints), through Temporal, and by HTTP.

| Component | State it keeps | Operations | What makes it correct |
|---|---|---|---|
| Workflow Worker (`workflow_worker`) | run, outbox, lease-history and partition rows; per slot a `WorkItem` and a heartbeat task | `claim_next`, `binding_valid`, `mark_started`, `heartbeat`, `complete`, `fail`, `release`; `Dispatcher.process`, `run_slot`, `run_worker` | one fence per lease; a stale slot commits nothing; rows of a run stay in step; accepted work ends |
| Production admission (`control_api/production.py`) | run, outbox, partition, rate buckets, idempotency rows | admit, claim a granted run, read, cancel, list | capacity is exact; one run per idempotency key; If-Match sees the current row |
| Approvals (`control_api/approval.py`, `risk.py`) | request, decisions, grant; a credential vault in process memory | request, decide, withdraw, expire, claim, finish | a grant rests on a complete set of distinct, still active approvers; each is used once |
| Audit chain (`control_api/audit.py`) | chain head and hash-linked events of an organization | append under the head lock, verify | the chain has no gap or fork; a chain that verifies is the one that was written |
| Rate limits (`production.py` 236-330) | token buckets | take, refill | no interval refills a bucket twice; a rejected request is not charged |
| Identity, membership, memory (`auth.py`, `repository.py`, `rbac.py`, `etag.py`) | cached signing keys; versioned rows | verify a token, resolve the actor, If-Match updates, reset of memories | no lost update; rows change only for actors of their organization; a disabled user stays out |
| Recovery workflow (`recovery_worker`) | workflow state: plan, checkpoints, session epoch, budgets | activities with retries; replan; fresh session; hand-over | bounded retries and replans; an effect happens once; the verdict is only reached with every step verified |
| Recovery coordinator (`planning_agent/recovery.py`) | run contexts, gates, verified steps, receipts | start, step, refresh, recover, replan, cleanup | a step committed once is recognised by its receipt, in any epoch |
| Planner, executor, budget (`planning_agent`) | step states, ledger of calls, tokens and actions | plan, match, act, verify, charge | a finished run did every step; nothing is sent on an exceeded ledger; the session is closed |
| Context and memory (`planning_agent`) | memories with owner task and version | preview, assemble, apply | a context shows what the store took; a memory keeps its owner |
| Browser Worker | sessions with references, an action lock, an idempotency binding, an expiry task | open, observe, act, close, expire | no element action on stale references; no close under an action; sessions do not leak |
| Sandbox API | effects and their receipts | idempotent commands | one effect per key, the same receipt on replay, mismatch rejected |
| Sandbox arena, grader | task fixtures, score | reset, grade | grading reads only the sandbox state |
| DOM, vision and hybrid agents | counters of a run, route, last action | observe, ask the model, act, switch, close | no action beyond a budget; a switch can be paid for; the session is closed |
| Control Web, Sandbox Web | the last version read | list, read, cancel | cancels with the ETag it read |

Hard behaviours: two slots on one run after a lapsed lease; a trace whose limit
makes the transactions of its run fail; state checked in one
transaction and used in another; a client's cancellation racing a worker's
claim; processes that crash, drain or lose their heartbeat between two awaits;
redelivery to Temporal; counters kept by six different transactions; activities
retried after their effect. `PROJECT.json` lists each at its line
(`hazards`), with the properties that cover it or the reason why none does.

## 2. Modules

| Module | What it is |
|---|---|
| `Dispatch` | durable dispatch: the rows of a run, the Control API handlers that write them, the worker's transactions and slots |
| `FencedQueue` | abstract: what durable dispatch promises, as a queue lent out under growing tokens |
| `DispatchRefinement` | the mapping under which `Dispatch` implements `FencedQueue` |
| `MCDispatch` | small instances for TLC |
| `DispatchProofs` | `Dispatch` proved: types, the invariants of rows, slots and counters, what no step may do, and the refinement |
| `PlanGraph` | the plan's DAG: validation, topology, the next step, the partial replan, as operators |
| `PlanGraphProofs` | lemmas about those operators: what they compute, for every plan |
| `PlanRevision` | a plan executed step by step and revised once, to check those operators on every small graph |
| `Recovery` | the durable workflow, the coordinator of a run, the click and the Sandbox transaction |
| `OrderedEffects` | abstract: what a run promises of the Sandbox; `Recovery` implements it (`ExecutesPlan`) |
| `RecoveryProofs`, `RecoveryImplements` | the invariant of a run with all its executions, and that it executes its plan, proved |
| `MCRecovery` | two of the planner's plans, cut down for TLC |
| `Approval` | requests, decisions, grants and the vault, by the statements and row locks of concurrent database sessions |
| `ApprovalProofs` | its safety properties, proved |
| `MCApproval` | two instances of it: a race for one L3 grant, and a vault with room for one credential |
| `Admission` | idempotency keys, rate buckets and queue capacity under overlapping requests |
| `AuditChain` | the hash-linked events of an organization, readers and verifiers beside writers, damaged storage |
| `Identity` | tokens, signing keys, actors, and the conditional writes of versioned rows |
| `BrowserSession` | one session of the Browser Worker, its lock, its expiry task and cancelled requests |
| `AgentLoop` | the loop of the DOM, the vision and the hybrid agent |
| `PlanningRun` | a planning run without recovery, on its ledger |
| `ContextMemory` | the organization memory and the assembly of contexts over it |
| `BrowserSessionProofs` | the safety properties of a session, proved |
| `Components` | `Admission`, `AuditChain`, `Identity`, `AgentLoop`, `PlanRevision`, `PlanningRun` and `ContextMemory` side by side |
| `ControlProofs` | the audit chain and admission, proved in `Components` |
| `ComponentProofs` | the agents, the executor, identity, memory and the revision of plans, proved in `Components` |
| `MCAdmission`, `MCBrowser`, `MCComponents` | small instances for TLC |

### `Dispatch` and the code

| Model | Code |
|---|---|
| `run[r]`, `outbox[r]`, `partition[o]`, `history[r]` | rows of `w12_production_runs`, `w12_dispatch_outbox`, `w12_scheduler_partitions`, `w12_worker_leases` (`models.py` 571-829) |
| `request[r]`, `grant[r]` | the W11 rows a run was approved by, as `_binding_valid` and `_fail_locked` read and write them |
| `auth` | the runs whose bound `authorization_hash` (and approval set hash) still match; versions only grow, so a run that leaves it returns only by a new claim |
| `lapsed`, `overdue` | `lease_expires_at <= now`, `expires_at <= now` |
| `slot[s]` | where `Dispatcher.process` of a slot stands, the `WorkItem` it holds (run, fence), the execution it awaits, its heartbeat task |
| `execs[r]` | Temporal executions under the run's `workflow_id` |
| `trace[r]` | how many rows `w13_observability_events` has of the run, the last `event_sequence` |
| `view[r]` | version and status a client last read: its ETag |

One action is one database transaction or one await. Two statements of one
transaction hold the same row locks and are never separated; whatever a slot
remembers from an earlier transaction may be stale, and every guard that
compares it (`Holds`, `HoldsOutbox`, `r \in lapsed`) is taken from the `WHERE`
clause or the `if` of the code. `Claim`, `ClaimExpired`, `ClaimExhausted`,
`ClaimAborted` and `ClaimNothing` are the outcomes of `claim_next`; its choice
of a partition by `last_selected_at` with `SKIP LOCKED` is left open, so every
order it could choose is explored. `MarkStarted` and `Complete` have three
outcomes: the row is no longer the slot's, the binding no longer holds, the
write. `now` is read before the locks are taken, so `MarkStarted` and
`Heartbeat` may find a lease that lapsed meanwhile still theirs. `Raise` is any
exception inside `process`, `Crash` the death of the slot's task or process,
`Drain` the cancellation after the drain timeout, which calls `release`.
A slot that attaches to an execution another one started records that
(`RecordDeduplicated`) before it settles the run.

The trace of a run is control as well as data: `_append_trace_event`
(`repository.py` 475-567) and `append_observability_event` raise when the next
`event_sequence` is past 256, inside the transaction that carries the business
rows. `Traced(r, n)` is a transaction that appends n events, `Fits` its
condition. Each of them appends one event, except that admission of an automatic
run, the hand-over of a grant and `mark_started` append two, and an outcome eight
and one per step (`OutcomeEvents`). When they do not fit, a handler of the
Control API answers with an error and changes nothing; `TraceRaises` takes
`process` to its exception handler, and ends the slot when `fail` raises there;
`ClaimAborted` ends a slot that picks such a run; `Heartbeat` raises, and `Drain`
leaves the lease to lapse.

`RowInsertable` is the part of the schema a transaction can trip over:
`w12_worker_leases.worker_owner_hash` is NOT NULL and
`(outbox_id, fencing_token)` is unique. A transaction that closes a lease is
enabled only if the row can be inserted; `ClaimAborted` is `claim_next` rolled
back by that `IntegrityError`, which `run_slot` does not catch.

Left out: audit rows and what the events of a trace say (nothing here decides by
them), lease durations and deadlines as numbers, `lease_version` (it moves with
the fence), wording of errors, and reads that change nothing.

### `PlanGraph` and the code

A plan is a function from step ids to the ids they depend on; ids are integers
in the order of their strings, so `r2_` ids are the negative ones (`Renamed`).
`Topology` is the loop of `validate_dag` over its sorted ready list, `Remaining`
the steps of the order that are not completed, the first of which is next
(`NextStep`), `ValidDag`
the conjunction of its reason codes that concern the graph, `PartialReplan` the
revision with its renamed ids and dependencies. The plan stands for its hash.

### `Recovery` and the code

| Model | Code |
|---|---|
| `wf` | the local variables of `DurableRecoveryWorkflow.run`, the activity it awaits (`pc`), its attempt, and whether the request has been sent |
| `inbox` | requests in line for the run's gate (`_run_gates`); its head holds the gate. `live` is FALSE once the caller gave up |
| `run` | `_runs[run_id]`: plan, epoch, stored results with the ledger each one carries (`verdicts`), faults already injected, ledger |
| `alive` | the browser session the coordinator holds still exists |
| `click`, `strays` | the mutation `expect_response` waits for; mutations in flight nobody waits for |
| `receipts`, `effects` | `w8_operation_receipts` of the task; how often each effect was performed |

The operators `AfterStart` ... `AfterReplan` are the workflow's branches from one
await to the next: `Resume` applies the one for the activity that answered,
`AttemptFailed` and `AttemptTimedOut` the ones for an `ActivityError`. A
coordinator action is the whole of one command under the gate, except that a
step that presses a button is split at its await: `PressButton`, the Sandbox's
transaction (`ClickLands`), and `Confirm`, `NotConfirmed`, `Mismatched` or
`GiveUp`. An activity that loses its caller is not recalled (an HTTP handler
goes on when its client disconnects), so its request stays in `inbox` and is
executed, with its effects, before its own retry: `LoseAttempt` and `TimeOut`
only clear `live`. `LoseAttempt` is also each trusted fault of
`activities.py`, which raises before or after the call.

`ledger` counts the commands that charge the run's ledger, which is enough to
compare the snapshots `_charge` compares. `Repeatable` names the effects no
constraint of the Sandbox's tables protects: a ticket can be created twice, an
account cannot. `LateRequests` says whether a page may send its request after
`expect_response` timed out; the bound of 5 s is on the answer, and nothing in
the Browser Worker makes the request part of it.

Left out: cancellation of the workflow (nothing in `src/` cancels it), hashes of
checkpoints and receipts (equality of what they cover stands for them), limits
of the ledger one by one (any of them is `ActFails` or `NotConfirmed`), the
instructions of a step before its button. Commands reach the gate in the order
they were sent, and sending takes no time the model shows.

### `Approval` and the code

| Model | Code |
|---|---|
| `req`, `decisions`, `grant`, `authority` | rows of `w11_approval_requests`, `_decisions`, `_grants`, `_authorities` as committed |
| `run` | the production run a request of `Bound` belongs to |
| `vault` | `TrustedGrantVault._values` |
| `lock` | row locks, with the organization's audit head and capacity partition |
| `tx[s]` | the statement a session is at, and what it has read |

One action is one statement at READ COMMITTED. `Needs` names the rows the next
statement locks; a session waits until they are free, and `DeadlockAbort` is the
victim the database picks when sessions wait for each other only. Reads see what
is committed; the writes of a session appear when it commits. Two places of the
code need this grain: `claim_grant` and `disable_authority` write the request as
they read it before they held its lock (`ClaimCommit` and `Invalidated` take the
version from `rver`, `dirty`), and the vault is filled before a commit and
emptied after it (`DecideAppend`, `Discard`).

`OnLoop`: the approval routes are coroutines that never await between their
first and last statement, so the event loop runs one at a time; the production
routes are plain functions that run in threads. `ClaimRestsOnActiveApprovals`
rests on that: with two of these routes in parallel, a claim could verify its
approvals, an authority be disabled and committed, and the claim commit after it.

Three observations. A claim that fails discards the credential of its grant,
also when it failed for a reason that would pass. A grant that expires
unclaimed keeps its entry of the vault until its request is closed or revoked.
And of an L3 request whose manager decides and is then disabled before security
decides, the second decision still issues a grant; nothing can claim it,
because `_active_approval_set` looks again, which is why the clause
of `RowsAgree` on active approvers is stated for requests one manager decides.

### `Admission`, `AuditChain`, `Identity` and the code

| Model | Code |
|---|---|
| `bucket[c][h]` | rows of `w12_rate_limit_buckets`, by route class and holder |
| `idem[a][k]` | `w12_idempotency_records`; `KeyFree` is their unique key |
| `call[s]` | a request of `main.py`: the clock it read, whether it is before or after the lookup of its key |
| `log`, `head` | `w11_audit_events`, `w11_audit_chain_heads` |
| `work[s]` | a transaction's own appends, or a reader between its two statements |
| `row`, `memver` | versioned rows of the identity schema, `memory_version` of an organization |
| `jwks` | `HttpJwksSource`: its keys and its fetch count |
| `request[s]` | a request between token, actor and handler |

In `Admission` a request reads its clock when it is received and touches its
buckets when its turn comes, so requests meet a bucket in any order. What an
outcome commits follows the code: a limit commits the refilled rows, a denial
and a refused cancellation roll them back, backpressure commits its charge.

`AuditChain` reads head and events in two statements, in the order of the code;
the storage may be damaged once, in each way of `test_audit.py`'s matrix and by a
row rewritten together with its hashes. A verification beside an append may
report `head_mismatch` of an intact chain; `ReadCoversHead` says that is all.

In `Identity` a handler is one step after the actor was resolved and does not
look at the user again. Key fetches are limited for the life of the process.
The repository has no rule that an organization keeps an administrator.
`list_memories` reads the rows and the version in two statements, so its ETag
may be newer than its rows.

### `BrowserSession`, `AgentLoop` and the code

| Model | Code |
|---|---|
| `session`, `browser`, `registered` | the fields of `BrowserSession` that change, its Playwright handles, its entry in `_sessions` |
| `lock`, `task` | `session.lock`; where each handler and `_expire_session` await |
| `touched` | an action has reached the page since the references were built |
| `delayed`, `sent` | clicks whose mutation the page has yet to send; what it sent, and the key `guard_request` added |
| `run`, `look` | the counters of an agent's loop with `RouterState`; its current observation, whose DOM may be weak from the first (`FirstLooks`) |
| `lost` | a call was lost or a task cancelled where nobody closes the session: the exceptions that `EverySessionReleased` and `NoBrowserLeft` state |

A coroutine runs from one await to the next in one step. Cancellation may hit
every await. `HybridReferencesAreFresh` is about hybrid and recovery sessions,
which forget their references before they observe; a DOM or vision session whose
observation after an action failed keeps the old ones (see below).

The three agent loops share one skeleton; where they differ (`Record`,
`Signature`, `CallFails`, `Cancel`, the end after a terminal answer) the
definition says which does what. A run ends with the status of the action it
asked for, not of the result: a `finish` the worker answered with a failure
that ends the session counts as `finished_ungraded`.

### `PlanningRun`, `ContextMemory` and the code

| Model | Code |
|---|---|
| `pc`, `states`, `at`, `left` | where `PlanningExecutor` is; `StepStateMachine`; the step and its remaining instructions |
| `used`, `budget` | the counters of `TotalBudgetLedger` that limit what a run does |
| `good` | how many instructions of a step succeeded (history) |
| `records` | `OrganizationMemoryStore` of one scope |
| `phase`, `context`, `applied` | an assembly: preview, selection, application; its `org_memory` layer |

`_reject` charges a match and swallows what the charge raises, so the rejection
count may pass its limit unnoticed (`BudgetsHold` leaves it out). An assembly
whose memories another one writes after the preview may apply some of its
mutations and then be rejected: `AssemblyIsAtomic` says that this is the only
way, `raced` remembers it. `Live` are the records a read finds, `Read` the first
`ReadLimit` of them by field and id (`memory.py` 101-111, six in the code), and
`context` is what an assembly read, before it drops duplicates and applies the
caps of its layers. The store grows without a bound and the cut is made of the
memories of all tasks, so a context need not show what its assembly has just
written: `AssemblyIsAtomic` says that it shows no own memory other than the store
has taken it, and leaves one out only when it is full of records that come before
it. That a record becomes valid later than its request is left out (it is not
live, like one that has expired), as is `reset`.

### What each run checks

| Configuration | Instance | States | Properties |
|---|---|---|---|
| `Dispatch_lease.cfg` | one L2/L3 run, two slots of one process, two attempts, a trace of 11 events, drains, a client that reads and cancels | 561,561 (with slot symmetry) | `TypeOK`, `RowsAgree`, `FencesDistinct`, `LeaseLedger`, `GrantFollowsRun`, `ReadyCountExact`; `CommitIsFenced`, `TerminalIsFinal`, `CancelSeesCurrent`, `DispatchIsFencedQueue` |
| `Dispatch_progress.cfg` | one automatic run, two slots, a trace of 12 events, no drain, fairness | 233,923 | `LeftOnlyWithoutSlots` |
| `Dispatch_drained.cfg` | one automatic run, two slots, drains, ended slots restarted, executions that end | violated | `TraceableWorkSettles` |
| `Dispatch_trace.cfg` | one automatic run, one slot, one attempt, the trace of 256 events, no drain, ended slots restarted, executions that end | violated | `AcceptedWorkSettles` |
| `Recovery_faults.cfg` | the mover's plan, one execution, every fault scenario, the default budgets with checkpoints cut to 4 | 738,728 | `TypeOK`, `ProgressAgrees`, `OwnCheckpointAccepted`; `ExecutesPlan` |
| `Recovery_redelivery.cfg` | a branching plan, two executions, one session recovery and one fault each | 386,467 | `ExecutesPlan`, and with it `EffectAtMostOnce` |
| `Recovery_progress.cfg` | the mover's plan, one execution, fairness | 42,057 | `ExecutionEnds` |
| `Recovery_late.cfg` | the branching plan with `LateRequests` | violated | `EffectAtMostOnce` |
| `Approval_race.cfg` | one L3 request of a production run, a manager, a security user and the requester; or two L2 requests and a vault for one; two sessions, one restart | 851,923 | `PartTypeOK`, `RowsAgree`, `VaultHoldsIssuedOnly`; `NoLostUpdate`, `ClaimRestsOnActiveApprovals` |
| `Browser.cfg` | a session of each mode, two overlapping requests, expiry, cancellation, fairness | 124,402 | `TypeOK`; `HybridReferencesAreFresh`, `ActionOwnsSession`, `EverySessionReleased` |
| `Components.cfg` | seven components, each with its small instance | 820,683 | 14: see below |
| `Admission_replay.cfg` | two submissions of one key and body | violated | `SameBodyReturnsRun` |

`Components.cfg` is seven checks in one. Its components share nothing in the
models, so a behaviour is a behaviour of one of them, chosen by `part`; the
others keep their initial state (`AllSpec` of `Components`; `MCSpec` only fixes
the initial state of the components that do not run, so a theorem about
`AllSpec` is one about `MCSpec`). The states are the sum, not the product, of
the components' own, and each property is stated of the behaviours of its
component: `BudgetsHold` and `NoBrowserLeft` of the agents and of the planning
run, `SwitchIsAffordable` of the hybrid agent, `FinishedMeansDone` of the
planning run; `OneRunPerKey` (with the answers and the ready count) and
`RateHeldInOrder` of admission; `ValidIsWhatWasWritten` and `ReadCoversHead` of
the audit chain; `VersionsNameStates` and `WritesAreAuthorized` of identity;
`TopologyDecidesCycles` and `RevisionReplacesSubgraph` of the plan graph;
`AssemblyIsAtomic` of memory; and `AllTypeOK`. To
check one component, set `Parts` to its name. `Approval_race.cfg` has two parts
in the same way.

Why the bounds are enough. The hazards of a lease are between two slots, the
late one and its successor, on one run: two attempts let the second slot
reclaim, and the limit itself is reached. Both slots belong to one process
because that is the harder case: they share an owner hash, and only the fence
separates them. Runs meet only in their partition's `ready_count` and in the
capacity check. Who takes a run off the count twice is again two slots, which
`Dispatch_lease` has; that several runs stay within the capacities of any number
of partitions is proved (`ReadyCountAlwaysExact`), and checked of the same
comparison in the admission part of `Components`. `TraceLimit` is the only bound
that is not the code's: 11 and 12 leave room for every path through two leases
with some heartbeats and late calls, and are short enough that every transaction
also meets a full trace; `Dispatch_trace` has the 256 of the code. `OutcomeEvents`
is 2 where the limit is so short and 9, an outcome with one step, where it is
not. No other counter needs a bound of its own: attempts bound fences and
executions, and a run's version grows only with its status. Slot symmetry is used only where all
slots have the same owner and no liveness is checked. Deadlock is checked in
every `Dispatch` run: `ClaimNothing` is the poll that finds no work, so a state without a
step would be a worker that can do nothing at all.

The recovery path repeats itself after one retry, one recovered session and one
revision, and its budgets (two attempts, two recoveries, two faults, one replan)
are the code's own defaults in `Recovery_faults`; only the number of checkpoints
is cut, so that its limit is reached with three steps. `MaxReceipts` is 2 for
the same reason: a replay is answered at the limit, a new key is not. The
mover's plan is whole. The branching plan is the joiner's with two of its four
effects, whose order the topology alone decides; `MaxExecutions = 2` is the
first execution and the one a redelivery starts. Nothing else grows without a
bound: every activity ends the workflow or spends a fault. Deadlock is not
checked in the `Recovery` runs: a run ends, and then nothing is left to do.

Approval: every race in the code is between two transactions, and what a third
could add is the deadlock of three, which no lock order of these handlers can
form: a session waits for the partition, an authority or the audit head only
while it holds none of the rows a third needs. Three users are the fewest that
fill an L3 request and leave a requester who has a role himself. One tick
expires a grant, two a request, so a grant outlives neither; one restart lies
before or after every step. The vault part has one L2 request that is claimed by
its route and one that is claimed through a production run, and room for one
credential. Both parts allow sessions that have nothing left to do to stay idle
once the clock has stopped; deadlock is checked, so that every session at work
can go on.

Browser: sessions share nothing but the map of sessions, so one session of each
mode is checked; two requests and the expiry task are the fewest tasks where one
holds the lock, one waits, and one comes in between. Two actions and two
observations reach both limits. Deadlock is not checked: a released session
ends.

Components: two parallel requests in `Admission`, `AuditChain`, `Identity` and
`ContextMemory`, because the code compares what one of them read with what
another one wrote; two organizations with an actor each; buckets that a second
request empties; three events, so that damage has a row before and after it; two
accepted writes, since the third meets the same versions as the second. The
agent's budgets are as small as they can be and still allow a repetition, a
second observation and a switch. Every graph on four steps is the smallest set
with a diamond, under `MaxEdges`, `MaxDeps`, `MaxDepth` and `MaxWidth` small
enough that each rejects some. `PlanningRun` has a diamond plan with one ample
budget and one short of each limit. `ContextMemory` has every batch of two
mutations over two memories and a read of one record, so that the cut decides
between them: that a context shows all its assembly has written is violated in
this instance. Deadlock is not checked, because all of these end.

Every property of a passing run has a mutant, a plausible bug of the code placed
beside the definition it changes, under which TLC finds that property violated.

### Fairness

`Dispatch!FairSpec` assumes weak fairness of: each slot's `Process` step (asyncio
runs a ready task, database and Temporal calls return or raise); its heartbeat
(every 10 s); the claim of a run that is due, by some slot (`run_slot` polls for
ever; a partition is picked by the oldest `last_selected_at`); the lapse of a
lease no heartbeat keeps and `PassDeadline` (time passes). Nothing is assumed of
clients, authorities, crashes, exceptions or drains: they may happen at any time
or never. Nor of two things the repository does not do: `Restart`, because the
process that has lost a slot stays alive and ready (`main.py` 171-196) and no
compose file states a restart policy, and `EndExecution`, because the workflow is
started without an execution timeout (`temporal_client.py` 32-38).

What the code then owes an accepted run is `LeftOnlyWithoutSlots`: it reaches a
terminal state, or its trace is full, or from some moment on every slot has ended
or awaits an execution that does not end. The claim is fair per run, not per slot:
a run that stays due is claimed, and with the queue deadline (`PassDeadline`) it
ends however often slots crash, as long as one is left or comes back. The run has
no graceful drain, because of finding 1, and one run, because a second whose trace
is full can end the slots the first one needs.

`CaredSpec` adds fairness of `Restart` and `EndExecution`. It is the premise of
the document that accepted work survives a process restart, and is used in the
two runs that refute the claim under it, never in a run that passes.

`Recovery!FairSpec` assumes only that an awaited attempt ends, whichever way:
Temporal's timers (`start_to_close_timeout` of 30 s) fire whether or not anyone
answers. Sessions, coordinator, Sandbox and redelivery owe nothing.

`BrowserSession!FairSpec` assumes weak fairness of every task's steps (asyncio
runs a ready task, Playwright answers or times out), of the expiry timer, and
strong fairness of `Acquire`: `asyncio.Lock` hands itself to its waiters in
their order, and a task that waits is passed over only while others hold it.
Nothing is assumed of clients, of pages or of cancellation.

### Where code and documents disagree

Four disagreements are checked by a run that finds them violated.

1. **A drained run can jam its queue** (`Dispatch_drained`, code bug). `release`
   (`repository.py` 2133-2199) puts the outbox back to `ready` with
   `lease_owner_hash` NULL but with its fence, whose lease row it has just
   written. When `claim_next` then finds the row past its deadline (1211) or out
   of attempts (1285), `_lease_history` inserts a second row for that fence with
   a NULL owner; PostgreSQL refuses it, the transaction rolls back, and the
   exception ends `run_slot`. The row is picked again by the next slot, which
   ends the same way. Counterexample: admit, claim, drain, deadline passes,
   every restarted slot aborts. ADR 0012 says "Accepted work survives process
   restart and can be reclaimed".
2. **A late request is committed without its key** (`Recovery_late`).
   `guard_request` adds the idempotency headers only while
   `session.recovery_binding` is set, and `execute_recovery_action` clears it
   when `expect_response` times out (`runtime.py` 596-608). A request the page
   sends after that is committed without a receipt; the step is reported
   `session_lost`, and its retry, under the same key, is performed again: a
   second ticket, or for a constrained effect a 409 that ends the run as
   `idempotency_mismatch`. ADR 0008, 108: "Post-commit Activity loss becomes
   safe because the retried UI mutation uses the same deterministic key and
   receives a receipt replay". With requests that never leave late
   (`LateRequests = FALSE`), the claim holds in every run. In `BrowserSession`
   such a request may also carry the key of the next click: `ActionOwnsSession`
   bounds the binding, not the page.
3. **An overlapping resubmission is answered with an error** (`Admission_replay`,
   code bug). Two submissions of one key and body both pass the lookup; the
   second one's `session.flush()` (`production.py` 709) violates the unique key
   outside the `try` that looks for the winner (756-763), and the client gets a
   500. `threat-model.md` 76: "same body returns one run, mismatch is `409`".
   `OneRunPerKey` still holds: the loser leaves nothing behind.
4. **A long execution fills its trace, and its run never ends** (`Dispatch_trace`,
   code bug). Every heartbeat appends an event (`repository.py` 1610), and past 256
   `_append_trace_event` raises (506): after some 250 heartbeats, 40 minutes, every
   transaction of the worker on that run rolls back. The heartbeat ends, the result
   cannot be committed, `fail` raises, the lease lapses, and each slot that picks
   the run to expire or to fail it ends with the exception while its process stays
   ready. Counterexample: admit, claim,
   start, 251 heartbeats, the execution finishes, and every restarted slot aborts.
   ADR 0012, 55: "Accepted work survives process restart and can be reclaimed";
   ADR 0013, 9: the trace is made "while preserving all W1-W12 business, security,
   approval, queue, lease, receipt, audit, and grader semantics".

The others have no run of their own; each follows from the lines named.

5. **Redelivery may start a second execution.** `start_workflow` is called
   without an id-reuse policy (`temporal_client.py` 32), so it attaches only to
   an execution that is still open. A slot starts the workflow, its lease lapses,
   the execution finishes, a second slot claims the run and starts it again.
   ADR 0012, 32: "Redelivery converges on the same workflow". Inside the second
   execution receipts still recognise effects already made
   (`Recovery_redelivery`).
6. **A stale slot may start an execution.** Between `mark_started` and
   `start_workflow` (`main.py` 82) the fence is not compared again.
   `threat-model.md` 114: "A stale fence [...] has zero Browser budget and zero
   business side effect". What the stale slot cannot do is commit:
   `CommitIsFenced` holds and is proved.
7. **A resumed run is refused.** `w8_cleanup` has one attempt; when it is lost
   the coordinator keeps the run. A redelivered execution is answered "existing
   recovery run resumed" (`recovery.py` 114) but starts with epoch 1, so if the
   first execution had recovered a session its first step is rejected by
   `_validate_checkpoint` and it fails with `permanent_failure`. The refusal is
   safe: no effect is repeated.
8. **Requests out of order overspend a bucket.** `consume_rate_limit` sets
   `last_refill_at` to the caller's `now` (`production.py` 344) also when it is
   older than the row's, so the interval between them refills twice.
   `threat-model.md` 80: "Limiter race overspends tokens | Persistent locked
   integer-microtoken [...] buckets commit atomically". `RateHeldInOrder` is
   stated for buckets that meet their requests in order (`late`).
9. **Stale DOM and vision references survive a failed observation.** A DOM
   session keeps its references while it observes; if building the observation
   after an action raises, they can still be used, on a page that has changed.
   ADR 0004, 98: "Ephemeral references make stale or forged model actions fail
   before browser execution, at the cost of requiring a fresh observation after
   every action".
10. **The DOM agent's repeat limit does not act on elements.** Its signature
    contains the ids of observation and element, which are new in every
    observation; the vision and the hybrid agent leave the element out, so two
    actions of one type on different targets count as the same.
    `BudgetsHold` bounds repetitions for these two.

Smaller observations. The workflow never sets `duplicate_side_effects`, so a
test that compares it with 0 shows nothing; the property meant is
`EffectAtMostOnce`. The branch after `w8_replan` appends a checkpoint without
comparing their number with `max_checkpoints`, which is why the bound in
`TypeOK` allows one more per replan. A session whose `create_session` answer is lost
stays open until it expires, and only the hybrid agent closes its session when
its request is cancelled. A rejected finish of a planning run is listed twice.

## 3. What is proved

Every theorem is one of the specification TLC checks, for every value of the
constants that satisfies the named assumptions. The assumptions say what the
code makes sure of and TLC evaluates each of them in the runs: constants of the
code are natural numbers, placeholders (`NoRun`, `None`) are no ids, and

- `ConstantsAssumption` (`Dispatch`): finitely many runs and organizations,
  `MaxAttempts` at least 1, an outcome of at least one event; slots, processes,
  capacities and the limit of a trace are arbitrary;
- `SessionAssumption` (`BrowserSession`): finitely many requests, limits of at
  least one action and one observation;
- `RecoveryAssumption` (`Recovery`), `PlanAssumption` (`PlanGraph`): the plan
  passes `validate_dag`, the budgets lie in the ranges of `schemas.py`;
- `PartsAssumption`, `AgentAssumption`, `ControlAssumption`, `PlanningAssumption`,
  `IdentityAssumption`, `ContextAssumption` (`AgentLoop`, `Components`): the
  parts of an instance are among the seven components; the
  budgets are those the schemas allow; the order of a plan holds each step once
  and every step has an instruction; every row belongs to an organization and
  tokens claim known roles; a batch is a sequence of upserts and deletions of
  finitely many memories; the limit of a read is arbitrary.

| Module | Theorem | States |
|---|---|---|
| `DispatchProofs` | `TypeCorrect` | `TypeOK` |
| | `RowsInvariantHolds` | the inductive invariant of the rows |
| | `RowsAlwaysAgree`, `LeaseLedgerExact`, `GrantAlwaysFollowsRun`, `FencesAlwaysDistinct` | the invariants of `Dispatch_lease` |
| | `AttemptsAlwaysBounded` | no run is leased more than `MaxAttempts` times |
| | `TerminalStaysFinal`, `CommitStaysFenced`, `CancelAlwaysCurrent` | the action properties of `Dispatch_lease` |
| | `ReadyCountAlwaysExact` | `ReadyCountExact` of `Dispatch_lease`, for any number of runs and partitions |
| | `DispatchImplementsQueue` | `Dispatch` implements `FencedQueue` |
| `RecoveryProofs` | `RecoveryInvariant`, `RecoveryTypeCorrect` | the inductive invariant, `TypeOK` |
| | `ProgressAlwaysAgrees`, `OwnCheckpointAlwaysAccepted` | the invariants of `Recovery_faults`, for any number of executions |
| `RecoveryImplements` | `RecoveryExecutesPlan`, `EffectsPerformedOnce` | under `NeverRepeats`, `Recovery` implements `OrderedEffects`; no effect happens twice |
| `ApprovalProofs` | `ApprovalInvariant`, `ApprovalTypeCorrect` | the inductive invariant, `TypeOK` |
| | `RowsAgreeAlways`, `VaultHoldsNoOther`, `UpdatesNeverLost`, `ClaimsRestOnApprovals` | the properties of `Approval_race` |
| `BrowserSessionProofs` | `SessionInvariant`, `BrowserTypeCorrect` | the inductive invariant, `TypeOK` |
| | `ActionAlwaysOwnsSession`, `ReferencesAlwaysFresh` | the action properties of `Browser` |
| `ControlProofs` | `AuditInvariantHolds`, `VerifiedChainIsGenuine`, `ReadsAlwaysCover` | the audit chain |
| | `AdmissionInvariantHolds`, `KeysAlwaysStandForOneRun`, `BucketsAlwaysHoldTheirRate` | admission and its buckets |
| `ComponentProofs` | `AgentInvariantHolds`, `SwitchIsAlwaysAffordable` | the agents |
| | `RunInvariantHolds`, `FinishedAlwaysMeansDone` | the executor |
| | `NoBrowserIsLeft`, `BudgetsAlwaysHold` | agents and executor |
| | `IdentityInvariantHolds`, `VersionsAlwaysNameStates`, `WritesAlwaysAuthorized` | identity |
| | `MemoryInvariantHolds`, `AssembliesAreAtomic` | the organization memory |
| | `PlanInvariantHolds`, `TopologyAlwaysDecides`, `RevisionAlwaysReplacesSubgraph` | plans and their one revision, of any size |
| | `AllTypesHold` | `AllTypeOK` of all seven components |

### The arguments

**Dispatch, rows.** None of the properties is inductive alone: that the fence of
a finished run is in its history needs that its outbox is not still `leased`,
that a grant is failed when its run fails needs that the request was claimed
with it, that a cancellation sees the status its client read needs that no
transaction changes a status without moving the version. `RowsInvariant` is
their conjunction, run by run (`RowInv`): the two rows agree (`Agree`), nothing
has a version or fence before it exists (`Fresh`), the ledger (`Ledger`), the
attempts (`Attempts`), the approval rows (`Approved`), and what a client has
read (`Seen`). A transaction writes the rows of one run, so there is one lemma
per transaction, `StepSafe(r) /\ OnlyWrites(r)`, and one that carries the other
runs over (`SameRowsSafe`). `StepSafe` holds the invariant of the next state
together with the three action formulas, so one pass over the actions proves all
of them. `FencesDistinct` is inductive with `TypeOK`: only `Claim` issues a
fence, one larger than any issued for the run, and hands it to a slot that was
idle.

**Dispatch, counters.** Each transaction opens at most one outbox row and moves
`ready_count` of its partition with it, so the counts follow by the cardinality
of a set with one element more or less. The capacity check of admission adds up
all partitions; the sum is a fold over a set, and what a change of one partition
does to it is proved by taking the smallest set it would fail for.

**Dispatch, refinement.** The rows map to an empty queue at the start. Every
transaction is one step of `FencedQueue` (accept, lend under the next token,
give back, settle) or leaves it alone, and every step of a slot that writes no
row is a stutter; which one is read off from the lemma of its transaction.

**Recovery.** An answer is only believed by the last command in line, because a
retry is sent behind the attempts it replaces; those before it change the
coordinator's record but nothing the workflow knows. With that, what the
workflow counts as done is verified at the coordinator, at most the step at hand
is verified there alone, and every checkpoint of the first execution binds the
state the coordinator has when the command's turn comes. A revision keeps this
because `Downstream` stops at completed steps (`DownstreamAvoids`).

**Recovery, refinement.** `ExecutionInv`: a step the workflow counts, a verdict
and a receipt stand for an effect that was performed; whatever is pressed, at
the page or on its way to the Sandbox, has the effects it depends on performed;
and without late requests or revisions an effect performed has its receipt, under
the one key its step has. `NeverRepeats` is the condition: the
Sandbox refuses every repetition itself (`Repeatable = {}`), or no page sends
its request late and no scenario of the instance revises the plan (a revision
renames a step and thereby its key). It holds for `Recovery_faults`,
`Recovery_progress` and `Recovery_redelivery`; `Recovery_late`, where it fails,
is the run in which `EffectAtMostOnce` is violated.

**Approval.** The invariant says of each session, statement by statement, which
rows it holds and what it knows of them (`Deciding` ... `Cancelling`): of a row
it has locked what it has read is what is committed, of a request read before the
lock its version is that one as long as the grant is still issued. A lost update
would be two sessions with one lock. That a claim rests on approvals in force
needs that `disable_authority` locks every grant that rests on the authority,
that the statements of the event loop do not overlap (`OneOnLoop`), and that a
claim holds its grant from then on.

**Browser session.** At most one task holds the lock, and only the holder is
past an await inside it; closing starts once. The binding is that of the click
its holder performs. In a hybrid or recovery session whoever acts has named the
latest observation, and references older than what reached the page are with the
holder, who drops them. Observations are counted: one exhausts the limit and
closes the session, and each request left then makes at most one more.

**Audit chain.** What was written is a chain: each event carries the hash of the
one before. Damage changes the table, never what was written. Two chains with
one end hash are one chain (from the end backwards, `EndDeterminesChain`), so a
table that verifies against the head's hash is what was written, whatever was
damaged. Hashes are equal only for equal contents; that is the one assumption
about them.

**Admission.** A record of a key is inserted in the transaction that inserts its
run and takes its place in the queue, so the records, the runs, the answers and
`ready_count` stay in step under overlap. For a bucket that meets its requests
in the order of their clocks, what it holds plus what it has let through is at
most its burst plus its rate times the time that has passed.

**Agents.** A run that goes on is within its budgets (`WithinBudgets`) and has
left what the step it waits for may take (`Reserved`), so only the step that
ends a run can exceed one, and by no more than one answer or one image
(`Spent`). The repetitions counted include the actions sent in a row
(`Counted`). `can_request_vision` compares with the dearest image, so the image
a switch asks for is paid.

**Executor.** The step in turn divides the plan: those behind it are verified,
with all instructions done and their results in order; of the one in turn, the
instructions done and those left are all. A charge that exceeds its limit ends
the run before anything more is sent.

**Identity.** A row that changes takes the next version and never becomes active
again (`Moved`); an ETag a write was accepted with names a version that has
passed (`Past`), so it matches no second time; the user of a request that came
when he was not active is not active when it resolves (`Known`).

**Memory.** A preview that is not rejected is a chain of stores, one mutation
apart (`Chained`). Until another assembly writes to one of its memories, the
store agrees with the n-th of them on the memories of the batch once n mutations
are applied, and the context shows the last (`Accord`). A mutation reads and
writes its own memory only, so each is accepted as it was in the preview, and
after the last one the own memories the context shows are as the store holds
them. What a read leaves out is an argument about ranks: the records of a finite
store are ordered by field and id, the rank of one is how many come before it,
and a live record that is not shown has a rank of at least `ReadLimit`. Below a
record of that rank every smaller rank is taken exactly once (`Ranks`), so the
context shows `ReadLimit` records and all of them come before it (`ReadCuts`).

**Plans.** `Topology`, `Depths` and `Downstream` are recursive functions, so what
they compute is an induction over rounds, argued from the first round that would
be wrong. After k rounds the order has k steps, each once and behind those it
depends on, unless no step is ready (`Emitted`); so it is complete exactly when
every set of steps has one that depends on none of the set. Each round of
`Downstream` before the last that matters enters a step, hence as many rounds as
there are steps suffice, and the result is closed under dependents
(`DownstreamCloses`). The verified steps have all they depend on verified
(`PlanInv`), so the step at hand, which is the first of the order that is not
verified, depends on verified steps only; `Replaced` is then that step and
exactly what depends on it, and the revised plan is a copy of its parent under an
injective renaming (`Copy`). What `validate_dag` checks carries over to a copy:
the order is complete again because cycles map to cycles, edges, roots and
dependencies are counted through bijections, the depth of a step is the depth of
its copy because the equations of `Depths` have one solution on an acyclic plan
(`DepthsUnique`), and the rounds of `Downstream` map to each other. Recovery
uses the same lemmas for what a revision keeps.

**Types.** `AllTypeOK` follows from the seven invariants.

### What is only model-checked

`LeftOnlyWithoutSlots`, `ExecutionEnds` and `EverySessionReleased`: liveness under
fairness is out of the prover's reach. `PartTypeOK` of `Approval_race`, whose
counterpart for all instances is `ApprovalTypeCorrect`. Every other property of a
passing run is stated by a theorem above.

## 4. Not modelled

Parts of modelled components left out: of approvals,
`create_authority`, the lists, and `resume_execution_claim`, which only appends an
audit event; of the Browser Worker, what an action does to
a page, URL policies and `close_all`; of planning, the planner's providers and
what retrieval and selection choose (data: a refusal is all the control they
add); of the Sandbox, its single business routes. The rotation of partitions by
`last_selected_at`, that is how often one organization is served before another,
is left open in `Dispatch`. `complete` is one transaction there; the order in
which it locks rows, against that of `claim_next` and `cancel`, is not.

Left out for good: HTTP routing and schema validation, seed data and
configuration, what the events of a trace say and their export (of a trace only
its length decides anything), the
arena's fixtures and grader (a comparison of data), the user interfaces beyond
the ETag a client keeps, the browser and model providers behind their
interfaces, deployment manifests.
