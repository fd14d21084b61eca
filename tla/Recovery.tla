------------------------------ MODULE Recovery ------------------------------
(***************************************************************************)
(* Durable recovery of one run: the Temporal workflow that executes its    *)
(* plan step by step (recovery_worker/workflow.py), the coordinator that   *)
(* keeps the run's state in the memory of the Planning Agent               *)
(* (planning_agent/recovery.py), the click a step ends in, and the         *)
(* Sandbox transaction behind it (sandbox_api/idempotency.py).             *)
(*                                                                         *)
(* The workflow survives crashes; the coordinator's state and the browser  *)
(* session do not.  A command whose caller gave up is not recalled: it     *)
(* stays in line for the run's gate and is executed when its turn comes,   *)
(* and a click nobody waits for any more may still be committed.           *)
(***************************************************************************)
EXTENDS PlanGraph

CONSTANTS
    Plan,           \* the deterministic planner's DAG for this process
    Effects,        \* steps that change the Sandbox; the others only look
    Repeatable,     \* effects the Sandbox performs again if asked without a
                    \* known receipt: a second ticket breaks no constraint
    Scenarios,      \* fault scenarios a run may be started with
    MaxAttempts, MaxRecoveries, MaxReplans, MaxRevisions, MaxCheckpoints,
    MaxFaults,      \* WorkflowBudget
    MaxReceipts,    \* MAX_RECEIPTS_PER_TASK
    MaxExecutions,  \* bound: executions of the same run, one after another
    LateRequests    \* whether a page may send its request after the action
                    \* that clicked has timed out

\* The scenarios the workflow and the coordinator act on; a trusted fault of
\* an activity is a lost attempt, "browser_worker_restart_once" is
\* "browser_session_lost_once" after a pause.
FaultScenarios ==
    {"none", "browser_session_lost_once", "permanent_failure",
     "checkpoint_version_mismatch", "checkpoint_hash_mismatch",
     "idempotency_mismatch", "replan_eligible_once", "replan_disallowed"}

ASSUME RecoveryAssumption ==
    /\ Plan \in [Steps -> SUBSET Steps] /\ ValidDag(Plan)
    /\ Repeatable \subseteq Effects /\ Effects \subseteq Steps
    /\ Scenarios \subseteq FaultScenarios
    /\ MaxAttempts \in 1 .. 2 /\ MaxRecoveries \in 0 .. 2
    /\ MaxReplans \in 0 .. 1 /\ MaxRevisions \in 1 .. 2
    /\ MaxCheckpoints \in 1 .. 18 /\ MaxFaults \in 0 .. 2
    /\ MaxReceipts \in Nat \ {0} /\ MaxExecutions \in Nat \ {0}
    /\ LateRequests \in BOOLEAN

VARIABLES
    scenario,   \* start.fault_scenario
    wf,         \* the workflow: its local variables and the activity it awaits
    inbox,      \* commands in line for the run's gate; the first one holds it
    run,        \* _runs[run_id], or NoRun
    alive,      \* the coordinator's browser session still exists
    click,      \* the click the executing command waits for, or NoClick
    strays,     \* clicks in flight nobody waits for
    receipts,   \* keys in w8_operation_receipts
    effects     \* how often each effect was performed in the Sandbox

vars == <<scenario, wf, inbox, run, alive, click, strays, receipts, effects>>

NoPlan == <<>>
NoCheckpoint == [plan |-> NoPlan, revision |-> 0, epoch |-> 0]
NoRun == [plan |-> NoPlan, epoch |-> 0, verdicts |-> <<>>,
          injected |-> FALSE, ledger |-> 0]
NoClick == [key |-> <<0, 0>>, state |-> "none"]

Commands == {"start", "step", "refresh", "recover", "replan", "cleanup"}
Keys == (1 .. 2) \X Ids

\* DurableRecoveryWorkflow.run up to its first await.
Begun(n) ==
    [pc |-> "start", attempt |-> 1, sent |-> FALSE, execution |-> n,
     plan |-> NoPlan, completed |-> {}, revision |-> 1, epoch |-> 1,
     recoveries |-> 0, faults |-> 0, replans |-> 0, checkpoints |-> 0,
     checkpoint |-> NoCheckpoint, usage |-> 0,
     status |-> "failed", reason |-> "permanent_failure"]

Init ==
    /\ scenario \in Scenarios
    /\ wf = Begun(1)
    /\ inbox = <<>>
    /\ run = NoRun
    /\ alive = FALSE
    /\ click = NoClick
    /\ strays = {}
    /\ receipts = {}
    /\ effects = [s \in Effects |-> 0]

-----------------------------------------------------------------------------
(* The workflow between two awaits: from its state and what the awaited    *)
(* activity returned to the next activity.  "expired" is                   *)
(* workflow.now() > deadline, read once at the head of the loop.           *)

Await(w, command) == [w EXCEPT !.pc = command, !.attempt = 1, !.sent = FALSE]

Stop(w, reason) ==
    [Await(w, "cleanup") EXCEPT !.status = "failed", !.reason = reason]

Succeed(w) ==
    [Await(w, "cleanup") EXCEPT !.status = "finished_ungraded", !.reason = "completed"]

Loop(w, expired) ==
    CASE w.completed = DOMAIN w.plan -> Succeed(w)
      [] w.completed # DOMAIN w.plan /\ expired -> Stop(w, "budget_exhausted")
      [] OTHER -> Await(w, "step")

\* build_checkpoint, validate_checkpoint, checkpoints.append
Checkpointed(w) ==
    [w EXCEPT !.checkpoint = [plan |-> w.plan, revision |-> w.revision, epoch |-> w.epoch],
              !.checkpoints = @ + 1]

LoopCounted(w, expired) ==
    IF w.checkpoints > MaxCheckpoints THEN Stop(w, "budget_exhausted") ELSE Loop(w, expired)

AfterStart(w, result, expired) ==
    IF result.outcome # "started" THEN Stop(w, "permanent_failure")
    ELSE Loop(Checkpointed([w EXCEPT !.plan = result.plan]), expired)

AfterVerified(w, expired) ==
    LET c == [w EXCEPT !.completed = @ \cup {NextStep(w.plan, w.completed)}]
    IN  IF /\ scenario \in {"checkpoint_hash_mismatch", "checkpoint_version_mismatch"}
           /\ Cardinality(c.completed) = 1
        THEN Stop(c, "checkpoint_invalid")
        ELSE LoopCounted(Checkpointed(c), expired)

AfterReplanEligible(w) ==
    IF \/ scenario = "replan_disallowed"
       \/ w.replans >= MaxReplans
       \/ w.revision >= MaxRevisions
    THEN Stop(w, "replan_disallowed")
    ELSE Await([w EXCEPT !.revision = @ + 1], "replan")

AfterStepOutcome(w, outcome, expired) ==
    IF w.faults > MaxFaults THEN Stop(w, "budget_exhausted")
    ELSE CASE outcome = "verified" -> AfterVerified(w, expired)
           [] outcome = "session_lost" -> Await(w, "refresh")
           [] outcome = "replan_eligible" -> AfterReplanEligible(w)
           [] OTHER -> Stop(w, outcome)

Faulty(w, outcome) == w.attempt > 1 \/ outcome # "verified"

AfterStep(w, result, expired) ==
    AfterStepOutcome([w EXCEPT !.faults = IF Faulty(w, result.outcome) THEN @ + 1 ELSE @],
                     result.outcome, expired)

\* The outcome of the observation is not looked at.
AfterRefresh(w) ==
    IF w.recoveries >= MaxRecoveries THEN Stop(w, "recovery_exhausted")
    ELSE Await([w EXCEPT !.epoch = @ + 1], "recover")

\* Mutation: no checkpoint for the new epoch.
AfterRecoverUnsaved(w, result, expired) == Loop([w EXCEPT !.recoveries = @ + 1], expired)

AfterRecover(w, result, expired) ==
    LET r == [w EXCEPT !.recoveries = @ + 1]
    IN  IF result.outcome # "started" \/ result.epoch # r.epoch
        THEN Stop(r, "recovery_exhausted")
        ELSE LoopCounted(Checkpointed(r), expired)

\* Neither the outcome nor the number of checkpoints is looked at.
AfterReplan(w, result, expired) ==
    LET r == [w EXCEPT !.replans = @ + 1, !.plan = result.plan]
    IN  IF r.completed \subseteq DOMAIN r.plan THEN Loop(Checkpointed(r), expired)
        ELSE Stop(r, "replan_disallowed")

Finished(w) == [w EXCEPT !.pc = "done", !.attempt = 1, !.sent = FALSE]

\* _charge: planning usage that went back is an error.
Charged(w, result) == [w EXCEPT !.usage = result.ledger]
Resets(w, result) == result.ledger < w.usage

\* The answer to a cleanup carries no usage.
Resume(w, result, expired) ==
    LET c == Charged(w, result)
    IN  CASE w.pc = "cleanup" -> Finished(w)
          [] w.pc # "cleanup" /\ Resets(w, result) -> Stop(w, "permanent_failure")
          [] OTHER ->
               CASE w.pc = "start" -> AfterStart(c, result, expired)
                 [] w.pc = "step" -> AfterStep(c, result, expired)
                 [] w.pc = "refresh" -> AfterRefresh(c)
                 [] w.pc = "recover" -> AfterRecover(c, result, expired)
                 [] w.pc = "replan" -> AfterReplan(c, result, expired)

\* The awaited attempt failed.  Only "w8_execute_step" is retried.
AttemptFailed(w) ==
    CASE w.pc = "step" /\ w.attempt < MaxAttempts ->
            [w EXCEPT !.attempt = @ + 1, !.sent = FALSE]
      [] w.pc = "cleanup" ->
            IF w.status = "finished_ungraded"
            THEN [Finished(w) EXCEPT !.status = "failed", !.reason = "permanent_failure"]
            ELSE Finished(w)
      [] OTHER -> Stop(w, "permanent_failure")

\* Mutation: a step that only timed out is tried again for free.
TimedOutFree(w, expired) == Loop(w, expired)

\* _charge_recoverable_activity_error and what follows it
TimedOut(w, expired) ==
    LET c == [w EXCEPT !.faults = @ + 1]
    IN  IF c.faults > MaxFaults THEN Stop(c, "budget_exhausted") ELSE Loop(c, expired)

\* The attempt failed with ReadTimeout.
AttemptTimedOut(w, expired) ==
    IF w.pc = "step" /\ w.attempt = MaxAttempts THEN TimedOut(w, expired)
    ELSE AttemptFailed(w)

-----------------------------------------------------------------------------
(* Attempts: sent to the coordinator, answered, or given up                *)

Awaiting == wf.pc # "done"

\* Mutation: a command is not told from one whose caller gave up.
StillLive(requests) == requests

Abandoned(requests) == [i \in DOMAIN requests |-> [requests[i] EXCEPT !.live = FALSE]]

\* request() and PlanningRecoveryClient.invoke
Send ==
    /\ Awaiting /\ ~wf.sent
    /\ inbox' = Append(inbox,
          [command |-> wf.pc,
           step |-> IF wf.completed = DOMAIN wf.plan THEN 0 ELSE NextStep(wf.plan, wf.completed),
           revision |-> wf.revision, epoch |-> wf.epoch,
           checkpoint |-> wf.checkpoint, live |-> TRUE])
    /\ wf' = [wf EXCEPT !.sent = TRUE]
    /\ UNCHANGED <<scenario, run, alive, click, strays, receipts, effects>>

\* The worker stops, start_to_close passes, the connection breaks, or a
\* trusted activity fault is raised before or after the call.
LoseAttempt ==
    /\ Awaiting
    /\ wf' = AttemptFailed(wf)
    /\ inbox' = Abandoned(inbox)
    /\ UNCHANGED <<scenario, run, alive, click, strays, receipts, effects>>

\* httpx.ReadTimeout, raised before start_to_close
TimeOut ==
    /\ Awaiting /\ wf.sent
    /\ \E expired \in BOOLEAN : wf' = AttemptTimedOut(wf, expired)
    /\ inbox' = Abandoned(inbox)
    /\ UNCHANGED <<scenario, run, alive, click, strays, receipts, effects>>

-----------------------------------------------------------------------------
(* The coordinator: one command of the run at a time, in the order they    *)
(* took their place in line (_run_gates).                                  *)

Serving == inbox # <<>>
Request == Head(inbox)
Free(command) == Serving /\ click = NoClick /\ Request.command = command

Result(outcome, r) ==
    [outcome |-> outcome, ledger |-> r.ledger, plan |-> r.plan, epoch |-> r.epoch]

Answered(result) ==
    /\ inbox' = Tail(inbox)
    /\ IF Request.live THEN \E expired \in BOOLEAN : wf' = Resume(wf, result, expired)
       ELSE wf' = wf

\* The handler raises; the caller sees an HTTP error.
Raised ==
    /\ inbox' = Tail(inbox)
    /\ wf' = IF Request.live THEN AttemptFailed(wf) ELSE wf

\* _validate_checkpoint
Bound(request) ==
    /\ request.checkpoint.plan = run.plan
    /\ request.checkpoint.epoch = run.epoch
    /\ request.checkpoint.revision + (IF request.command = "replan" THEN 1 ELSE 0)
           = request.revision

Accepted(command) == Free(command) /\ run # NoRun /\ Bound(Request)

Charging(r) == [r EXCEPT !.ledger = @ + 1]

BeginRun ==
    /\ Free("start") /\ run = NoRun
    /\ run' = [NoRun EXCEPT !.plan = Plan, !.epoch = Request.epoch, !.ledger = 1]
    /\ alive' = TRUE
    /\ Answered(Result("started", run'))
    /\ UNCHANGED <<scenario, click, strays, receipts, effects>>

\* create_recovery_session fails: nothing is registered.
BeginFails ==
    /\ Free("start") /\ run = NoRun
    /\ Raised
    /\ UNCHANGED <<scenario, run, alive, click, strays, receipts, effects>>

\* "existing recovery run resumed"
ResumeRun ==
    /\ Free("start") /\ run # NoRun
    /\ Answered(Result("started", run))
    /\ UNCHANGED <<scenario, run, alive, click, strays, receipts, effects>>

\* _require_state
Unknown ==
    /\ Serving /\ click = NoClick /\ Request.command # "start" /\ run = NoRun
    /\ Raised
    /\ UNCHANGED <<scenario, run, alive, click, strays, receipts, effects>>

\* "Checkpoint does not bind current recovery state"
Stale ==
    /\ Serving /\ click = NoClick /\ Request.command \notin {"start", "cleanup"}
    /\ run # NoRun /\ ~Bound(Request)
    /\ Raised
    /\ UNCHANGED <<scenario, run, alive, click, strays, receipts, effects>>

CleanUp ==
    /\ Free("cleanup") /\ run # NoRun
    /\ run' = NoRun
    /\ alive' = FALSE
    /\ Answered(Result("cleaned", run))
    /\ UNCHANGED <<scenario, click, strays, receipts, effects>>

Refresh ==
    /\ Accepted("refresh")
    /\ \/ /\ alive
          /\ run' = Charging(run)
          /\ Answered(Result("started", run'))
       \/ /\ Answered(Result("session_lost", run))
          /\ UNCHANGED run
    /\ UNCHANGED <<scenario, alive, click, strays, receipts, effects>>

NewEpoch(r, epoch) == Charging([r EXCEPT !.epoch = epoch])

\* Closes the session it had and creates the session of the next epoch.
Recover ==
    /\ Accepted("recover")
    /\ IF Request.epoch # run.epoch + 1 \/ Request.epoch > 3
       THEN /\ Answered(Result("permanent_failure", run))
            /\ UNCHANGED <<run, alive>>
       ELSE /\ run' = NewEpoch(run, Request.epoch)
            /\ alive' = TRUE
            /\ Answered(Result("started", run'))
    /\ UNCHANGED <<scenario, click, strays, receipts, effects>>

\* ... and fails to create it.
RecoverFails ==
    /\ Accepted("recover")
    /\ alive' = FALSE
    /\ Raised
    /\ UNCHANGED <<scenario, run, click, strays, receipts, effects>>

Replan ==
    /\ Accepted("replan")
    /\ IF ~Replannable(run.plan, Request.step, DOMAIN run.verdicts)
       THEN Raised /\ UNCHANGED run
       ELSE LET revised == PartialReplan(run.plan, Request.step, DOMAIN run.verdicts)
            IN  IF Request.revision # 2 \/ ~ValidDag(revised)
                THEN Answered(Result("permanent_failure", run)) /\ UNCHANGED run
                ELSE /\ run' = [run EXCEPT !.plan = revised]
                     /\ Answered(Result("started", run'))
    /\ UNCHANGED <<scenario, alive, click, strays, receipts, effects>>

-----------------------------------------------------------------------------
(* The coordinator executes a step                                         *)

AlreadyVerified ==
    /\ Accepted("step") /\ Request.step \in DOMAIN run.verdicts
    /\ Answered(Result("verified", [run EXCEPT !.ledger = run.verdicts[Request.step]]))
    /\ UNCHANGED <<scenario, run, alive, click, strays, receipts, effects>>

Unverified == Accepted("step") /\ Request.step \notin DOMAIN run.verdicts

\* The scenario's fault is still to come.
Armed(scenarios) == scenario \in scenarios /\ ~run.injected
LossArmed == Armed({"browser_session_lost_once"})
ReplanArmed == Armed({"replan_eligible_once", "replan_disallowed"}) /\ run.verdicts # <<>>

Refusable ==
    \/ Request.step \notin DOMAIN run.plan
    \/ Armed({"permanent_failure"})
    \/ /\ ~LossArmed /\ ~ReplanArmed
       /\ ~(run.plan[Request.step] \subseteq DOMAIN run.verdicts)

Refused ==
    /\ Unverified /\ Refusable
    /\ run' = [run EXCEPT !.injected = @ \/ scenario = "permanent_failure"]
    /\ Answered(Result("permanent_failure", run))
    /\ UNCHANGED <<scenario, alive, click, strays, receipts, effects>>

InjectedLoss ==
    /\ Unverified /\ ~Refusable /\ LossArmed
    /\ run' = [run EXCEPT !.injected = TRUE]
    /\ alive' = FALSE
    /\ Answered(Result("session_lost", run))
    /\ UNCHANGED <<scenario, click, strays, receipts, effects>>

InjectedReplan ==
    /\ Unverified /\ ~Refusable /\ ReplanArmed
    /\ run' = [run EXCEPT !.injected = TRUE]
    /\ Answered(Result("replan_eligible", run))
    /\ UNCHANGED <<scenario, alive, click, strays, receipts, effects>>

Executing == Unverified /\ ~Refusable /\ ~LossArmed /\ ~ReplanArmed

IsEffect(step) == Origin(step) \in Effects

\* Mutation: the step is reported verified and not recorded.
Unrecorded(r, step) == r

\* state.completed.add and completed_results
Verified(r, step) ==
    [r EXCEPT !.verdicts = [s \in DOMAIN @ \cup {step} |->
                               IF s \in DOMAIN @ THEN @[s] ELSE r.ledger]]

\* A step that changes nothing
Look ==
    /\ Executing /\ alive /\ ~IsEffect(Request.step)
    /\ run' = Verified(Charging(run), Request.step)
    /\ Answered(Result("verified", run'))
    /\ UNCHANGED <<scenario, alive, click, strays, receipts, effects>>

\* An instruction fails, or the verifier's answer, before a button is pressed.
ActFails ==
    /\ Executing
    /\ run' = Charging(run)
    /\ \E outcome \in {"session_lost", "permanent_failure"} : Answered(Result(outcome, run'))
    /\ UNCHANGED <<scenario, alive, click, strays, receipts, effects>>

\* Mutation: the key does not name the step's revision but the session's epoch.
KeyByEpoch(request) == <<request.epoch, request.step>>

\* build_binding
KeyOf(request) == <<request.revision, request.step>>

\* The button is pressed and the response is waited for.  The scenario
\* "idempotency_mismatch" sends a hash the Sandbox rejects.
PressButton ==
    /\ Executing /\ alive /\ IsEffect(Request.step)
    /\ click' = [key |-> KeyOf(Request),
                 state |-> IF Armed({"idempotency_mismatch"}) THEN "mismatch" ELSE "flying"]
    /\ run' = [Charging(run) EXCEPT !.injected = @ \/ scenario = "idempotency_mismatch"]
    /\ UNCHANGED <<scenario, wf, inbox, alive, strays, receipts, effects>>

\* Mutation: the step goes on to its verification without the response.
Unawaited == click.state \in {"done", "flying"}

Committed == click.state = "done"

Confirm ==
    /\ Committed
    /\ run' = Verified(run, Request.step)
    /\ Answered(Result("verified", run'))
    /\ click' = NoClick
    /\ UNCHANGED <<scenario, alive, strays, receipts, effects>>

\* The verifier rejects the step, or a limit of the ledger is reached.
NotConfirmed ==
    /\ Committed
    /\ Answered(Result("permanent_failure", run))
    /\ click' = NoClick
    /\ UNCHANGED <<scenario, run, alive, strays, receipts, effects>>

Mismatched ==
    /\ click.state = "mismatch"
    /\ Answered(Result("idempotency_mismatch", run))
    /\ click' = NoClick
    /\ UNCHANGED <<scenario, run, alive, strays, receipts, effects>>

\* expect_response times out, or the session is gone.  recovery_binding is
\* cleared: a request the page has yet to send goes without its headers.
GiveUp ==
    /\ click # NoClick
    /\ Answered(Result("session_lost", run))
    /\ click' = NoClick
    /\ \/ /\ click.state = "flying"
          /\ \E bound \in {TRUE, ~LateRequests} :
                strays' = strays \cup {[key |-> click.key, bound |-> bound]}
       \/ /\ click.state # "flying"
          /\ UNCHANGED strays
    /\ UNCHANGED <<scenario, run, alive, receipts, effects>>

-----------------------------------------------------------------------------
(* The Sandbox: one transaction per request (execute_idempotent)           *)

Replayed(key, bound) == bound /\ key \in receipts

Commits(key, bound) ==
    /\ ~Replayed(key, bound)
    /\ bound => Cardinality(receipts) < MaxReceipts
    /\ effects[Origin(key[2])] = 0 \/ Origin(key[2]) \in Repeatable

Landed(key, bound) ==
    IF Commits(key, bound)
    THEN /\ effects' = [effects EXCEPT ![Origin(key[2])] = @ + 1]
         /\ receipts' = IF bound THEN receipts \cup {key} ELSE receipts
    ELSE UNCHANGED <<effects, receipts>>

ClickLands ==
    /\ click.state = "flying"
    /\ Landed(click.key, TRUE)
    /\ click' = [click EXCEPT !.state =
                    IF Replayed(click.key, TRUE) \/ Commits(click.key, TRUE)
                    THEN "done" ELSE "mismatch"]
    /\ UNCHANGED <<scenario, wf, inbox, run, alive, strays>>

StrayLands ==
    /\ \E s \in strays : Landed(s.key, s.bound) /\ strays' = strays \ {s}
    /\ UNCHANGED <<scenario, wf, inbox, run, alive, click>>

-----------------------------------------------------------------------------
(* Crashes, and another execution of the same run                          *)

SessionDies ==
    /\ alive
    /\ alive' = FALSE
    /\ UNCHANGED <<scenario, wf, inbox, run, click, strays, receipts, effects>>

\* The Planning Agent stops, or close_all: its memory is gone, its callers
\* see the connection break.
CoordinatorRestarts ==
    /\ run # NoRun \/ inbox # <<>>
    /\ run' = NoRun /\ alive' = FALSE
    /\ inbox' = <<>>
    /\ wf' = IF wf.sent THEN AttemptFailed(wf) ELSE wf
    /\ click' = NoClick
    /\ strays' = IF click.state = "flying"
                 THEN strays \cup {[key |-> click.key, bound |-> TRUE]} ELSE strays
    /\ UNCHANGED <<scenario, receipts, effects>>

\* The dispatcher starts the workflow again after it ended, under its id and
\* always without a fault scenario.
Redeliver ==
    /\ ~Awaiting /\ wf.execution < MaxExecutions /\ scenario = "none"
    /\ wf' = Begun(wf.execution + 1)
    /\ UNCHANGED <<scenario, inbox, run, alive, click, strays, receipts, effects>>

Next ==
    \/ Send \/ LoseAttempt \/ TimeOut
    \/ BeginRun \/ BeginFails \/ ResumeRun \/ Unknown \/ Stale \/ CleanUp
    \/ Refresh \/ Recover \/ RecoverFails \/ Replan
    \/ AlreadyVerified \/ Refused \/ InjectedLoss \/ InjectedReplan
    \/ Look \/ ActFails \/ PressButton \/ Confirm \/ NotConfirmed \/ Mismatched \/ GiveUp
    \/ ClickLands \/ StrayLands
    \/ SessionDies \/ CoordinatorRestarts \/ Redeliver

Spec == Init /\ [][Next]_vars

\* Every attempt ends: it is answered or its timer fires.  Nothing else is
\* assumed to happen.
FairSpec == Spec /\ WF_vars(Awaiting /\ Next /\ wf' # wf)

-----------------------------------------------------------------------------
(* Properties                                                              *)

\* An execution goes beyond no limit of WorkflowBudget by more than the fault
\* that ends it and the checkpoint a revision adds unchecked.
WithinBudgets ==
    /\ wf.epoch <= MaxRecoveries + 1
    /\ wf.revision <= MaxRevisions
    /\ wf.faults <= MaxFaults + 1
    /\ wf.checkpoints <= MaxCheckpoints + 1 + wf.replans

\* TypeOK: the state has the shape its variables' comments give it, and its
\* counters the bounds the budgets give them.
TypeOK ==
    /\ scenario \in Scenarios
    /\ wf.pc \in Commands \cup {"done"} /\ wf.attempt \in 1 .. MaxAttempts
    /\ wf.sent \in BOOLEAN /\ wf.execution \in 1 .. MaxExecutions
    /\ wf.completed \subseteq Ids /\ wf.status \in {"failed", "finished_ungraded"}
    /\ \A i \in DOMAIN inbox : inbox[i].live => wf.sent /\ i = Len(inbox)
    /\ run # NoRun => ValidDag(run.plan) /\ DOMAIN run.verdicts \subseteq DOMAIN run.plan
    /\ alive => run # NoRun
    /\ click # NoClick => inbox # <<>> /\ click.key \in Keys
    /\ \A s \in strays : s.key \in Keys
    /\ receipts \subseteq Keys
    /\ effects \in [Effects -> Nat]
    /\ WithinBudgets

\* The effects a step comes after, whatever lies between them
Before == [e \in Effects |-> {d \in Effects \ {e} : e \in Downstream(Plan, {d}, {})}]

\* ExecutesPlan: seen from the Sandbox the run, all its executions together,
\* performs each effect of the plan once, after the effects it depends on,
\* and is reported finished only when it has performed them all.
Abstract == INSTANCE OrderedEffects WITH
    Effects <- Effects,
    Before <- Before,
    count <- effects,
    finished <- wf.pc = "done" /\ wf.status = "finished_ungraded"
ExecutesPlan == Abstract!Spec

\* EffectAtMostOnce: no attempt, retry, recovered session, stray click or
\* later execution of the run makes the Sandbox perform an effect again.
EffectAtMostOnce == \A e \in Effects : effects[e] <= 1

\* ProgressAgrees: what the durable workflow counts as done is verified in
\* the coordinator's memory, as long as that lives, and at most the current
\* step is verified there without the workflow knowing.  Neither the run's
\* ledger nor a stored answer still to be counted is behind what the workflow
\* counted, so "Planning usage counters cannot reset" never fails it.
ProgressAgrees ==
    wf.execution = 1 /\ run # NoRun =>
        /\ wf.completed \subseteq DOMAIN run.verdicts
        /\ run.ledger >= wf.usage
        /\ \A s \in DOMAIN run.verdicts \ wf.completed :
              s = NextStep(wf.plan, wf.completed) /\ run.verdicts[s] >= wf.usage

\* OwnCheckpointAccepted: through recoveries, a revision and commands left in
\* line by attempts given up, a checkpoint of the run's first execution always
\* binds the state the coordinator has when the command's turn comes.
OwnCheckpointAccepted ==
    wf.execution = 1 /\ run # NoRun /\ Serving /\ click = NoClick
    /\ Request.live /\ Request.command \notin {"start", "cleanup"}
        => Bound(Request)

\* ExecutionEnds: whatever the coordinator, the session and the Sandbox do or
\* fail to do, the workflow comes to its end.
ExecutionEnds == []<>(wf.pc = "done")
=============================================================================
