--------------------------- MODULE RecoveryProofs ---------------------------
(***************************************************************************)
(* The durable recovery of a run, proved for every plan, every budget and  *)
(* every number of executions: what the workflow counts agrees with what   *)
(* the coordinator remembers, its checkpoints are accepted, and its        *)
(* budgets hold.                                                           *)
(***************************************************************************)
EXTENDS Recovery, PlanGraphProofs

-----------------------------------------------------------------------------
(* The inductive invariant.  An answer somebody waits for is always the    *)
(* answer to the last command in line, so the workflow moves on only with  *)
(* an empty line behind it: every command of the first execution that is   *)
(* still in line carries the workflow's present step, revision, epoch and  *)
(* checkpoint, whether its caller gave up or not.                          *)

Replanning == {"replan_eligible_once", "replan_disallowed"}

StepOf(w) == IF w.completed = DOMAIN w.plan THEN 0 ELSE NextStep(w.plan, w.completed)

Running(w) == w.pc \notin {"cleanup", "done"}

Fresh(w) ==
    /\ w.completed = {} /\ w.usage = 0 /\ w.plan = NoPlan /\ w.checkpoint = NoCheckpoint
    /\ w.revision = 1 /\ w.epoch = 1 /\ w.recoveries = 0 /\ w.faults = 0
    /\ w.replans = 0 /\ w.checkpoints = 0

Shape(w) ==
    w \in [pc : Commands \cup {"done"}, attempt : 1 .. MaxAttempts, sent : BOOLEAN,
           execution : 1 .. MaxExecutions, plan : {w.plan}, completed : SUBSET Ids,
           revision : Nat \ {0}, epoch : Nat, recoveries : Nat, faults : Nat,
           replans : Nat, checkpoints : Nat, checkpoint : {w.checkpoint}, usage : Nat,
           status : {"failed", "finished_ungraded"}, reason : {w.reason}]

Capped(w) ==
    /\ w.epoch <= MaxRecoveries + 1 /\ w.revision <= MaxRevisions
    /\ w.faults <= MaxFaults + 1 /\ w.checkpoints <= MaxCheckpoints + 1 + w.replans

InLimits(w) ==
    /\ w.faults <= MaxFaults
    /\ w.checkpoints <= MaxCheckpoints + w.replans
    /\ w.epoch = w.recoveries + (IF w.pc = "recover" THEN 2 ELSE 1)

Saved(w) ==
    w.pc \in {"step", "refresh", "recover", "replan"} =>
        w.checkpoint =
            [plan |-> w.plan,
             revision |-> IF w.pc = "replan" THEN w.revision - 1 ELSE w.revision,
             epoch |-> IF w.pc = "recover" THEN w.epoch - 1 ELSE w.epoch]

Original(w) ==
    /\ w.checkpoint.revision \in Nat
    /\ w.execution = 1 =>
          /\ w.revision = 1 => DOMAIN w.plan \subseteq Steps
          /\ w.checkpoint.revision = 1 => DOMAIN w.checkpoint.plan \subseteq Steps

WorkflowOK(w) ==
    /\ Shape(w) /\ Capped(w) /\ Saved(w) /\ Original(w)
    /\ Running(w) => InLimits(w)
    /\ w.pc = "start" => Fresh(w)
    /\ w.pc = "step" => w.completed # DOMAIN w.plan
    /\ w.pc = "replan" => w.revision >= 2
    /\ w.pc = "done" => ~w.sent

Own(q, w) ==
    /\ q.step = StepOf(w) /\ q.revision = w.revision /\ q.epoch = w.epoch
    /\ q.checkpoint = w.checkpoint
    /\ q.command = "start" => w.completed = {} /\ w.usage = 0
    /\ q.command = "step" => w.completed # DOMAIN w.plan

RequestOK(q, w, s) ==
    /\ q \in [command : Commands, step : {q.step}, revision : 1 .. 2, epoch : Nat,
              checkpoint : {q.checkpoint}, live : BOOLEAN]
    /\ q.command = "replan" \/ q.revision # 1 => s \in Replanning
    /\ q.live \/ w.execution = 1 => Own(q, w)
    /\ q.live => w.sent /\ q.command = w.pc
    /\ w.execution = 1 /\ Running(w) => q.command = w.pc /\ (q.live \/ w.pc = "step")

IsSequence(q) == q \in Seq({q[i] : i \in DOMAIN q})

InboxOK(q, w, s) ==
    /\ IsSequence(q)
    /\ \A i \in 1 .. Len(q) : RequestOK(q[i], w, s) /\ (q[i].live => i = Len(q))

RunShape(r) ==
    r \in [plan : {r.plan}, epoch : Nat, verdicts : {r.verdicts},
           injected : BOOLEAN, ledger : Nat]

RunOK(r) ==
    /\ RunShape(r)
    /\ DOMAIN r.plan \subseteq Ids /\ DOMAIN r.verdicts \subseteq DOMAIN r.plan
    /\ \A s \in DOMAIN r.verdicts : r.verdicts[s] \in 0 .. r.ledger
    /\ r # NoRun => ValidDag(r.plan) /\ r.ledger >= 1

ClickOK(c, q, r) ==
    c # NoClick =>
        /\ c \in [key : Keys, state : {"flying", "mismatch", "done"}]
        /\ q # <<>> /\ r # NoRun /\ Head(q).command = "step"
        /\ Head(q).step \in DOMAIN r.plan \ DOMAIN r.verdicts

ScenarioOK(s, w) ==
    /\ s \in Scenarios
    /\ s # "none" => w.execution = 1
    /\ w.pc = "replan" \/ w.revision # 1 => s \in Replanning

SandboxOK ==
    /\ \A s \in strays : s.key \in Keys
    /\ receipts \subseteq Keys
    /\ effects \in [Effects -> Nat]

Progress(w, r) ==
    /\ w.completed \subseteq DOMAIN r.verdicts
    /\ r.ledger >= w.usage
    /\ \A s \in DOMAIN r.verdicts \ w.completed :
          s = NextStep(w.plan, w.completed) /\ r.verdicts[s] >= w.usage
    /\ w.pc \in {"refresh", "recover", "replan"} => DOMAIN r.verdicts \subseteq w.completed

Matches(w, r) ==
    /\ w.pc # "start"
    /\ w.pc \in {"step", "refresh", "recover", "replan"} =>
          w.checkpoint.plan = r.plan /\ w.checkpoint.epoch = r.epoch

FirstOK(w, r) == w.execution = 1 /\ r # NoRun => Progress(w, r) /\ Matches(w, r)

RecoveryInv ==
    /\ WorkflowOK(wf) /\ InboxOK(inbox, wf, scenario)
    /\ RunOK(run) /\ (alive => run # NoRun)
    /\ ClickOK(click, inbox, run)
    /\ ScenarioOK(scenario, wf)
    /\ SandboxOK
    /\ FirstOK(wf, run)

-----------------------------------------------------------------------------
(* The workflow's record: what an assignment changes and what it leaves    *)

SameCall(u, w) ==
    u.pc = w.pc /\ u.attempt = w.attempt /\ u.sent = w.sent
SameWork(u, w) ==
    u.execution = w.execution /\ u.plan = w.plan /\ u.completed = w.completed /\ u.usage = w.usage
SamePlace(u, w) ==
    u.revision = w.revision /\ u.epoch = w.epoch /\ u.checkpoint = w.checkpoint
SameCounts(u, w) ==
    u.recoveries = w.recoveries /\ u.faults = w.faults /\ u.replans = w.replans /\ u.checkpoints = w.checkpoints
SameEnd(u, w) ==
    u.status = w.status /\ u.reason = w.reason

Called(w, c, n) == [w EXCEPT !.pc = c, !.attempt = n, !.sent = FALSE]
Ended(w, s, r) == [w EXCEPT !.status = s, !.reason = r]
Retried(w, n) == [w EXCEPT !.attempt = n, !.sent = FALSE]
Completing(w, c) == [w EXCEPT !.completed = c]
Revised(w, n) == [w EXCEPT !.revision = n]
InEpoch(w, n) == [w EXCEPT !.epoch = n]
Recovering(w, n) == [w EXCEPT !.recoveries = n]
WithFaults(w, n) == [w EXCEPT !.faults = n]
WithUsage(w, n) == [w EXCEPT !.usage = n]
WithPlan(w, p) == [w EXCEPT !.plan = p]
Replanned(w, n, p) == [w EXCEPT !.replans = n, !.plan = p]
WithCheckpoint(w, c, n) == [w EXCEPT !.checkpoint = c, !.checkpoints = n]

LEMMA SentFields ==
    ASSUME NEW w, Shape(w), NEW u, u = [w EXCEPT !.sent = TRUE]
    PROVE  /\ Shape(u) /\ u.sent /\ u.pc = w.pc /\ u.attempt = w.attempt
           /\ SameWork(u, w) /\ SamePlace(u, w) /\ SameCounts(u, w) /\ SameEnd(u, w)
  BY DEF Shape, SameWork, SamePlace, SameCounts, SameEnd

LEMMA CalledFields ==
    ASSUME NEW w, Shape(w), NEW c \in Commands \cup {"done"}, NEW n \in 1 .. MaxAttempts, NEW u, u = Called(w, c, n)
    PROVE  /\ Shape(u)
           /\ u.pc = c /\ u.attempt = n /\ ~u.sent
           /\ SameWork(u, w) /\ SamePlace(u, w) /\ SameCounts(u, w) /\ SameEnd(u, w)
  BY DEF Shape, Called, SameCall, SameWork, SamePlace, SameCounts, SameEnd

LEMMA EndedFields ==
    ASSUME NEW w, Shape(w), NEW s \in {"failed", "finished_ungraded"}, NEW r, NEW u, u = Ended(w, s, r)
    PROVE  /\ Shape(u)
           /\ u.status = s /\ u.reason = r
           /\ SameCall(u, w) /\ SameWork(u, w) /\ SamePlace(u, w)
           /\ SameCounts(u, w)
  BY DEF Shape, Ended, SameCall, SameWork, SamePlace, SameCounts, SameEnd

LEMMA RetriedFields ==
    ASSUME NEW w, Shape(w), NEW n \in 1 .. MaxAttempts, NEW u, u = Retried(w, n)
    PROVE  /\ Shape(u)
           /\ u.attempt = n /\ ~u.sent
           /\ u.pc = w.pc /\ SameWork(u, w) /\ SamePlace(u, w) /\ SameCounts(u, w)
           /\ SameEnd(u, w)
  BY DEF Shape, Retried, SameCall, SameWork, SamePlace, SameCounts, SameEnd

LEMMA CompletingFields ==
    ASSUME NEW w, Shape(w), NEW c \in SUBSET Ids, NEW u, u = Completing(w, c)
    PROVE  /\ Shape(u)
           /\ u.completed = c
           /\ SameCall(u, w) /\ u.execution = w.execution /\ u.plan = w.plan
           /\ u.usage = w.usage /\ SamePlace(u, w) /\ SameCounts(u, w)
           /\ SameEnd(u, w)
  BY DEF Shape, Completing, SameCall, SameWork, SamePlace, SameCounts, SameEnd

LEMMA RevisedFields ==
    ASSUME NEW w, Shape(w), NEW n \in Nat \ {0}, NEW u, u = Revised(w, n)
    PROVE  /\ Shape(u)
           /\ u.revision = n
           /\ SameCall(u, w) /\ SameWork(u, w) /\ u.epoch = w.epoch
           /\ u.checkpoint = w.checkpoint /\ SameCounts(u, w) /\ SameEnd(u, w)
  BY DEF Shape, Revised, SameCall, SameWork, SamePlace, SameCounts, SameEnd

LEMMA InEpochFields ==
    ASSUME NEW w, Shape(w), NEW n \in Nat, NEW u, u = InEpoch(w, n)
    PROVE  /\ Shape(u)
           /\ u.epoch = n
           /\ SameCall(u, w) /\ SameWork(u, w) /\ u.revision = w.revision
           /\ u.checkpoint = w.checkpoint /\ SameCounts(u, w) /\ SameEnd(u, w)
  BY DEF Shape, InEpoch, SameCall, SameWork, SamePlace, SameCounts, SameEnd

LEMMA RecoveringFields ==
    ASSUME NEW w, Shape(w), NEW n \in Nat, NEW u, u = Recovering(w, n)
    PROVE  /\ Shape(u)
           /\ u.recoveries = n
           /\ SameCall(u, w) /\ SameWork(u, w) /\ SamePlace(u, w)
           /\ u.faults = w.faults /\ u.replans = w.replans
           /\ u.checkpoints = w.checkpoints /\ SameEnd(u, w)
  BY DEF Shape, Recovering, SameCall, SameWork, SamePlace, SameCounts, SameEnd

LEMMA WithFaultsFields ==
    ASSUME NEW w, Shape(w), NEW n \in Nat, NEW u, u = WithFaults(w, n)
    PROVE  /\ Shape(u)
           /\ u.faults = n
           /\ SameCall(u, w) /\ SameWork(u, w) /\ SamePlace(u, w)
           /\ u.recoveries = w.recoveries /\ u.replans = w.replans
           /\ u.checkpoints = w.checkpoints /\ SameEnd(u, w)
  BY DEF Shape, WithFaults, SameCall, SameWork, SamePlace, SameCounts, SameEnd

LEMMA WithUsageFields ==
    ASSUME NEW w, Shape(w), NEW n \in Nat, NEW u, u = WithUsage(w, n)
    PROVE  /\ Shape(u)
           /\ u.usage = n
           /\ SameCall(u, w) /\ u.execution = w.execution /\ u.plan = w.plan
           /\ u.completed = w.completed /\ SamePlace(u, w) /\ SameCounts(u, w)
           /\ SameEnd(u, w)
  BY DEF Shape, WithUsage, SameCall, SameWork, SamePlace, SameCounts, SameEnd

LEMMA WithPlanFields ==
    ASSUME NEW w, Shape(w), NEW p, NEW u, u = WithPlan(w, p)
    PROVE  /\ Shape(u)
           /\ u.plan = p
           /\ SameCall(u, w) /\ u.execution = w.execution
           /\ u.completed = w.completed /\ u.usage = w.usage /\ SamePlace(u, w)
           /\ SameCounts(u, w) /\ SameEnd(u, w)
  BY DEF Shape, WithPlan, SameCall, SameWork, SamePlace, SameCounts, SameEnd

LEMMA ReplannedFields ==
    ASSUME NEW w, Shape(w), NEW n \in Nat, NEW p, NEW u, u = Replanned(w, n, p)
    PROVE  /\ Shape(u)
           /\ u.replans = n /\ u.plan = p
           /\ SameCall(u, w) /\ u.execution = w.execution
           /\ u.completed = w.completed /\ u.usage = w.usage /\ SamePlace(u, w)
           /\ u.recoveries = w.recoveries /\ u.faults = w.faults
           /\ u.checkpoints = w.checkpoints /\ SameEnd(u, w)
  BY DEF Shape, Replanned, SameCall, SameWork, SamePlace, SameCounts, SameEnd

LEMMA WithCheckpointFields ==
    ASSUME NEW w, Shape(w), NEW c, NEW n \in Nat, NEW u, u = WithCheckpoint(w, c, n)
    PROVE  /\ Shape(u)
           /\ u.checkpoint = c /\ u.checkpoints = n
           /\ SameCall(u, w) /\ SameWork(u, w) /\ u.revision = w.revision
           /\ u.epoch = w.epoch /\ u.recoveries = w.recoveries
           /\ u.faults = w.faults /\ u.replans = w.replans /\ SameEnd(u, w)
  BY DEF Shape, WithCheckpoint, SameCall, SameWork, SamePlace, SameCounts, SameEnd
LEMMA AwaitFields ==
    ASSUME NEW w, Shape(w), NEW c \in Commands, NEW u, u = Await(w, c)
    PROVE  /\ Shape(u) /\ u.pc = c /\ u.attempt = 1 /\ ~u.sent
           /\ SameWork(u, w) /\ SamePlace(u, w) /\ SameCounts(u, w) /\ SameEnd(u, w)
  <1>1. 1 \in 1 .. MaxAttempts /\ c \in Commands \cup {"done"}
    BY RecoveryAssumption
  <1>2. u = Called(w, c, 1)
    BY DEF Await, Called
  <1>3. QED
    BY <1>1, <1>2, CalledFields

LEMMA FinishedFields ==
    ASSUME NEW w, Shape(w), NEW u, u = Finished(w)
    PROVE  /\ Shape(u) /\ u.pc = "done" /\ ~u.sent
           /\ SameWork(u, w) /\ SamePlace(u, w) /\ SameCounts(u, w) /\ SameEnd(u, w)
  <1>1. 1 \in 1 .. MaxAttempts /\ "done" \in Commands \cup {"done"}
    BY RecoveryAssumption
  <1>2. u = Called(w, "done", 1)
    BY DEF Finished, Called
  <1>3. QED
    BY <1>1, <1>2, CalledFields

\* Stop and Succeed
LEMMA CleanupFields ==
    ASSUME NEW w, Shape(w), NEW s \in {"failed", "finished_ungraded"}, NEW r, NEW u,
           u = Ended(Await(w, "cleanup"), s, r)
    PROVE  /\ Shape(u) /\ u.pc = "cleanup" /\ ~u.sent /\ u.status = s
           /\ SameWork(u, w) /\ SamePlace(u, w) /\ SameCounts(u, w)
  <1> DEFINE a == Await(w, "cleanup")
  <1>1. "cleanup" \in Commands
    BY DEF Commands
  <1>2. /\ Shape(a) /\ a.pc = "cleanup" /\ ~a.sent
        /\ SameWork(a, w) /\ SamePlace(a, w) /\ SameCounts(a, w)
    BY <1>1, AwaitFields
  <1>3. u = Ended(a, s, r)
    OBVIOUS
  <1> HIDE DEF a
  <1>4. /\ Shape(u) /\ u.status = s
        /\ SameCall(u, a) /\ SameWork(u, a) /\ SamePlace(u, a) /\ SameCounts(u, a)
    BY <1>2, <1>3, EndedFields
  <1>5. QED
    BY <1>2, <1>4 DEF SameCall, SameWork, SamePlace, SameCounts

LEMMA CheckpointedFields ==
    ASSUME NEW w, Shape(w), NEW u, u = Checkpointed(w)
    PROVE  /\ Shape(u) /\ SameCall(u, w) /\ SameWork(u, w) /\ SameEnd(u, w)
           /\ u.revision = w.revision /\ u.epoch = w.epoch
           /\ u.checkpoint = [plan |-> u.plan, revision |-> u.revision, epoch |-> u.epoch]
           /\ u.recoveries = w.recoveries /\ u.faults = w.faults /\ u.replans = w.replans
           /\ u.checkpoints = w.checkpoints + 1
  <1> DEFINE c == [plan |-> w.plan, revision |-> w.revision, epoch |-> w.epoch]
             n == w.checkpoints + 1
  <1>1. n \in Nat
    BY DEF Shape
  <1>2. u = WithCheckpoint(w, c, n)
    BY DEF Checkpointed, WithCheckpoint
  <1>3. c = [plan |-> w.plan, revision |-> w.revision, epoch |-> w.epoch]
        /\ n = w.checkpoints + 1
    OBVIOUS
  <1> HIDE DEF c, n
  <1>4. QED
    BY <1>1, <1>2, <1>3, WithCheckpointFields DEF SameWork

-----------------------------------------------------------------------------
(* Where the workflow goes on between two awaits                           *)

\* Between two loops: every limit holds and the checkpoint is the state.
Steady(w) ==
    /\ w.faults <= MaxFaults /\ w.epoch = w.recoveries + 1
    /\ w.checkpoint = [plan |-> w.plan, revision |-> w.revision, epoch |-> w.epoch]

Bounded(w) == Shape(w) /\ Capped(w) /\ Original(w)

\* A report of success is an earlier one or rests on a plan that is done.
Reports(u, w) ==
    u.status = "finished_ungraded" =>
        w.status = "finished_ungraded" \/ u.completed = DOMAIN u.plan

LEMMA StopOK ==
    ASSUME NEW w, Bounded(w), NEW s \in {"failed", "finished_ungraded"}, NEW r, NEW u,
           u = Ended(Await(w, "cleanup"), s, r)
    PROVE  /\ WorkflowOK(u) /\ u.pc = "cleanup" /\ ~u.sent /\ u.status = s
           /\ SameWork(u, w) /\ SamePlace(u, w)
  <1>1. /\ Shape(u) /\ u.pc = "cleanup" /\ ~u.sent /\ u.status = s
        /\ SameWork(u, w) /\ SamePlace(u, w) /\ SameCounts(u, w)
    BY CleanupFields DEF Bounded
  <1>2. Capped(u)
    BY <1>1 DEF Bounded, Capped, SamePlace, SameCounts
  <1>3. Original(u)
    BY <1>1 DEF Bounded, Original, SamePlace, SameWork
  <1>4. QED
    BY <1>1, <1>2, <1>3 DEF WorkflowOK, Saved, Running

\* The workflow leaves what it awaited without having looked at an answer.
Left(u, w) ==
    /\ WorkflowOK(u) /\ ~u.sent /\ SameWork(u, w) /\ SamePlace(u, w)
    /\ Reports(u, w) /\ (w.pc = "step" \/ u.status \in {w.status, "failed"})
    /\ u.pc \in {"cleanup", "done"} \/ (u.pc = "step" /\ w.pc = "step")

LEMMA StopLeft ==
    ASSUME NEW w, Bounded(w), NEW r, NEW u, u = Stop(w, r)
    PROVE  Left(u, w) /\ u.pc = "cleanup" /\ u.status = "failed"
  <1>1. u = Ended(Await(w, "cleanup"), "failed", r)
    BY DEF Stop, Ended
  <1>2. /\ WorkflowOK(u) /\ u.pc = "cleanup" /\ ~u.sent /\ u.status = "failed"
        /\ SameWork(u, w) /\ SamePlace(u, w)
    BY <1>1, StopOK
  <1>3. QED
    BY <1>2 DEF Left, Reports

LEMMA AwaitOK ==
    ASSUME NEW w, Bounded(w), Steady(w), w.checkpoints <= MaxCheckpoints + w.replans,
           NEW c \in {"step", "refresh"}, c = "step" => w.completed # DOMAIN w.plan,
           NEW u, u = Await(w, c)
    PROVE  /\ WorkflowOK(u) /\ u.pc = c /\ ~u.sent /\ Reports(u, w)
           /\ SameWork(u, w) /\ SamePlace(u, w)
  <1>1. c \in Commands
    BY DEF Commands
  <1>2. /\ Shape(u) /\ u.pc = c /\ ~u.sent
        /\ SameWork(u, w) /\ SamePlace(u, w) /\ SameCounts(u, w) /\ SameEnd(u, w)
    BY <1>1, AwaitFields DEF Bounded
  <1>3. Capped(u)
    BY <1>2 DEF Bounded, Capped, SamePlace, SameCounts
  <1>4. Original(u)
    BY <1>2 DEF Bounded, Original, SamePlace, SameWork
  <1>5. InLimits(u)
    BY <1>2 DEF Steady, InLimits, SamePlace, SameCounts
  <1>6. Saved(u)
    BY <1>2 DEF Steady, Saved, SamePlace, SameWork
  <1>7. QED
    BY <1>2, <1>3, <1>4, <1>5, <1>6 DEF WorkflowOK, SameWork, SameEnd, Reports

LEMMA LoopOK ==
    ASSUME NEW w, Bounded(w), Steady(w), w.checkpoints <= MaxCheckpoints + w.replans,
           NEW expired \in BOOLEAN, NEW u, u = Loop(w, expired)
    PROVE  /\ WorkflowOK(u) /\ u.pc \in {"step", "cleanup"} /\ ~u.sent /\ Reports(u, w)
           /\ SameWork(u, w) /\ SamePlace(u, w)
  <1>1. CASE w.completed = DOMAIN w.plan
    <2>1. u = Ended(Await(w, "cleanup"), "finished_ungraded", "completed")
      BY <1>1 DEF Loop, Succeed, Ended
    <2>2. /\ WorkflowOK(u) /\ u.pc = "cleanup" /\ ~u.sent
          /\ SameWork(u, w) /\ SamePlace(u, w)
      BY <2>1, StopOK
    <2>3. QED
      BY <1>1, <2>2 DEF Reports, SameWork
  <1>2. CASE w.completed # DOMAIN w.plan /\ expired
    <2>1. u = Stop(w, "budget_exhausted")
      BY <1>2 DEF Loop
    <2>2. QED
      BY <2>1, StopLeft DEF Left
  <1>3. CASE w.completed # DOMAIN w.plan /\ ~expired
    BY <1>3, AwaitOK DEF Loop
  <1>4. QED
    BY <1>1, <1>2, <1>3

LEMMA LoopCountedOK ==
    ASSUME NEW w, Bounded(w), Steady(w), NEW expired \in BOOLEAN,
           NEW u, u = LoopCounted(w, expired)
    PROVE  /\ WorkflowOK(u) /\ u.pc \in {"step", "cleanup"} /\ ~u.sent /\ Reports(u, w)
           /\ SameWork(u, w) /\ SamePlace(u, w)
  <1>1. CASE w.checkpoints > MaxCheckpoints
    BY <1>1, StopLeft DEF LoopCounted, Left
  <1>2. CASE ~(w.checkpoints > MaxCheckpoints)
    <2>1. w.checkpoints <= MaxCheckpoints + w.replans
      BY <1>2, RecoveryAssumption DEF Bounded, Shape
    <2>2. QED
      BY <1>2, <2>1, LoopOK DEF LoopCounted
  <1>3. QED
    BY <1>1, <1>2
LEMMA OKIsBounded ==
    ASSUME NEW w, WorkflowOK(w)
    PROVE  /\ Bounded(w)
           /\ w.pc = "step" => Steady(w) /\ w.checkpoints <= MaxCheckpoints + w.replans
  BY DEF WorkflowOK, Bounded, Steady, Saved, Running, InLimits

LEMMA FinishOK ==
    ASSUME NEW w, Bounded(w), NEW u, u = Finished(w)
    PROVE  Left(u, w) /\ u.pc = "done" /\ Bounded(u)
  <1>1. /\ Shape(u) /\ u.pc = "done" /\ ~u.sent
        /\ SameWork(u, w) /\ SamePlace(u, w) /\ SameCounts(u, w) /\ SameEnd(u, w)
    BY FinishedFields DEF Bounded
  <1>2. Capped(u)
    BY <1>1 DEF Bounded, Capped, SamePlace, SameCounts
  <1>3. Original(u)
    BY <1>1 DEF Bounded, Original, SamePlace, SameWork
  <1>4. QED
    BY <1>1, <1>2, <1>3 DEF WorkflowOK, Left, Bounded, Saved, Running, SameEnd, Reports

LEMMA AttemptFailedOK ==
    ASSUME NEW w, WorkflowOK(w), NEW u, u = AttemptFailed(w)
    PROVE  Left(u, w)
  <1>1. Bounded(w)
    BY OKIsBounded
  <1>2. CASE w.pc = "step" /\ w.attempt < MaxAttempts
    <2>1. w.attempt + 1 \in 1 .. MaxAttempts
      BY <1>1, <1>2, RecoveryAssumption DEF Bounded, Shape
    <2>2. u = Retried(w, w.attempt + 1)
      BY <1>2 DEF AttemptFailed, Retried
    <2>3. /\ Shape(u) /\ ~u.sent /\ u.pc = w.pc
          /\ SameWork(u, w) /\ SamePlace(u, w) /\ SameCounts(u, w) /\ SameEnd(u, w)
      BY <1>1, <2>1, <2>2, RetriedFields DEF Bounded
    <2>4. Capped(u)
      BY <1>1, <2>3 DEF Bounded, Capped, SamePlace, SameCounts
    <2>5. Original(u)
      BY <1>1, <2>3 DEF Bounded, Original, SamePlace, SameWork
    <2>6. InLimits(u) /\ Saved(u)
      BY <1>2, <2>3 DEF WorkflowOK, Running, InLimits, Saved, SamePlace, SameWork, SameCounts
    <2>7. QED
      BY <1>2, <2>3, <2>4, <2>5, <2>6 DEF WorkflowOK, Left, SameWork, SameEnd, Reports
  <1>3. CASE w.pc = "cleanup" /\ w.status = "finished_ungraded"
    <2> DEFINE f == Finished(w)
    <2>1. Left(f, w) /\ f.pc = "done" /\ Bounded(f)
      BY <1>1, FinishOK
    <2>2. u = Ended(f, "failed", "permanent_failure")
      BY <1>3 DEF AttemptFailed, Ended
    <2> HIDE DEF f
    <2>3. /\ Shape(u) /\ SameCall(u, f) /\ SameWork(u, f) /\ SamePlace(u, f)
          /\ SameCounts(u, f) /\ u.status = "failed"
      BY <2>1, <2>2, EndedFields DEF Bounded
    <2>4. Capped(u)
      BY <2>1, <2>3 DEF Bounded, Capped, SamePlace, SameCounts
    <2>5. Original(u)
      BY <2>1, <2>3 DEF Bounded, Original, SamePlace, SameWork
    <2>6. u.pc = "done" /\ ~u.sent /\ SameWork(u, w) /\ SamePlace(u, w)
      BY <2>1, <2>3 DEF Left, SameCall, SameWork, SamePlace
    <2>7. QED
      BY <2>3, <2>4, <2>5, <2>6 DEF WorkflowOK, Left, Running, Saved, Reports
  <1>4. CASE w.pc = "cleanup" /\ w.status # "finished_ungraded"
    BY <1>1, <1>4, FinishOK DEF AttemptFailed
  <1>5. CASE ~(w.pc = "step" /\ w.attempt < MaxAttempts) /\ w.pc # "cleanup"
    BY <1>1, <1>5, StopLeft DEF AttemptFailed
  <1>6. QED
    BY <1>2, <1>3, <1>4, <1>5

LEMMA AttemptTimedOutOK ==
    ASSUME NEW w, WorkflowOK(w), NEW expired \in BOOLEAN,
           NEW u, u = AttemptTimedOut(w, expired)
    PROVE  Left(u, w)
  <1>1. CASE ~(w.pc = "step" /\ w.attempt = MaxAttempts)
    BY <1>1, AttemptFailedOK DEF AttemptTimedOut
  <1>2. CASE w.pc = "step" /\ w.attempt = MaxAttempts
    <2> DEFINE c == WithFaults(w, w.faults + 1)
    <2>1. Bounded(w) /\ Steady(w) /\ w.checkpoints <= MaxCheckpoints + w.replans
          /\ w.faults <= MaxFaults
      BY <1>2, OKIsBounded DEF Steady
    <2>2. w.faults + 1 \in Nat /\ w.faults + 1 <= MaxFaults + 1
      BY <2>1, RecoveryAssumption DEF Bounded, Shape
    <2>3. /\ Shape(c) /\ c.faults = w.faults + 1
          /\ SameCall(c, w) /\ SameWork(c, w) /\ SamePlace(c, w) /\ SameEnd(c, w)
          /\ c.recoveries = w.recoveries /\ c.replans = w.replans
          /\ c.checkpoints = w.checkpoints
      BY <2>1, <2>2, WithFaultsFields DEF Bounded
    <2>4. u = IF c.faults > MaxFaults THEN Stop(c, "budget_exhausted") ELSE Loop(c, expired)
      BY <1>2 DEF AttemptTimedOut, TimedOut, WithFaults
    <2> HIDE DEF c
    <2>5. Capped(c)
      BY <2>1, <2>2, <2>3 DEF Bounded, Capped, SamePlace
    <2>6. Original(c)
      BY <2>1, <2>3 DEF Bounded, Original, SamePlace, SameWork
    <2>7. Bounded(c)
      BY <2>3, <2>5, <2>6 DEF Bounded
    <2>8. CASE c.faults > MaxFaults
      <3>1. Left(u, c) /\ u.pc = "cleanup"
        BY <2>4, <2>7, <2>8, StopLeft
      <3>2. QED
        BY <1>2, <2>3, <3>1 DEF Left, SameWork, SamePlace, SameEnd, Reports
    <2>9. CASE ~(c.faults > MaxFaults)
      <3>1. Steady(c)
        BY <2>1, <2>2, <2>3, <2>9, RecoveryAssumption DEF Steady, SameWork, SamePlace
      <3>2. c.checkpoints <= MaxCheckpoints + c.replans
        BY <2>1, <2>3
      <3>3. /\ WorkflowOK(u) /\ u.pc \in {"step", "cleanup"} /\ ~u.sent /\ Reports(u, c)
            /\ SameWork(u, c) /\ SamePlace(u, c)
        BY <2>4, <2>7, <2>9, <3>1, <3>2, LoopOK
      <3>4. QED
        BY <1>2, <2>3, <3>3 DEF Left, SameWork, SamePlace, SameEnd, Reports
    <2>10. QED
      BY <2>8, <2>9
  <1>3. QED
    BY <1>1, <1>2
-----------------------------------------------------------------------------
(* The workflow after an answer                                            *)

\* What every answer leaves the workflow with.
Answering(u, w) ==
    /\ WorkflowOK(u) /\ ~u.sent /\ u.execution = w.execution /\ Reports(u, w)
    /\ u.revision = w.revision \/ u.pc = "replan"

LEMMA ChargedOK ==
    ASSUME NEW w, Bounded(w), NEW result, result.ledger \in Nat, NEW c, c = Charged(w, result)
    PROVE  /\ Bounded(c) /\ c.usage = result.ledger
           /\ SameCall(c, w) /\ SamePlace(c, w) /\ SameCounts(c, w) /\ SameEnd(c, w)
           /\ c.execution = w.execution /\ c.plan = w.plan /\ c.completed = w.completed
  <1>1. c = WithUsage(w, result.ledger)
    BY DEF Charged, WithUsage
  <1>2. /\ Shape(c) /\ c.usage = result.ledger
        /\ SameCall(c, w) /\ SamePlace(c, w) /\ SameCounts(c, w) /\ SameEnd(c, w)
        /\ c.execution = w.execution /\ c.plan = w.plan /\ c.completed = w.completed
    BY <1>1, WithUsageFields DEF Bounded
  <1>3. Capped(c)
    BY <1>2 DEF Bounded, Capped, SamePlace, SameCounts
  <1>4. Original(c)
    BY <1>2 DEF Bounded, Original, SamePlace
  <1>5. QED
    BY <1>2, <1>3, <1>4 DEF Bounded

\* "Planning usage counters cannot reset"
LEMMA ResumeReset ==
    ASSUME NEW w, WorkflowOK(w), w.pc # "cleanup", NEW result, Resets(w, result),
           NEW expired, NEW u, u = Resume(w, result, expired)
    PROVE  Left(u, w) /\ u.pc = "cleanup"
  <1>1. u = Stop(w, "permanent_failure")
    BY DEF Resume
  <1>2. QED
    BY <1>1, OKIsBounded, StopLeft

LEMMA ResumeCleanup ==
    ASSUME NEW w, WorkflowOK(w), w.pc = "cleanup", NEW result,
           NEW expired, NEW u, u = Resume(w, result, expired)
    PROVE  Left(u, w) /\ u.pc = "done"
  <1>1. u = Finished(w)
    BY DEF Resume
  <1>2. QED
    BY <1>1, OKIsBounded, FinishOK

LEMMA ResumeStart ==
    ASSUME NEW w, WorkflowOK(w), w.pc = "start",
           NEW result, result.ledger \in Nat, ~Resets(w, result),
           w.execution = 1 => DOMAIN result.plan \subseteq Steps,
           NEW expired \in BOOLEAN, NEW u, u = Resume(w, result, expired)
    PROVE  /\ Answering(u, w) /\ u.pc \in {"step", "cleanup"}
           /\ u.completed = {} /\ u.usage = result.ledger /\ u.epoch = 1
           /\ u.pc = "step" => u.plan = result.plan
           /\ u.plan = result.plan \/ u.status = "failed"
  <1> DEFINE c == Charged(w, result)
             p == WithPlan(c, result.plan)
             k == Checkpointed(p)
  <1>1. Bounded(w) /\ Fresh(w)
    BY OKIsBounded DEF WorkflowOK
  <1>2. /\ Bounded(c) /\ c.usage = result.ledger
        /\ SameCall(c, w) /\ SamePlace(c, w) /\ SameCounts(c, w) /\ SameEnd(c, w)
        /\ c.execution = w.execution /\ c.plan = w.plan /\ c.completed = w.completed
    BY <1>1, ChargedOK
  <1>3. u = AfterStart(c, result, expired)
    BY DEF Resume
  <1>4. u = IF result.outcome # "started" THEN Stop(c, "permanent_failure") ELSE Loop(k, expired)
    BY <1>3 DEF AfterStart, WithPlan
  <1> HIDE DEF c
  <1>5. CASE result.outcome # "started"
    <2>1. Left(u, c) /\ u.pc = "cleanup" /\ u.status = "failed"
      BY <1>2, <1>4, <1>5, StopLeft
    <2>2. QED
      BY <1>1, <1>2, <2>1 DEF Left, Answering, SameWork, SamePlace, Fresh, Reports, SameEnd
  <1>6. CASE result.outcome = "started"
    <2>1. /\ Shape(p) /\ p.plan = result.plan
          /\ SameCall(p, c) /\ SamePlace(p, c) /\ SameCounts(p, c) /\ SameEnd(p, c)
          /\ p.execution = c.execution /\ p.completed = c.completed /\ p.usage = c.usage
      BY <1>2, WithPlanFields DEF Bounded
    <2> HIDE DEF p
    <2>2. /\ Shape(k) /\ SameWork(k, p) /\ SameEnd(k, p)
          /\ k.revision = p.revision /\ k.epoch = p.epoch
          /\ k.checkpoint = [plan |-> k.plan, revision |-> k.revision, epoch |-> k.epoch]
          /\ k.recoveries = p.recoveries /\ k.faults = p.faults /\ k.replans = p.replans
          /\ k.checkpoints = p.checkpoints + 1
      BY <2>1, CheckpointedFields
    <2> HIDE DEF k
    <2>3. /\ k.revision = 1 /\ k.epoch = 1 /\ k.recoveries = 0 /\ k.faults = 0
          /\ k.replans = 0 /\ k.checkpoints = 1 /\ k.completed = {}
          /\ k.plan = result.plan /\ k.execution = w.execution /\ k.usage = result.ledger
          /\ k.status = w.status /\ k.revision = w.revision
      BY <1>1, <1>2, <2>1, <2>2 DEF Fresh, SameWork, SamePlace, SameCounts, SameEnd
    <2>4. Capped(k)
      BY <2>3, RecoveryAssumption DEF Capped
    <2>5. Original(k)
      BY <2>2, <2>3 DEF Original
    <2>6. Steady(k) /\ k.checkpoints <= MaxCheckpoints + k.replans
      BY <2>2, <2>3, RecoveryAssumption DEF Steady
    <2>7. /\ WorkflowOK(u) /\ u.pc \in {"step", "cleanup"} /\ ~u.sent /\ Reports(u, k)
          /\ SameWork(u, k) /\ SamePlace(u, k)
      BY <1>4, <1>6, <2>2, <2>4, <2>5, <2>6, LoopOK DEF Bounded
    <2>8. QED
      BY <2>3, <2>7 DEF Answering, SameWork, SamePlace, Reports, SameEnd
  <1>7. QED
    BY <1>5, <1>6

LEMMA ResumeRefresh ==
    ASSUME NEW w, WorkflowOK(w), w.pc = "refresh",
           NEW result, result.ledger \in Nat, ~Resets(w, result),
           NEW expired, NEW u, u = Resume(w, result, expired)
    PROVE  /\ Answering(u, w) /\ u.pc \in {"recover", "cleanup"}
           /\ u.completed = w.completed /\ u.usage = result.ledger
           /\ u.plan = w.plan /\ u.checkpoint = w.checkpoint
  <1> DEFINE c == Charged(w, result)
             n == c.epoch + 1
             e == InEpoch(c, n)
  <1>1. Bounded(w) /\ InLimits(w) /\ Saved(w)
    BY OKIsBounded DEF WorkflowOK, Running
  <1>2. /\ Bounded(c) /\ c.usage = result.ledger
        /\ SameCall(c, w) /\ SamePlace(c, w) /\ SameCounts(c, w) /\ SameEnd(c, w)
        /\ c.execution = w.execution /\ c.plan = w.plan /\ c.completed = w.completed
    BY <1>1, ChargedOK
  <1>3. u = AfterRefresh(c)
    BY DEF Resume
  <1>4. u = IF c.recoveries >= MaxRecoveries THEN Stop(c, "recovery_exhausted")
            ELSE Await(e, "recover")
    BY <1>3 DEF AfterRefresh, InEpoch
  <1> HIDE DEF c
  <1>5. CASE c.recoveries >= MaxRecoveries
    <2>1. Left(u, c) /\ u.pc = "cleanup"
      BY <1>2, <1>4, <1>5, StopLeft
    <2>2. QED
      BY <1>2, <2>1 DEF Left, Answering, SameWork, SamePlace, Reports, SameEnd
  <1>6. CASE ~(c.recoveries >= MaxRecoveries)
    <2>1. n \in Nat /\ c.recoveries \in Nat /\ n = c.epoch + 1
      BY <1>2 DEF Bounded, Shape
    <2>13. e = InEpoch(c, n) /\ Shape(c) /\ n \in Nat
      BY <1>2, <2>1 DEF Bounded
    <2> HIDE DEF n, e
    <2>2. /\ Shape(e) /\ e.epoch = n
          /\ SameCall(e, c) /\ SameWork(e, c) /\ SameCounts(e, c) /\ SameEnd(e, c)
          /\ e.revision = c.revision /\ e.checkpoint = c.checkpoint
      BY <2>13, InEpochFields
    <2>3. "recover" \in Commands
      BY DEF Commands
    <2>4. /\ Shape(u) /\ u.pc = "recover" /\ ~u.sent
          /\ SameWork(u, e) /\ SamePlace(u, e) /\ SameCounts(u, e) /\ SameEnd(u, e)
      BY <1>4, <1>6, <2>2, <2>3, AwaitFields
    <2>5. /\ u.completed = w.completed /\ u.usage = result.ledger /\ u.plan = w.plan
          /\ u.checkpoint = w.checkpoint /\ u.revision = w.revision
          /\ u.epoch = w.epoch + 1 /\ u.execution = w.execution
          /\ u.recoveries = w.recoveries /\ u.faults = w.faults /\ u.replans = w.replans
          /\ u.checkpoints = w.checkpoints /\ u.status = w.status
      BY <1>2, <2>1, <2>2, <2>4 DEF SameWork, SamePlace, SameCounts, SameEnd
    <2>6. w.epoch = w.recoveries + 1 /\ w.recoveries < MaxRecoveries
      BY <1>1, <1>2, <1>6, <2>1, RecoveryAssumption DEF InLimits, SameCounts
    <2>7. Capped(u)
      BY <1>1, <2>1, <2>5, <2>6, RecoveryAssumption DEF Bounded, Shape, Capped
    <2>8. Original(u)
      BY <1>1, <2>5 DEF Bounded, Original
    <2>9. InLimits(u)
      BY <1>1, <2>1, <2>4, <2>5, <2>6 DEF InLimits, Bounded, Shape
    <2>10. u.epoch - 1 = w.epoch
      BY <1>1, <2>5 DEF Bounded, Shape
    <2>11. Saved(u)
      BY <1>1, <2>4, <2>5, <2>10 DEF Saved
    <2>12. QED
      BY <2>4, <2>5, <2>7, <2>8, <2>9, <2>11 DEF WorkflowOK, Answering, Reports, SameEnd, SamePlace, SameWork
  <1>7. QED
    BY <1>5, <1>6
LEMMA ResumeRecover ==
    ASSUME NEW w, WorkflowOK(w), w.pc = "recover",
           NEW result, result.ledger \in Nat, ~Resets(w, result),
           NEW expired \in BOOLEAN, NEW u, u = Resume(w, result, expired)
    PROVE  /\ Answering(u, w) /\ u.pc \in {"step", "cleanup"}
           /\ u.completed = w.completed /\ u.usage = result.ledger
           /\ u.plan = w.plan
           /\ u.pc = "step" => result.epoch = u.epoch
  <1> DEFINE c == Charged(w, result)
             r == Recovering(c, c.recoveries + 1)
             k == Checkpointed(r)
  <1>1. Bounded(w) /\ InLimits(w)
    BY OKIsBounded DEF WorkflowOK, Running
  <1>2. /\ Bounded(c) /\ c.usage = result.ledger
        /\ SameCall(c, w) /\ SamePlace(c, w) /\ SameCounts(c, w) /\ SameEnd(c, w)
        /\ c.execution = w.execution /\ c.plan = w.plan /\ c.completed = w.completed
    BY <1>1, ChargedOK
  <1>3. u = AfterRecover(c, result, expired)
    BY DEF Resume
  <1>4. u = IF result.outcome # "started" \/ result.epoch # r.epoch
            THEN Stop(r, "recovery_exhausted") ELSE LoopCounted(k, expired)
    BY <1>3 DEF AfterRecover, Recovering
  <1>5. c.recoveries + 1 \in Nat
    BY <1>2 DEF Bounded, Shape
  <1> HIDE DEF c
  <1> DEFINE n == c.recoveries + 1
  <1>12. r = Recovering(c, n) /\ n \in Nat /\ Shape(c)
    BY <1>2, <1>5 DEF Bounded
  <1>14. n = c.recoveries + 1
    OBVIOUS
  <1> HIDE DEF r, n
  <1>13. /\ Shape(r) /\ r.recoveries = n /\ SameEnd(r, c)
         /\ SameCall(r, c) /\ SameWork(r, c) /\ SamePlace(r, c)
         /\ r.faults = c.faults /\ r.replans = c.replans /\ r.checkpoints = c.checkpoints
    BY <1>12, RecoveringFields
  <1>6. /\ Shape(r) /\ r.recoveries = c.recoveries + 1 /\ SameEnd(r, c)
        /\ SameCall(r, c) /\ SameWork(r, c) /\ SamePlace(r, c)
        /\ r.faults = c.faults /\ r.replans = c.replans /\ r.checkpoints = c.checkpoints
    BY <1>13, <1>14
  <1>7. /\ r.completed = w.completed /\ r.plan = w.plan /\ r.usage = result.ledger
        /\ r.execution = w.execution /\ r.revision = w.revision /\ r.epoch = w.epoch
        /\ r.checkpoint = w.checkpoint /\ r.recoveries = w.recoveries + 1
        /\ r.faults = w.faults /\ r.replans = w.replans /\ r.checkpoints = w.checkpoints
        /\ r.status = w.status
    BY <1>2, <1>6 DEF SameWork, SamePlace, SameCounts, SameEnd
  <1>8. Bounded(r)
    <2>1. Capped(r)
      BY <1>1, <1>7 DEF Bounded, Capped
    <2>2. Original(r)
      BY <1>1, <1>7 DEF Bounded, Original
    <2>3. QED
      BY <1>6, <2>1, <2>2 DEF Bounded
  <1>9. CASE result.outcome # "started" \/ result.epoch # r.epoch
    <2>1. Left(u, r) /\ u.pc = "cleanup"
      BY <1>4, <1>8, <1>9, StopLeft
    <2>2. QED
      BY <1>7, <2>1 DEF Left, Answering, SameWork, Reports, SameEnd, SamePlace
  <1>10. CASE ~(result.outcome # "started" \/ result.epoch # r.epoch)
    <2>1. /\ Shape(k) /\ SameWork(k, r) /\ SameEnd(k, r)
          /\ k.revision = r.revision /\ k.epoch = r.epoch
          /\ k.checkpoint = [plan |-> k.plan, revision |-> k.revision, epoch |-> k.epoch]
          /\ k.recoveries = r.recoveries /\ k.faults = r.faults /\ k.replans = r.replans
          /\ k.checkpoints = r.checkpoints + 1
      BY <1>6, CheckpointedFields
    <2> HIDE DEF k
    <2>2. /\ k.completed = w.completed /\ k.plan = w.plan /\ k.usage = result.ledger
          /\ k.execution = w.execution /\ k.revision = w.revision /\ k.epoch = w.epoch
          /\ k.recoveries = w.recoveries + 1 /\ k.faults = w.faults
          /\ k.replans = w.replans /\ k.checkpoints = w.checkpoints + 1
          /\ k.status = w.status
      BY <1>7, <2>1 DEF SameWork, SameEnd
    <2>3. Capped(k)
      BY <1>1, <2>2, RecoveryAssumption DEF Bounded, Capped, InLimits, Shape
    <2>4. Original(k)
      BY <1>1, <2>1, <2>2 DEF Bounded, Shape, Original
    <2>5. Steady(k)
      BY <1>1, <2>1, <2>2 DEF Steady, InLimits, Bounded, Shape
    <2>6. /\ WorkflowOK(u) /\ u.pc \in {"step", "cleanup"} /\ ~u.sent /\ Reports(u, k)
          /\ SameWork(u, k) /\ SamePlace(u, k)
      BY <1>4, <1>10, <2>1, <2>3, <2>4, <2>5, LoopCountedOK DEF Bounded
    <2>7. QED
      BY <1>7, <1>10, <2>2, <2>6 DEF Answering, SameWork, SamePlace, Reports, SameEnd
  <1>11. QED
    BY <1>9, <1>10

LEMMA ResumeReplan ==
    ASSUME NEW w, WorkflowOK(w), w.pc = "replan",
           NEW result, result.ledger \in Nat, ~Resets(w, result),
           NEW expired \in BOOLEAN, NEW u, u = Resume(w, result, expired)
    PROVE  /\ Answering(u, w) /\ u.pc \in {"step", "cleanup"}
           /\ u.completed = w.completed /\ u.usage = result.ledger
           /\ u.plan = result.plan /\ u.epoch = w.epoch
  <1> DEFINE c == Charged(w, result)
             r == Replanned(c, c.replans + 1, result.plan)
             k == Checkpointed(r)
  <1>1. Bounded(w) /\ InLimits(w) /\ w.revision >= 2
    BY OKIsBounded DEF WorkflowOK, Running
  <1>2. /\ Bounded(c) /\ c.usage = result.ledger
        /\ SameCall(c, w) /\ SamePlace(c, w) /\ SameCounts(c, w) /\ SameEnd(c, w)
        /\ c.execution = w.execution /\ c.plan = w.plan /\ c.completed = w.completed
    BY <1>1, ChargedOK
  <1>3. u = AfterReplan(c, result, expired)
    BY DEF Resume
  <1>4. u = IF r.completed \subseteq DOMAIN r.plan THEN Loop(k, expired)
            ELSE Stop(r, "replan_disallowed")
    BY <1>3 DEF AfterReplan, Replanned
  <1>5. c.replans + 1 \in Nat
    BY <1>2 DEF Bounded, Shape
  <1> HIDE DEF c
  <1>6. /\ Shape(r) /\ r.replans = c.replans + 1 /\ r.plan = result.plan
        /\ SameCall(r, c) /\ r.execution = c.execution /\ r.completed = c.completed
        /\ r.usage = c.usage /\ SamePlace(r, c) /\ SameEnd(r, c)
        /\ r.recoveries = c.recoveries /\ r.faults = c.faults /\ r.checkpoints = c.checkpoints
    BY <1>2, <1>5, ReplannedFields DEF Bounded
  <1> HIDE DEF r
  <1>7. /\ r.completed = w.completed /\ r.usage = result.ledger
        /\ r.execution = w.execution /\ r.revision = w.revision /\ r.epoch = w.epoch
        /\ r.checkpoint = w.checkpoint /\ r.recoveries = w.recoveries
        /\ r.faults = w.faults /\ r.replans = w.replans + 1 /\ r.checkpoints = w.checkpoints
        /\ r.status = w.status
    BY <1>2, <1>6 DEF SamePlace, SameCounts, SameEnd
  <1>8. Bounded(r)
    <2>1. Capped(r)
      BY <1>1, <1>7, RecoveryAssumption DEF Bounded, Capped, Shape
    <2>2. Original(r)
      BY <1>1, <1>7 DEF Bounded, Original
    <2>3. QED
      BY <1>6, <2>1, <2>2 DEF Bounded
  <1>9. CASE ~(r.completed \subseteq DOMAIN r.plan)
    <2>1. Left(u, r) /\ u.pc = "cleanup"
      BY <1>4, <1>8, <1>9, StopLeft
    <2>2. QED
      BY <1>6, <1>7, <2>1 DEF Left, Answering, SameWork, SamePlace, Reports, SameEnd
  <1>10. CASE r.completed \subseteq DOMAIN r.plan
    <2>1. /\ Shape(k) /\ SameWork(k, r) /\ SameEnd(k, r)
          /\ k.revision = r.revision /\ k.epoch = r.epoch
          /\ k.checkpoint = [plan |-> k.plan, revision |-> k.revision, epoch |-> k.epoch]
          /\ k.recoveries = r.recoveries /\ k.faults = r.faults /\ k.replans = r.replans
          /\ k.checkpoints = r.checkpoints + 1
      BY <1>6, CheckpointedFields
    <2> HIDE DEF k
    <2>2. /\ k.completed = w.completed /\ k.plan = result.plan /\ k.usage = result.ledger
          /\ k.execution = w.execution /\ k.revision = w.revision /\ k.epoch = w.epoch
          /\ k.recoveries = w.recoveries /\ k.faults = w.faults
          /\ k.replans = w.replans + 1 /\ k.checkpoints = w.checkpoints + 1
          /\ k.status = w.status
      BY <1>6, <1>7, <2>1 DEF SameWork, SameEnd
    <2>3. Capped(k)
      BY <1>1, <2>2, RecoveryAssumption DEF Bounded, Capped, Shape
    <2>4. Original(k)
      BY <1>1, <2>1, <2>2 DEF Bounded, Shape, Original
    <2>5. Steady(k)
      BY <1>1, <2>1, <2>2, w.pc = "replan" DEF Steady, InLimits
    <2>6. k.checkpoints <= MaxCheckpoints + k.replans
      BY <1>1, <2>2, RecoveryAssumption DEF InLimits, Bounded, Shape
    <2>7. /\ WorkflowOK(u) /\ u.pc \in {"step", "cleanup"} /\ ~u.sent /\ Reports(u, k)
          /\ SameWork(u, k) /\ SamePlace(u, k)
      BY <1>4, <1>10, <2>1, <2>3, <2>4, <2>5, <2>6, LoopOK DEF Bounded
    <2>8. QED
      BY <2>2, <2>7 DEF Answering, SameWork, SamePlace, Reports, SameEnd
  <1>11. QED
    BY <1>9, <1>10
LEMMA AfterVerifiedOK ==
    ASSUME NEW w, Bounded(w), Steady(w), w.checkpoints <= MaxCheckpoints + w.replans,
           NextStep(w.plan, w.completed) \in Ids,
           NEW expired \in BOOLEAN, NEW u, u = AfterVerified(w, expired)
    PROVE  /\ Answering(u, w) /\ u.pc \in {"step", "cleanup"}
           /\ u.completed = w.completed \cup {NextStep(w.plan, w.completed)}
           /\ u.usage = w.usage /\ u.plan = w.plan /\ u.epoch = w.epoch
  <1> DEFINE d == w.completed \cup {NextStep(w.plan, w.completed)}
             c == Completing(w, d)
             k == Checkpointed(c)
  <1>1. d \in SUBSET Ids
    BY DEF Bounded, Shape
  <1>2. u = IF /\ scenario \in {"checkpoint_hash_mismatch", "checkpoint_version_mismatch"}
               /\ Cardinality(c.completed) = 1
            THEN Stop(c, "checkpoint_invalid") ELSE LoopCounted(k, expired)
    BY DEF AfterVerified, Completing
  <1> HIDE DEF d
  <1>3. /\ Shape(c) /\ c.completed = d
        /\ SameCall(c, w) /\ SamePlace(c, w) /\ SameCounts(c, w) /\ SameEnd(c, w)
        /\ c.execution = w.execution /\ c.plan = w.plan /\ c.usage = w.usage
    BY <1>1, CompletingFields DEF Bounded
  <1> HIDE DEF c
  <1>4. /\ Shape(k) /\ SameWork(k, c) /\ SameEnd(k, c)
        /\ k.revision = c.revision /\ k.epoch = c.epoch
        /\ k.checkpoint = [plan |-> k.plan, revision |-> k.revision, epoch |-> k.epoch]
        /\ k.recoveries = c.recoveries /\ k.faults = c.faults /\ k.replans = c.replans
        /\ k.checkpoints = c.checkpoints + 1
    BY <1>3, CheckpointedFields
  <1> HIDE DEF k
  <1>5. Capped(c) /\ Original(c)
    BY <1>3 DEF Bounded, Capped, Original, SamePlace, SameCounts
  <1>6. Original(k)
    BY <1>3, <1>4, <1>5 DEF Original, Shape, SameWork
  <1>7. /\ k.faults = w.faults /\ k.epoch = w.epoch /\ k.recoveries = w.recoveries
        /\ k.completed = d /\ k.plan = w.plan /\ k.usage = w.usage
        /\ k.execution = w.execution /\ k.replans = w.replans /\ k.revision = w.revision
        /\ k.checkpoints = w.checkpoints + 1 /\ k.status = w.status
    BY <1>3, <1>4 DEF SameWork, SamePlace, SameCounts, SameEnd
  <1>8. CASE u = Stop(c, "checkpoint_invalid")
    <2>1. Left(u, c) /\ u.pc = "cleanup"
      BY <1>3, <1>5, <1>8, StopLeft DEF Bounded
    <2>2. QED
      BY <1>3, <2>1 DEF Left, Answering, SameWork, SamePlace, d, Reports, SameEnd
  <1>9. CASE u = LoopCounted(k, expired)
    <2>1. Capped(k)
      BY <1>7, RecoveryAssumption DEF Bounded, Capped, Shape
    <2>2. Steady(k)
      BY <1>4, <1>7 DEF Steady
    <2>3. /\ WorkflowOK(u) /\ u.pc \in {"step", "cleanup"} /\ ~u.sent /\ Reports(u, k)
          /\ SameWork(u, k) /\ SamePlace(u, k)
      BY <1>4, <1>6, <1>9, <2>1, <2>2, LoopCountedOK DEF Bounded
    <2>4. QED
      BY <1>7, <2>3 DEF Answering, SameWork, SamePlace, d, Reports, SameEnd
  <1>10. QED
    BY <1>2, <1>8, <1>9

LEMMA ReplanEligibleOK ==
    ASSUME NEW w, Bounded(w), Steady(w), w.checkpoints <= MaxCheckpoints + w.replans,
           NEW u, u = AfterReplanEligible(w)
    PROVE  /\ Answering(u, w) /\ u.pc \in {"replan", "cleanup"}
           /\ u.completed = w.completed /\ u.usage = w.usage
           /\ u.plan = w.plan /\ u.checkpoint = w.checkpoint
           /\ u.pc = "replan" => scenario # "replan_disallowed"
  <1> DEFINE n == w.revision + 1
             r == Revised(w, n)
  <1>1. u = IF \/ scenario = "replan_disallowed"
               \/ w.replans >= MaxReplans
               \/ w.revision >= MaxRevisions
            THEN Stop(w, "replan_disallowed") ELSE Await(r, "replan")
    BY DEF AfterReplanEligible, Revised
  <1>2. n \in Nat \ {0} /\ n - 1 = w.revision /\ n >= 2
    BY DEF Bounded, Shape
  <1>3. w.revision < MaxRevisions => n <= MaxRevisions
    BY RecoveryAssumption DEF Bounded, Shape
  <1> HIDE DEF n
  <1>4. CASE u = Stop(w, "replan_disallowed")
    BY <1>4, StopLeft DEF Left, Answering, SameWork, SamePlace, Reports, SameEnd
  <1>5. CASE u = Await(r, "replan") /\ ~(w.revision >= MaxRevisions)
                /\ scenario # "replan_disallowed"
    <2>1. /\ Shape(r) /\ r.revision = n
          /\ SameCall(r, w) /\ SameWork(r, w) /\ SameCounts(r, w) /\ SameEnd(r, w)
          /\ r.epoch = w.epoch /\ r.checkpoint = w.checkpoint
      BY <1>2, RevisedFields DEF Bounded
    <2> HIDE DEF r
    <2>2. "replan" \in Commands
      BY DEF Commands
    <2>3. /\ Shape(u) /\ u.pc = "replan" /\ ~u.sent
          /\ SameWork(u, r) /\ SamePlace(u, r) /\ SameCounts(u, r) /\ SameEnd(u, r)
      BY <1>5, <2>1, <2>2, AwaitFields
    <2>4. /\ u.completed = w.completed /\ u.usage = w.usage /\ u.plan = w.plan
          /\ u.checkpoint = w.checkpoint /\ u.revision = n /\ u.epoch = w.epoch
          /\ u.execution = w.execution /\ u.recoveries = w.recoveries
          /\ u.faults = w.faults /\ u.replans = w.replans /\ u.checkpoints = w.checkpoints
          /\ u.status = w.status
      BY <2>1, <2>3 DEF SameWork, SamePlace, SameCounts, SameEnd
    <2>5. n <= MaxRevisions
      BY <1>3, <1>5, RecoveryAssumption DEF Bounded, Shape
    <2>6. Capped(u)
      BY <2>4, <2>5 DEF Bounded, Capped
    <2>7. Original(u)
      BY <1>2, <2>4 DEF Bounded, Original
    <2>8. InLimits(u)
      BY <2>3, <2>4 DEF InLimits, Steady
    <2>9. Saved(u)
      BY <1>2, <2>3, <2>4 DEF Saved, Steady
    <2>10. QED
      BY <1>2, <1>5, <2>3, <2>4, <2>6, <2>7, <2>8, <2>9 DEF WorkflowOK, Answering, Reports, SameEnd, SamePlace, SameWork
  <1>6. QED
    BY <1>1, <1>4, <1>5

LEMMA ResumeStep ==
    ASSUME NEW w, WorkflowOK(w), w.pc = "step",
           NEW result, result.ledger \in Nat, ~Resets(w, result),
           result.outcome = "verified" => NextStep(w.plan, w.completed) \in Ids,
           NEW expired \in BOOLEAN, NEW u, u = Resume(w, result, expired)
    PROVE  /\ Answering(u, w) /\ u.pc \in {"step", "refresh", "replan", "cleanup"}
           /\ u.usage = result.ledger /\ u.plan = w.plan
           /\ u.pc = "step" => u.epoch = w.epoch
           /\ u.pc \in {"refresh", "replan"} => u.checkpoint = w.checkpoint
           /\ \/ u.completed = w.completed /\ u.pc # "step"
              \/ /\ result.outcome = "verified" /\ u.pc \in {"step", "cleanup"}
                 /\ u.completed = w.completed \cup {NextStep(w.plan, w.completed)}
           /\ u.pc = "refresh" => result.outcome = "session_lost"
           /\ u.pc = "replan" => result.outcome = "replan_eligible"
                                 /\ scenario # "replan_disallowed"
  <1> DEFINE c == Charged(w, result)
             n == IF Faulty(c, result.outcome) THEN c.faults + 1 ELSE c.faults
             f == WithFaults(c, n)
  <1>1. /\ Bounded(w) /\ Steady(w) /\ w.checkpoints <= MaxCheckpoints + w.replans
        /\ w.faults <= MaxFaults
    BY OKIsBounded DEF Steady
  <1>2. /\ Bounded(c) /\ c.usage = result.ledger
        /\ SameCall(c, w) /\ SamePlace(c, w) /\ SameCounts(c, w) /\ SameEnd(c, w)
        /\ c.execution = w.execution /\ c.plan = w.plan /\ c.completed = w.completed
    BY <1>1, ChargedOK
  <1>3. u = AfterStep(c, result, expired)
    BY DEF Resume
  <1> HIDE DEF c
  <1>4. u = AfterStepOutcome(f, result.outcome, expired)
    BY <1>3 DEF AfterStep, WithFaults
  <1>5. n \in Nat /\ n <= MaxFaults + 1
    BY <1>1, <1>2, RecoveryAssumption DEF Bounded, Shape, SameCounts
  <1> HIDE DEF n
  <1>6. /\ Shape(f) /\ f.faults = n
        /\ SameCall(f, c) /\ SameWork(f, c) /\ SamePlace(f, c) /\ SameEnd(f, c)
        /\ f.recoveries = c.recoveries /\ f.replans = c.replans
        /\ f.checkpoints = c.checkpoints
    BY <1>2, <1>5, WithFaultsFields DEF Bounded
  <1> HIDE DEF f
  <1>7. /\ f.completed = w.completed /\ f.plan = w.plan /\ f.usage = result.ledger
        /\ f.execution = w.execution /\ f.revision = w.revision /\ f.epoch = w.epoch
        /\ f.checkpoint = w.checkpoint /\ f.recoveries = w.recoveries
        /\ f.replans = w.replans /\ f.checkpoints = w.checkpoints /\ f.status = w.status
    BY <1>2, <1>6 DEF SameWork, SamePlace, SameCounts, SameEnd
  <1>8. Bounded(f)
    <2>1. Capped(f)
      BY <1>1, <1>5, <1>6, <1>7 DEF Bounded, Capped
    <2>2. Original(f)
      BY <1>1, <1>7 DEF Bounded, Original
    <2>3. QED
      BY <1>6, <2>1, <2>2 DEF Bounded
  <1>9. ASSUME NEW r, u = Stop(f, r) PROVE Left(u, f) /\ u.pc = "cleanup"
    BY <1>8, <1>9, StopLeft
  <1>10. CASE f.faults > MaxFaults
    <2>1. u = Stop(f, "budget_exhausted")
      BY <1>4, <1>10 DEF AfterStepOutcome
    <2>2. QED
      BY <1>7, <1>9, <2>1 DEF Left, Answering, SameWork, SamePlace, Reports, SameEnd
  <1>11. CASE ~(f.faults > MaxFaults)
    <2>1. Steady(f) /\ f.checkpoints <= MaxCheckpoints + f.replans
      BY <1>1, <1>5, <1>6, <1>7, <1>11, RecoveryAssumption DEF Steady
    <2>2. CASE result.outcome = "verified"
      <3>1. u = AfterVerified(f, expired)
        BY <1>4, <1>11, <2>2 DEF AfterStepOutcome
      <3>2. /\ Answering(u, f) /\ u.pc \in {"step", "cleanup"}
            /\ u.completed = f.completed \cup {NextStep(f.plan, f.completed)}
            /\ u.usage = f.usage /\ u.plan = f.plan /\ u.epoch = f.epoch
        BY <1>7, <1>8, <2>1, <2>2, <3>1, AfterVerifiedOK
      <3>3. QED
        BY <1>7, <2>2, <3>2 DEF Answering, Reports, SameEnd, SamePlace, SameWork
    <2>3. CASE result.outcome = "session_lost"
      <3>1. u = Await(f, "refresh")
        BY <1>4, <1>11, <2>3 DEF AfterStepOutcome
      <3>2. /\ WorkflowOK(u) /\ u.pc = "refresh" /\ ~u.sent
            /\ SameWork(u, f) /\ SamePlace(u, f) /\ Reports(u, f)
        BY <1>8, <2>1, <3>1, AwaitOK
      <3>3. QED
        BY <1>7, <2>3, <3>2 DEF Answering, SameWork, SamePlace, Reports, SameEnd
    <2>4. CASE result.outcome = "replan_eligible"
      <3>1. u = AfterReplanEligible(f)
        BY <1>4, <1>11, <2>4 DEF AfterStepOutcome
      <3>2. /\ Answering(u, f) /\ u.pc \in {"replan", "cleanup"}
            /\ u.completed = f.completed /\ u.usage = f.usage
            /\ u.plan = f.plan /\ u.checkpoint = f.checkpoint
            /\ u.pc = "replan" => scenario # "replan_disallowed"
        BY <1>8, <2>1, <3>1, ReplanEligibleOK
      <3>3. QED
        BY <1>7, <2>4, <3>2 DEF Answering, Reports, SameEnd, SamePlace, SameWork
    <2>5. CASE result.outcome \notin {"verified", "session_lost", "replan_eligible"}
      <3>1. u = Stop(f, result.outcome)
        BY <1>4, <1>11, <2>5 DEF AfterStepOutcome
      <3>2. QED
        BY <1>7, <1>9, <3>1 DEF Left, Answering, SameWork, SamePlace, Reports, SameEnd
    <2>6. QED
      BY <2>2, <2>3, <2>4, <2>5
  <1>12. QED
    BY <1>10, <1>11
-----------------------------------------------------------------------------
(* The coordinator's record of the run                                     *)

RunPlan(r, p) == [r EXCEPT !.plan = p]
RunEpoch(r, e) == [r EXCEPT !.epoch = e]
RunInjected(r, b) == [r EXCEPT !.injected = b]
RunLedger(r, n) == [r EXCEPT !.ledger = n]
RunVerdicts(r, v) == [r EXCEPT !.verdicts = v]

LEMMA RunPlanFields ==
    ASSUME NEW r, RunShape(r), NEW p, NEW u, u = RunPlan(r, p)
    PROVE  /\ RunShape(u) /\ u.plan = p /\ u.epoch = r.epoch /\ u.verdicts = r.verdicts
           /\ u.injected = r.injected /\ u.ledger = r.ledger
  BY DEF RunShape, RunPlan

LEMMA RunEpochFields ==
    ASSUME NEW r, RunShape(r), NEW e \in Nat, NEW u, u = RunEpoch(r, e)
    PROVE  /\ RunShape(u) /\ u.plan = r.plan /\ u.epoch = e /\ u.verdicts = r.verdicts
           /\ u.injected = r.injected /\ u.ledger = r.ledger
  BY DEF RunShape, RunEpoch

LEMMA RunInjectedFields ==
    ASSUME NEW r, RunShape(r), NEW b \in BOOLEAN, NEW u, u = RunInjected(r, b)
    PROVE  /\ RunShape(u) /\ u.plan = r.plan /\ u.epoch = r.epoch /\ u.verdicts = r.verdicts
           /\ u.ledger = r.ledger
  BY DEF RunShape, RunInjected

LEMMA RunLedgerFields ==
    ASSUME NEW r, RunShape(r), NEW n \in Nat, NEW u, u = RunLedger(r, n)
    PROVE  /\ RunShape(u) /\ u.plan = r.plan /\ u.epoch = r.epoch /\ u.verdicts = r.verdicts
           /\ u.injected = r.injected /\ u.ledger = n
  BY DEF RunShape, RunLedger

LEMMA RunVerdictsFields ==
    ASSUME NEW r, RunShape(r), NEW v, NEW u, u = RunVerdicts(r, v)
    PROVE  /\ RunShape(u) /\ u.plan = r.plan /\ u.epoch = r.epoch /\ u.verdicts = v
           /\ u.injected = r.injected /\ u.ledger = r.ledger
  BY DEF RunShape, RunVerdicts

LEMMA NoRunFields ==
    /\ RunShape(NoRun) /\ RunOK(NoRun) /\ DOMAIN NoRun.verdicts = {}
    /\ DOMAIN NoPlan = {} /\ NoRun.ledger = 0
  <1>1. DOMAIN NoPlan = {} /\ DOMAIN NoRun.verdicts = {} /\ NoRun.plan = NoPlan
    BY DEF NoPlan, NoRun
  <1>2. RunShape(NoRun) /\ NoRun.ledger = 0
    BY DEF RunShape, NoRun
  <1>3. QED
    BY <1>1, <1>2 DEF RunOK

\* What keeps a run a run: its plan, its verdicts and a ledger that grows.
LEMMA GoodKept ==
    ASSUME NEW r, RunOK(r), r # NoRun, NEW u, RunShape(u), u.plan = r.plan,
           u.verdicts = r.verdicts, u.ledger >= r.ledger
    PROVE  RunOK(u) /\ u # NoRun
  <1>1. u.ledger >= 1
    BY DEF RunOK, RunShape
  <1>2. u # NoRun
    BY <1>1, NoRunFields
  <1>3. \A s \in DOMAIN u.verdicts : u.verdicts[s] \in 0 .. u.ledger
    BY DEF RunOK, RunShape
  <1>4. QED
    BY <1>1, <1>2, <1>3 DEF RunOK

LEMMA ChargingOK ==
    ASSUME NEW r, RunOK(r), r # NoRun, NEW u, u = Charging(r)
    PROVE  /\ RunOK(u) /\ u # NoRun /\ u.ledger = r.ledger + 1
           /\ u.plan = r.plan /\ u.epoch = r.epoch /\ u.verdicts = r.verdicts
           /\ u.injected = r.injected
  <1> DEFINE n == r.ledger + 1
  <1>1. n \in Nat /\ n >= r.ledger
    BY DEF RunOK, RunShape
  <1>2. u = RunLedger(r, n)
    BY DEF Charging, RunLedger
  <1>3. n = r.ledger + 1
    OBVIOUS
  <1> HIDE DEF n
  <1>4. /\ RunShape(u) /\ u.plan = r.plan /\ u.epoch = r.epoch /\ u.verdicts = r.verdicts
        /\ u.injected = r.injected /\ u.ledger = n
    BY <1>1, <1>2, RunLedgerFields DEF RunOK
  <1>5. QED
    BY <1>1, <1>3, <1>4, GoodKept

LEMMA InjectedOK ==
    ASSUME NEW r, RunOK(r), r # NoRun, NEW b \in BOOLEAN, NEW u, u = RunInjected(r, b)
    PROVE  /\ RunOK(u) /\ u # NoRun /\ u.ledger = r.ledger
           /\ u.plan = r.plan /\ u.epoch = r.epoch /\ u.verdicts = r.verdicts
  <1>1. /\ RunShape(u) /\ u.plan = r.plan /\ u.epoch = r.epoch /\ u.verdicts = r.verdicts
        /\ u.ledger = r.ledger
    BY RunInjectedFields DEF RunOK
  <1>2. u.ledger >= r.ledger
    BY <1>1 DEF RunOK, RunShape
  <1>3. QED
    BY <1>1, <1>2, GoodKept

LEMMA NewEpochOK ==
    ASSUME NEW r, RunOK(r), r # NoRun, NEW e \in Nat, NEW u, u = NewEpoch(r, e)
    PROVE  /\ RunOK(u) /\ u # NoRun /\ u.ledger = r.ledger + 1
           /\ u.plan = r.plan /\ u.epoch = e /\ u.verdicts = r.verdicts
  <1> DEFINE q == RunEpoch(r, e)
  <1>1. /\ RunShape(q) /\ q.plan = r.plan /\ q.epoch = e /\ q.verdicts = r.verdicts
        /\ q.ledger = r.ledger
    BY RunEpochFields DEF RunOK
  <1>2. u = Charging(q)
    BY DEF NewEpoch, RunEpoch
  <1> HIDE DEF q
  <1>3. q.ledger >= r.ledger
    BY <1>1 DEF RunOK, RunShape
  <1>4. RunOK(q) /\ q # NoRun
    BY <1>1, <1>3, GoodKept
  <1>5. QED
    BY <1>1, <1>2, <1>4, ChargingOK

LEMMA RevisedPlanOK ==
    ASSUME NEW r, RunOK(r), r # NoRun, NEW p, ValidDag(p), DOMAIN p \subseteq Ids,
           DOMAIN r.verdicts \subseteq DOMAIN p, NEW u, u = RunPlan(r, p)
    PROVE  /\ RunOK(u) /\ u # NoRun /\ u.ledger = r.ledger
           /\ u.plan = p /\ u.epoch = r.epoch /\ u.verdicts = r.verdicts
  <1>1. /\ RunShape(u) /\ u.plan = p /\ u.epoch = r.epoch /\ u.verdicts = r.verdicts
        /\ u.ledger = r.ledger
    BY RunPlanFields DEF RunOK
  <1>2. u.ledger >= 1
    BY <1>1 DEF RunOK
  <1>3. u # NoRun
    BY <1>2, NoRunFields
  <1>4. QED
    BY <1>1, <1>2, <1>3 DEF RunOK

\* The verdict of a step is stored with the ledger as it was then.
LEMMA VerifiedOK ==
    ASSUME NEW r, RunOK(r), r # NoRun, NEW s \in DOMAIN r.plan \ DOMAIN r.verdicts,
           NEW u, u = Verified(r, s)
    PROVE  /\ RunOK(u) /\ u # NoRun /\ u.ledger = r.ledger
           /\ u.plan = r.plan /\ u.epoch = r.epoch
           /\ DOMAIN u.verdicts = DOMAIN r.verdicts \cup {s}
           /\ u.verdicts[s] = r.ledger
           /\ \A t \in DOMAIN r.verdicts : u.verdicts[t] = r.verdicts[t]
  <1> DEFINE v == [t \in DOMAIN r.verdicts \cup {s} |->
                     IF t \in DOMAIN r.verdicts THEN r.verdicts[t] ELSE r.ledger]
  <1>1. /\ DOMAIN v = DOMAIN r.verdicts \cup {s}
        /\ v[s] = r.ledger
        /\ \A t \in DOMAIN r.verdicts : v[t] = r.verdicts[t]
    OBVIOUS
  <1>2. u = RunVerdicts(r, v)
    BY DEF Verified, RunVerdicts
  <1> HIDE DEF v
  <1>3. /\ RunShape(u) /\ u.plan = r.plan /\ u.epoch = r.epoch /\ u.verdicts = v
        /\ u.injected = r.injected /\ u.ledger = r.ledger
    BY <1>2, RunVerdictsFields DEF RunOK
  <1>4. r.ledger >= 1 /\ r.ledger \in Nat
    BY DEF RunOK, RunShape
  <1>5. u # NoRun
    BY <1>3, <1>4, NoRunFields
  <1>6. \A t \in DOMAIN u.verdicts : u.verdicts[t] \in 0 .. u.ledger
    BY <1>1, <1>3, <1>4 DEF RunOK
  <1>7. QED
    BY <1>1, <1>3, <1>4, <1>5, <1>6 DEF RunOK

BegunRun(e) == [NoRun EXCEPT !.plan = Plan, !.epoch = e, !.ledger = 1]

LEMMA BegunRunOK ==
    ASSUME NEW e \in Nat, NEW u, u = BegunRun(e)
    PROVE  /\ RunOK(u) /\ u # NoRun /\ u.plan = Plan /\ u.epoch = e /\ u.ledger = 1
           /\ DOMAIN u.verdicts = {}
  <1> DEFINE p == RunPlan(NoRun, Plan)
             q == RunEpoch(p, e)
  <1>1. u = RunLedger(q, 1)
    BY DEF BegunRun, RunPlan, RunEpoch, RunLedger
  <1>2. RunShape(p) /\ p.plan = Plan /\ p.verdicts = NoRun.verdicts
    BY NoRunFields, RunPlanFields
  <1> HIDE DEF p
  <1>3. RunShape(q) /\ q.plan = Plan /\ q.epoch = e /\ q.verdicts = NoRun.verdicts
    BY <1>2, RunEpochFields
  <1> HIDE DEF q
  <1>4. 1 \in Nat
    OBVIOUS
  <1>5. /\ RunShape(u) /\ u.plan = Plan /\ u.epoch = e /\ u.ledger = 1
        /\ u.verdicts = NoRun.verdicts
    BY <1>1, <1>3, <1>4, RunLedgerFields
  <1>9. DOMAIN NoRun.verdicts = {} /\ NoRun.ledger = 0
    BY NoRunFields
  <1>10. u # NoRun
    BY <1>5, <1>9
  <1>6. DOMAIN u.verdicts = {} /\ u # NoRun
    BY <1>5, <1>9, <1>10
  <1>7. DOMAIN Plan \subseteq Ids /\ ValidDag(Plan)
    BY RecoveryAssumption, PlanAssumption DEF Steps, Ids
  <1>8. QED
    BY <1>5, <1>6, <1>7 DEF RunOK
-----------------------------------------------------------------------------
(* The revision of the plan keeps what was done.                           *)

\* A revised plan still has every completed step, under its own id.
LEMMA RevisedPlanKeeps ==
    ASSUME NEW plan, DOMAIN plan \subseteq Steps, NEW failed, NEW done, done \subseteq DOMAIN plan
    PROVE  /\ DOMAIN PartialReplan(plan, failed, done) \subseteq Ids
           /\ done \subseteq DOMAIN PartialReplan(plan, failed, done)
  <1>1. DOMAIN plan \subseteq Ids
    BY PlanAssumption DEF Steps, Ids
  <1>2. Replaced(plan, failed, done) \cap done = {}
    BY <1>1, DownstreamAvoids DEF Replaced
  <1>3. DOMAIN PartialReplan(plan, failed, done) =
            {NewId(plan, failed, done, s) : s \in DOMAIN plan}
    BY DEF PartialReplan
  <1>4. \A s \in DOMAIN plan : NewId(plan, failed, done, s) \in Ids
    BY <1>1, PlanAssumption DEF NewId, Renamed, Steps, Ids
  <1>5. \A s \in done : NewId(plan, failed, done, s) = s
    BY <1>2 DEF NewId
  <1>6. QED
    BY <1>3, <1>4, <1>5
-----------------------------------------------------------------------------
(* The line of commands                                                    *)

LEMMA SequenceOf ==
    ASSUME NEW S, NEW t \in Seq(S)
    PROVE  IsSequence(t)
  BY DEF IsSequence

LEMMA SequenceFacts ==
    ASSUME NEW q, IsSequence(q)
    PROVE  /\ Len(q) \in Nat /\ DOMAIN q = 1 .. Len(q)
           /\ q = <<>> <=> Len(q) = 0
           /\ q # <<>> => /\ Head(q) = q[1] /\ 1 \in 1 .. Len(q)
                          /\ IsSequence(Tail(q)) /\ Len(Tail(q)) = Len(q) - 1
                          /\ \A i \in 1 .. Len(Tail(q)) :
                                i + 1 \in 1 .. Len(q) /\ Tail(q)[i] = q[i + 1]
  <1> DEFINE S == {q[i] : i \in DOMAIN q}
  <1>1. q \in Seq(S)
    BY DEF IsSequence
  <1> HIDE DEF S
  <1>2. Len(q) \in Nat /\ DOMAIN q = 1 .. Len(q) /\ (q = <<>> <=> Len(q) = 0)
    BY <1>1
  <1>3. ASSUME q # <<>>
        PROVE  /\ Head(q) = q[1] /\ 1 \in 1 .. Len(q)
               /\ IsSequence(Tail(q)) /\ Len(Tail(q)) = Len(q) - 1
               /\ \A i \in 1 .. Len(Tail(q)) :
                     i + 1 \in 1 .. Len(q) /\ Tail(q)[i] = q[i + 1]
    <2>1. Tail(q) \in Seq(S) /\ Len(Tail(q)) = Len(q) - 1
      BY <1>1, <1>3
    <2>2. Head(q) = q[1] /\ 1 \in 1 .. Len(q)
      BY <1>1, <1>2, <1>3
    <2>3. \A i \in 1 .. Len(Tail(q)) : i + 1 \in 1 .. Len(q) /\ Tail(q)[i] = q[i + 1]
      BY <1>1, <1>2, <1>3, <2>1
    <2>4. IsSequence(Tail(q))
      BY <2>1, SequenceOf
    <2>5. QED
      BY <2>1, <2>2, <2>3, <2>4
  <1>4. QED
    BY <1>2, <1>3

LEMMA EmptyInbox ==
    ASSUME NEW w, NEW s
    PROVE  InboxOK(<<>>, w, s)
  BY DEF InboxOK, IsSequence

LEMMA AppendInbox ==
    ASSUME NEW q, NEW w, NEW u, NEW s, InboxOK(q, w, s), NEW r,
           \A i \in 1 .. Len(q) : RequestOK(q[i], u, s) /\ ~q[i].live,
           RequestOK(r, u, s)
    PROVE  /\ InboxOK(Append(q, r), u, s)
           /\ Append(q, r) # <<>>
           /\ q # <<>> => Head(Append(q, r)) = Head(q)
  <1> DEFINE S == {q[i] : i \in DOMAIN q} \cup {r}
             b == Append(q, r)
  <1>1. IsSequence(q)
    BY DEF InboxOK
  <1>2. q \in Seq(S) /\ r \in S
    <2>1. q \in Seq({q[i] : i \in DOMAIN q})
      BY <1>1 DEF IsSequence
    <2>2. QED
      BY <2>1
  <1> HIDE DEF S
  <1>3. /\ b \in Seq(S) /\ Len(b) = Len(q) + 1 /\ b[Len(b)] = r
        /\ Len(q) \in Nat
        /\ \A i \in 1 .. Len(q) : b[i] = q[i]
    BY <1>2
  <1> HIDE DEF b
  <1>4. IsSequence(b)
    BY <1>3 DEF IsSequence
  <1>5. \A i \in 1 .. Len(b) : i = Len(b) \/ i \in 1 .. Len(q)
    BY <1>3
  <1>6. \A i \in 1 .. Len(b) : RequestOK(b[i], u, s) /\ (b[i].live => i = Len(b))
    BY <1>3, <1>5
  <1>7. b # <<>>
    BY <1>3
  <1>8. q # <<>> => Head(b) = Head(q)
    BY <1>1, <1>3, <1>4, <1>7, SequenceFacts
  <1>9. QED
    BY <1>4, <1>6, <1>7, <1>8 DEF InboxOK, b

\* When an answer somebody waits for comes, nothing is left in line.
LEMMA TailInbox ==
    ASSUME NEW q, NEW w, NEW s, InboxOK(q, w, s), q # <<>>
    PROVE  /\ RequestOK(Head(q), w, s)
           /\ InboxOK(Tail(q), w, s)
           /\ Head(q).live => Tail(q) = <<>>
  <1>1. IsSequence(q)
    BY DEF InboxOK
  <1>2. /\ Len(q) \in Nat /\ Head(q) = q[1] /\ 1 \in 1 .. Len(q)
        /\ IsSequence(Tail(q)) /\ Len(Tail(q)) = Len(q) - 1
        /\ \A i \in 1 .. Len(Tail(q)) : i + 1 \in 1 .. Len(q) /\ Tail(q)[i] = q[i + 1]
    BY <1>1, SequenceFacts
  <1>3. RequestOK(Head(q), w, s) /\ (Head(q).live => Len(q) = 1)
    BY <1>2 DEF InboxOK
  <1>4. Head(q).live => Tail(q) = <<>>
    BY <1>2, <1>3, SequenceFacts
  <1>5. ASSUME NEW i \in 1 .. Len(Tail(q))
        PROVE  RequestOK(Tail(q)[i], w, s) /\ (Tail(q)[i].live => i = Len(Tail(q)))
    <2>1. i + 1 \in 1 .. Len(q) /\ Tail(q)[i] = q[i + 1]
      BY <1>2
    <2>2. RequestOK(q[i + 1], w, s) /\ (q[i + 1].live => i + 1 = Len(q))
      BY <2>1 DEF InboxOK
    <2>3. i + 1 = Len(q) => i = Len(Tail(q))
      <3> DEFINE m == Len(Tail(q))
                 n == Len(q)
      <3>1. n \in Nat /\ m = n - 1 /\ i \in 1 .. m
        BY <1>2
      <3> HIDE DEF m, n
      <3>2. i + 1 = n => i = m
        BY <3>1
      <3>3. QED
        BY <3>2 DEF m, n
    <2>4. QED
      BY <2>1, <2>2, <2>3
  <1>6. QED
    BY <1>2, <1>3, <1>4, <1>5 DEF InboxOK

LEMMA AbandonedRequest ==
    ASSUME NEW q, NEW w, NEW u, NEW s, RequestOK(q, w, s), Left(u, w),
           NEW d, d = [q EXCEPT !.live = FALSE]
    PROVE  /\ RequestOK(d, u, s) /\ ~d.live
           /\ d.command = q.command /\ d.step = q.step
  <1>1. /\ d \in [command : Commands, step : {d.step}, revision : 1 .. 2, epoch : Nat,
                  checkpoint : {d.checkpoint}, live : BOOLEAN]
        /\ d.command = q.command /\ d.step = q.step /\ d.revision = q.revision
        /\ d.epoch = q.epoch /\ d.checkpoint = q.checkpoint /\ ~d.live
    BY DEF RequestOK
  <1>2. u.execution = w.execution /\ StepOf(u) = StepOf(w)
    BY DEF Left, SameWork, StepOf
  <1>3. ASSUME Own(q, w) PROVE Own(d, u)
    BY <1>1, <1>2, <1>3 DEF Own, Left, SameWork, SamePlace
  <1>4. Running(u) => u.pc = "step" /\ w.pc = "step" /\ Running(w)
    BY DEF Running, Left
  <1>5. QED
    BY <1>1, <1>2, <1>3, <1>4 DEF RequestOK

LEMMA AbandonedInbox ==
    ASSUME NEW q, NEW w, NEW u, NEW s, InboxOK(q, w, s), Left(u, w)
    PROVE  /\ InboxOK(Abandoned(q), u, s)
           /\ q # <<>> => /\ Abandoned(q) # <<>>
                          /\ Head(Abandoned(q)).command = Head(q).command
                          /\ Head(Abandoned(q)).step = Head(q).step
  <1> DEFINE b == Abandoned(q)
  <1>1. IsSequence(q)
    BY DEF InboxOK
  <1>2. /\ Len(q) \in Nat /\ DOMAIN q = 1 .. Len(q) /\ (q = <<>> <=> Len(q) = 0)
        /\ q # <<>> => Head(q) = q[1] /\ 1 \in 1 .. Len(q)
    BY <1>1, SequenceFacts
  <1>3. b = [i \in 1 .. Len(q) |-> [q[i] EXCEPT !.live = FALSE]]
    BY <1>2 DEF Abandoned
  <1>4. \A i \in 1 .. Len(q) : b[i] = [q[i] EXCEPT !.live = FALSE]
    BY <1>3
  <1>5. DOMAIN b = 1 .. Len(q)
    BY <1>3
  <1>6. b \in [1 .. Len(q) -> {b[i] : i \in 1 .. Len(q)}]
    BY <1>3
  <1> HIDE DEF b
  <1>7. b \in Seq({b[i] : i \in DOMAIN b}) /\ Len(b) = Len(q)
    <2> DEFINE S == {b[i] : i \in 1 .. Len(q)}
    <2>1. b \in [1 .. Len(q) -> S]
      BY <1>6
    <2>2. S = {b[i] : i \in DOMAIN b}
      BY <1>5
    <2> HIDE DEF S
    <2>3. b \in Seq(S) /\ Len(b) = Len(q)
      BY <1>2, <2>1
    <2>4. QED
      BY <2>2, <2>3
  <1>8. ASSUME NEW i \in 1 .. Len(q)
        PROVE  /\ RequestOK(b[i], u, s) /\ ~b[i].live
               /\ b[i].command = q[i].command /\ b[i].step = q[i].step
    <2>1. RequestOK(q[i], w, s)
      BY DEF InboxOK
    <2>2. b[i] = [q[i] EXCEPT !.live = FALSE]
      BY <1>4
    <2>3. QED
      BY <2>1, <2>2, AbandonedRequest
  <1>9. InboxOK(b, u, s)
    BY <1>7, <1>8 DEF InboxOK, IsSequence
  <1>10. q # <<>> => b # <<>> /\ Head(b) = b[1]
    BY <1>2, <1>7, SequenceFacts DEF IsSequence
  <1>11. QED
    BY <1>2, <1>8, <1>9, <1>10 DEF b
-----------------------------------------------------------------------------
(* The workflow and the coordinator, before and after an answer            *)

\* What an answer to the awaited command may say, given the scenario.
Sound(result, w) ==
    /\ result.ledger \in Nat
    /\ w.pc = "start" /\ w.execution = 1 => DOMAIN result.plan \subseteq Steps
    /\ w.pc = "step" /\ result.outcome = "verified" =>
          NextStep(w.plan, w.completed) \in Ids
    /\ w.pc = "step" /\ result.outcome = "replan_eligible" =>
          scenario \in {"replan_eligible_once", "replan_disallowed"}

LEMMA ResumeOK ==
    ASSUME NEW w, WorkflowOK(w), w.pc # "done", NEW result, Sound(result, w),
           NEW expired \in BOOLEAN, NEW u, u = Resume(w, result, expired)
    PROVE  /\ Answering(u, w) /\ u.pc # "start"
           /\ u.pc = "replan" => scenario \in Replanning
  <1>1. ASSUME Left(u, w), u.pc \in {"cleanup", "done"}
        PROVE  /\ Answering(u, w) /\ u.pc # "start"
               /\ u.pc = "replan" => scenario \in Replanning
    BY <1>1 DEF Left, Answering, SameWork, SamePlace
  <1>2. CASE w.pc = "cleanup"
    BY <1>1, <1>2, ResumeCleanup
  <1>3. CASE w.pc # "cleanup" /\ Resets(w, result)
    BY <1>1, <1>3, ResumeReset
  <1>4. CASE w.pc # "cleanup" /\ ~Resets(w, result)
    <2>1. CASE w.pc = "start"
      BY <1>4, <2>1, ResumeStart DEF Sound
    <2>2. CASE w.pc = "step"
      <3>1. /\ Answering(u, w) /\ u.pc \in {"step", "refresh", "replan", "cleanup"}
            /\ u.pc = "replan" => result.outcome = "replan_eligible"
                                  /\ scenario # "replan_disallowed"
        BY <1>4, <2>2, ResumeStep DEF Sound
      <3>2. QED
        BY <2>2, <3>1 DEF Sound, Replanning
    <2>3. CASE w.pc = "refresh"
      BY <1>4, <2>3, ResumeRefresh DEF Sound
    <2>4. CASE w.pc = "recover"
      BY <1>4, <2>4, ResumeRecover DEF Sound
    <2>5. CASE w.pc = "replan"
      BY <1>4, <2>5, ResumeReplan DEF Sound
    <2>6. w.pc \in Commands \cup {"done"}
      BY DEF WorkflowOK, Shape
    <2>7. QED
      BY <1>4, <2>1, <2>2, <2>3, <2>4, <2>5, <2>6 DEF Commands
  <1>5. QED
    BY <1>2, <1>3, <1>4

LEMMA ProgressLeft ==
    ASSUME NEW w, NEW r, Progress(w, r), NEW u, Left(u, w)
    PROVE  Progress(u, r)
  BY DEF Progress, Left, SameWork

LEMMA FirstLeft ==
    ASSUME NEW w, NEW r, FirstOK(w, r), NEW u, Left(u, w)
    PROVE  FirstOK(u, r)
  <1>1. CASE w.execution = 1 /\ r # NoRun
    <2>1. Progress(u, r)
      BY <1>1, ProgressLeft DEF FirstOK
    <2>2. Matches(u, r)
      BY <1>1 DEF FirstOK, Matches, Left, SamePlace
    <2>3. QED
      BY <2>1, <2>2 DEF FirstOK
  <1>2. CASE ~(w.execution = 1 /\ r # NoRun)
    BY <1>2 DEF FirstOK, Left, SameWork
  <1>3. QED
    BY <1>1, <1>2

\* The coordinator spends and remembers; the workflow has not moved yet.
LEMMA ProgressKept ==
    ASSUME NEW w, WorkflowOK(w), NEW r, RunOK(r), Progress(w, r),
           NEW u, RunOK(u), u.verdicts = r.verdicts, u.ledger >= r.ledger
    PROVE  Progress(w, u)
  BY DEF Progress, WorkflowOK, Shape, RunOK, RunShape

\* The answer takes the workflow's progress no further than the coordinator's.
LEMMA ProgressAnswered ==
    ASSUME NEW w, WorkflowOK(w), w.pc # "done", NEW r, RunOK(r), Progress(w, r),
           NEW result, Sound(result, w), result.ledger <= r.ledger,
           w.pc = "start" => DOMAIN r.verdicts = {},
           w.pc = "step" /\ result.outcome = "verified" =>
              /\ NextStep(w.plan, w.completed) \in DOMAIN r.verdicts
              /\ result.ledger <= r.verdicts[NextStep(w.plan, w.completed)],
           w.pc = "step" /\ result.outcome # "verified" =>
              DOMAIN r.verdicts \subseteq w.completed,
           NEW expired \in BOOLEAN, NEW u, u = Resume(w, result, expired)
    PROVE  Progress(u, r)
  <1>1. CASE w.pc = "cleanup"
    BY <1>1, ResumeCleanup, ProgressLeft
  <1>2. CASE w.pc # "cleanup" /\ Resets(w, result)
    BY <1>2, ResumeReset, ProgressLeft
  <1>3. CASE w.pc # "cleanup" /\ ~Resets(w, result)
    <2> DEFINE next == NextStep(w.plan, w.completed)
    <2>1. r.ledger \in Nat /\ result.ledger \in Nat
      BY DEF RunOK, RunShape, Sound
    <2>2. CASE w.pc = "start"
      <3>1. /\ u.pc \in {"step", "cleanup"} /\ u.completed = {} /\ u.usage = result.ledger
        BY <1>3, <2>2, ResumeStart DEF Sound
      <3>2. DOMAIN r.verdicts = {}
        BY <2>2
      <3>3. QED
        BY <2>1, <3>1, <3>2 DEF Progress
    <2>3. CASE w.pc = "step"
      <3>1. /\ u.pc \in {"step", "refresh", "replan", "cleanup"}
            /\ u.usage = result.ledger /\ u.plan = w.plan
            /\ \/ u.completed = w.completed /\ u.pc # "step"
               \/ /\ result.outcome = "verified" /\ u.pc \in {"step", "cleanup"}
                  /\ u.completed = w.completed \cup {next}
            /\ u.pc = "refresh" => result.outcome = "session_lost"
            /\ u.pc = "replan" => result.outcome = "replan_eligible"
        BY <1>3, <2>3, ResumeStep DEF Sound
      <3>2. CASE result.outcome # "verified"
        <4>1. DOMAIN r.verdicts \subseteq w.completed /\ u.completed = w.completed
          BY <2>3, <3>1, <3>2
        <4>2. QED
          BY <2>1, <3>1, <4>1 DEF Progress
      <3>3. CASE result.outcome = "verified"
        <4>1. next \in DOMAIN r.verdicts /\ r.verdicts[next] >= result.ledger
          <5>1. next \in DOMAIN r.verdicts /\ result.ledger <= r.verdicts[next]
            BY <2>3, <3>3
          <5>2. r.verdicts[next] \in Nat
            BY <2>1, <5>1 DEF RunOK
          <5>3. QED
            BY <2>1, <5>1, <5>2
        <4>2. u.pc \in {"step", "cleanup"}
          BY <3>1, <3>3
        <4>3. \A s \in DOMAIN r.verdicts \ w.completed : s = next
          BY DEF Progress
        <4>4. CASE u.completed = w.completed
          BY <2>1, <3>1, <4>1, <4>2, <4>3, <4>4 DEF Progress
        <4>5. CASE u.completed = w.completed \cup {next}
          BY <2>1, <3>1, <4>1, <4>2, <4>3, <4>5 DEF Progress
        <4>6. QED
          BY <3>1, <4>4, <4>5
      <3>4. QED
        BY <3>2, <3>3
    <2>4. CASE w.pc = "refresh"
      <3>1. /\ u.completed = w.completed /\ u.usage = result.ledger
        BY <1>3, <2>4, ResumeRefresh DEF Sound
      <3>2. QED
        BY <2>1, <2>4, <3>1 DEF Progress
    <2>5. CASE w.pc = "recover"
      <3>1. /\ u.completed = w.completed /\ u.usage = result.ledger
        BY <1>3, <2>5, ResumeRecover DEF Sound
      <3>2. QED
        BY <2>1, <2>5, <3>1 DEF Progress
    <2>6. CASE w.pc = "replan"
      <3>1. /\ u.completed = w.completed /\ u.usage = result.ledger
        BY <1>3, <2>6, ResumeReplan DEF Sound
      <3>2. QED
        BY <2>1, <2>6, <3>1 DEF Progress
    <2>7. w.pc \in Commands \cup {"done"}
      BY DEF WorkflowOK, Shape
    <2>8. QED
      BY <1>3, <2>2, <2>3, <2>4, <2>5, <2>6, <2>7 DEF Commands
  <1>4. QED
    BY <1>1, <1>2, <1>3

\* ... and the checkpoint taken then is one the coordinator accepts.
LEMMA MatchesAnswered ==
    ASSUME NEW w, WorkflowOK(w), w.pc # "done", NEW r,
           NEW result, Sound(result, w), result.plan = r.plan, result.epoch = r.epoch,
           w.pc \in {"step", "refresh", "recover"} => w.checkpoint.plan = r.plan,
           w.pc \in {"step", "refresh", "replan"} => w.checkpoint.epoch = r.epoch,
           w.pc = "start" => r.epoch = 1,
           NEW expired \in BOOLEAN, NEW u, u = Resume(w, result, expired)
    PROVE  Matches(u, r)
  <1>1. CASE w.pc = "cleanup"
    BY <1>1, ResumeCleanup DEF Matches
  <1>2. CASE w.pc # "cleanup" /\ Resets(w, result)
    BY <1>2, ResumeReset DEF Matches
  <1>3. CASE w.pc # "cleanup" /\ ~Resets(w, result)
    <2>1. ASSUME WorkflowOK(u), u.pc = "step"
          PROVE  u.checkpoint.plan = u.plan /\ u.checkpoint.epoch = u.epoch
      BY <2>1 DEF WorkflowOK, Saved
    <2>2. ASSUME w.pc \in {"step", "refresh", "recover", "replan"}
          PROVE  /\ w.checkpoint.plan = w.plan
                 /\ w.pc # "recover" => w.checkpoint.epoch = w.epoch
      BY <2>2 DEF WorkflowOK, Saved
    <2>3. CASE w.pc = "start"
      <3>1. /\ Answering(u, w) /\ u.pc \in {"step", "cleanup"} /\ u.epoch = 1
            /\ u.pc = "step" => u.plan = result.plan
        BY <1>3, <2>3, ResumeStart DEF Sound
      <3>2. QED
        BY <2>1, <2>3, <3>1 DEF Matches, Answering
    <2>4. CASE w.pc = "step"
      <3>1. /\ Answering(u, w) /\ u.pc \in {"step", "refresh", "replan", "cleanup"}
            /\ u.pc = "step" => u.epoch = w.epoch
            /\ u.pc \in {"refresh", "replan"} => u.checkpoint = w.checkpoint
        BY <1>3, <2>4, ResumeStep DEF Sound
      <3>2. u.plan = w.plan
        BY <1>3, <2>4, ResumeStep DEF Sound
      <3>3. QED
        BY <2>1, <2>2, <2>4, <3>1, <3>2 DEF Matches, Answering
    <2>5. CASE w.pc = "refresh"
      <3>1. u.pc \in {"recover", "cleanup"} /\ u.checkpoint = w.checkpoint
        BY <1>3, <2>5, ResumeRefresh DEF Sound
      <3>2. QED
        BY <2>5, <3>1 DEF Matches
    <2>6. CASE w.pc = "recover"
      <3>1. /\ Answering(u, w) /\ u.pc \in {"step", "cleanup"} /\ u.plan = w.plan
            /\ u.pc = "step" => result.epoch = u.epoch
        BY <1>3, <2>6, ResumeRecover DEF Sound
      <3>2. QED
        BY <2>1, <2>2, <2>6, <3>1 DEF Matches, Answering
    <2>7. CASE w.pc = "replan"
      <3>1. /\ Answering(u, w) /\ u.pc \in {"step", "cleanup"}
            /\ u.plan = result.plan /\ u.epoch = w.epoch
        BY <1>3, <2>7, ResumeReplan DEF Sound
      <3>2. QED
        BY <2>1, <2>2, <2>7, <3>1 DEF Matches, Answering
    <2>8. w.pc \in Commands \cup {"done"}
      BY DEF WorkflowOK, Shape
    <2>9. QED
      BY <1>3, <2>3, <2>4, <2>5, <2>6, <2>7, <2>8 DEF Commands
  <1>4. QED
    BY <1>1, <1>2, <1>3
-----------------------------------------------------------------------------
(* Steps of the system: what they have in common                           *)

Fits(w, r, result) ==
    /\ result.ledger <= r.ledger /\ result.plan = r.plan /\ result.epoch = r.epoch
    /\ w.pc = "start" => DOMAIN r.verdicts = {} /\ r.epoch = 1
    /\ w.pc = "step" /\ result.outcome = "verified" =>
          /\ NextStep(w.plan, w.completed) \in DOMAIN r.verdicts
          /\ result.ledger <= r.verdicts[NextStep(w.plan, w.completed)]
    /\ w.pc = "step" /\ result.outcome # "verified" => DOMAIN r.verdicts \subseteq w.completed
    /\ w.pc \in {"step", "refresh", "recover"} => w.checkpoint.plan = r.plan
    /\ w.pc \in {"step", "refresh", "replan"} => w.checkpoint.epoch = r.epoch

LEMMA ResultFields ==
    ASSUME NEW outcome, NEW r
    PROVE  /\ Result(outcome, r).outcome = outcome /\ Result(outcome, r).ledger = r.ledger
           /\ Result(outcome, r).plan = r.plan /\ Result(outcome, r).epoch = r.epoch
  BY DEF Result

LEMMA RequestFacts ==
    ASSUME RecoveryInv, Serving
    PROVE  /\ Request.command \in Commands /\ Request.revision \in 1 .. 2
           /\ Request.epoch \in Nat /\ Request.live \in BOOLEAN
           /\ Request.live => wf.sent /\ wf.pc = Request.command /\ wf.pc # "done"
           /\ Request.live \/ wf.execution = 1 => Own(Request, wf)
           /\ Request.command = "replan" \/ Request.revision # 1 => scenario \in Replanning
           /\ wf.execution = 1 /\ wf.pc \notin {"cleanup", "done"} =>
                 Request.command = wf.pc /\ (Request.live \/ wf.pc = "step")
           /\ InboxOK(Tail(inbox), wf, scenario)
           /\ Request.live => Tail(inbox) = <<>>
  <1>1. InboxOK(inbox, wf, scenario) /\ inbox # <<>>
    BY DEF RecoveryInv, Serving
  <1>2. /\ RequestOK(Request, wf, scenario) /\ InboxOK(Tail(inbox), wf, scenario)
        /\ Request.live => Tail(inbox) = <<>>
    BY <1>1, TailInbox DEF Request
  <1>3. Request.live => wf.pc # "done"
    BY <1>2 DEF RequestOK, RecoveryInv, WorkflowOK
  <1>4. QED
    BY <1>2, <1>3 DEF RequestOK, Running

LEMMA LeftScenario ==
    ASSUME NEW s, NEW w, ScenarioOK(s, w), NEW u, Left(u, w)
    PROVE  ScenarioOK(s, u)
  BY DEF ScenarioOK, Left, SameWork, SamePlace

\* The handler answers: it keeps the invariant when its result is sound, fits
\* the run it leaves, and the run it leaves goes with a workflow that no
\* longer waits.
LEMMA AnswerStep ==
    ASSUME RecoveryInv, Serving, NEW result, Answered(result),
           Request.live => Sound(result, wf),
           RunOK(run'), alive' => run' # NoRun, click' = NoClick, scenario' = scenario,
           UNCHANGED <<receipts, effects>>, \A s \in strays' : s.key \in Keys,
           wf.execution = 1 /\ run' # NoRun =>
              /\ Progress(wf, run')
              /\ ~Request.live => Matches(wf, run')
              /\ Request.live => Fits(wf, run', result)
    PROVE  RecoveryInv'
  <1>1. ClickOK(click', inbox', run')
    BY DEF ClickOK
  <1>2. SandboxOK'
    BY DEF RecoveryInv, SandboxOK
  <1>3. inbox' = Tail(inbox)
    BY DEF Answered
  <1>4. WorkflowOK(wf) /\ ScenarioOK(scenario, wf)
    BY DEF RecoveryInv
  <1>5. CASE ~Request.live
    <2>1. wf' = wf
      BY <1>5 DEF Answered
    <2>2. InboxOK(inbox', wf', scenario')
      BY <1>3, <2>1, RequestFacts
    <2>3. WorkflowOK(wf') /\ ScenarioOK(scenario', wf')
      BY <1>4, <2>1
    <2>4. FirstOK(wf', run')
      BY <1>5, <2>1 DEF FirstOK
    <2>5. QED
      BY <1>1, <1>2, <2>2, <2>3, <2>4 DEF RecoveryInv
  <1>6. CASE Request.live
    <2>1. PICK expired \in BOOLEAN : wf' = Resume(wf, result, expired)
      BY <1>6 DEF Answered
    <2>2. wf.pc # "done" /\ inbox' = <<>> /\ Sound(result, wf)
      BY <1>3, <1>6, RequestFacts
    <2>3. /\ Answering(wf', wf) /\ wf'.pc # "start"
          /\ wf'.pc = "replan" => scenario \in Replanning
      BY <1>4, <2>1, <2>2, ResumeOK
    <2>4. InboxOK(inbox', wf', scenario')
      BY <2>2, EmptyInbox
    <2>5. WorkflowOK(wf')
      BY <2>3 DEF Answering
    <2>6. ScenarioOK(scenario', wf')
      BY <1>4, <2>3 DEF ScenarioOK, Answering
    <2>7. FirstOK(wf', run')
      <3>1. SUFFICES ASSUME wf'.execution = 1, run' # NoRun
                     PROVE  Progress(wf', run') /\ Matches(wf', run')
        BY DEF FirstOK
      <3>2. Progress(wf, run') /\ Fits(wf, run', result)
        BY <1>6, <2>3, <3>1 DEF Answering
      <3>3. Progress(wf', run')
        BY <1>4, <2>1, <2>2, <3>2, ProgressAnswered DEF Fits
      <3>4. Matches(wf', run')
        BY <1>4, <2>1, <2>2, <3>2, MatchesAnswered DEF Fits
      <3>5. QED
        BY <3>3, <3>4
    <2>8. QED
      BY <1>1, <1>2, <2>4, <2>5, <2>6, <2>7 DEF RecoveryInv
  <1>7. QED
    BY <1>5, <1>6, RequestFacts

\* The handler raises and leaves the coordinator's state as it was.
LEMMA RaisedStep ==
    ASSUME RecoveryInv, Serving, Raised, click' = NoClick, run' = run, alive' => alive,
           UNCHANGED <<scenario, strays, receipts, effects>>
    PROVE  RecoveryInv'
  <1>1. ClickOK(click', inbox', run')
    BY DEF ClickOK
  <1>2. SandboxOK' /\ RunOK(run') /\ (alive' => run' # NoRun)
    BY DEF RecoveryInv, SandboxOK
  <1>3. inbox' = Tail(inbox)
    BY DEF Raised
  <1>4. WorkflowOK(wf) /\ ScenarioOK(scenario, wf) /\ FirstOK(wf, run')
    BY DEF RecoveryInv
  <1>5. CASE ~Request.live
    <2>1. wf' = wf
      BY <1>5 DEF Raised
    <2>2. InboxOK(inbox', wf', scenario')
      BY <1>3, <2>1, RequestFacts
    <2>3. QED
      BY <1>1, <1>2, <1>4, <2>1, <2>2 DEF RecoveryInv
  <1>6. CASE Request.live
    <2>1. Left(wf', wf)
      BY <1>4, <1>6, AttemptFailedOK DEF Raised
    <2>2. InboxOK(inbox', wf', scenario')
      BY <1>3, <1>6, RequestFacts, EmptyInbox
    <2>3. WorkflowOK(wf') /\ ScenarioOK(scenario', wf') /\ FirstOK(wf', run')
      BY <1>4, <2>1, LeftScenario, FirstLeft DEF Left
    <2>4. QED
      BY <1>1, <1>2, <2>2, <2>3 DEF RecoveryInv
  <1>7. QED
    BY <1>5, <1>6, RequestFacts
-----------------------------------------------------------------------------
(* The workflow's own steps                                                *)

LEMMA SendKeeps ==
    ASSUME RecoveryInv, Send
    PROVE  RecoveryInv'
  <1> DEFINE q == [command |-> wf.pc, step |-> StepOf(wf), revision |-> wf.revision,
                   epoch |-> wf.epoch, checkpoint |-> wf.checkpoint, live |-> TRUE]
  <1>1. /\ wf.pc # "done" /\ ~wf.sent /\ wf' = [wf EXCEPT !.sent = TRUE]
        /\ UNCHANGED <<scenario, run, alive, click, strays, receipts, effects>>
    BY DEF Send, Awaiting
  <1>2. inbox' = Append(inbox, q)
    BY DEF Send, StepOf
  <1>3. WorkflowOK(wf) /\ ScenarioOK(scenario, wf) /\ InboxOK(inbox, wf, scenario)
        /\ FirstOK(wf, run) /\ ClickOK(click, inbox, run) /\ Shape(wf)
    BY DEF RecoveryInv, WorkflowOK
  <1>4. /\ Shape(wf') /\ wf'.sent /\ wf'.pc = wf.pc
        /\ SameWork(wf', wf) /\ SamePlace(wf', wf) /\ SameCounts(wf', wf)
    BY <1>1, <1>3, SentFields
  <1>5. WorkflowOK(wf')
    BY <1>1, <1>3, <1>4 DEF WorkflowOK, Capped, Running, InLimits, Saved, Original, Fresh,
                            SameWork, SamePlace, SameCounts
  <1>6. StepOf(wf') = StepOf(wf)
    BY <1>4 DEF StepOf, SameWork
  <1>7. RequestOK(q, wf', scenario)
    <2>1. /\ q.command = wf.pc /\ q.step = StepOf(wf) /\ q.revision = wf.revision
          /\ q.epoch = wf.epoch /\ q.checkpoint = wf.checkpoint /\ q.live
      OBVIOUS
    <2>2. wf.pc \in Commands /\ wf.revision \in 1 .. 2 /\ wf.epoch \in Nat
      BY <1>1, <1>3, RecoveryAssumption DEF WorkflowOK, Shape, Capped
    <2>3. q \in [command : Commands, step : {StepOf(wf)}, revision : 1 .. 2, epoch : Nat,
                 checkpoint : {wf.checkpoint}, live : BOOLEAN]
      BY <2>2
    <2>4. q \in [command : Commands, step : {q.step}, revision : 1 .. 2, epoch : Nat,
                 checkpoint : {q.checkpoint}, live : BOOLEAN]
      BY <2>1, <2>3
    <2> HIDE DEF q
    <2>5. Own(q, wf')
      BY <1>3, <1>4, <1>6, <2>1 DEF Own, WorkflowOK, Fresh, SameWork, SamePlace
    <2>6. q.command = "replan" \/ q.revision # 1 => scenario \in Replanning
      BY <1>3, <2>1 DEF ScenarioOK
    <2>7. QED
      BY <1>4, <2>1, <2>4, <2>5, <2>6 DEF RequestOK
  <1> HIDE DEF q
  <1>8. ASSUME NEW i \in 1 .. Len(inbox)
        PROVE  RequestOK(inbox[i], wf', scenario) /\ ~inbox[i].live
    <2>1. RequestOK(inbox[i], wf, scenario)
      BY <1>3 DEF InboxOK
    <2>2. ~inbox[i].live
      BY <1>1, <2>1 DEF RequestOK
    <2>3. Own(inbox[i], wf) => Own(inbox[i], wf')
      BY <1>4, <1>6 DEF Own, SameWork, SamePlace
    <2>4. QED
      BY <1>4, <2>1, <2>2, <2>3 DEF RequestOK, Running, SameWork
  <1>9. /\ InboxOK(inbox', wf', scenario')
        /\ inbox' # <<>> /\ (inbox # <<>> => Head(inbox') = Head(inbox))
    BY <1>1, <1>2, <1>3, <1>7, <1>8, AppendInbox
  <1>10. ClickOK(click', inbox', run')
    BY <1>1, <1>3, <1>9 DEF ClickOK
  <1>11. ScenarioOK(scenario', wf')
    BY <1>1, <1>3, <1>4 DEF ScenarioOK, SameWork
  <1>12. FirstOK(wf', run')
    BY <1>1, <1>3, <1>4 DEF FirstOK, Progress, Matches, SameWork, SamePlace
  <1>13. SandboxOK' /\ RunOK(run') /\ (alive' => run' # NoRun)
    BY <1>1 DEF RecoveryInv, SandboxOK
  <1>14. QED
    BY <1>5, <1>9, <1>10, <1>11, <1>12, <1>13 DEF RecoveryInv

LEMMA AbandonKeeps ==
    ASSUME RecoveryInv, Left(wf', wf), inbox' = Abandoned(inbox),
           UNCHANGED <<scenario, run, alive, click, strays, receipts, effects>>
    PROVE  RecoveryInv'
  <1>1. ScenarioOK(scenario, wf) /\ InboxOK(inbox, wf, scenario)
        /\ FirstOK(wf, run) /\ ClickOK(click, inbox, run)
    BY DEF RecoveryInv
  <1>2. /\ InboxOK(inbox', wf', scenario')
        /\ inbox # <<>> => /\ inbox' # <<>>
                           /\ Head(inbox').command = Head(inbox).command
                           /\ Head(inbox').step = Head(inbox).step
    BY <1>1, AbandonedInbox
  <1>3. ClickOK(click', inbox', run')
    BY <1>1, <1>2 DEF ClickOK
  <1>4. WorkflowOK(wf') /\ ScenarioOK(scenario', wf') /\ FirstOK(wf', run')
    BY <1>1, LeftScenario, FirstLeft DEF Left
  <1>5. SandboxOK' /\ RunOK(run') /\ (alive' => run' # NoRun)
    BY DEF RecoveryInv, SandboxOK
  <1>6. QED
    BY <1>2, <1>3, <1>4, <1>5 DEF RecoveryInv

LEMMA LoseAttemptKeeps ==
    ASSUME RecoveryInv, LoseAttempt
    PROVE  RecoveryInv'
  <1>1. Left(wf', wf)
    BY AttemptFailedOK DEF RecoveryInv, LoseAttempt
  <1>2. QED
    BY <1>1, AbandonKeeps DEF LoseAttempt

LEMMA TimeOutKeeps ==
    ASSUME RecoveryInv, TimeOut
    PROVE  RecoveryInv'
  <1>1. Left(wf', wf)
    BY AttemptTimedOutOK DEF RecoveryInv, TimeOut
  <1>2. QED
    BY <1>1, AbandonKeeps DEF TimeOut

LEMMA BegunOK ==
    ASSUME NEW n \in 1 .. MaxExecutions
    PROVE  WorkflowOK(Begun(n)) /\ Begun(n).execution = n /\ Begun(n).pc = "start"
           /\ ~Begun(n).sent /\ Fresh(Begun(n))
  <1> DEFINE w == Begun(n)
  <1>1. /\ w.pc = "start" /\ w.attempt = 1 /\ ~w.sent /\ w.execution = n /\ Fresh(w)
    BY DEF Begun, Fresh
  <1>2. 1 \in 1 .. MaxAttempts /\ "start" \in Commands \cup {"done"}
    BY RecoveryAssumption DEF Commands
  <1>3. Shape(w)
    BY <1>2 DEF Shape, Begun
  <1> HIDE DEF w
  <1>4. Capped(w) /\ InLimits(w)
    BY <1>1, RecoveryAssumption DEF Fresh, Capped, InLimits
  <1>5. DOMAIN NoPlan = {}
    BY NoRunFields
  <1>6. Original(w)
    BY <1>1, <1>5 DEF Fresh, Original, NoCheckpoint
  <1>7. WorkflowOK(w)
    BY <1>1, <1>3, <1>4, <1>6 DEF WorkflowOK, Saved
  <1>8. QED
    BY <1>1, <1>7 DEF w

LEMMA RedeliverKeeps ==
    ASSUME RecoveryInv, Redeliver
    PROVE  RecoveryInv'
  <1>1. /\ wf.pc = "done" /\ scenario = "none" /\ wf' = Begun(wf.execution + 1)
        /\ wf.execution < MaxExecutions
        /\ UNCHANGED <<scenario, inbox, run, alive, click, strays, receipts, effects>>
    BY DEF Redeliver, Awaiting
  <1>2. WorkflowOK(wf) /\ ScenarioOK(scenario, wf) /\ InboxOK(inbox, wf, scenario)
        /\ ClickOK(click, inbox, run)
    BY DEF RecoveryInv
  <1>3. wf.execution + 1 \in 1 .. MaxExecutions /\ wf.execution + 1 # 1
    BY <1>1, <1>2, RecoveryAssumption DEF WorkflowOK, Shape
  <1>4. WorkflowOK(wf') /\ wf'.execution # 1 /\ wf'.pc = "start" /\ wf'.revision = 1
    BY <1>1, <1>3, BegunOK DEF Fresh
  <1>5. ASSUME NEW i \in 1 .. Len(inbox)
        PROVE  RequestOK(inbox[i], wf', scenario) /\ ~inbox[i].live
    BY <1>1, <1>2, <1>4 DEF InboxOK, RequestOK, WorkflowOK
  <1>6. InboxOK(inbox', wf', scenario')
    BY <1>1, <1>2, <1>5 DEF InboxOK
  <1>7. ScenarioOK(scenario', wf') /\ FirstOK(wf', run') /\ ClickOK(click', inbox', run')
    BY <1>1, <1>2, <1>4 DEF ScenarioOK, FirstOK
  <1>8. SandboxOK' /\ RunOK(run') /\ (alive' => run' # NoRun)
    BY <1>1 DEF RecoveryInv, SandboxOK
  <1>9. QED
    BY <1>4, <1>6, <1>7, <1>8 DEF RecoveryInv
-----------------------------------------------------------------------------
(* The coordinator's handlers                                              *)

\* In the first execution a command given up other than a step's is one the
\* workflow no longer goes on after.
LEMMA DeadMatches ==
    ASSUME RecoveryInv, Serving, wf.execution = 1, ~Request.live,
           Request.command # "step", NEW r
    PROVE  Matches(wf, r)
  <1>1. wf.pc \in {"cleanup", "done"}
    BY RequestFacts
  <1>2. QED
    BY <1>1 DEF Matches

LEMMA RunFacts ==
    ASSUME RecoveryInv
    PROVE  /\ WorkflowOK(wf) /\ RunOK(run) /\ run.ledger \in Nat
           /\ wf.execution = 1 /\ run # NoRun => Progress(wf, run) /\ Matches(wf, run)
           /\ \A s \in strays : s.key \in Keys
  BY DEF RecoveryInv, FirstOK, SandboxOK, RunOK, RunShape

LEMMA BeginRunKeeps ==
    ASSUME RecoveryInv, BeginRun
    PROVE  RecoveryInv'
  <1> DEFINE result == Result("started", run')
  <1>1. /\ Serving /\ click = NoClick /\ Request.command = "start" /\ run = NoRun
        /\ run' = BegunRun(Request.epoch) /\ Answered(result)
        /\ UNCHANGED <<scenario, click, strays, receipts, effects>>
    BY DEF BeginRun, Free, BegunRun
  <1>2. /\ result.outcome = "started" /\ result.ledger = run'.ledger
        /\ result.plan = run'.plan /\ result.epoch = run'.epoch
    BY ResultFields
  <1> HIDE DEF result
  <1>3. Request.epoch \in Nat
    BY <1>1, RequestFacts
  <1>4. /\ RunOK(run') /\ run' # NoRun /\ run'.plan = Plan /\ run'.epoch = Request.epoch
        /\ run'.ledger = 1 /\ DOMAIN run'.verdicts = {}
    BY <1>1, <1>3, BegunRunOK
  <1>5. Request.live => wf.pc = "start"
    BY <1>1, RequestFacts
  <1>6. DOMAIN Plan = Steps
    BY RecoveryAssumption
  <1>7. Request.live => Sound(result, wf)
    BY <1>2, <1>4, <1>5, <1>6 DEF Sound
  <1>8. ASSUME wf.execution = 1
        PROVE  /\ Progress(wf, run')
               /\ ~Request.live => Matches(wf, run')
               /\ Request.live => Fits(wf, run', result)
    <2>1. wf.completed = {} /\ wf.usage = 0
      BY <1>1, <1>8, RequestFacts DEF Own
    <2>2. Progress(wf, run')
      BY <1>4, <2>1 DEF Progress
    <2>3. ~Request.live => Matches(wf, run')
      BY <1>1, <1>8, DeadMatches
    <2>4. Request.live => Request.epoch = 1
      <3>1. Request.live => Fresh(wf)
        BY <1>5, RunFacts DEF WorkflowOK
      <3>2. QED
        BY <1>1, <1>8, <3>1, RequestFacts DEF Own, Fresh
    <2>5. Request.live => Fits(wf, run', result)
      BY <1>2, <1>4, <1>5, <2>4 DEF Fits
    <2>6. QED
      BY <2>2, <2>3, <2>5
  <1>9. QED
    BY <1>1, <1>4, <1>7, <1>8, RunFacts, AnswerStep

LEMMA BeginFailsKeeps ==
    ASSUME RecoveryInv, BeginFails
    PROVE  RecoveryInv'
  BY RaisedStep DEF BeginFails, Free

LEMMA UnknownKeeps ==
    ASSUME RecoveryInv, Unknown
    PROVE  RecoveryInv'
  BY RaisedStep DEF Unknown

LEMMA StaleKeeps ==
    ASSUME RecoveryInv, Stale
    PROVE  RecoveryInv'
  BY RaisedStep DEF Stale

LEMMA RecoverFailsKeeps ==
    ASSUME RecoveryInv, RecoverFails
    PROVE  RecoveryInv'
  BY RaisedStep DEF RecoverFails, Accepted, Free

LEMMA ResumeRunKeeps ==
    ASSUME RecoveryInv, ResumeRun
    PROVE  RecoveryInv'
  <1> DEFINE result == Result("started", run)
  <1>1. /\ Serving /\ click = NoClick /\ Request.command = "start" /\ run # NoRun
        /\ Answered(result)
        /\ UNCHANGED <<scenario, run, alive, click, strays, receipts, effects>>
    BY DEF ResumeRun, Free
  <1>2. /\ result.outcome = "started" /\ result.ledger = run.ledger
        /\ result.plan = run.plan /\ result.epoch = run.epoch
    BY ResultFields
  <1> HIDE DEF result
  <1>3. Request.live => wf.pc = "start"
    BY <1>1, RequestFacts
  <1>4. ASSUME wf.execution = 1
        PROVE  ~Request.live /\ Progress(wf, run) /\ Matches(wf, run)
    BY <1>1, <1>3, <1>4, RunFacts DEF Matches
  <1>5. Request.live => Sound(result, wf)
    BY <1>2, <1>3, <1>4, RunFacts DEF Sound
  <1>7. RunOK(run')
    BY <1>1, RunFacts
  <1>8. run' = run
    BY <1>1
  <1>9. QED
    BY <1>1, <1>4, <1>5, <1>7, <1>8, RunFacts, AnswerStep

LEMMA CleanUpKeeps ==
    ASSUME RecoveryInv, CleanUp
    PROVE  RecoveryInv'
  <1> DEFINE result == Result("cleaned", run)
  <1>1. /\ Serving /\ click = NoClick /\ Request.command = "cleanup"
        /\ run' = NoRun /\ ~alive' /\ Answered(result)
        /\ UNCHANGED <<scenario, click, strays, receipts, effects>>
    BY DEF CleanUp, Free
  <1>2. result.ledger = run.ledger
    BY ResultFields
  <1> HIDE DEF result
  <1>3. Request.live => Sound(result, wf)
    BY <1>1, <1>2, RequestFacts, RunFacts DEF Sound
  <1>4. QED
    BY <1>1, <1>3, NoRunFields, RunFacts, AnswerStep

\* A refresh or a recovery: the run keeps its plan and its verdicts.
LEMMA RefreshKeeps ==
    ASSUME RecoveryInv, Refresh
    PROVE  RecoveryInv'
  <1>1. /\ Serving /\ click = NoClick /\ Request.command = "refresh" /\ run # NoRun
        /\ UNCHANGED <<scenario, alive, click, strays, receipts, effects>>
    BY DEF Refresh, Accepted, Free
  <1>2. PICK outcome \in {"started", "session_lost"} :
           /\ run' = Charging(run) \/ run' = run
           /\ Answered(Result(outcome, run'))
    <2>1. CASE /\ alive
               /\ run' = Charging(run)
               /\ Answered(Result("started", run'))
      BY <2>1
    <2>2. CASE /\ Answered(Result("session_lost", run))
               /\ UNCHANGED run
      <3>1. run' = run
        BY <2>2
      <3>2. Answered(Result("session_lost", run'))
        BY <2>2, <3>1
      <3>3. QED
        BY <3>1, <3>2
    <2>3. QED
      BY <2>1, <2>2 DEF Refresh
  <1> DEFINE result == Result(outcome, run')
  <1>3. /\ result.ledger = run'.ledger
        /\ result.plan = run'.plan /\ result.epoch = run'.epoch
    BY ResultFields
  <1>4. Answered(result)
    BY <1>2
  <1> HIDE DEF result
  <1>5. /\ RunOK(run') /\ run' # NoRun /\ run'.ledger >= run.ledger /\ run'.ledger \in Nat
        /\ run'.plan = run.plan /\ run'.epoch = run.epoch /\ run'.verdicts = run.verdicts
    <2>1. CASE run' = Charging(run)
      <3>1. /\ RunOK(run') /\ run' # NoRun /\ run'.ledger = run.ledger + 1
            /\ run'.plan = run.plan /\ run'.epoch = run.epoch /\ run'.verdicts = run.verdicts
        BY <1>1, <2>1, RunFacts, ChargingOK
      <3>2. QED
        BY <3>1, RunFacts
    <2>2. CASE run' = run
      BY <1>1, <2>2, RunFacts
    <2>3. QED
      BY <1>2, <2>1, <2>2
  <1>6. Request.live => wf.pc = "refresh"
    BY <1>1, RequestFacts
  <1>7. Request.live => Sound(result, wf)
    BY <1>3, <1>5, <1>6 DEF Sound
  <1>8. ASSUME wf.execution = 1
        PROVE  /\ Progress(wf, run')
               /\ ~Request.live => Matches(wf, run')
               /\ Request.live => Fits(wf, run', result)
    <2>1. Progress(wf, run) /\ Matches(wf, run)
      BY <1>1, <1>8, RunFacts
    <2>2. Progress(wf, run')
      BY <1>5, <2>1, RunFacts, ProgressKept
    <2>3. ~Request.live => Matches(wf, run')
      BY <1>1, <1>8, DeadMatches
    <2>4. Request.live => Fits(wf, run', result)
      BY <1>3, <1>5, <1>6, <2>1 DEF Fits, Matches
    <2>5. QED
      BY <2>2, <2>3, <2>4
  <1>9. QED
    BY <1>1, <1>4, <1>5, <1>7, <1>8, RunFacts, AnswerStep

LEMMA RecoverKeeps ==
    ASSUME RecoveryInv, Recover
    PROVE  RecoveryInv'
  <1>1. /\ Serving /\ click = NoClick /\ Request.command = "recover" /\ run # NoRun
        /\ UNCHANGED <<scenario, click, strays, receipts, effects>>
    BY DEF Recover, Accepted, Free
  <1>2. Request.epoch \in Nat
    BY <1>1, RequestFacts
  <1>3. PICK outcome \in {"started", "permanent_failure"} :
           /\ run' = NewEpoch(run, Request.epoch) \/ (run' = run /\ alive' = alive)
           /\ Answered(Result(outcome, run'))
    <2>1. CASE Request.epoch # run.epoch + 1 \/ Request.epoch > 3
      <3>1. run' = run /\ alive' = alive /\ Answered(Result("permanent_failure", run))
        BY <2>1 DEF Recover
      <3>2. Answered(Result("permanent_failure", run'))
        BY <3>1
      <3>3. QED
        BY <3>1, <3>2
    <2>2. CASE ~(Request.epoch # run.epoch + 1 \/ Request.epoch > 3)
      BY <2>2 DEF Recover
    <2>3. QED
      BY <2>1, <2>2
  <1> DEFINE result == Result(outcome, run')
  <1>4. /\ result.ledger = run'.ledger
        /\ result.plan = run'.plan /\ result.epoch = run'.epoch
    BY ResultFields
  <1>5. Answered(result)
    BY <1>3
  <1> HIDE DEF result
  <1>6. /\ RunOK(run') /\ run' # NoRun /\ run'.ledger >= run.ledger /\ run'.ledger \in Nat
        /\ run'.plan = run.plan /\ run'.verdicts = run.verdicts
    <2>1. CASE run' = NewEpoch(run, Request.epoch)
      <3>3. RunOK(run) /\ run # NoRun
        BY <1>1, RunFacts
      <3>1. /\ RunOK(run') /\ run' # NoRun /\ run'.ledger = run.ledger + 1
            /\ run'.plan = run.plan /\ run'.verdicts = run.verdicts
        BY <1>2, <2>1, <3>3, NewEpochOK
      <3>2. QED
        BY <3>1, RunFacts
    <2>2. CASE run' = run
      BY <1>1, <2>2, RunFacts
    <2>3. QED
      BY <1>3, <2>1, <2>2
  <1>7. Request.live => wf.pc = "recover"
    BY <1>1, RequestFacts
  <1>8. Request.live => Sound(result, wf)
    BY <1>4, <1>6, <1>7 DEF Sound
  <1>9. ASSUME wf.execution = 1
        PROVE  /\ Progress(wf, run')
               /\ ~Request.live => Matches(wf, run')
               /\ Request.live => Fits(wf, run', result)
    <2>1. Progress(wf, run) /\ Matches(wf, run)
      BY <1>1, <1>9, RunFacts
    <2>2. Progress(wf, run')
      BY <1>6, <2>1, RunFacts, ProgressKept
    <2>3. ~Request.live => Matches(wf, run')
      BY <1>1, <1>9, DeadMatches
    <2>4. Request.live => Fits(wf, run', result)
      BY <1>4, <1>6, <1>7, <2>1 DEF Fits, Matches
    <2>5. QED
      BY <2>2, <2>3, <2>4
  <1>10. QED
    BY <1>1, <1>5, <1>6, <1>8, <1>9, RunFacts, AnswerStep

LEMMA ReplanKeeps ==
    ASSUME RecoveryInv, Replan
    PROVE  RecoveryInv'
  <1>1. /\ Serving /\ click = NoClick /\ Request.command = "replan" /\ run # NoRun
        /\ Bound(Request)
        /\ UNCHANGED <<scenario, alive, click, strays, receipts, effects>>
    BY DEF Replan, Accepted, Free
  <1> DEFINE revised == PartialReplan(run.plan, Request.step, DOMAIN run.verdicts)
  <1>2. CASE ~Replannable(run.plan, Request.step, DOMAIN run.verdicts)
    <2>1. Raised /\ run' = run
      BY <1>2 DEF Replan
    <2>2. QED
      BY <1>1, <2>1, RaisedStep
  <1>3. CASE Replannable(run.plan, Request.step, DOMAIN run.verdicts)
    <2>1. PICK outcome \in {"started", "permanent_failure"} :
             /\ run' = run \/ (/\ run' = RunPlan(run, revised) /\ ValidDag(revised)
                               /\ Request.revision = 2)
             /\ Answered(Result(outcome, run'))
      <3>1. CASE Request.revision # 2 \/ ~ValidDag(revised)
        <4>1. run' = run /\ Answered(Result("permanent_failure", run))
          BY <1>3, <3>1 DEF Replan
        <4>2. Answered(Result("permanent_failure", run'))
          BY <4>1
        <4>3. QED
          BY <4>1, <4>2
      <3>2. CASE ~(Request.revision # 2 \/ ~ValidDag(revised))
        <4>1. run' = RunPlan(run, revised) /\ Answered(Result("started", run'))
          BY <1>3, <3>2 DEF Replan, RunPlan
        <4>2. QED
          BY <3>2, <4>1
      <3>3. QED
        BY <3>1, <3>2
    <2> DEFINE result == Result(outcome, run')
    <2>2. /\ result.ledger = run'.ledger
          /\ result.plan = run'.plan /\ result.epoch = run'.epoch
      BY ResultFields
    <2>3. Answered(result)
      BY <2>1
    <2> HIDE DEF result
    <2>4. scenario \in Replanning /\ wf.execution = 1
      <3>1. scenario \in Replanning
        BY <1>1, RequestFacts
      <3>2. QED
        BY <3>1 DEF Replanning, RecoveryInv, ScenarioOK
    <2>5. Own(Request, wf)
      BY <1>1, <2>4, RequestFacts
    <2>6. ASSUME Request.revision = 2 PROVE DOMAIN run.plan \subseteq Steps
      <3>1. wf.checkpoint.plan = run.plan /\ wf.checkpoint.revision + 1 = 2
        BY <1>1, <2>5, <2>6 DEF Bound, Own
      <3>2. wf.checkpoint.revision = 1
        BY <3>1, RunFacts DEF WorkflowOK, Original
      <3>3. QED
        BY <2>4, <3>1, <3>2, RunFacts DEF WorkflowOK, Original
    <2>7. /\ RunOK(run') /\ run' # NoRun /\ run'.ledger >= run.ledger /\ run'.ledger \in Nat
          /\ run'.epoch = run.epoch /\ run'.verdicts = run.verdicts
      <3>1. CASE run' = run
        BY <1>1, <3>1, RunFacts
      <3>2. CASE run' = RunPlan(run, revised) /\ ValidDag(revised) /\ Request.revision = 2
        <4>1. DOMAIN run.verdicts \subseteq DOMAIN run.plan
          BY RunFacts DEF RunOK
        <4>2. DOMAIN revised \subseteq Ids /\ DOMAIN run.verdicts \subseteq DOMAIN revised
          BY <2>6, <3>2, <4>1, RevisedPlanKeeps
        <4> HIDE DEF revised
        <4>5. RunOK(run) /\ run # NoRun /\ ValidDag(revised) /\ run' = RunPlan(run, revised)
          BY <1>1, <3>2, RunFacts
        <4>3. /\ RunOK(run') /\ run' # NoRun /\ run'.ledger = run.ledger
              /\ run'.epoch = run.epoch /\ run'.verdicts = run.verdicts
          BY <4>2, <4>5, RevisedPlanOK
        <4>4. QED
          BY <4>3, RunFacts
      <3>3. QED
        BY <2>1, <3>1, <3>2
    <2>8. Request.live => wf.pc = "replan"
      BY <1>1, RequestFacts
    <2>9. Request.live => Sound(result, wf)
      BY <2>2, <2>7, <2>8 DEF Sound
    <2>10. /\ Progress(wf, run')
           /\ ~Request.live => Matches(wf, run')
           /\ Request.live => Fits(wf, run', result)
      <3>1. Progress(wf, run) /\ Matches(wf, run)
        BY <1>1, <2>4, RunFacts
      <3>2. Progress(wf, run')
        BY <2>7, <3>1, RunFacts, ProgressKept
      <3>3. ~Request.live => Matches(wf, run')
        BY <1>1, <2>4, DeadMatches
      <3>4. Request.live => Fits(wf, run', result)
        BY <2>2, <2>7, <2>8, <3>1 DEF Fits, Matches
      <3>5. QED
        BY <3>2, <3>3, <3>4
    <2>11. QED
      BY <1>1, <2>3, <2>7, <2>9, <2>10, RunFacts, AnswerStep
  <1>4. QED
    BY <1>2, <1>3
-----------------------------------------------------------------------------
(* The coordinator executes a step                                         *)

\* A step's command: whose step it is and where the workflow may be.
LEMMA StepFacts ==
    ASSUME RecoveryInv, Serving, Request.command = "step", run # NoRun
    PROVE  /\ Request.live => wf.pc = "step"
           /\ Request.live \/ wf.execution = 1 =>
                 Request.step = NextStep(wf.plan, wf.completed)
           /\ wf.execution = 1 => wf.pc \in {"step", "cleanup", "done"}
           /\ wf.execution = 1 /\ Request.step \notin DOMAIN run.verdicts =>
                 DOMAIN run.verdicts \subseteq wf.completed
  <1>1. Request.live \/ wf.execution = 1 => Request.step = NextStep(wf.plan, wf.completed)
    BY RequestFacts DEF Own, StepOf
  <1>2. wf.execution = 1 => wf.pc \in {"step", "cleanup", "done"}
    BY RequestFacts
  <1>3. wf.execution = 1 /\ Request.step \notin DOMAIN run.verdicts =>
           DOMAIN run.verdicts \subseteq wf.completed
    BY <1>1, RunFacts DEF Progress
  <1>4. QED
    BY <1>1, <1>2, <1>3, RequestFacts

\* An answer that leaves the verdicts alone and does not claim one.
LEMMA OtherOutcomeStep ==
    ASSUME RecoveryInv, Serving, Request.command = "step", run # NoRun,
           Request.step \notin DOMAIN run.verdicts,
           NEW outcome, outcome # "verified",
           outcome = "replan_eligible" => scenario \in Replanning,
           RunOK(run'), run' # NoRun, run'.ledger >= run.ledger, run'.ledger \in Nat,
           run'.plan = run.plan, run'.epoch = run.epoch, run'.verdicts = run.verdicts,
           NEW result, Answered(result), result.outcome = outcome,
           result.ledger = run'.ledger, result.plan = run'.plan, result.epoch = run'.epoch,
           click' = NoClick, scenario' = scenario,
           UNCHANGED <<receipts, effects>>, \A s \in strays' : s.key \in Keys
    PROVE  RecoveryInv'
  <1>1. Request.live => wf.pc = "step"
    BY StepFacts
  <1>2. Request.live => Sound(result, wf)
    BY <1>1 DEF Sound, Replanning
  <1>3. ASSUME wf.execution = 1
        PROVE  /\ Progress(wf, run')
               /\ ~Request.live => Matches(wf, run')
               /\ Request.live => Fits(wf, run', result)
    <2>1. Progress(wf, run) /\ Matches(wf, run)
      BY <1>3, RunFacts
    <2>2. Progress(wf, run')
      BY <2>1, RunFacts, ProgressKept
    <2>3. Matches(wf, run')
      BY <2>1 DEF Matches
    <2>4. DOMAIN run'.verdicts \subseteq wf.completed
      BY <1>3, StepFacts
    <2>5. Request.live => Fits(wf, run', result)
      BY <1>1, <2>1, <2>4 DEF Fits, Matches
    <2>6. QED
      BY <2>2, <2>3, <2>5
  <1>4. QED
    BY <1>2, <1>3, AnswerStep

\* An answer that claims a verdict the coordinator has.
LEMMA VerdictStep ==
    ASSUME RecoveryInv, Serving, Request.command = "step", run # NoRun,
           RunOK(run'), run' # NoRun, run'.plan = run.plan, run'.epoch = run.epoch,
           Request.step \in DOMAIN run'.verdicts,
           wf.execution = 1 => Progress(wf, run'),
           NEW result, Answered(result), result.outcome = "verified",
           result.ledger = run'.verdicts[Request.step],
           result.plan = run'.plan, result.epoch = run'.epoch,
           click' = NoClick,
           UNCHANGED <<scenario, strays, receipts, effects>>
    PROVE  RecoveryInv'
  <1>1. /\ Request.live => wf.pc = "step"
        /\ Request.live => Request.step = NextStep(wf.plan, wf.completed)
    BY StepFacts
  <1>2. Request.step \in Ids /\ result.ledger \in 0 .. run'.ledger /\ run'.ledger \in Nat
    BY DEF RunOK, RunShape
  <1>3. result.ledger \in Nat /\ result.ledger <= run'.ledger
        /\ result.ledger <= run'.verdicts[Request.step]
    BY <1>2
  <1>4. Request.live => Sound(result, wf)
    BY <1>1, <1>2, <1>3 DEF Sound
  <1>5. ASSUME wf.execution = 1
        PROVE  /\ Progress(wf, run')
               /\ ~Request.live => Matches(wf, run')
               /\ Request.live => Fits(wf, run', result)
    <2>1. Matches(wf, run)
      BY <1>5, RunFacts
    <2>2. Matches(wf, run')
      BY <2>1 DEF Matches
    <2>3. Request.live => Fits(wf, run', result)
      BY <1>1, <1>3, <2>1 DEF Fits, Matches
    <2>4. QED
      BY <1>5, <2>2, <2>3
  <1>6. strays' = strays /\ scenario' = scenario
    OBVIOUS
  <1>7. QED
    BY <1>4, <1>5, <1>6, RunFacts, AnswerStep

\* Recording the verdict of the workflow's next step keeps its progress.
LEMMA ProgressVerified ==
    ASSUME RecoveryInv, Serving, Request.command = "step", run # NoRun, wf.execution = 1,
           NEW r, RunOK(r), r.verdicts = run.verdicts, r.ledger >= run.ledger,
           NEW u, RunOK(u), u.ledger = r.ledger,
           DOMAIN u.verdicts = DOMAIN r.verdicts \cup {Request.step},
           u.verdicts[Request.step] = r.ledger,
           \A t \in DOMAIN r.verdicts : u.verdicts[t] = r.verdicts[t]
    PROVE  Progress(wf, u)
  <1>1. Progress(wf, r)
    BY RunFacts, ProgressKept
  <1>2. Request.step = NextStep(wf.plan, wf.completed) /\ wf.pc \in {"step", "cleanup", "done"}
    BY StepFacts
  <1>3. r.ledger >= wf.usage /\ u.ledger >= wf.usage
    BY <1>1 DEF Progress
  <1>4. wf.completed \subseteq DOMAIN u.verdicts
    BY <1>1 DEF Progress
  <1>5. ASSUME NEW s \in DOMAIN u.verdicts \ wf.completed
        PROVE  s = NextStep(wf.plan, wf.completed) /\ u.verdicts[s] >= wf.usage
    <2>1. CASE s = Request.step
      BY <1>2, <1>3, <2>1
    <2>2. CASE s # Request.step
      <3>1. s \in DOMAIN r.verdicts \ wf.completed /\ u.verdicts[s] = r.verdicts[s]
        BY <2>2
      <3>2. QED
        BY <1>1, <3>1 DEF Progress
    <2>3. QED
      BY <2>1, <2>2
  <1>6. QED
    BY <1>2, <1>3, <1>4, <1>5 DEF Progress

LEMMA AlreadyVerifiedKeeps ==
    ASSUME RecoveryInv, AlreadyVerified
    PROVE  RecoveryInv'
  <1> DEFINE q == [run EXCEPT !.ledger = run.verdicts[Request.step]]
             result == Result("verified", q)
  <1>1. /\ Serving /\ click = NoClick /\ Request.command = "step" /\ run # NoRun
        /\ Request.step \in DOMAIN run.verdicts /\ Answered(result)
        /\ UNCHANGED <<scenario, run, alive, click, strays, receipts, effects>>
    BY DEF AlreadyVerified, Accepted, Free
  <1>2. q.ledger = run.verdicts[Request.step] /\ q.plan = run.plan /\ q.epoch = run.epoch
    <2>1. run.verdicts[Request.step] \in Nat /\ RunShape(run)
      BY <1>1, RunFacts DEF RunOK
    <2>2. q = RunLedger(run, run.verdicts[Request.step])
      BY DEF RunLedger
    <2> HIDE DEF q
    <2>3. QED
      BY <2>1, <2>2, RunLedgerFields
  <1> HIDE DEF q
  <1>3. /\ result.outcome = "verified" /\ result.ledger = run.verdicts[Request.step]
        /\ result.plan = run.plan /\ result.epoch = run.epoch
    BY <1>2, ResultFields
  <1> HIDE DEF result
  <1>4. run' = run /\ RunOK(run) /\ (wf.execution = 1 => Progress(wf, run))
    BY <1>1, RunFacts
  <1>5. QED
    BY <1>1, <1>3, <1>4, VerdictStep

LEMMA RefusedKeeps ==
    ASSUME RecoveryInv, Refused
    PROVE  RecoveryInv'
  <1> DEFINE b == run.injected \/ scenario = "permanent_failure"
             result == Result("permanent_failure", run)
  <1>1. /\ Serving /\ click = NoClick /\ Request.command = "step" /\ run # NoRun
        /\ Request.step \notin DOMAIN run.verdicts
        /\ run' = RunInjected(run, b) /\ Answered(result)
        /\ UNCHANGED <<scenario, alive, click, strays, receipts, effects>>
    BY DEF Refused, Unverified, Accepted, Free, RunInjected
  <1>2. /\ result.outcome = "permanent_failure" /\ result.ledger = run.ledger
        /\ result.plan = run.plan /\ result.epoch = run.epoch
    BY ResultFields
  <1>3. b \in BOOLEAN
    OBVIOUS
  <1> HIDE DEF result, b
  <1>4. /\ RunOK(run') /\ run' # NoRun /\ run'.ledger = run.ledger
        /\ run'.plan = run.plan /\ run'.epoch = run.epoch /\ run'.verdicts = run.verdicts
    BY <1>1, <1>3, RunFacts, InjectedOK
  <1>5. run'.ledger >= run.ledger /\ run'.ledger \in Nat
    BY <1>4, RunFacts
  <1>6. QED
    BY <1>1, <1>2, <1>4, <1>5, RunFacts, OtherOutcomeStep

LEMMA InjectedLossKeeps ==
    ASSUME RecoveryInv, InjectedLoss
    PROVE  RecoveryInv'
  <1> DEFINE result == Result("session_lost", run)
  <1>1. /\ Serving /\ click = NoClick /\ Request.command = "step" /\ run # NoRun
        /\ Request.step \notin DOMAIN run.verdicts
        /\ run' = RunInjected(run, TRUE) /\ Answered(result)
        /\ UNCHANGED <<scenario, click, strays, receipts, effects>>
    BY DEF InjectedLoss, Unverified, Accepted, Free, RunInjected
  <1>2. /\ result.outcome = "session_lost" /\ result.ledger = run.ledger
        /\ result.plan = run.plan /\ result.epoch = run.epoch
    BY ResultFields
  <1> HIDE DEF result
  <1>3. TRUE \in BOOLEAN
    OBVIOUS
  <1>4. /\ RunOK(run') /\ run' # NoRun /\ run'.ledger = run.ledger
        /\ run'.plan = run.plan /\ run'.epoch = run.epoch /\ run'.verdicts = run.verdicts
    BY <1>1, <1>3, RunFacts, InjectedOK
  <1>5. run'.ledger >= run.ledger /\ run'.ledger \in Nat
    BY <1>4, RunFacts
  <1>6. QED
    BY <1>1, <1>2, <1>4, <1>5, RunFacts, OtherOutcomeStep

LEMMA InjectedReplanKeeps ==
    ASSUME RecoveryInv, InjectedReplan
    PROVE  RecoveryInv'
  <1> DEFINE result == Result("replan_eligible", run)
  <1>1. /\ Serving /\ click = NoClick /\ Request.command = "step" /\ run # NoRun
        /\ Request.step \notin DOMAIN run.verdicts
        /\ run' = RunInjected(run, TRUE) /\ Answered(result) /\ ReplanArmed
        /\ UNCHANGED <<scenario, alive, click, strays, receipts, effects>>
    BY DEF InjectedReplan, Unverified, Accepted, Free, RunInjected
  <1>2. /\ result.outcome = "replan_eligible" /\ result.ledger = run.ledger
        /\ result.plan = run.plan /\ result.epoch = run.epoch
    BY ResultFields
  <1> HIDE DEF result
  <1>3. TRUE \in BOOLEAN
    OBVIOUS
  <1>4. /\ RunOK(run') /\ run' # NoRun /\ run'.ledger = run.ledger
        /\ run'.plan = run.plan /\ run'.epoch = run.epoch /\ run'.verdicts = run.verdicts
    BY <1>1, <1>3, RunFacts, InjectedOK
  <1>5. run'.ledger >= run.ledger /\ run'.ledger \in Nat
    BY <1>4, RunFacts
  <1>6. scenario \in Replanning
    BY <1>1 DEF ReplanArmed, Armed, Replanning
  <1>7. QED
    BY <1>1, <1>2, <1>4, <1>5, <1>6, RunFacts, OtherOutcomeStep

LEMMA LookKeeps ==
    ASSUME RecoveryInv, Look
    PROVE  RecoveryInv'
  <1> DEFINE r == Charging(run)
             result == Result("verified", run')
  <1>1. /\ Serving /\ click = NoClick /\ Request.command = "step" /\ run # NoRun
        /\ Request.step \in DOMAIN run.plan \ DOMAIN run.verdicts
        /\ run' = Verified(r, Request.step) /\ Answered(result)
        /\ UNCHANGED <<scenario, alive, click, strays, receipts, effects>>
    BY DEF Look, Executing, Unverified, Accepted, Free, Refusable
  <1>2. /\ result.outcome = "verified" /\ result.ledger = run'.ledger
        /\ result.plan = run'.plan /\ result.epoch = run'.epoch
    BY ResultFields
  <1>3. /\ RunOK(r) /\ r # NoRun /\ r.ledger = run.ledger + 1
        /\ r.plan = run.plan /\ r.epoch = run.epoch /\ r.verdicts = run.verdicts
    BY <1>1, RunFacts, ChargingOK
  <1> HIDE DEF r, result
  <1>4. Request.step \in DOMAIN r.plan \ DOMAIN r.verdicts
    BY <1>1, <1>3
  <1>5. /\ RunOK(run') /\ run' # NoRun /\ run'.ledger = r.ledger
        /\ run'.plan = r.plan /\ run'.epoch = r.epoch
        /\ DOMAIN run'.verdicts = DOMAIN r.verdicts \cup {Request.step}
        /\ run'.verdicts[Request.step] = r.ledger
        /\ \A t \in DOMAIN r.verdicts : run'.verdicts[t] = r.verdicts[t]
    BY <1>1, <1>3, <1>4, VerifiedOK
  <1>6. r.ledger >= run.ledger
    BY <1>3, RunFacts
  <1>7. wf.execution = 1 => Progress(wf, run')
    BY <1>1, <1>3, <1>5, <1>6, ProgressVerified
  <1>8. QED
    BY <1>1, <1>2, <1>3, <1>5, <1>7, VerdictStep

LEMMA ActFailsKeeps ==
    ASSUME RecoveryInv, ActFails
    PROVE  RecoveryInv'
  <1>1. /\ Serving /\ click = NoClick /\ Request.command = "step" /\ run # NoRun
        /\ Request.step \notin DOMAIN run.verdicts /\ run' = Charging(run)
        /\ UNCHANGED <<scenario, alive, click, strays, receipts, effects>>
    BY DEF ActFails, Executing, Unverified, Accepted, Free
  <1>2. PICK outcome \in {"session_lost", "permanent_failure"} : Answered(Result(outcome, run'))
    BY DEF ActFails
  <1> DEFINE result == Result(outcome, run')
  <1>3. /\ result.outcome = outcome /\ result.ledger = run'.ledger
        /\ result.plan = run'.plan /\ result.epoch = run'.epoch /\ Answered(result)
    BY <1>2, ResultFields
  <1> HIDE DEF result
  <1>4. /\ RunOK(run') /\ run' # NoRun /\ run'.ledger = run.ledger + 1
        /\ run'.plan = run.plan /\ run'.epoch = run.epoch /\ run'.verdicts = run.verdicts
    BY <1>1, RunFacts, ChargingOK
  <1>5. run'.ledger >= run.ledger /\ run'.ledger \in Nat
    BY <1>4, RunFacts
  <1>6. outcome # "verified" /\ outcome # "replan_eligible"
    OBVIOUS
  <1>7. QED
    BY <1>1, <1>3, <1>4, <1>5, <1>6, RunFacts, OtherOutcomeStep
-----------------------------------------------------------------------------
(* The click and the Sandbox                                               *)

\* While a click is pending the command that pressed the button is still the
\* first in line, and its step is not verified.
LEMMA ClickFacts ==
    ASSUME RecoveryInv, click # NoClick
    PROVE  /\ Serving /\ run # NoRun /\ Request.command = "step"
           /\ Request.step \in DOMAIN run.plan \ DOMAIN run.verdicts
           /\ click.key \in Keys
           /\ click \in [key : Keys, state : {"flying", "mismatch", "done"}]
  BY DEF RecoveryInv, ClickOK, Serving, Request

LEMMA PressButtonKeeps ==
    ASSUME RecoveryInv, PressButton
    PROVE  RecoveryInv'
  <1> DEFINE b == Charging(run).injected \/ scenario = "idempotency_mismatch"
             state == IF Armed({"idempotency_mismatch"}) THEN "mismatch" ELSE "flying"
             c == Charging(run)
  <1>1. /\ Serving /\ click = NoClick /\ Request.command = "step" /\ run # NoRun /\ alive
        /\ Request.step \in DOMAIN run.plan \ DOMAIN run.verdicts
        /\ run' = RunInjected(c, b) /\ click' = [key |-> KeyOf(Request), state |-> state]
        /\ UNCHANGED <<scenario, wf, inbox, alive, strays, receipts, effects>>
    BY DEF PressButton, Executing, Unverified, Accepted, Free, Refusable, RunInjected
  <1>2. b \in BOOLEAN /\ state \in {"flying", "mismatch", "done"}
    OBVIOUS
  <1>3. /\ RunOK(c) /\ c # NoRun /\ c.ledger = run.ledger + 1
        /\ c.plan = run.plan /\ c.epoch = run.epoch /\ c.verdicts = run.verdicts
    BY <1>1, RunFacts, ChargingOK
  <1> HIDE DEF b, state, c
  <1>4. /\ RunOK(run') /\ run' # NoRun /\ run'.ledger = c.ledger
        /\ run'.plan = c.plan /\ run'.epoch = c.epoch /\ run'.verdicts = c.verdicts
    BY <1>1, <1>2, <1>3, InjectedOK
  <1>5. run'.ledger >= run.ledger
    BY <1>3, <1>4, RunFacts
  <1>6. KeyOf(Request) \in Keys
    <2>1. Request.revision \in 1 .. 2 /\ Request.step \in Ids
      BY <1>1, RequestFacts, RunFacts DEF RunOK
    <2>2. QED
      BY <2>1 DEF KeyOf, Keys
  <1>7. click' \in [key : Keys, state : {"flying", "mismatch", "done"}]
    BY <1>1, <1>2, <1>6
  <1>8. ClickOK(click', inbox', run')
    BY <1>1, <1>3, <1>4, <1>7 DEF ClickOK, Serving, Request
  <1>9. FirstOK(wf', run')
    <2>1. SUFFICES ASSUME wf.execution = 1 PROVE Progress(wf, run') /\ Matches(wf, run')
      BY <1>1 DEF FirstOK
    <2>2. Progress(wf, run) /\ Matches(wf, run)
      BY <1>1, <2>1, RunFacts
    <2>3. Progress(wf, run')
      BY <1>3, <1>4, <1>5, <2>2, RunFacts, ProgressKept
    <2>4. Matches(wf, run')
      BY <1>3, <1>4, <2>2 DEF Matches
    <2>5. QED
      BY <2>3, <2>4
  <1>10. SandboxOK' /\ WorkflowOK(wf') /\ InboxOK(inbox', wf', scenario')
         /\ ScenarioOK(scenario', wf')
    BY <1>1 DEF RecoveryInv, SandboxOK
  <1>11. QED
    BY <1>4, <1>8, <1>9, <1>10 DEF RecoveryInv

LEMMA ConfirmKeeps ==
    ASSUME RecoveryInv, Confirm
    PROVE  RecoveryInv'
  <1> DEFINE result == Result("verified", run')
  <1>1. /\ click # NoClick /\ click' = NoClick
        /\ run' = Verified(run, Request.step) /\ Answered(result)
        /\ UNCHANGED <<scenario, alive, strays, receipts, effects>>
    BY DEF Confirm, Committed, NoClick
  <1>2. /\ result.outcome = "verified" /\ result.ledger = run'.ledger
        /\ result.plan = run'.plan /\ result.epoch = run'.epoch
    BY ResultFields
  <1> HIDE DEF result
  <1>3. /\ Serving /\ run # NoRun /\ Request.command = "step"
        /\ Request.step \in DOMAIN run.plan \ DOMAIN run.verdicts
    BY <1>1, ClickFacts
  <1>4. RunOK(run)
    BY RunFacts
  <1>5. /\ RunOK(run') /\ run' # NoRun /\ run'.ledger = run.ledger
        /\ run'.plan = run.plan /\ run'.epoch = run.epoch
        /\ DOMAIN run'.verdicts = DOMAIN run.verdicts \cup {Request.step}
        /\ run'.verdicts[Request.step] = run.ledger
        /\ \A t \in DOMAIN run.verdicts : run'.verdicts[t] = run.verdicts[t]
    BY <1>1, <1>3, <1>4, VerifiedOK
  <1>6. run.ledger >= run.ledger
    BY RunFacts
  <1>7. wf.execution = 1 => Progress(wf, run')
    BY <1>3, <1>4, <1>5, <1>6, ProgressVerified
  <1>8. QED
    BY <1>1, <1>2, <1>3, <1>5, <1>7, VerdictStep

\* An answer to the click's command that leaves the run as it was.
LEMMA DroppedClick ==
    ASSUME RecoveryInv, click # NoClick, click' = NoClick,
           NEW outcome \in {"permanent_failure", "idempotency_mismatch", "session_lost"},
           Answered(Result(outcome, run)),
           UNCHANGED <<scenario, run, alive, receipts, effects>>,
           \A s \in strays' : s.key \in Keys
    PROVE  RecoveryInv'
  <1> DEFINE result == Result(outcome, run)
  <1>1. /\ result.outcome = outcome /\ result.ledger = run.ledger
        /\ result.plan = run.plan /\ result.epoch = run.epoch /\ Answered(result)
    BY ResultFields
  <1> HIDE DEF result
  <1>2. /\ Serving /\ run # NoRun /\ Request.command = "step"
        /\ Request.step \notin DOMAIN run.verdicts
    BY ClickFacts
  <1>3. run' = run /\ RunOK(run) /\ run.ledger \in Nat /\ run.ledger >= run.ledger
    BY RunFacts
  <1>4. outcome # "verified" /\ outcome # "replan_eligible"
    OBVIOUS
  <1>5. QED
    BY <1>1, <1>2, <1>3, <1>4, OtherOutcomeStep

LEMMA NotConfirmedKeeps ==
    ASSUME RecoveryInv, NotConfirmed
    PROVE  RecoveryInv'
  BY DroppedClick, RunFacts DEF NotConfirmed, Committed, NoClick

LEMMA MismatchedKeeps ==
    ASSUME RecoveryInv, Mismatched
    PROVE  RecoveryInv'
  BY DroppedClick, RunFacts DEF Mismatched, NoClick

LEMMA GiveUpKeeps ==
    ASSUME RecoveryInv, GiveUp
    PROVE  RecoveryInv'
  <1>1. /\ click # NoClick /\ click' = NoClick
        /\ Answered(Result("session_lost", run))
        /\ UNCHANGED <<scenario, run, alive, receipts, effects>>
    BY DEF GiveUp
  <1>2. ASSUME NEW s \in strays' PROVE s.key \in Keys
    <2>1. strays' = strays
          \/ \E bound \in {TRUE, ~LateRequests} :
                strays' = strays \cup {[key |-> click.key, bound |-> bound]}
      BY DEF GiveUp
    <2>2. s \in strays \/ s.key = click.key
      BY <1>2, <2>1
    <2>3. QED
      BY <1>1, <2>2, ClickFacts, RunFacts
  <1>3. QED
    BY <1>1, <1>2, DroppedClick

\* A request that reaches the Sandbox
LEMMA LandedOK ==
    ASSUME SandboxOK, NEW key \in Keys, NEW bound, Landed(key, bound)
    PROVE  receipts' \subseteq Keys /\ effects' \in [Effects -> Nat]
  <1>1. receipts \subseteq Keys /\ effects \in [Effects -> Nat]
    BY DEF SandboxOK
  <1>2. CASE Commits(key, bound)
    <2> DEFINE o == Origin(key[2])
    <2>1. /\ effects' = [effects EXCEPT ![o] = effects[o] + 1]
          /\ receipts' = IF bound THEN receipts \cup {key} ELSE receipts
      BY <1>2 DEF Landed
    <2> HIDE DEF o
    <2>2. effects' \in [Effects -> Nat]
      <3>1. CASE o \in Effects
        <4>1. effects[o] + 1 \in Nat
          BY <1>1, <3>1
        <4>2. QED
          BY <1>1, <2>1, <4>1
      <3>2. CASE o \notin Effects
        BY <1>1, <2>1, <3>2
      <3>3. QED
        BY <3>1, <3>2
    <2>3. receipts' \subseteq Keys
      BY <1>1, <2>1
    <2>4. QED
      BY <2>2, <2>3
  <1>3. CASE ~Commits(key, bound)
    BY <1>1, <1>3 DEF Landed
  <1>4. QED
    BY <1>2, <1>3

LEMMA ClickLandsKeeps ==
    ASSUME RecoveryInv, ClickLands
    PROVE  RecoveryInv'
  <1> DEFINE state == IF Replayed(click.key, TRUE) \/ Commits(click.key, TRUE)
                      THEN "done" ELSE "mismatch"
  <1>1. /\ click.state = "flying" /\ Landed(click.key, TRUE)
        /\ click' = [click EXCEPT !.state = state]
        /\ UNCHANGED <<scenario, wf, inbox, run, alive, strays>>
    BY DEF ClickLands
  <1>2. state \in {"flying", "mismatch", "done"}
    OBVIOUS
  <1>3. click # NoClick
    BY <1>1 DEF NoClick
  <1> HIDE DEF state
  <1>4. click' \in [key : Keys, state : {"flying", "mismatch", "done"}]
    BY <1>1, <1>2, <1>3, ClickFacts
  <1>5. ClickOK(click', inbox', run')
    BY <1>1, <1>3, <1>4 DEF RecoveryInv, ClickOK
  <1>6. receipts' \subseteq Keys /\ effects' \in [Effects -> Nat]
    BY <1>1, <1>3, ClickFacts, LandedOK DEF RecoveryInv
  <1>7. SandboxOK'
    BY <1>1, <1>6 DEF RecoveryInv, SandboxOK
  <1>8. QED
    BY <1>1, <1>5, <1>7 DEF RecoveryInv

LEMMA StrayLandsKeeps ==
    ASSUME RecoveryInv, StrayLands
    PROVE  RecoveryInv'
  <1>1. PICK s \in strays : Landed(s.key, s.bound) /\ strays' = strays \ {s}
    BY DEF StrayLands
  <1>2. receipts' \subseteq Keys /\ effects' \in [Effects -> Nat]
    BY <1>1, RunFacts, LandedOK DEF RecoveryInv
  <1>3. SandboxOK'
    BY <1>1, <1>2 DEF RecoveryInv, SandboxOK
  <1>4. QED
    BY <1>3 DEF StrayLands, RecoveryInv

-----------------------------------------------------------------------------
(* Crashes                                                                 *)

LEMMA SessionDiesKeeps ==
    ASSUME RecoveryInv, SessionDies
    PROVE  RecoveryInv'
  BY DEF SessionDies, RecoveryInv, SandboxOK

LEMMA CoordinatorRestartsKeeps ==
    ASSUME RecoveryInv, CoordinatorRestarts
    PROVE  RecoveryInv'
  <1>1. /\ run' = NoRun /\ ~alive' /\ inbox' = <<>> /\ click' = NoClick
        /\ UNCHANGED <<scenario, receipts, effects>>
    BY DEF CoordinatorRestarts
  <1>2. WorkflowOK(wf') /\ ScenarioOK(scenario', wf')
    <2>1. CASE wf.sent
      <3>1. Left(wf', wf)
        BY <2>1, AttemptFailedOK, RunFacts DEF CoordinatorRestarts, WorkflowOK
      <3>2. QED
        BY <1>1, <3>1, LeftScenario DEF RecoveryInv, Left
    <2>2. CASE ~wf.sent
      BY <1>1, <2>2 DEF CoordinatorRestarts, RecoveryInv
    <2>3. QED
      BY <2>1, <2>2
  <1>3. InboxOK(inbox', wf', scenario')
    BY <1>1, EmptyInbox
  <1>4. ASSUME NEW s \in strays' PROVE s.key \in Keys
    <2>1. s \in strays \/ (click # NoClick /\ s.key = click.key)
      BY <1>4 DEF CoordinatorRestarts, NoClick
    <2>2. QED
      BY <2>1, ClickFacts, RunFacts
  <1>5. SandboxOK'
    BY <1>1, <1>4 DEF RecoveryInv, SandboxOK
  <1>6. ClickOK(click', inbox', run') /\ FirstOK(wf', run') /\ RunOK(run')
    BY <1>1, NoRunFields DEF ClickOK, FirstOK
  <1>7. QED
    BY <1>1, <1>2, <1>3, <1>5, <1>6 DEF RecoveryInv

-----------------------------------------------------------------------------
(* The theorems                                                            *)

LEMMA InitOK ==
    ASSUME Init
    PROVE  RecoveryInv
  <1>1. 1 \in 1 .. MaxExecutions
    BY RecoveryAssumption
  <1>2. WorkflowOK(wf) /\ wf.execution = 1 /\ wf.pc = "start" /\ wf.revision = 1
    BY <1>1, BegunOK DEF Init, Fresh
  <1>3. InboxOK(inbox, wf, scenario)
    BY EmptyInbox DEF Init
  <1>4. RunOK(run) /\ FirstOK(wf, run) /\ ClickOK(click, inbox, run)
    BY NoRunFields DEF Init, FirstOK, ClickOK
  <1>5. ScenarioOK(scenario, wf)
    BY <1>2 DEF Init, ScenarioOK
  <1>6. SandboxOK
    BY DEF Init, SandboxOK
  <1>7. QED
    BY <1>2, <1>3, <1>4, <1>5, <1>6 DEF Init, RecoveryInv

LEMMA NextKeeps ==
    ASSUME RecoveryInv, [Next]_vars
    PROVE  RecoveryInv'
  <1>1. CASE Send \/ LoseAttempt \/ TimeOut \/ Redeliver
    BY <1>1, SendKeeps, LoseAttemptKeeps, TimeOutKeeps, RedeliverKeeps
  <1>2. CASE BeginRun \/ BeginFails \/ ResumeRun \/ Unknown \/ Stale \/ CleanUp
    BY <1>2, BeginRunKeeps, BeginFailsKeeps, ResumeRunKeeps, UnknownKeeps, StaleKeeps,
       CleanUpKeeps
  <1>3. CASE Refresh \/ Recover \/ RecoverFails \/ Replan
    BY <1>3, RefreshKeeps, RecoverKeeps, RecoverFailsKeeps, ReplanKeeps
  <1>4. CASE AlreadyVerified \/ Refused \/ InjectedLoss \/ InjectedReplan
    BY <1>4, AlreadyVerifiedKeeps, RefusedKeeps, InjectedLossKeeps, InjectedReplanKeeps
  <1>5. CASE Look \/ ActFails \/ PressButton
    BY <1>5, LookKeeps, ActFailsKeeps, PressButtonKeeps
  <1>6. CASE Confirm \/ NotConfirmed \/ Mismatched \/ GiveUp
    BY <1>6, ConfirmKeeps, NotConfirmedKeeps, MismatchedKeeps, GiveUpKeeps
  <1>7. CASE ClickLands \/ StrayLands \/ SessionDies \/ CoordinatorRestarts
    BY <1>7, ClickLandsKeeps, StrayLandsKeeps, SessionDiesKeeps, CoordinatorRestartsKeeps
  <1>8. CASE UNCHANGED vars
    BY <1>8 DEF vars, RecoveryInv, SandboxOK
  <1>9. QED
    BY <1>1, <1>2, <1>3, <1>4, <1>5, <1>6, <1>7, <1>8 DEF Next

\* The invariant the others rest on: whatever is lost, late, given up or
\* restarted between the workflow, the coordinator and the Sandbox, the
\* commands in line, the coordinator's run and the click in flight agree with
\* the workflow's own record.
THEOREM RecoveryInvariant == Spec => []RecoveryInv
  <1>1. Init => RecoveryInv
    BY InitOK
  <1>2. RecoveryInv /\ [Next]_vars => RecoveryInv'
    BY NextKeeps
  <1>3. QED
    BY <1>1, <1>2, PTL DEF Spec

\* Every variable keeps its shape and no execution goes beyond a limit of its
\* WorkflowBudget: recoveries, replans, faults and checkpoints are bounded by
\* the workflow's own checks whatever the coordinator answers.
THEOREM RecoveryTypeCorrect == Spec => []TypeOK
  <1>1. RecoveryInv => TypeOK
    <2> SUFFICES ASSUME RecoveryInv PROVE TypeOK
      OBVIOUS
    <2>1. WorkflowOK(wf) /\ InboxOK(inbox, wf, scenario) /\ RunOK(run) /\ SandboxOK
          /\ scenario \in Scenarios /\ (alive => run # NoRun)
      BY DEF RecoveryInv, ScenarioOK
    <2>2. /\ wf.pc \in Commands \cup {"done"} /\ wf.attempt \in 1 .. MaxAttempts
          /\ wf.sent \in BOOLEAN /\ wf.execution \in 1 .. MaxExecutions
          /\ wf.completed \subseteq Ids /\ wf.status \in {"failed", "finished_ungraded"}
      BY <2>1 DEF WorkflowOK, Shape
    <2>3. \A i \in DOMAIN inbox : inbox[i].live => wf.sent /\ i = Len(inbox)
      <3>1. DOMAIN inbox = 1 .. Len(inbox)
        BY <2>1, SequenceFacts DEF InboxOK
      <3>2. QED
        BY <2>1, <3>1 DEF InboxOK, RequestOK
    <2>4. run # NoRun => ValidDag(run.plan) /\ DOMAIN run.verdicts \subseteq DOMAIN run.plan
      BY <2>1 DEF RunOK
    <2>5. click # NoClick => inbox # <<>> /\ click.key \in Keys
      BY ClickFacts DEF Serving
    <2>6. WithinBudgets
      BY <2>1 DEF WorkflowOK, Capped, WithinBudgets
    <2>7. QED
      BY <2>1, <2>2, <2>3, <2>4, <2>5, <2>6 DEF TypeOK, SandboxOK
  <1>2. QED
    BY <1>1, RecoveryInvariant, PTL

\* What the durable workflow counts as done is verified in the coordinator's
\* memory while that memory lives, at most the current step is verified there
\* behind the workflow's back, and the ledger never falls behind the usage
\* the workflow charged, so _charge never sees planning usage go back.
THEOREM ProgressAlwaysAgrees == Spec => []ProgressAgrees
  <1>1. RecoveryInv => ProgressAgrees
    BY DEF RecoveryInv, FirstOK, Progress, ProgressAgrees
  <1>2. QED
    BY <1>1, RecoveryInvariant, PTL

\* In a run's first execution _validate_checkpoint never turns away a command
\* its caller still waits for: neither a recovery, nor a revision, nor a
\* command left in line makes the checkpoint stale.
THEOREM OwnCheckpointAlwaysAccepted == Spec => []OwnCheckpointAccepted
  <1>1. RecoveryInv => OwnCheckpointAccepted
    <2> SUFFICES ASSUME RecoveryInv, wf.execution = 1, run # NoRun, Serving,
                        Request.live, Request.command \notin {"start", "cleanup"}
                 PROVE  Bound(Request)
      BY DEF OwnCheckpointAccepted
    <2>1. wf.pc = Request.command /\ Own(Request, wf)
      BY RequestFacts
    <2>2. wf.pc \in {"step", "refresh", "recover", "replan"}
      BY <2>1, RequestFacts DEF Commands
    <2>3. wf.checkpoint.plan = run.plan /\ wf.checkpoint.epoch = run.epoch
      BY <2>2, RunFacts DEF Matches
    <2>4. wf.checkpoint.revision = IF wf.pc = "replan" THEN wf.revision - 1 ELSE wf.revision
      BY <2>2, RunFacts DEF WorkflowOK, Saved
    <2>5. wf.revision \in Nat
      BY RunFacts DEF WorkflowOK, Shape
    <2>6. wf.checkpoint.revision + (IF wf.pc = "replan" THEN 1 ELSE 0) = wf.revision
      BY <2>4, <2>5
    <2>7. QED
      BY <2>1, <2>3, <2>6 DEF Own, Bound
  <1>2. QED
    BY <1>1, RecoveryInvariant, PTL
=============================================================================
