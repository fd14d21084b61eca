------------------------- MODULE RecoveryImplements -------------------------
(***************************************************************************)
(* Seen from the Sandbox a run, with all its executions, attempts, stray   *)
(* clicks and revisions, executes its plan: Recovery implements            *)
(* OrderedEffects.                                                         *)
(***************************************************************************)
EXTENDS RecoveryProofs

-----------------------------------------------------------------------------
(* When the Sandbox performs no effect twice: it refuses every repetition  *)
(* itself, or no request arrives without its key and a step has one key    *)
(* only.                                                                   *)

NeverRepeats ==
    Repeatable = {} \/ (~LateRequests /\ Scenarios \cap Replanning = {})

-----------------------------------------------------------------------------
(* The inductive invariant.  A verdict, a step the workflow counts and a   *)
(* receipt each stand for an effect performed; a click in flight is of a   *)
(* step all of whose predecessors are.  E is how often each effect was     *)
(* performed, c the scenario.                                              *)

Performed(E, s) == Origin(s) \in Effects => E[Origin(s)] = 1

Whole(p) == Steps \subseteq {Origin(s) : s \in DOMAIN p}

\* A plan that has the original's steps, some of them under another id.
Faithful(p) ==
    /\ {Origin(s) : s \in DOMAIN p} = Steps
    /\ \A s \in DOMAIN p : {Origin(d) : d \in p[s]} = Plan[Origin(s)]

Accounts(E, w) ==
    /\ \A s \in w.completed : Performed(E, s)
    /\ w.pc \in {"step", "refresh", "recover", "replan"} => Whole(w.plan)
    /\ w.status = "finished_ungraded" => \A e \in Effects : E[e] = 1

Remembers(c, E, r) ==
    r # NoRun =>
        /\ Faithful(r.plan)
        /\ \A s \in DOMAIN r.verdicts : Performed(E, s) /\ r.plan[s] \subseteq DOMAIN r.verdicts
        /\ c \notin Replanning => DOMAIN r.plan \subseteq Steps

Pressed(c, E, key) ==
    /\ Origin(key[2]) \in Effects
    /\ \A d \in Before[Origin(key[2])] : E[d] = 1
    /\ c \notin Replanning => key[1] = 1 /\ key[2] \in Steps

Clicked(c, E, k, q, r) ==
    k # NoClick =>
        /\ Pressed(c, E, k.key) /\ k.key[2] = Head(q).step
        /\ r.plan[Head(q).step] \subseteq DOMAIN r.verdicts
        /\ k.state = "done" => Performed(E, k.key[2])

Landing(c, E, S) == \A s \in S : Pressed(c, E, s.key) /\ (s.bound \/ LateRequests)

Receipted(c, E, R) ==
    /\ \A key \in R : Origin(key[2]) \in Effects /\ Performed(E, key[2])
    /\ ~LateRequests /\ c \notin Replanning =>
          \A e \in Effects : E[e] = 1 => <<1, e>> \in R

ExecutionInv ==
    /\ effects \in [Effects -> 0 .. 1]
    /\ Accounts(effects, wf)
    /\ Remembers(scenario, effects, run)
    /\ Clicked(scenario, effects, click, inbox, run)
    /\ Landing(scenario, effects, strays)
    /\ Receipted(scenario, effects, receipts)

-----------------------------------------------------------------------------
(* The order of the plan                                                   *)

\* The plan's dependencies closed: what is done with all it depends on is not
\* reached from a step that is not done.
LEMMA ReachedFromDone ==
    ASSUME NEW done, \A s \in done : s \in Steps /\ Plan[s] \subseteq done,
           NEW d \in Steps, d \notin done
    PROVE  Downstream(Plan, {d}, {}) \cap done = {}
  <1> DEFINE within == Steps \ done
  <1>1. DOMAIN Plan = Steps /\ Steps \subseteq Ids
    BY RecoveryAssumption, PlanAssumption DEF Steps, Ids
  <1>2. /\ {d} \ {} \subseteq within
        /\ \A s \in DOMAIN Plan \ {} : Plan[s] \cap within # {} => s \in within
    BY <1>1
  <1> HIDE DEF within
  <1>3. Downstream(Plan, {d}, {}) \subseteq within
    BY <1>1, <1>2, DownstreamWithin
  <1>4. QED
    BY <1>3 DEF within

\* A step whose dependencies are verified comes after no effect that is still
\* to be performed.
LEMMA BeforePerformed ==
    ASSUME NEW E, NEW c, NEW r, r # NoRun, Remembers(c, E, r), RunOK(r),
           NEW s \in DOMAIN r.plan, r.plan[s] \subseteq DOMAIN r.verdicts,
           Origin(s) \in Effects
    PROVE  \A d \in Before[Origin(s)] : E[d] = 1
  <1> DEFINE done == {Origin(v) : v \in DOMAIN r.verdicts}
             all == done \cup {Origin(s)}
  <1>1. /\ {Origin(t) : t \in DOMAIN r.plan} = Steps
        /\ \A t \in DOMAIN r.plan : {Origin(d) : d \in r.plan[t]} = Plan[Origin(t)]
        /\ \A t \in DOMAIN r.verdicts : Performed(E, t) /\ r.plan[t] \subseteq DOMAIN r.verdicts
        /\ DOMAIN r.verdicts \subseteq DOMAIN r.plan
    BY DEF Remembers, Faithful, RunOK
  <1>2. \A x \in all : x \in Steps /\ Plan[x] \subseteq all
    <2>1. ASSUME NEW t \in DOMAIN r.plan, r.plan[t] \subseteq DOMAIN r.verdicts
          PROVE  Origin(t) \in Steps /\ Plan[Origin(t)] \subseteq done
      BY <1>1, <2>1
    <2>2. \A t \in DOMAIN r.verdicts : Origin(t) \in Steps /\ Plan[Origin(t)] \subseteq done
      BY <1>1, <2>1
    <2>3. Origin(s) \in Steps /\ Plan[Origin(s)] \subseteq done
      BY <2>1
    <2>4. QED
      BY <2>2, <2>3
  <1>3. SUFFICES ASSUME NEW d \in Before[Origin(s)] PROVE E[d] = 1
    OBVIOUS
  <1>4. d \in Effects /\ d # Origin(s) /\ Origin(s) \in Downstream(Plan, {d}, {})
    BY DEF Before
  <1>5. d \in Steps
    BY <1>4, RecoveryAssumption
  <1>6. d \in all
    <2>1. Origin(s) \in all
      OBVIOUS
    <2> HIDE DEF all
    <2>2. QED
      BY <1>2, <1>4, <1>5, <2>1, ReachedFromDone
  <1>7. PICK v \in DOMAIN r.verdicts : d = Origin(v)
    BY <1>4, <1>6
  <1>8. QED
    BY <1>1, <1>4, <1>7 DEF Performed

\* A revision renames steps of the original plan and keeps what was done.
LEMMA RevisedFaithful ==
    ASSUME NEW plan, DOMAIN plan \subseteq Steps, Faithful(plan),
           \A s \in DOMAIN plan : plan[s] \subseteq DOMAIN plan,
           NEW failed, NEW done, done \subseteq DOMAIN plan
    PROVE  /\ Faithful(PartialReplan(plan, failed, done))
           /\ \A v \in done : PartialReplan(plan, failed, done)[v] = plan[v]
  <1> DEFINE new(s) == NewId(plan, failed, done, s)
             ids == {new(s) : s \in DOMAIN plan}
             revised == PartialReplan(plan, failed, done)
  <1>1. revised = [t \in ids |-> IF t \in Steps THEN plan[t] ELSE {new(d) : d \in plan[Origin(t)]}]
    BY DEF PartialReplan
  <1>2. \A s \in Steps : Origin(s) = s /\ Origin(new(s)) = s
    BY PlanAssumption DEF NewId, Renamed, Origin, Steps
  <1>3. \A s \in Steps : new(s) = s \/ new(s) \notin Steps
    BY PlanAssumption DEF NewId, Renamed, Steps
  <1>4. DOMAIN plan \subseteq Ids
    BY PlanAssumption DEF Steps, Ids
  <1>5. Replaced(plan, failed, done) \cap done = {}
    BY <1>4, DownstreamAvoids DEF Replaced
  <1>6. \A v \in done : new(v) = v
    BY <1>5 DEF NewId
  <1> HIDE DEF new
  <1>7. DOMAIN revised = ids
    BY <1>1
  <1> HIDE DEF revised
  <1>8. {Origin(t) : t \in ids} = {Origin(s) : s \in DOMAIN plan}
    BY <1>2
  <1>9. ASSUME NEW t \in ids PROVE {Origin(d) : d \in revised[t]} = Plan[Origin(t)]
    <2>1. PICK s \in DOMAIN plan : t = new(s)
      OBVIOUS
    <2>2. Origin(t) = s /\ Origin(s) = s /\ plan[s] \subseteq Steps
      BY <1>2, <2>1
    <2>3. {Origin(d) : d \in plan[s]} = Plan[s]
      BY <2>2 DEF Faithful
    <2>4. CASE t \in Steps
      <3>1. t = s /\ revised[t] = plan[s]
        BY <1>1, <1>3, <2>1, <2>4
      <3>2. QED
        BY <2>2, <2>3, <3>1
    <2>5. CASE t \notin Steps
      <3>1. revised[t] = {new(d) : d \in plan[s]}
        BY <1>1, <2>2, <2>5
      <3>2. {Origin(d) : d \in {new(x) : x \in plan[s]}} = {Origin(d) : d \in plan[s]}
        BY <1>2, <2>2
      <3>3. QED
        BY <2>2, <2>3, <3>1, <3>2
    <2>6. QED
      BY <2>4, <2>5
  <1>10. Faithful(revised)
    BY <1>7, <1>8, <1>9 DEF Faithful
  <1>11. ASSUME NEW v \in done PROVE revised[v] = plan[v]
    <2>1. v \in Steps /\ v \in ids
      BY <1>6
    <2>2. QED
      BY <1>1, <2>1
  <1>12. QED
    BY <1>10, <1>11 DEF revised

-----------------------------------------------------------------------------
(* What the workflow counts is performed                                   *)

LEMMA PlanPerformed ==
    ASSUME NEW E, NEW p, Whole(p), \A s \in DOMAIN p : Performed(E, s)
    PROVE  \A e \in Effects : E[e] = 1
  <1> SUFFICES ASSUME NEW e \in Effects PROVE E[e] = 1
    OBVIOUS
  <1>1. e \in Steps
    BY RecoveryAssumption
  <1>2. PICK s \in DOMAIN p : e = Origin(s)
    BY <1>1 DEF Whole
  <1>3. QED
    BY <1>2 DEF Performed

LEMMA LeftAccounts ==
    ASSUME NEW E, NEW w, Accounts(E, w), NEW u, Left(u, w)
    PROVE  Accounts(E, u)
  <1>1. u.completed = w.completed /\ u.plan = w.plan
    BY DEF Left, SameWork
  <1>2. u.pc \in {"step", "refresh", "recover", "replan"} => Whole(u.plan)
    BY <1>1 DEF Left, Accounts
  <1>3. ASSUME u.status = "finished_ungraded", w.status # "finished_ungraded"
        PROVE  \A e \in Effects : E[e] = 1
    <2>1. w.pc = "step" /\ w.completed = DOMAIN w.plan
      BY <1>1, <1>3 DEF Left, Reports
    <2>2. QED
      BY <2>1, PlanPerformed DEF Accounts
  <1>4. QED
    BY <1>1, <1>2, <1>3 DEF Accounts

\* A report of success after an answer: the plan is the original's, and what
\* is counted is performed.
LEMMA AnsweredAccounts ==
    ASSUME NEW E, NEW w, Accounts(E, w), NEW u, Reports(u, w),
           \A s \in u.completed : Performed(E, s),
           Whole(u.plan) \/ (u.status = "failed" /\ u.pc = "cleanup")
    PROVE  Accounts(E, u)
  <1>1. ASSUME u.status = "finished_ungraded", w.status # "finished_ungraded"
        PROVE  \A e \in Effects : E[e] = 1
    <2>1. u.completed = DOMAIN u.plan /\ Whole(u.plan)
      BY <1>1 DEF Reports
    <2>2. QED
      BY <2>1, PlanPerformed
  <1>2. QED
    BY <1>1 DEF Accounts

LEMMA ResumeAccounts ==
    ASSUME NEW E, NEW w, WorkflowOK(w), w.pc # "done", Accounts(E, w),
           NEW result, result.ledger \in Nat,
           w.pc = "start" /\ w.execution = 1 => DOMAIN result.plan \subseteq Steps,
           w.pc \in {"start", "replan"} => Whole(result.plan),
           w.pc = "step" /\ result.outcome = "verified" =>
              /\ NextStep(w.plan, w.completed) \in Ids
              /\ Performed(E, NextStep(w.plan, w.completed)),
           NEW expired \in BOOLEAN, NEW u, u = Resume(w, result, expired)
    PROVE  Accounts(E, u)
  <1>1. CASE w.pc = "cleanup"
    BY <1>1, ResumeCleanup, LeftAccounts
  <1>2. CASE w.pc # "cleanup" /\ Resets(w, result)
    BY <1>2, ResumeReset, LeftAccounts
  <1>3. CASE w.pc # "cleanup" /\ ~Resets(w, result)
    <2>1. CASE w.pc = "start"
      <3>1. /\ Reports(u, w) /\ u.pc \in {"step", "cleanup"} /\ u.completed = {}
            /\ u.pc = "step" => u.plan = result.plan
            /\ u.plan = result.plan \/ u.status = "failed"
        BY <1>3, <2>1, ResumeStart DEF Answering
      <3>2. Whole(u.plan) \/ (u.status = "failed" /\ u.pc = "cleanup")
        BY <2>1, <3>1
      <3>3. QED
        BY <3>1, <3>2, AnsweredAccounts
    <2>2. CASE w.pc = "step"
      <3>1. /\ Reports(u, w) /\ u.plan = w.plan
            /\ \/ u.completed = w.completed
               \/ /\ result.outcome = "verified"
                  /\ u.completed = w.completed \cup {NextStep(w.plan, w.completed)}
        BY <1>3, <2>2, ResumeStep DEF Answering
      <3>2. Whole(u.plan) /\ \A s \in w.completed : Performed(E, s)
        BY <2>2, <3>1 DEF Accounts
      <3>3. \A s \in u.completed : Performed(E, s)
        BY <2>2, <3>1, <3>2
      <3>4. QED
        BY <3>1, <3>2, <3>3, AnsweredAccounts
    <2>3. CASE w.pc \in {"refresh", "recover"}
      <3>1. Reports(u, w) /\ u.plan = w.plan /\ u.completed = w.completed
        BY <1>3, <2>3, ResumeRefresh, ResumeRecover DEF Answering
      <3>2. Whole(u.plan) /\ \A s \in u.completed : Performed(E, s)
        BY <2>3, <3>1 DEF Accounts
      <3>3. QED
        BY <3>1, <3>2, AnsweredAccounts
    <2>4. CASE w.pc = "replan"
      <3>1. Reports(u, w) /\ u.plan = result.plan /\ u.completed = w.completed
        BY <1>3, <2>4, ResumeReplan DEF Answering
      <3>2. Whole(u.plan) /\ \A s \in u.completed : Performed(E, s)
        BY <2>4, <3>1 DEF Accounts
      <3>3. QED
        BY <3>1, <3>2, AnsweredAccounts
    <2>5. w.pc \in Commands \cup {"done"}
      BY DEF WorkflowOK, Shape
    <2>6. QED
      BY <1>3, <2>1, <2>2, <2>3, <2>4, <2>5 DEF Commands
  <1>4. QED
    BY <1>1, <1>2, <1>3

LEMMA AnswerAccounts ==
    ASSUME RecoveryInv, Accounts(effects, wf), Serving, NEW result, Answered(result),
           result.ledger \in Nat,
           Request.live /\ Request.command = "start" /\ wf.execution = 1 =>
              DOMAIN result.plan \subseteq Steps,
           Request.command \in {"start", "replan"} => Whole(result.plan),
           Request.command = "step" /\ result.outcome = "verified" =>
              Request.step \in Ids /\ Performed(effects, Request.step)
    PROVE  Accounts(effects, wf')
  <1>1. CASE ~Request.live
    BY <1>1 DEF Answered
  <1>2. CASE Request.live
    <2>1. PICK expired \in BOOLEAN : wf' = Resume(wf, result, expired)
      BY <1>2 DEF Answered
    <2>2. wf.pc = Request.command /\ wf.pc # "done" /\ WorkflowOK(wf)
      BY <1>2, RequestFacts, RunFacts
    <2>3. ASSUME wf.pc = "step" PROVE Request.step = NextStep(wf.plan, wf.completed)
      BY <1>2, <2>2, <2>3, RequestFacts DEF Own, StepOf
    <2>4. QED
      BY <1>2, <2>1, <2>2, <2>3, ResumeAccounts
  <1>3. QED
    BY <1>1, <1>2

LEMMA FailedAccounts ==
    ASSUME NEW E, NEW w, WorkflowOK(w), Accounts(E, w)
    PROVE  Accounts(E, AttemptFailed(w))
  BY AttemptFailedOK, LeftAccounts

LEMMA RaisedAccounts ==
    ASSUME RecoveryInv, Accounts(effects, wf), Raised
    PROVE  Accounts(effects, wf')
  BY FailedAccounts, RunFacts DEF Raised

-----------------------------------------------------------------------------
(* Steps in which the Sandbox takes no part                                *)

LEMMA QuietStep ==
    ASSUME ExecutionInv, UNCHANGED <<scenario, receipts, effects>>,
           Accounts(effects, wf'), Remembers(scenario, effects, run'),
           Clicked(scenario, effects, click', inbox', run'),
           Landing(scenario, effects, strays')
    PROVE  ExecutionInv'
  BY DEF ExecutionInv

\* No click is pending after the step and no request is left in flight by it.
LEMMA QuietAnswer ==
    ASSUME ExecutionInv, UNCHANGED <<scenario, strays, receipts, effects>>,
           click' = NoClick, Accounts(effects, wf'), Remembers(scenario, effects, run')
    PROVE  ExecutionInv'
  <1>1. Clicked(scenario, effects, click', inbox', run')
    BY DEF Clicked
  <1>2. Landing(scenario, effects, strays')
    BY DEF ExecutionInv
  <1>3. QED
    BY <1>1, <1>2, QuietStep

LEMMA QuietRaised ==
    ASSUME RecoveryInv, ExecutionInv, Raised, click' = NoClick, run' = run,
           UNCHANGED <<scenario, strays, receipts, effects>>
    PROVE  ExecutionInv'
  BY QuietAnswer, RaisedAccounts DEF ExecutionInv

\* The coordinator's plan and verdicts are what they were.
LEMMA RemembersKept ==
    ASSUME NEW c, NEW E, NEW r, r # NoRun, Remembers(c, E, r),
           NEW u, u.plan = r.plan, u.verdicts = r.verdicts
    PROVE  Remembers(c, E, u)
  BY DEF Remembers

\* One verdict more, of a step performed after those it depends on.
LEMMA RemembersVerified ==
    ASSUME NEW c, NEW E, NEW r, r # NoRun, Remembers(c, E, r),
           NEW s, Performed(E, s), r.plan[s] \subseteq DOMAIN r.verdicts,
           NEW u, u.plan = r.plan, DOMAIN u.verdicts = DOMAIN r.verdicts \cup {s}
    PROVE  Remembers(c, E, u)
  BY DEF Remembers

LEMMA RememberedPlan ==
    ASSUME NEW c, NEW E, NEW r, r # NoRun, Remembers(c, E, r)
    PROVE  Whole(r.plan)
  BY DEF Remembers, Faithful, Whole

\* An answer that brings neither a plan nor a verdict, and leaves both alone.
LEMMA QuietOutcome ==
    ASSUME RecoveryInv, ExecutionInv, Serving, run # NoRun,
           Request.command \notin {"start", "replan"},
           NEW result, Answered(result), result.ledger \in Nat,
           Request.command = "step" => result.outcome # "verified",
           run'.plan = run.plan, run'.verdicts = run.verdicts, click' = NoClick,
           UNCHANGED <<scenario, receipts, effects>>, Landing(scenario, effects, strays')
    PROVE  ExecutionInv'
  <1>1. Accounts(effects, wf')
    BY AnswerAccounts DEF ExecutionInv
  <1>2. Remembers(scenario, effects, run')
    BY RemembersKept DEF ExecutionInv
  <1>3. Clicked(scenario, effects, click', inbox', run')
    BY DEF Clicked
  <1>4. QED
    BY <1>1, <1>2, <1>3, QuietStep

LEMMA SendAccounted ==
    ASSUME RecoveryInv, ExecutionInv, Send
    PROVE  ExecutionInv'
  <1>1. wf' = [wf EXCEPT !.sent = TRUE] /\ Shape(wf)
    BY RunFacts DEF Send, WorkflowOK
  <1>2. wf'.pc = wf.pc /\ SameWork(wf', wf) /\ SameEnd(wf', wf)
    BY <1>1, SentFields
  <1>3. Accounts(effects, wf')
    BY <1>2 DEF Accounts, SameWork, SameEnd, ExecutionInv
  <1>4. inbox # <<>> => Head(inbox') = Head(inbox)
    BY DEF Send
  <1>5. click # NoClick => Head(inbox') = Head(inbox)
    BY <1>4, ClickFacts DEF Serving
  <1>6. UNCHANGED <<scenario, run, click, strays, receipts, effects>>
    BY DEF Send
  <1>7. Clicked(scenario, effects, click', inbox', run')
    BY <1>5, <1>6 DEF Clicked, ExecutionInv
  <1>8. QED
    BY <1>3, <1>6, <1>7, QuietStep DEF ExecutionInv

\* The workflow gives up what it awaits; the commands stay in line.
LEMMA AbandonAccounted ==
    ASSUME RecoveryInv, ExecutionInv, Left(wf', wf), inbox' = Abandoned(inbox),
           UNCHANGED <<scenario, run, click, strays, receipts, effects>>
    PROVE  ExecutionInv'
  <1>1. Accounts(effects, wf')
    BY LeftAccounts DEF ExecutionInv
  <1>2. click # NoClick => Head(inbox').step = Head(inbox).step
    BY AbandonedInbox, ClickFacts DEF RecoveryInv, Serving
  <1>3. Clicked(scenario, effects, click', inbox', run')
    BY <1>2 DEF Clicked, ExecutionInv
  <1>4. QED
    BY <1>1, <1>3, QuietStep DEF ExecutionInv

LEMMA LoseAttemptAccounted ==
    ASSUME RecoveryInv, ExecutionInv, LoseAttempt
    PROVE  ExecutionInv'
  BY AttemptFailedOK, AbandonAccounted, RunFacts DEF LoseAttempt

LEMMA TimeOutAccounted ==
    ASSUME RecoveryInv, ExecutionInv, TimeOut
    PROVE  ExecutionInv'
  BY AttemptTimedOutOK, AbandonAccounted, RunFacts DEF TimeOut

LEMMA BeginRunAccounted ==
    ASSUME RecoveryInv, ExecutionInv, BeginRun
    PROVE  ExecutionInv'
  <1> DEFINE result == Result("started", run')
  <1>1. /\ Serving /\ Request.command = "start" /\ click' = NoClick
        /\ run' = BegunRun(Request.epoch) /\ Answered(result)
        /\ UNCHANGED <<scenario, strays, receipts, effects>>
    BY DEF BeginRun, Free, BegunRun
  <1>2. result.ledger = run'.ledger /\ result.plan = run'.plan
    BY ResultFields
  <1> HIDE DEF result
  <1>3. run'.plan = Plan /\ run'.ledger = 1 /\ DOMAIN run'.verdicts = {}
    BY <1>1, RequestFacts, BegunRunOK
  <1>4. DOMAIN Plan = Steps /\ \A s \in Steps : Plan[s] \subseteq Steps /\ Origin(s) = s
    BY RecoveryAssumption DEF Origin
  <1>5. {Origin(s) : s \in DOMAIN Plan} = Steps
    BY <1>4
  <1>6. \A s \in DOMAIN Plan : {Origin(d) : d \in Plan[s]} = Plan[Origin(s)]
    BY <1>4
  <1>7. Faithful(Plan)
    BY <1>5, <1>6 DEF Faithful
  <1>8. Whole(Plan)
    BY <1>5 DEF Whole
  <1>9. Remembers(scenario, effects, run')
    BY <1>3, <1>4, <1>7 DEF Remembers
  <1>10. Accounts(effects, wf')
    BY <1>1, <1>2, <1>3, <1>4, <1>8, AnswerAccounts DEF ExecutionInv
  <1>11. QED
    BY <1>1, <1>9, <1>10, QuietAnswer

LEMMA ResumeRunAccounted ==
    ASSUME RecoveryInv, ExecutionInv, ResumeRun
    PROVE  ExecutionInv'
  <1> DEFINE result == Result("started", run)
  <1>1. /\ Serving /\ Request.command = "start" /\ run # NoRun /\ click' = NoClick
        /\ Answered(result) /\ UNCHANGED <<scenario, run, strays, receipts, effects>>
    BY DEF ResumeRun, Free
  <1>2. result.ledger = run.ledger /\ result.plan = run.plan
    BY ResultFields
  <1> HIDE DEF result
  <1>3. ~(Request.live /\ wf.execution = 1)
    BY <1>1, RequestFacts, RunFacts DEF Matches
  <1>4. Whole(run.plan)
    BY <1>1, RememberedPlan DEF ExecutionInv
  <1>5. Accounts(effects, wf')
    BY <1>1, <1>2, <1>3, <1>4, RunFacts, AnswerAccounts DEF ExecutionInv
  <1>6. Remembers(scenario, effects, run')
    BY <1>1 DEF ExecutionInv
  <1>7. QED
    BY <1>1, <1>5, <1>6, QuietAnswer

LEMMA CleanUpAccounted ==
    ASSUME RecoveryInv, ExecutionInv, CleanUp
    PROVE  ExecutionInv'
  <1> DEFINE result == Result("cleaned", run)
  <1>1. /\ Serving /\ Request.command = "cleanup" /\ run' = NoRun /\ click' = NoClick
        /\ Answered(result) /\ UNCHANGED <<scenario, strays, receipts, effects>>
    BY DEF CleanUp, Free
  <1>2. result.ledger = run.ledger
    BY ResultFields
  <1> HIDE DEF result
  <1>3. Accounts(effects, wf')
    BY <1>1, <1>2, RunFacts, AnswerAccounts DEF ExecutionInv
  <1>4. Remembers(scenario, effects, run')
    BY <1>1 DEF Remembers
  <1>5. QED
    BY <1>1, <1>3, <1>4, QuietAnswer

LEMMA RefreshAccounted ==
    ASSUME RecoveryInv, ExecutionInv, Refresh
    PROVE  ExecutionInv'
  <1>1. /\ Serving /\ click' = NoClick /\ Request.command = "refresh" /\ run # NoRun
        /\ UNCHANGED <<scenario, strays, receipts, effects>>
    BY DEF Refresh, Accepted, Free
  <1>2. Charging(run).plan = run.plan /\ Charging(run).verdicts = run.verdicts
        /\ Charging(run).ledger \in Nat
    BY <1>1, RunFacts, ChargingOK DEF RunOK, RunShape
  <1>3. /\ run'.plan = run.plan /\ run'.verdicts = run.verdicts
        /\ \E result : Answered(result) /\ result.ledger \in Nat
    <2>1. CASE run' = Charging(run) /\ Answered(Result("started", run'))
      BY <1>2, <2>1, ResultFields
    <2>2. CASE Answered(Result("session_lost", run)) /\ run' = run
      BY <2>2, RunFacts, ResultFields
    <2>3. QED
      BY <2>1, <2>2 DEF Refresh
  <1>4. Landing(scenario, effects, strays')
    BY <1>1 DEF ExecutionInv
  <1>5. QED
    BY <1>1, <1>3, <1>4, QuietOutcome

LEMMA RecoverAccounted ==
    ASSUME RecoveryInv, ExecutionInv, Recover
    PROVE  ExecutionInv'
  <1>1. /\ Serving /\ click' = NoClick /\ Request.command = "recover" /\ run # NoRun
        /\ UNCHANGED <<scenario, strays, receipts, effects>>
    BY DEF Recover, Accepted, Free
  <1> DEFINE new == NewEpoch(run, Request.epoch)
  <1>2. Request.epoch \in Nat
    BY <1>1, RequestFacts
  <1>3. new.plan = run.plan /\ new.verdicts = run.verdicts /\ new.ledger \in Nat
    BY <1>1, <1>2, RunFacts, NewEpochOK DEF RunOK, RunShape
  <1>4. \/ run' = run /\ Answered(Result("permanent_failure", run))
        \/ run' = new /\ Answered(Result("started", run'))
    BY DEF Recover
  <1> HIDE DEF new
  <1>5. /\ run'.plan = run.plan /\ run'.verdicts = run.verdicts
        /\ \E result : Answered(result) /\ result.ledger \in Nat
    <2>1. CASE run' = new /\ Answered(Result("started", run'))
      BY <1>3, <2>1, ResultFields
    <2>2. CASE run' = run /\ Answered(Result("permanent_failure", run))
      BY <2>2, RunFacts, ResultFields
    <2>3. QED
      BY <1>4, <2>1, <2>2
  <1>6. Landing(scenario, effects, strays')
    BY <1>1 DEF ExecutionInv
  <1>7. QED
    BY <1>1, <1>5, <1>6, QuietOutcome

\* A revision: the new plan is faithful to the original's, and the verdicts
\* stand for the same steps after the same ones.
LEMMA ReplanAccounted ==
    ASSUME RecoveryInv, ExecutionInv, Replan
    PROVE  ExecutionInv'
  <1> DEFINE revised == PartialReplan(run.plan, Request.step, DOMAIN run.verdicts)
  <1>1. /\ Serving /\ click' = NoClick /\ Request.command = "replan" /\ run # NoRun
        /\ Bound(Request) /\ UNCHANGED <<scenario, strays, receipts, effects>>
    BY DEF Replan, Accepted, Free
  <1>2. \/ Raised /\ run' = run
        \/ run' = run /\ Answered(Result("permanent_failure", run))
        \/ /\ Request.revision = 2
           /\ run' = RunPlan(run, revised) /\ Answered(Result("started", run'))
    BY DEF Replan, RunPlan
  <1>3. scenario \in Replanning /\ Own(Request, wf) /\ wf.execution = 1
    <2>1. scenario \in Replanning
      BY <1>1, RequestFacts
    <2>2. wf.execution = 1
      BY <2>1 DEF Replanning, RecoveryInv, ScenarioOK
    <2>3. QED
      BY <1>1, <2>1, <2>2, RequestFacts
  <1>4. ASSUME run' = RunPlan(run, revised), Request.revision = 2
        PROVE  run'.ledger = run.ledger /\ run'.plan = revised
               /\ Remembers(scenario, effects, run')
    <2>1. wf.checkpoint.plan = run.plan /\ wf.checkpoint.revision + 1 = 2
      BY <1>1, <1>3, <1>4 DEF Bound, Own
    <2>2. wf.checkpoint.revision = 1
      BY <2>1, RunFacts DEF WorkflowOK, Original
    <2>3. DOMAIN run.plan \subseteq Steps
      BY <1>3, <2>1, <2>2, RunFacts DEF WorkflowOK, Original
    <2>4. /\ Faithful(run.plan) /\ DOMAIN run.verdicts \subseteq DOMAIN run.plan
          /\ \A s \in DOMAIN run.plan : run.plan[s] \subseteq DOMAIN run.plan
      BY <1>1, RunFacts DEF ExecutionInv, Remembers, RunOK, ValidDag
    <2>5. /\ Faithful(revised)
          /\ \A v \in DOMAIN run.verdicts : revised[v] = run.plan[v]
      BY <2>3, <2>4, RevisedFaithful
    <2> HIDE DEF revised
    <2>6. run'.ledger = run.ledger /\ run'.plan = revised /\ run'.verdicts = run.verdicts
      BY <1>4, RunFacts, RunPlanFields DEF RunOK
    <2>7. QED
      BY <1>1, <1>3, <2>5, <2>6 DEF Remembers, ExecutionInv
  <1> HIDE DEF revised
  <1>5. CASE Raised /\ run' = run
    BY <1>1, <1>5, QuietRaised
  <1>6. ASSUME run'.ledger = run.ledger, Remembers(scenario, effects, run'), run' # NoRun,
               NEW outcome, Answered(Result(outcome, run'))
        PROVE  ExecutionInv'
    <2> DEFINE result == Result(outcome, run')
    <2>1. result.ledger \in Nat /\ Whole(result.plan) /\ Answered(result)
      BY <1>6, ResultFields, RunFacts, RememberedPlan
    <2> HIDE DEF result
    <2>2. Accounts(effects, wf')
      BY <1>1, <2>1, AnswerAccounts DEF ExecutionInv
    <2>3. QED
      BY <1>1, <1>6, <2>2, QuietAnswer
  <1>7. CASE run' = run /\ Answered(Result("permanent_failure", run))
    <2>1. Answered(Result("permanent_failure", run'))
      BY <1>7
    <2>2. QED
      BY <1>1, <1>6, <1>7, <2>1 DEF ExecutionInv
  <1>8. CASE /\ Request.revision = 2
             /\ run' = RunPlan(run, revised) /\ Answered(Result("started", run'))
    <2>1. run'.ledger = run.ledger /\ Remembers(scenario, effects, run')
      BY <1>4, <1>8
    <2>2. run.ledger # 0
      BY <1>1, RunFacts DEF RunOK
    <2>3. run' # NoRun
      BY <2>1, <2>2, NoRunFields
    <2>4. QED
      BY <1>6, <1>8, <2>1, <2>3
  <1>9. QED
    BY <1>2, <1>5, <1>7, <1>8

-----------------------------------------------------------------------------
(* The coordinator executes a step                                         *)

\* An answer that claims the verdict of the requested step.
LEMMA QuietVerdict ==
    ASSUME RecoveryInv, ExecutionInv, Serving, Request.command = "step",
           Request.step \in Ids, Performed(effects, Request.step),
           NEW result, Answered(result), result.ledger \in Nat,
           Remembers(scenario, effects, run'), click' = NoClick,
           UNCHANGED <<scenario, strays, receipts, effects>>
    PROVE  ExecutionInv'
  <1>1. Accounts(effects, wf')
    BY AnswerAccounts DEF ExecutionInv
  <1>2. QED
    BY <1>1, QuietAnswer

LEMMA AlreadyVerifiedAccounted ==
    ASSUME RecoveryInv, ExecutionInv, AlreadyVerified
    PROVE  ExecutionInv'
  <1> DEFINE q == [run EXCEPT !.ledger = run.verdicts[Request.step]]
             result == Result("verified", q)
  <1>1. /\ Serving /\ click' = NoClick /\ Request.command = "step" /\ run # NoRun
        /\ Request.step \in DOMAIN run.verdicts /\ Answered(result)
        /\ UNCHANGED <<scenario, run, strays, receipts, effects>>
    BY DEF AlreadyVerified, Accepted, Free
  <1>2. RunShape(run) /\ run.verdicts[Request.step] \in Nat /\ Request.step \in Ids
    BY <1>1, RunFacts DEF RunOK
  <1>3. q.ledger = run.verdicts[Request.step]
    <2>1. q = RunLedger(run, run.verdicts[Request.step])
      BY DEF RunLedger
    <2> HIDE DEF q
    <2>2. QED
      BY <1>2, <2>1, RunLedgerFields
  <1> HIDE DEF q
  <1>4. result.ledger \in Nat
    BY <1>2, <1>3, ResultFields
  <1> HIDE DEF result
  <1>5. Performed(effects, Request.step) /\ Remembers(scenario, effects, run')
    BY <1>1 DEF ExecutionInv, Remembers
  <1>6. QED
    BY <1>1, <1>2, <1>4, <1>5, QuietVerdict

LEMMA InjectedRun ==
    ASSUME RecoveryInv, run # NoRun, NEW b \in BOOLEAN, run' = RunInjected(run, b)
    PROVE  run'.plan = run.plan /\ run'.verdicts = run.verdicts
  BY RunFacts, InjectedOK

LEMMA RefusedAccounted ==
    ASSUME RecoveryInv, ExecutionInv, Refused
    PROVE  ExecutionInv'
  <1> DEFINE b == run.injected \/ scenario = "permanent_failure"
             result == Result("permanent_failure", run)
  <1>1. /\ Serving /\ click' = NoClick /\ Request.command = "step" /\ run # NoRun
        /\ run' = RunInjected(run, b) /\ Answered(result)
        /\ UNCHANGED <<scenario, strays, receipts, effects>>
    BY DEF Refused, Unverified, Accepted, Free, RunInjected
  <1>2. b \in BOOLEAN /\ result.outcome # "verified" /\ result.ledger \in Nat
    BY ResultFields, RunFacts
  <1> HIDE DEF b, result
  <1>3. QED
    BY <1>1, <1>2, InjectedRun, QuietOutcome DEF ExecutionInv

LEMMA InjectedLossAccounted ==
    ASSUME RecoveryInv, ExecutionInv, InjectedLoss
    PROVE  ExecutionInv'
  <1> DEFINE result == Result("session_lost", run)
  <1>1. /\ Serving /\ click' = NoClick /\ Request.command = "step" /\ run # NoRun
        /\ run' = RunInjected(run, TRUE) /\ Answered(result)
        /\ UNCHANGED <<scenario, strays, receipts, effects>>
    BY DEF InjectedLoss, Unverified, Accepted, Free, RunInjected
  <1>2. TRUE \in BOOLEAN /\ result.outcome # "verified" /\ result.ledger \in Nat
    BY ResultFields, RunFacts
  <1> HIDE DEF result
  <1>3. QED
    BY <1>1, <1>2, InjectedRun, QuietOutcome DEF ExecutionInv

LEMMA InjectedReplanAccounted ==
    ASSUME RecoveryInv, ExecutionInv, InjectedReplan
    PROVE  ExecutionInv'
  <1> DEFINE result == Result("replan_eligible", run)
  <1>1. /\ Serving /\ click' = NoClick /\ Request.command = "step" /\ run # NoRun
        /\ run' = RunInjected(run, TRUE) /\ Answered(result)
        /\ UNCHANGED <<scenario, strays, receipts, effects>>
    BY DEF InjectedReplan, Unverified, Accepted, Free, RunInjected
  <1>2. TRUE \in BOOLEAN /\ result.outcome # "verified" /\ result.ledger \in Nat
    BY ResultFields, RunFacts
  <1> HIDE DEF result
  <1>3. QED
    BY <1>1, <1>2, InjectedRun, QuietOutcome DEF ExecutionInv

\* What Executing says of the requested step.
LEMMA ExecutingFacts ==
    ASSUME Executing
    PROVE  /\ Serving /\ click = NoClick /\ Request.command = "step" /\ run # NoRun
           /\ Request.step \in DOMAIN run.plan \ DOMAIN run.verdicts
           /\ run.plan[Request.step] \subseteq DOMAIN run.verdicts
  BY DEF Executing, Unverified, Accepted, Free, Refusable

LEMMA LookAccounted ==
    ASSUME RecoveryInv, ExecutionInv, Look
    PROVE  ExecutionInv'
  <1> DEFINE r == Charging(run)
             result == Result("verified", run')
  <1>1. /\ Executing /\ click' = NoClick /\ ~IsEffect(Request.step)
        /\ run' = Verified(r, Request.step) /\ Answered(result)
        /\ UNCHANGED <<scenario, strays, receipts, effects>>
    BY ExecutingFacts DEF Look
  <1>2. result.ledger = run'.ledger
    BY ResultFields
  <1>3. RunOK(r) /\ r # NoRun /\ r.plan = run.plan /\ r.verdicts = run.verdicts
    BY <1>1, ExecutingFacts, RunFacts, ChargingOK
  <1> HIDE DEF r, result
  <1>4. /\ RunOK(run') /\ run'.plan = run.plan
        /\ DOMAIN run'.verdicts = DOMAIN run.verdicts \cup {Request.step}
    BY <1>1, <1>3, ExecutingFacts, VerifiedOK
  <1>5. result.ledger \in Nat /\ Request.step \in Ids
    BY <1>1, <1>2, <1>4, ExecutingFacts, RunFacts DEF RunOK, RunShape
  <1>6. Performed(effects, Request.step)
    BY <1>1 DEF Performed, IsEffect
  <1>7. Remembers(scenario, effects, run')
    BY <1>1, <1>4, <1>6, ExecutingFacts, RemembersVerified DEF ExecutionInv
  <1>8. QED
    BY <1>1, <1>5, <1>6, <1>7, ExecutingFacts, QuietVerdict

LEMMA ActFailsAccounted ==
    ASSUME RecoveryInv, ExecutionInv, ActFails
    PROVE  ExecutionInv'
  <1>1. /\ Executing /\ click' = NoClick /\ run' = Charging(run)
        /\ UNCHANGED <<scenario, strays, receipts, effects>>
    BY ExecutingFacts DEF ActFails
  <1>2. run'.plan = run.plan /\ run'.verdicts = run.verdicts /\ run'.ledger \in Nat
    BY <1>1, ExecutingFacts, RunFacts, ChargingOK DEF RunOK, RunShape
  <1>3. PICK outcome \in {"session_lost", "permanent_failure"} : Answered(Result(outcome, run'))
    BY DEF ActFails
  <1> DEFINE result == Result(outcome, run')
  <1>4. Answered(result) /\ result.ledger \in Nat /\ result.outcome # "verified"
    BY <1>2, <1>3, ResultFields
  <1> HIDE DEF result
  <1>5. QED
    BY <1>1, <1>2, <1>4, ExecutingFacts, QuietOutcome DEF ExecutionInv

-----------------------------------------------------------------------------
(* The click                                                               *)

\* The key of a step's first plan names no other revision.
LEMMA PressButtonAccounted ==
    ASSUME RecoveryInv, ExecutionInv, PressButton
    PROVE  ExecutionInv'
  <1> DEFINE b == Charging(run).injected \/ scenario = "idempotency_mismatch"
             state == IF Armed({"idempotency_mismatch"}) THEN "mismatch" ELSE "flying"
             c == Charging(run)
  <1>1. /\ Executing /\ IsEffect(Request.step)
        /\ run' = RunInjected(c, b) /\ click' = [key |-> KeyOf(Request), state |-> state]
        /\ UNCHANGED <<scenario, wf, inbox, strays, receipts, effects>>
    BY DEF PressButton, RunInjected
  <1>2. b \in BOOLEAN /\ state # "done"
    OBVIOUS
  <1>3. RunOK(c) /\ c # NoRun /\ c.plan = run.plan /\ c.verdicts = run.verdicts
    BY <1>1, ExecutingFacts, RunFacts, ChargingOK
  <1> HIDE DEF b, state, c
  <1>4. run'.plan = run.plan /\ run'.verdicts = run.verdicts
    BY <1>1, <1>2, <1>3, InjectedOK
  <1>5. Remembers(scenario, effects, run')
    BY <1>1, <1>4, ExecutingFacts, RemembersKept DEF ExecutionInv
  <1>6. click'.key = <<Request.revision, Request.step>> /\ click'.state # "done"
    BY <1>1, <1>2 DEF KeyOf
  <1>7. \A d \in Before[Origin(Request.step)] : effects[d] = 1
    BY <1>1, ExecutingFacts, RunFacts, BeforePerformed DEF ExecutionInv, IsEffect
  <1>8. ASSUME scenario \notin Replanning
        PROVE  Request.revision = 1 /\ Request.step \in Steps
    <2>1. Request.revision = 1
      BY <1>1, <1>8, ExecutingFacts, RequestFacts
    <2>2. QED
      BY <1>1, <1>8, <2>1, ExecutingFacts DEF ExecutionInv, Remembers
  <1>9. Pressed(scenario, effects, click'.key)
    BY <1>1, <1>6, <1>7, <1>8 DEF Pressed, IsEffect
  <1>10. Clicked(scenario, effects, click', inbox', run')
    BY <1>1, <1>4, <1>6, <1>9, ExecutingFacts DEF Clicked, Request
  <1>11. QED
    BY <1>1, <1>5, <1>10, QuietStep DEF ExecutionInv

LEMMA ConfirmAccounted ==
    ASSUME RecoveryInv, ExecutionInv, Confirm
    PROVE  ExecutionInv'
  <1> DEFINE result == Result("verified", run')
  <1>1. /\ click # NoClick /\ click' = NoClick /\ click.state = "done"
        /\ run' = Verified(run, Request.step) /\ Answered(result)
        /\ UNCHANGED <<scenario, strays, receipts, effects>>
    BY DEF Confirm, Committed, NoClick
  <1>2. result.ledger = run'.ledger
    BY ResultFields
  <1> HIDE DEF result
  <1>3. /\ Serving /\ run # NoRun /\ Request.command = "step"
        /\ Request.step \in DOMAIN run.plan \ DOMAIN run.verdicts
    BY <1>1, ClickFacts
  <1>4. /\ RunOK(run') /\ run'.plan = run.plan
        /\ DOMAIN run'.verdicts = DOMAIN run.verdicts \cup {Request.step}
    BY <1>1, <1>3, RunFacts, VerifiedOK
  <1>5. result.ledger \in Nat /\ Request.step \in Ids
    BY <1>2, <1>3, <1>4, RunFacts DEF RunOK, RunShape
  <1>6. /\ Performed(effects, Request.step)
        /\ run.plan[Request.step] \subseteq DOMAIN run.verdicts
    BY <1>1 DEF ExecutionInv, Clicked, Request
  <1>7. Remembers(scenario, effects, run')
    BY <1>3, <1>4, <1>6, RemembersVerified DEF ExecutionInv
  <1>8. QED
    BY <1>1, <1>3, <1>5, <1>6, <1>7, QuietVerdict

\* The command is answered without a verdict; its click may stay in flight.
LEMMA DropAccounted ==
    ASSUME RecoveryInv, ExecutionInv, click # NoClick, click' = NoClick,
           NEW outcome, outcome # "verified", Answered(Result(outcome, run)),
           UNCHANGED <<scenario, run, receipts, effects>>,
           Landing(scenario, effects, strays')
    PROVE  ExecutionInv'
  <1> DEFINE result == Result(outcome, run)
  <1>1. Answered(result) /\ result.outcome # "verified" /\ result.ledger \in Nat
    BY ResultFields, RunFacts
  <1> HIDE DEF result
  <1>2. Serving /\ run # NoRun /\ Request.command = "step"
    BY ClickFacts
  <1>3. QED
    BY <1>1, <1>2, QuietOutcome

LEMMA NotConfirmedAccounted ==
    ASSUME RecoveryInv, ExecutionInv, NotConfirmed
    PROVE  ExecutionInv'
  BY DropAccounted DEF NotConfirmed, Committed, NoClick, ExecutionInv

LEMMA MismatchedAccounted ==
    ASSUME RecoveryInv, ExecutionInv, Mismatched
    PROVE  ExecutionInv'
  BY DropAccounted DEF Mismatched, NoClick, ExecutionInv

LEMMA GiveUpAccounted ==
    ASSUME RecoveryInv, ExecutionInv, GiveUp
    PROVE  ExecutionInv'
  <1>1. /\ click # NoClick /\ click' = NoClick
        /\ Answered(Result("session_lost", run))
        /\ UNCHANGED <<scenario, run, receipts, effects>>
    BY DEF GiveUp
  <1>2. Pressed(scenario, effects, click.key)
    BY <1>1 DEF ExecutionInv, Clicked
  <1>3. \/ strays' = strays
        \/ \E bound \in {TRUE, ~LateRequests} :
              strays' = strays \cup {[key |-> click.key, bound |-> bound]}
    BY DEF GiveUp
  <1>4. ASSUME NEW s \in strays'
        PROVE  Pressed(scenario, effects, s.key) /\ (s.bound \/ LateRequests)
    <2>1. CASE s \in strays
      BY <2>1 DEF ExecutionInv, Landing
    <2>2. ASSUME NEW bound \in {TRUE, ~LateRequests},
                 s = [key |-> click.key, bound |-> bound]
          PROVE  Pressed(scenario, effects, s.key) /\ (s.bound \/ LateRequests)
      <3>1. s.key = click.key /\ s.bound = bound
        BY <2>2
      <3>2. bound \/ LateRequests
        BY RecoveryAssumption
      <3>3. QED
        BY <1>2, <3>1, <3>2
    <2>3. QED
      BY <1>3, <2>1, <2>2
  <1>5. Landing(scenario, effects, strays')
    BY <1>4 DEF Landing
  <1>6. QED
    BY <1>1, <1>5, DropAccounted

-----------------------------------------------------------------------------
(* A request reaches the Sandbox                                           *)

\* What is performed stays performed.
LEMMA GrownParts ==
    ASSUME NEW E \in [Effects -> 0 .. 1], NEW o \in Effects, NEW F, F = [E EXCEPT ![o] = 1]
    PROVE  /\ F \in [Effects -> 0 .. 1] /\ F[o] = 1
           /\ \A s : Performed(E, s) => Performed(F, s)
           /\ \A w : Accounts(E, w) => Accounts(F, w)
           /\ \A c, r : Remembers(c, E, r) => Remembers(c, F, r)
           /\ \A c, key : Pressed(c, E, key) => Pressed(c, F, key)
           /\ \A c, S : Landing(c, E, S) => Landing(c, F, S)
  <1>1. F \in [Effects -> 0 .. 1] /\ F[o] = 1
    OBVIOUS
  <1>2. \A e \in Effects : E[e] = 1 => F[e] = 1
    OBVIOUS
  <1>3. \A s : Performed(E, s) => Performed(F, s)
    BY <1>2 DEF Performed
  <1>4. \A w : Accounts(E, w) => Accounts(F, w)
    BY <1>2, <1>3 DEF Accounts
  <1>5. \A c, r : Remembers(c, E, r) => Remembers(c, F, r)
    BY <1>3 DEF Remembers
  <1>6. \A c, key : Pressed(c, E, key) => Pressed(c, F, key)
    <2>1. SUFFICES ASSUME NEW c, NEW key, Pressed(c, E, key) PROVE Pressed(c, F, key)
      OBVIOUS
    <2>2. \A d \in Before[Origin(key[2])] : d \in Effects
      BY <2>1 DEF Pressed, Before
    <2>3. QED
      BY <1>2, <2>1, <2>2 DEF Pressed
  <1>7. \A c, S : Landing(c, E, S) => Landing(c, F, S)
    BY <1>6 DEF Landing
  <1>8. QED
    BY <1>1, <1>3, <1>4, <1>5, <1>6, <1>7

\* A request the Sandbox performs is the first for its effect.
LEMMA CommitsFirst ==
    ASSUME NeverRepeats, RecoveryInv, ExecutionInv,
           NEW key \in Keys, NEW bound, bound \/ LateRequests,
           Pressed(scenario, effects, key), Commits(key, bound)
    PROVE  effects[Origin(key[2])] = 0
  <1> DEFINE o == Origin(key[2])
  <1>1. o \in Effects /\ effects[o] \in 0 .. 1
    BY DEF Pressed, ExecutionInv
  <1>2. effects[o] = 0 \/ o \in Repeatable
    BY DEF Commits
  <1>3. CASE Repeatable = {}
    BY <1>2, <1>3
  <1>4. CASE ~LateRequests /\ Scenarios \cap Replanning = {} /\ scenario \in Scenarios
    <2>1. scenario \notin Replanning /\ key \notin receipts
      BY <1>4 DEF Commits, Replayed
    <2>2. key[1] = 1 /\ key[2] \in Steps
      BY <2>1 DEF Pressed
    <2>3. o = key[2] /\ key = <<1, o>>
      BY <2>2 DEF Origin, Keys
    <2>4. effects[o] # 1
      BY <1>1, <1>4, <2>1, <2>3 DEF ExecutionInv, Receipted
    <2>5. QED
      BY <1>1, <2>4
  <1>5. QED
    BY <1>3, <1>4 DEF NeverRepeats, RecoveryInv, ScenarioOK

\* What a request that reaches the Sandbox changes, if anything.
LandsOn(o, key, bound) ==
    /\ o \in Effects /\ o = Origin(key[2]) /\ effects[o] = 0
    /\ \A d \in Before[o] : effects[d] = 1
    /\ effects' = [effects EXCEPT ![o] = 1]
    /\ receipts' = IF bound THEN receipts \cup {key} ELSE receipts

LEMMA LandedFacts ==
    ASSUME NeverRepeats, RecoveryInv, ExecutionInv,
           NEW key \in Keys, NEW bound, bound \/ LateRequests,
           Pressed(scenario, effects, key), Landed(key, bound)
    PROVE  IF Commits(key, bound) THEN LandsOn(Origin(key[2]), key, bound)
           ELSE UNCHANGED <<effects, receipts>>
  <1>1. CASE Commits(key, bound)
    <2> DEFINE o == Origin(key[2])
    <2>1. effects[o] = 0
      BY <1>1, CommitsFirst
    <2>2. /\ effects' = [effects EXCEPT ![o] = effects[o] + 1]
          /\ receipts' = IF bound THEN receipts \cup {key} ELSE receipts
      BY <1>1 DEF Landed
    <2>3. o \in Effects /\ \A d \in Before[o] : effects[d] = 1
      BY DEF Pressed
    <2>4. o = Origin(key[2])
      OBVIOUS
    <2> HIDE DEF o
    <2>5. effects' = [effects EXCEPT ![o] = 1]
      BY <2>1, <2>2
    <2>6. QED
      BY <1>1, <2>1, <2>2, <2>3, <2>4, <2>5 DEF LandsOn
  <1>2. CASE ~Commits(key, bound)
    BY <1>2 DEF Landed
  <1>3. QED
    BY <1>1, <1>2

\* The receipts after a request has landed still stand for effects performed,
\* and without late requests every effect performed has its receipt.
LEMMA ReceiptedLanded ==
    ASSUME ExecutionInv, NEW key \in Keys, NEW bound, bound \/ LateRequests,
           Pressed(scenario, effects, key), NEW o, LandsOn(o, key, bound)
    PROVE  Receipted(scenario, effects', receipts')
  <1>1. effects \in [Effects -> 0 .. 1] /\ Receipted(scenario, effects, receipts)
    BY DEF ExecutionInv
  <1>2. /\ effects'[o] = 1 /\ o \in Effects /\ o = Origin(key[2])
        /\ \A s : Performed(effects, s) => Performed(effects', s)
        /\ \A e \in Effects : e # o => effects'[e] = effects[e]
    BY <1>1, GrownParts DEF LandsOn
  <1>3. receipts' = IF bound THEN receipts \cup {key} ELSE receipts
    BY DEF LandsOn
  <1>4. Performed(effects', key[2])
    BY <1>2 DEF Performed
  <1>5. \A k \in receipts' : Origin(k[2]) \in Effects /\ Performed(effects', k[2])
    BY <1>1, <1>2, <1>3, <1>4 DEF Receipted
  <1>6. ASSUME ~LateRequests, scenario \notin Replanning,
               NEW e \in Effects, effects'[e] = 1
        PROVE  <<1, e>> \in receipts'
    <2>1. receipts' = receipts \cup {key}
      BY <1>3, <1>6
    <2>2. CASE e = o
      <3>1. key[1] = 1 /\ key[2] \in Steps
        BY <1>6 DEF Pressed
      <3>2. key = <<1, o>>
        BY <1>2, <3>1 DEF Origin, Keys
      <3>3. QED
        BY <2>1, <2>2, <3>2
    <2>3. CASE e # o
      BY <1>1, <1>2, <1>6, <2>1, <2>3 DEF Receipted
    <2>4. QED
      BY <2>2, <2>3
  <1>7. QED
    BY <1>5, <1>6 DEF Receipted

\* Every other part of the invariant stands when an effect is performed.
LEMMA LandedStep ==
    ASSUME NeverRepeats, RecoveryInv, ExecutionInv,
           NEW key \in Keys, NEW bound, bound \/ LateRequests,
           Pressed(scenario, effects, key), Landed(key, bound),
           UNCHANGED <<scenario, wf, run>>, strays' \subseteq strays,
           Clicked(scenario, effects', click', inbox', run')
    PROVE  ExecutionInv'
  <1>1. CASE Commits(key, bound)
    <2> DEFINE o == Origin(key[2])
    <2>1. LandsOn(o, key, bound)
      BY <1>1, LandedFacts
    <2> HIDE DEF o
    <2>2. Receipted(scenario, effects', receipts')
      BY <2>1, ReceiptedLanded
    <2>3. /\ effects \in [Effects -> 0 .. 1] /\ o \in Effects
          /\ effects' = [effects EXCEPT ![o] = 1]
      BY <2>1 DEF LandsOn, ExecutionInv
    <2>4. /\ effects' \in [Effects -> 0 .. 1] /\ Accounts(effects', wf)
          /\ Remembers(scenario, effects', run) /\ Landing(scenario, effects', strays)
      BY <2>3, GrownParts DEF ExecutionInv
    <2>5. Landing(scenario, effects', strays')
      BY <2>4 DEF Landing
    <2>6. QED
      BY <2>2, <2>4, <2>5 DEF ExecutionInv
  <1>2. CASE ~Commits(key, bound)
    <2>1. UNCHANGED <<effects, receipts>>
      BY <1>2, LandedFacts
    <2>2. Landing(scenario, effects, strays')
      BY DEF Landing, ExecutionInv
    <2>3. QED
      BY <2>1, <2>2 DEF ExecutionInv
  <1>3. QED
    BY <1>1, <1>2

\* A click already performed, or performed now, is answered so.
LEMMA ClickLandsAccounted ==
    ASSUME NeverRepeats, RecoveryInv, ExecutionInv, ClickLands
    PROVE  ExecutionInv'
  <1> DEFINE key == click.key
             state == IF Replayed(key, TRUE) \/ Commits(key, TRUE) THEN "done" ELSE "mismatch"
  <1>1. /\ click.state = "flying" /\ Landed(key, TRUE)
        /\ click' = [click EXCEPT !.state = state]
        /\ UNCHANGED <<scenario, wf, inbox, run, strays>>
    BY DEF ClickLands
  <1>2. click # NoClick
    BY <1>1 DEF NoClick
  <1>3. key \in Keys /\ click \in [key : Keys, state : {"flying", "mismatch", "done"}]
    BY <1>2, ClickFacts
  <1>4. state = "done" => Replayed(key, TRUE) \/ Commits(key, TRUE)
    OBVIOUS
  <1>5. Pressed(scenario, effects, key) /\ Clicked(scenario, effects, click, inbox, run)
    BY <1>2 DEF ExecutionInv, Clicked
  <1>6. key = click.key
    OBVIOUS
  <1> HIDE DEF key, state
  <1>7. click'.key = key /\ click'.state = state
    BY <1>1, <1>3, <1>6
  <1>8. IF Commits(key, TRUE) THEN LandsOn(Origin(key[2]), key, TRUE)
        ELSE UNCHANGED <<effects, receipts>>
    BY <1>1, <1>3, <1>5, LandedFacts
  <1>9. Pressed(scenario, effects', key)
    BY <1>5, <1>8, GrownParts DEF LandsOn, ExecutionInv
  <1>10. ASSUME state = "done" PROVE Performed(effects', key[2])
    <2>1. CASE Commits(key, TRUE)
      <3>1. effects' = [effects EXCEPT ![Origin(key[2])] = 1] /\ Origin(key[2]) \in Effects
        BY <1>8, <2>1 DEF LandsOn
      <3>2. QED
        BY <3>1, GrownParts DEF ExecutionInv, Performed
    <2>2. CASE Replayed(key, TRUE)
      <3>1. UNCHANGED effects /\ key \in receipts
        BY <1>8, <2>2 DEF Replayed, Commits
      <3>2. QED
        BY <3>1 DEF ExecutionInv, Receipted
    <2>3. QED
      BY <1>4, <1>10, <2>1, <2>2
  <1>11. Clicked(scenario, effects', click', inbox', run')
    BY <1>1, <1>2, <1>5, <1>6, <1>7, <1>9, <1>10 DEF Clicked
  <1>12. QED
    BY <1>1, <1>3, <1>5, <1>11, LandedStep

\* A request nobody waits for lands while another click may be pending.
LEMMA StrayLandsAccounted ==
    ASSUME NeverRepeats, RecoveryInv, ExecutionInv, StrayLands
    PROVE  ExecutionInv'
  <1>1. PICK s \in strays : Landed(s.key, s.bound) /\ strays' = strays \ {s}
    BY DEF StrayLands
  <1>2. UNCHANGED <<scenario, wf, inbox, run, click>>
    BY DEF StrayLands
  <1>3. /\ s.key \in Keys /\ Pressed(scenario, effects, s.key)
        /\ s.bound \/ LateRequests
    BY RunFacts DEF ExecutionInv, Landing
  <1>4. IF Commits(s.key, s.bound) THEN LandsOn(Origin(s.key[2]), s.key, s.bound)
        ELSE UNCHANGED <<effects, receipts>>
    BY <1>1, <1>3, LandedFacts
  <1>5. Clicked(scenario, effects', click, inbox, run)
    BY <1>4, GrownParts DEF LandsOn, ExecutionInv, Clicked
  <1>6. QED
    BY <1>1, <1>2, <1>3, <1>5, LandedStep

-----------------------------------------------------------------------------
(* Crashes, and another execution                                          *)

LEMMA CoordinatorRestartsAccounted ==
    ASSUME RecoveryInv, ExecutionInv, CoordinatorRestarts
    PROVE  ExecutionInv'
  <1>1. run' = NoRun /\ click' = NoClick /\ UNCHANGED <<scenario, receipts, effects>>
    BY DEF CoordinatorRestarts
  <1>2. Accounts(effects, wf')
    BY FailedAccounts, RunFacts DEF CoordinatorRestarts, ExecutionInv
  <1>3. ASSUME NEW s \in strays'
        PROVE  Pressed(scenario, effects, s.key) /\ (s.bound \/ LateRequests)
    <2>1. s \in strays \/ (click # NoClick /\ s = [key |-> click.key, bound |-> TRUE])
      BY <1>3 DEF CoordinatorRestarts, NoClick
    <2>2. QED
      BY <2>1 DEF ExecutionInv, Clicked, Landing
  <1>4. Landing(scenario, effects, strays')
    BY <1>3 DEF Landing
  <1>5. Remembers(scenario, effects, run') /\ Clicked(scenario, effects, click', inbox', run')
    BY <1>1 DEF Remembers, Clicked
  <1>6. QED
    BY <1>1, <1>2, <1>4, <1>5, QuietStep

LEMMA RedeliverAccounted ==
    ASSUME RecoveryInv, ExecutionInv, Redeliver
    PROVE  ExecutionInv'
  <1>1. /\ wf' = Begun(wf.execution + 1)
        /\ UNCHANGED <<scenario, inbox, run, click, strays, receipts, effects>>
    BY DEF Redeliver
  <1>2. wf'.completed = {} /\ wf'.pc = "start" /\ wf'.status = "failed"
    BY <1>1 DEF Begun
  <1>3. Accounts(effects, wf')
    BY <1>2 DEF Accounts
  <1>4. QED
    BY <1>1, <1>3, QuietStep DEF ExecutionInv

-----------------------------------------------------------------------------
(* The invariant of the executions is inductive                            *)

LEMMA InitAccounted ==
    ASSUME Init
    PROVE  ExecutionInv
  <1>1. /\ wf.completed = {} /\ wf.pc = "start" /\ wf.status = "failed"
        /\ run = NoRun /\ click = NoClick /\ strays = {} /\ receipts = {}
        /\ effects = [s \in Effects |-> 0]
    BY DEF Init, Begun
  <1>2. effects \in [Effects -> 0 .. 1] /\ \A e \in Effects : effects[e] # 1
    BY <1>1
  <1>3. QED
    BY <1>1, <1>2 DEF ExecutionInv, Accounts, Remembers, Clicked, Landing, Receipted

LEMMA NextAccounted ==
    ASSUME NeverRepeats, RecoveryInv, ExecutionInv, [Next]_vars
    PROVE  ExecutionInv'
  <1>1. CASE UNCHANGED vars
    BY <1>1, QuietStep DEF vars, ExecutionInv
  <1>2. CASE Send \/ LoseAttempt \/ TimeOut \/ Redeliver
    BY <1>2, SendAccounted, LoseAttemptAccounted, TimeOutAccounted, RedeliverAccounted
  <1>3. CASE BeginFails
    BY <1>3, QuietRaised DEF BeginFails, Free
  <1>4. CASE Unknown
    BY <1>4, QuietRaised DEF Unknown
  <1>5. CASE Stale
    BY <1>5, QuietRaised DEF Stale
  <1>6. CASE RecoverFails
    BY <1>6, QuietRaised DEF RecoverFails, Accepted, Free
  <1>7. CASE BeginRun \/ ResumeRun \/ CleanUp \/ Refresh \/ Recover \/ Replan
    BY <1>7, BeginRunAccounted, ResumeRunAccounted, CleanUpAccounted, RefreshAccounted,
       RecoverAccounted, ReplanAccounted
  <1>8. CASE AlreadyVerified \/ Refused \/ InjectedLoss \/ InjectedReplan
    BY <1>8, AlreadyVerifiedAccounted, RefusedAccounted, InjectedLossAccounted,
       InjectedReplanAccounted
  <1>9. CASE Look \/ ActFails \/ PressButton \/ Confirm \/ NotConfirmed \/ Mismatched \/ GiveUp
    BY <1>9, LookAccounted, ActFailsAccounted, PressButtonAccounted, ConfirmAccounted,
       NotConfirmedAccounted, MismatchedAccounted, GiveUpAccounted
  <1>10. CASE ClickLands \/ StrayLands
    BY <1>10, ClickLandsAccounted, StrayLandsAccounted
  <1>11. CASE SessionDies
    BY <1>11, QuietStep DEF SessionDies, ExecutionInv
  <1>12. CASE CoordinatorRestarts
    BY <1>12, CoordinatorRestartsAccounted
  <1>13. QED
    BY <1>1, <1>2, <1>3, <1>4, <1>5, <1>6, <1>7, <1>8, <1>9, <1>10, <1>11, <1>12 DEF Next

-----------------------------------------------------------------------------
(* The refinement                                                          *)

Reported == wf.pc = "done" /\ wf.status = "finished_ungraded"

Mapped == [Abstract!Next]_(Abstract!vars)

\* The Sandbox performs nothing: the run is at most reported, or taken up again.
LEMMA QuietMapped ==
    ASSUME ExecutionInv', UNCHANGED effects
    PROVE  Mapped
  <1>1. Reported' => \A e \in Effects : effects[e] = 1
    BY DEF Reported, ExecutionInv, Accounts
  <1>2. CASE Reported' = Reported
    BY <1>2 DEF Mapped, Abstract!vars, Reported
  <1>3. CASE Reported' /\ ~Reported
    BY <1>1, <1>3 DEF Mapped, Abstract!Next, Abstract!Finish, Reported
  <1>4. CASE ~Reported' /\ Reported
    BY <1>4 DEF Mapped, Abstract!Next, Abstract!Reopen, Reported
  <1>5. QED
    BY <1>2, <1>3, <1>4 DEF Reported

\* A request lands: the effect is performed after those it depends on.
LEMMA LandedMapped ==
    ASSUME NeverRepeats, RecoveryInv, ExecutionInv, ExecutionInv', UNCHANGED wf,
           NEW key \in Keys, NEW bound, bound \/ LateRequests,
           Pressed(scenario, effects, key), Landed(key, bound)
    PROVE  Mapped
  <1>1. CASE Commits(key, bound)
    <2> DEFINE o == Origin(key[2])
    <2>1. LandsOn(o, key, bound)
      BY <1>1, LandedFacts
    <2> HIDE DEF o
    <2>2. Abstract!Perform(o) /\ o \in Effects
      BY <2>1 DEF LandsOn, Abstract!Perform
    <2>3. QED
      BY <2>2 DEF Mapped, Abstract!Next
  <1>2. CASE ~Commits(key, bound)
    BY <1>2, LandedFacts, QuietMapped
  <1>3. QED
    BY <1>1, <1>2

LEMMA NextMapped ==
    ASSUME NeverRepeats, RecoveryInv, ExecutionInv, ExecutionInv', [Next]_vars
    PROVE  Mapped
  <1>1. CASE ClickLands
    <2>1. Landed(click.key, TRUE) /\ UNCHANGED wf /\ click.state = "flying"
      BY <1>1 DEF ClickLands
    <2>2. click # NoClick
      BY <2>1 DEF NoClick
    <2>3. click.key \in Keys /\ Pressed(scenario, effects, click.key)
      BY <2>2, ClickFacts DEF ExecutionInv, Clicked
    <2>4. QED
      BY <2>1, <2>3, LandedMapped
  <1>2. CASE StrayLands
    <2>1. PICK s \in strays : Landed(s.key, s.bound)
      BY <1>2 DEF StrayLands
    <2>2. s.key \in Keys /\ Pressed(scenario, effects, s.key) /\ (s.bound \/ LateRequests)
      BY RunFacts DEF ExecutionInv, Landing
    <2>3. UNCHANGED wf
      BY <1>2 DEF StrayLands
    <2>4. QED
      BY <2>1, <2>2, <2>3, LandedMapped
  <1>3. CASE ~ClickLands /\ ~StrayLands
    <2>1. UNCHANGED effects
      BY <1>3 DEF Next, vars, Send, LoseAttempt, TimeOut, BeginRun, BeginFails, ResumeRun,
         Unknown, Stale, CleanUp, Refresh, Recover, RecoverFails, Replan, AlreadyVerified,
         Refused, InjectedLoss, InjectedReplan, Look, ActFails, PressButton, Confirm,
         NotConfirmed, Mismatched, GiveUp, SessionDies, CoordinatorRestarts, Redeliver
    <2>2. QED
      BY <2>1, QuietMapped
  <1>4. QED
    BY <1>1, <1>2, <1>3

LEMMA InitMapped == Init => Abstract!Init
  BY DEF Init, Begun, Abstract!Init

\* Seen from the Sandbox, whatever is lost, repeated, delayed or restarted, a
\* run performs each effect of its plan at most once and after those it depends
\* on, and is reported finished only with all of them performed -- if the
\* Sandbox itself refuses a repeated effect, or if no page sends its request
\* late and no scenario revises the plan.
THEOREM RecoveryExecutesPlan == ASSUME NeverRepeats PROVE Spec => ExecutesPlan
  <1>1. Init => ExecutionInv /\ Abstract!Init
    BY InitAccounted, InitMapped
  <1>2. RecoveryInv /\ ExecutionInv /\ [Next]_vars => ExecutionInv'
    BY NextAccounted
  <1>3. RecoveryInv /\ ExecutionInv /\ ExecutionInv' /\ [Next]_vars
            => [Abstract!Next]_(Abstract!vars)
    BY NextMapped DEF Mapped
  <1>4. QED
    BY <1>1, <1>2, <1>3, RecoveryInvariant, PTL DEF Spec, ExecutesPlan, Abstract!Spec

\* Under the same conditions no effect is performed twice: what the code needs
\* for the claim that the run with late requests refutes.
THEOREM EffectsPerformedOnce == ASSUME NeverRepeats PROVE Spec => []EffectAtMostOnce
  <1>1. Init => ExecutionInv
    BY InitAccounted
  <1>2. RecoveryInv /\ ExecutionInv /\ [Next]_vars => ExecutionInv'
    BY NextAccounted
  <1>3. ExecutionInv => EffectAtMostOnce
    BY DEF ExecutionInv, EffectAtMostOnce
  <1>4. QED
    BY <1>1, <1>2, <1>3, RecoveryInvariant, PTL DEF Spec
=============================================================================
