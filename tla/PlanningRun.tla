---------------------------- MODULE PlanningRun -----------------------------
(***************************************************************************)
(* A run of the Planning Agent without recovery: the executor takes the    *)
(* steps of a valid plan in their topological order, matches and sends the *)
(* instructions of each to the Browser Worker, verifies the step, and      *)
(* charges everything to the one ledger of the run.                        *)
(*                                                                         *)
(* The executor is one coroutine; only its session lives outside of it.    *)
(*                                                                         *)
(* Abstractions.  Of the ledger those counters are kept that limit what a  *)
(* run does; the tokens, calls and bytes they come with grow by constants. *)
(* The clock may exceed max_duration_seconds at any charge.  The limits of *)
(* blocked steps and of probes are at least one, and a run charges one.    *)
(* The planner gives every step the fallback "stop".                       *)
(***************************************************************************)
EXTENDS Integers, Sequences, FiniteSets

CONSTANTS
    Plan,           \* the steps each step depends on
    Order,          \* topology of the plan
    Instructions,   \* number of instructions of a step
    Budgets,        \* total budgets: limits of Counters
    Scenarios       \* fake scenarios of the requests

VARIABLES
    budget, scenario,   \* of the request
    pc,        \* where the executor is
    used,      \* counters of the ledger
    states,    \* StepStateMachine
    at, left,  \* the step in turn, and its instructions that are left
    ok,        \* success of the last action
    results,   \* step_results
    session,   \* the session of the Browser Worker
    status,    \* of the run
    good,      \* history: instructions of a step that succeeded
    lost       \* history: a session nobody closes

vars == <<budget, scenario, pc, used, states, at, left, ok, results, session, status, good, lost>>

Steps == DOMAIN Plan
Counters == {"actions", "matches", "rejections", "verifiers", "executed", "doms"}
States == {"pending", "executing", "verified", "failed"}
Waits == {"creating", "acting", "observing", "finishing", "closing"}

TypeOK ==
    /\ budget \in Budgets /\ scenario \in Scenarios
    /\ pc \in {"start", "ready", "step", "match", "verify", "final", "ended"} \cup Waits
    /\ used \in [Counters -> Nat] /\ states \in [Steps -> States]
    /\ at \in 1..Len(Order) + 1 /\ left \in Nat /\ ok \in BOOLEAN
    /\ \A i \in DOMAIN results : results[i].step \in Steps
    /\ session \in {"none", "open", "closed"}
    /\ status \in {"none", "finished_ungraded", "budget_exhausted", "dependency_blocked",
                   "tool_rejected", "failed", "browser_error", "cancelled",
                   "verification_inconclusive", "verification_not_verified"}
    /\ good \in [Steps -> Nat] /\ lost \in BOOLEAN

Init ==
    /\ budget \in Budgets /\ scenario \in Scenarios
    /\ pc = "start" /\ used = [c \in Counters |-> 0]
    /\ states = [s \in Steps |-> "pending"] /\ at = 1 /\ left = 0 /\ ok = FALSE
    /\ results = <<>> /\ session = "none" /\ status = "none"
    /\ good = [s \in Steps |-> 0] /\ lost = FALSE

-----------------------------------------------------------------------------
(* The ledger.                                                             *)

Plus(u, c) == [u EXCEPT ![c] = @ + 1]

\* A charge counts first and then compares its own counter.
Exceeds(u, c) == u[c] > budget[c]

CanAct == used.actions < budget.actions

\* The run ends with a status, and the finally closes its session.
EndOpen(s) == pc' = "ended" /\ status' = s
End(s) == pc' = "closing" /\ status' = s

Go(next) == pc' = next /\ UNCHANGED status

\* A charge that lets the run go on, or ends it.
Charge(c, next) ==
    /\ used' = Plus(used, c)
    /\ IF Exceeds(used', c) THEN End("budget_exhausted") ELSE Go(next)

OutOfTime == End("budget_exhausted") /\ UNCHANGED used

\* _reject, which swallows a charge that raises.
Rejected(u) ==
    LET m == Plus(u, "matches") IN
    IF Exceeds(m, "matches") THEN m ELSE Plus(m, "rejections")

Step == Order[at]
Result(s, state) == Append(results, [step |-> s, state |-> state])

Startable(s) == states[s] = "pending" /\ \A d \in Plan[s] : states[d] = "verified"

\* DependencyBlocked ends the run.
Blocked(s) ==
    \/ results' = Result(s, "blocked") /\ End("dependency_blocked") /\ UNCHANGED used
    \/ OutOfTime /\ UNCHANGED results

-----------------------------------------------------------------------------
(* The executor.                                                           *)

\* The plan and its charge; nothing has to be closed yet.
Generate ==
    /\ pc = "start"
    /\ \/ Go("creating")
       \/ EndOpen("budget_exhausted")
    /\ UNCHANGED <<budget, scenario, used, states, at, left, ok, results, session, good, lost>>

\* create_session; without an answer the executor knows no session to close.
Create ==
    /\ pc = "creating"
    /\ \/ /\ session' = "open" /\ UNCHANGED lost
          /\ Charge("doms", "ready") \/ OutOfTime
       \/ /\ session' \in {"none", "open"} /\ lost' = TRUE
          /\ EndOpen("browser_error") /\ UNCHANGED used
    /\ UNCHANGED <<budget, scenario, states, at, left, ok, results, good>>

\* The scenarios: a finish at once, a step before its dependencies, or the plan,
\* which begins with a tool that does not exist.
Begin ==
    /\ pc = "ready"
    /\ CASE scenario = "finish_immediately" ->
              (Charge("actions", "finishing") \/ OutOfTime) /\ UNCHANGED results
         [] scenario = "out_of_order_probe" /\ ~Startable(Order[2]) -> Blocked(Order[2])
         [] OTHER -> used' \in {used, Rejected(used)} /\ Go("step") /\ UNCHANGED results
    /\ UNCHANGED <<budget, scenario, states, at, left, ok, session, good, lost>>

StartStep ==
    /\ pc = "step"
    /\ IF Startable(Step)
       THEN /\ states' = [states EXCEPT ![Step] = "executing"]
            /\ left' = Instructions[Step] /\ ok' = FALSE
            /\ Charge("executed", "match") \/ OutOfTime
            /\ UNCHANGED results
       ELSE Blocked(Step) /\ UNCHANGED <<states, left, ok>>
    /\ UNCHANGED <<budget, scenario, at, session, good, lost>>

\* A tool is rejected for its page or its element, or when no action is left.
Reject == used' = Rejected(used) /\ End("tool_rejected")

\* match, the envelope, which fails without its element, and the action's charge.
Match(next) ==
    \/ Reject
    \/ CanAct /\ OutOfTime
    \/ /\ CanAct
       /\ LET u == Plus(used, "matches") IN
          \/ used' = u /\ End("budget_exhausted")
          \/ next = "acting" /\ ~Exceeds(u, "matches") /\ used' = u /\ End("failed")
          \/ ~Exceeds(u, "matches") /\ used' = Plus(u, "actions") /\ Go(next)

MatchInstruction ==
    /\ pc = "match" /\ Match("acting")
    /\ UNCHANGED <<budget, scenario, states, at, left, ok, results, session, good, lost>>

MatchFinish ==
    /\ pc = "final" /\ Match("finishing")
    /\ UNCHANGED <<budget, scenario, states, at, left, ok, results, session, good, lost>>

\* A call of the worker raises: its session is gone, or the answer was lost.
CallFails ==
    /\ pc \in {"acting", "observing", "finishing"}
    /\ End("browser_error")
    /\ session' \in IF session = "open" THEN {"open", "closed"} ELSE {session}
    /\ UNCHANGED <<budget, scenario, used, states, at, left, ok, results, good, lost>>

\* The operation ends with its last instruction or the first that fails; the first
\* step is observed once more before it is verified.
ContinuesAnyway(success) == left > 1
Continues(success) == success /\ left > 1

Act ==
    /\ pc = "acting" /\ session = "open"
    /\ \/ /\ End("failed") /\ session' = "closed"       \* a terminal answer
          /\ UNCHANGED <<used, ok, left, good>>
       \/ /\ UNCHANGED session
          /\ \E success \in BOOLEAN :
                /\ ok' = success /\ left' = left - 1
                /\ good' = IF success THEN [good EXCEPT ![Step] = @ + 1] ELSE good
                /\ \/ Charge("doms", IF Continues(success) THEN "match"
                                     ELSE IF at = 1 THEN "observing" ELSE "verify")
                   \/ OutOfTime
    /\ UNCHANGED <<budget, scenario, states, at, results, lost>>

Observe ==
    /\ pc = "observing" /\ session = "open"
    /\ Charge("doms", "verify") \/ OutOfTime
    /\ UNCHANGED <<budget, scenario, states, at, left, ok, results, session, good, lost>>

\* DeterministicStepVerifier: inconclusive when its charge raises.
Verdicts(u) ==
    IF Exceeds(u, "verifiers") \/ (scenario = "verifier_inconclusive" /\ results = <<>>)
    THEN {"inconclusive"}
    ELSE {"inconclusive", "not_verified"} \cup (IF ok THEN {"verified"} ELSE {})

Verify ==
    /\ pc = "verify"
    /\ LET u == Plus(used, "verifiers") IN
       \/ /\ "verified" \in Verdicts(u)
          /\ used' = u /\ states' = [states EXCEPT ![Step] = "verified"]
          /\ results' = Result(Step, "verified") /\ at' = at + 1
          /\ Go(IF at = Len(Order) THEN "final" ELSE "step")
       \/ /\ states' = [states EXCEPT ![Step] = "failed"] /\ UNCHANGED at
          /\ \/ \E verdict \in Verdicts(u) \ {"verified"} :
                   /\ used' = u /\ results' = Result(Step, "failed")
                   /\ End(IF verdict = "inconclusive" THEN "verification_inconclusive"
                                                   ELSE "verification_not_verified")
             \/ used' \in {used, u} /\ End("budget_exhausted") /\ UNCHANGED results
    /\ UNCHANGED <<budget, scenario, left, ok, session, good, lost>>

\* The page of the observation is none of the Sandbox.
PageUnknown ==
    /\ pc \in {"ready", "match", "verify", "final"}
    /\ pc = "ready" => scenario \notin {"finish_immediately", "out_of_order_probe"}
    /\ End("failed")
    /\ UNCHANGED <<budget, scenario, used, states, at, left, ok, results, session, good, lost>>

Finish ==
    /\ pc = "finishing" /\ session = "open"
    /\ \/ End("finished_ungraded") /\ session' = "closed"
       \/ End("failed") /\ session' \in {"open", "closed"}
    /\ UNCHANGED <<budget, scenario, used, states, at, left, ok, results, good, lost>>

\* The finally, which suppresses what close_session raises.
Close ==
    /\ pc = "closing"
    /\ pc' = "ended"
    /\ \/ session' = "closed" /\ UNCHANGED lost
       \/ session = "open" /\ lost' = TRUE /\ UNCHANGED session
    /\ UNCHANGED <<budget, scenario, used, states, at, left, ok, results, status, good>>

\* The request is cancelled: the finally still closes the session it knows.
Cancel ==
    /\ pc \in Waits
    /\ status' = "cancelled"
    /\ IF pc \in {"creating", "closing"}
       THEN /\ pc' = "ended" /\ lost' = TRUE
            /\ session' \in IF pc = "creating" THEN {"none", "open"} ELSE {session}
       ELSE pc' = "closing" /\ UNCHANGED <<lost, session>>
    /\ UNCHANGED <<budget, scenario, used, states, at, left, ok, results, good>>

\* The expiry task of the session.
Expire ==
    /\ session = "open"
    /\ session' = "closed"
    /\ UNCHANGED <<budget, scenario, pc, used, states, at, left, ok, results, status, good, lost>>

Next ==
    \/ Generate \/ Create \/ Begin \/ StartStep \/ MatchInstruction \/ MatchFinish
    \/ CallFails \/ Act \/ Observe \/ Verify \/ PageUnknown \/ Finish \/ Close
    \/ Cancel \/ Expire

Spec == Init /\ [][Next]_vars

-----------------------------------------------------------------------------
(* Properties.                                                             *)

\* A run that carries its plan through and finishes has had every instruction of
\* every step succeed, and every step verified after the steps it depends on: no
\* success hides an earlier failure, and no exhausted budget passes as a verdict.
FinishedMeansDone ==
    status = "finished_ungraded" /\ scenario # "finish_immediately" =>
        /\ \A s \in Steps : states[s] = "verified" /\ good[s] = Instructions[s]
        /\ [i \in DOMAIN results |-> results[i].step] = Order

\* Nothing is sent to the worker on the credit of an exceeded limit.  Only the
\* rejection of the tool that does not exist may exceed its own unnoticed.
LedgerHolds ==
    pc \in {"acting", "finishing"} =>
        \A c \in Counters \ {"rejections"} : used[c] <= budget[c]

\* A run leaves no browser behind, by whatever it ends and also when cancelled,
\* unless a call of the worker was lost.
RunLeavesNoSession == pc = "ended" /\ session = "open" => lost
=============================================================================
