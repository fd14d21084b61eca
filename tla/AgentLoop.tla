------------------------------ MODULE AgentLoop ------------------------------
(***************************************************************************)
(* A run of the DOM, the vision or the hybrid agent: the loop that asks a  *)
(* model for an action, has the Browser Worker execute it and looks at the *)
(* observation that answers, within the budgets of the run.                *)
(*                                                                         *)
(* Abstractions.  The decision of the model is one of a few actions.  Of   *)
(* the page, an observation tells whether it differs from the one before,  *)
(* and the quality of its DOM.  Input tokens, output tokens and cost are   *)
(* one budget, "tokens"; bytes, pixels and capture time of images are one, *)
(* "pixels"; the bytes of DOM observations go with their count.  The clock *)
(* and the compressed DOM may exceed their budget at any time.             *)
(***************************************************************************)
EXTENDS Integers, FiniteSets

CONSTANTS
    Kinds,           \* agents: a subset of {"dom", "vision", "hybrid"}
    Targets,         \* elements of the page
    MaxSteps, MaxCalls, MaxTokens, MaxRepeated, MaxNoProgress,
    MaxDoms, MaxImages, MaxSwitches,                 \* the budget of the run
    PixelBudgets,    \* its max_image_pixels, one of these
    Usage,           \* tokens a response may cost
    ImageCosts,      \* pixels an image may cost
    FakeTokens,      \* tokens the router wants left for a call on an image
    None             \* null value

\* HybridRunStatus, the budgets of one kind as one, and a cancelled request.
Statuses == {"browser_error", "model_error", "invalid_model_output", "budget", "switch_budget",
             "image_budget", "repeated", "no_progress", "finished_ungraded", "failed", "cancelled"}

ASSUME AgentAssumption ==
    /\ Kinds \subseteq {"dom", "vision", "hybrid"}
    /\ {MaxSteps, MaxCalls, MaxRepeated, MaxNoProgress, MaxDoms, MaxImages} \cup PixelBudgets \subseteq Nat \ {0}
    /\ {MaxTokens, MaxSwitches, FakeTokens} \subseteq Nat
    /\ Usage \subseteq Nat /\ Usage # {} /\ IsFiniteSet(Usage)
    /\ ImageCosts \subseteq Nat \ {0} /\ ImageCosts # {} /\ IsFiniteSet(ImageCosts)
    /\ None \notin Statuses

VARIABLES
    kind,       \* the agent
    maxPixels,  \* its max_image_pixels
    category,   \* route_category of the run, which only the hybrid agent has
    pc,         \* where the loop waits
    run,        \* _RunState, the counters of the loop and RouterState
    look,       \* the current observation
    session,    \* the session of the Browser Worker
    result,     \* status of the run, from the moment it is decided
    streak,     \* history: the last action sent to the worker, and how often in a row
    lost        \* history: a call failed or was cancelled that nobody repeats

vars == <<kind, maxPixels, category, pc, run, look, session, result, streak, lost>>

Action == [type : {"click", "read"}, target : Targets]
            \cup [type : {"wait", "finish", "fail"}, target : {None}]

Modalities == {"dom", "vision"}

Signatures == [type : {"click", "read", "wait", "finish", "fail"}, target : Targets \cup {None},
               modality : Modalities, step : 0..MaxSteps]

MostUsage == CHOOSE n \in Usage : \A k \in Usage : k <= n
MostPixels == CHOOSE n \in ImageCosts : \A k \in ImageCosts : k <= n

TypeOK ==
    /\ kind \in Kinds /\ maxPixels \in PixelBudgets /\ category \in {"standard", "visual_recovery"}
    /\ pc \in {"start", "turn", "switching", "calling", "acting", "closing", "ended"}
    /\ run \in [steps : 0..MaxSteps, calls : 0..MaxCalls, tokens : 0..MaxTokens + MostUsage,
                doms : 0..MaxSteps + 1, images : 0..MaxImages + 1,
                pixels : 0..maxPixels + MostPixels,
                repeated : 0..MaxRepeated + 1, previous : Signatures \cup {None},
                stuck : 0..MaxNoProgress + 1, switches : 0..1, probes : 0..MaxSteps,
                action : Action \cup {None}]
    /\ look \in [modality : Modalities, signal : {"usable", "weak", "error"}]
    /\ session \in {"none", "open", "closed"}
    /\ result \in Statuses \cup {None}
    /\ streak \in [action : Action \cup {None}, modality : Modalities \cup {None}, count : 0..MaxSteps]
    /\ lost \in BOOLEAN

\* What create_session will answer: the first DOM the hybrid agent sees may be weak
\* already; the other agents read no signal.
FirstLooks(k) == [modality : {IF k = "vision" THEN "vision" ELSE "dom"},
                  signal : IF k = "hybrid" THEN {"usable", "weak"} ELSE {"usable"}]

Init ==
    /\ kind \in Kinds /\ maxPixels \in PixelBudgets /\ pc = "start"
    /\ category \in IF kind = "hybrid" THEN {"standard", "visual_recovery"} ELSE {"standard"}
    /\ run = [steps |-> 0, calls |-> 0, tokens |-> 0, doms |-> 0, images |-> 0, pixels |-> 0,
              repeated |-> 0, previous |-> None, stuck |-> 0, switches |-> 0, probes |-> 0,
              action |-> None]
    /\ look \in FirstLooks(kind)
    /\ session = "none" /\ result = None /\ lost = FALSE
    /\ streak = [action |-> None, modality |-> None, count |-> 0]

-----------------------------------------------------------------------------
(* Budgets.                                                                *)

\* _record_observation of the hybrid agent, _add_image of the vision agent.
Record(r, modality, cost) ==
    IF modality = "vision" THEN [r EXCEPT !.images = @ + 1, !.pixels = @ + cost]
    ELSE IF kind = "hybrid" THEN [r EXCEPT !.doms = @ + 1]
    ELSE r

Costs(modality) == IF modality = "vision" THEN ImageCosts ELSE {0}

Affordable(r) == r.images <= MaxImages /\ r.pixels <= maxPixels /\ r.doms <= MaxDoms

\* _pre_call_budget_status; the clock may say so at any time.
MayCallAgain(r) == TRUE
MayCall(r) == r.calls < MaxCalls /\ r.tokens < MaxTokens

\* _post_call_budget_status
WithinUnchecked(r) == TRUE
Within(r) == r.tokens <= MaxTokens

\* The run ends with a status; the hybrid agent and most ends of the others close
\* the session first.
EndOpen(status) == pc' = "ended" /\ result' = status
End(status) == pc' = "closing" /\ result' = status

-----------------------------------------------------------------------------
(* The Browser Worker.                                                     *)

\* create_session: the answer may be lost, and the session with it.
Create ==
    /\ pc = "start"
    /\ \/ /\ session' = "open" /\ UNCHANGED <<look, lost>>
          /\ \E cost \in Costs(look.modality) :
                run' = Record(run, look.modality, cost)
          /\ IF Affordable(run') THEN pc' = "turn" /\ UNCHANGED result
                                 ELSE End("image_budget")
       \/ \E s \in {"none", "open"} :
             /\ session' = s /\ lost' = TRUE
             /\ pc' = "ended" /\ result' = "browser_error"
             /\ UNCHANGED <<run, look>>
    /\ UNCHANGED <<kind, maxPixels, category, streak>>

\* _safe_close, which suppresses what the call raises.
Close ==
    /\ pc = "closing"
    /\ pc' = "ended"
    /\ \/ session' = "closed" /\ UNCHANGED lost
       \/ session = "open" /\ lost' = TRUE /\ UNCHANGED session
    /\ UNCHANGED <<kind, maxPixels, category, run, look, result, streak>>

\* The expiry task of the session.
Expire ==
    /\ session = "open"
    /\ session' = "closed"
    /\ UNCHANGED <<kind, maxPixels, category, pc, run, look, result, streak, lost>>

-----------------------------------------------------------------------------
(* The router of the hybrid agent.                                         *)

\* _should_switch.  "weak" is an empty or truncated structure, "error" an error of
\* the last action that is safe to switch on.
WantsVision ==
    \/ look.signal \in {"weak", "error"}
    \/ category = "visual_recovery" /\ run.probes >= 1

\* can_request_vision
CanRequestVisionAny == run.images < MaxImages
CanRequestVision ==
    /\ run.images < MaxImages /\ run.pixels + MostPixels <= maxPixels
    /\ run.tokens + FakeTokens <= MaxTokens

SwitchLimit == IF MaxSwitches = 0 THEN 0 ELSE 1

\* The head of the loop: the steps, the budgets before a call, the route.  The clock
\* or the compressed DOM may end the run here, the clock may refuse a switch.
Turn ==
    /\ pc = "turn"
    /\ IF run.steps >= MaxSteps \/ ~MayCall(run) THEN End("budget") /\ UNCHANGED run
       ELSE \/ End("budget") /\ UNCHANGED run
            \/ /\ kind = "hybrid" /\ look.modality = "dom" /\ WantsVision
               /\ \/ /\ run.switches < SwitchLimit /\ CanRequestVision
                     /\ pc' = "switching" /\ run' = [run EXCEPT !.switches = @ + 1]
                     /\ UNCHANGED result
                  \/ End("switch_budget") /\ UNCHANGED run
            \/ /\ ~(kind = "hybrid" /\ look.modality = "dom" /\ WantsVision)
               /\ pc' = "calling" /\ UNCHANGED <<result, run>>
    /\ UNCHANGED <<kind, maxPixels, category, look, session, streak, lost>>

\* request_observation and its record.
Switch ==
    /\ pc = "switching"
    /\ \/ /\ session = "open"
          /\ look' = [look EXCEPT !.modality = "vision"]
          /\ \E cost \in ImageCosts : run' = Record(run, "vision", cost)
          /\ IF Affordable(run') THEN pc' = "calling" /\ UNCHANGED result
                                 ELSE End("image_budget")
          /\ UNCHANGED session
       \/ /\ End("browser_error")
          /\ session' \in IF session = "open" THEN {"open", "closed"} ELSE {session}
          /\ UNCHANGED <<run, look>>
    /\ UNCHANGED <<kind, maxPixels, category, streak, lost>>

-----------------------------------------------------------------------------
(* The model.                                                              *)

\* _action_signature: the DOM agent keeps the ids of observation and element,
\* which are new in every observation; the others leave both out.
Signature(action) ==
    [type |-> action.type,
     target |-> IF kind = "dom" THEN action.target ELSE None,
     modality |-> look.modality,
     step |-> IF kind = "dom" /\ action.target # None THEN run.steps ELSE 0]

Repeat(r, sig) ==
    [r EXCEPT !.repeated = IF sig = r.previous THEN @ + 1 ELSE 1, !.previous = sig]

Used(r, tokens) == [r EXCEPT !.tokens = @ + tokens]

\* A call that raises ends the run.  The hybrid agent counts every call before it,
\* the others only calls with a usage.
CallFails ==
    /\ pc = "calling"
    /\ \/ /\ \E t \in Usage : run' = Used([run EXCEPT !.calls = @ + 1], t)
          /\ End(IF Within(run') THEN "model_error" ELSE "budget")
       \/ /\ run' = IF kind = "hybrid" THEN [run EXCEPT !.calls = @ + 1] ELSE run
          /\ End("model_error")
    /\ UNCHANGED <<kind, maxPixels, category, look, session, streak, lost>>

\* The response: usage and clock, then the decision, then its repetitions.
Call ==
    /\ pc = "calling"
    /\ \E t \in Usage : LET r == Used([run EXCEPT !.calls = @ + 1], t) IN
          \/ run' = r /\ End("budget")
          \/ Within(r) /\ run' = r /\ End("invalid_model_output")
          \/ /\ Within(r)
             /\ \E action \in Action :
                   run' = [Repeat(r, Signature(action)) EXCEPT !.action = action]
             /\ IF run'.repeated > MaxRepeated THEN End("repeated")
                ELSE pc' = "acting" /\ UNCHANGED result
    /\ UNCHANGED <<kind, maxPixels, category, look, session, streak, lost>>

-----------------------------------------------------------------------------
(* The action.                                                             *)

Sent ==
    LET same == streak.action = run.action /\ streak.modality = look.modality IN
    streak' = [action |-> run.action, modality |-> look.modality,
               count |-> IF same THEN streak.count + 1 ELSE 1]

\* execute_action raises: the session is gone, or the answer is lost.
ActFails ==
    /\ pc = "acting"
    /\ \/ UNCHANGED <<session, streak>>
       \/ session = "open" /\ Sent /\ session' \in {"open", "closed"}
    /\ End("browser_error")
    /\ UNCHANGED <<kind, maxPixels, category, run, look, lost>>

\* A terminal answer, of finish and fail or of a limit of the worker, which has
\* closed the session.  The status is that of the action that was asked for.
Terminal ==
    /\ pc = "acting" /\ session = "open"
    /\ session' = "closed" /\ Sent
    /\ run' = [run EXCEPT !.steps = @ + 1]
    /\ pc' = IF kind = "hybrid" THEN "closing" ELSE "ended"
    /\ result' = IF run.action.type = "finish" THEN "finished_ungraded" ELSE "failed"
    /\ UNCHANGED <<kind, maxPixels, category, look, lost>>

\* Any other answer: success, whether the page looks different, and the
\* observation.  To finish or fail of the hybrid agent it may answer that another
\* generation was named.
Stuck(r, progress) == IF progress THEN 0 ELSE r.stuck + 1

Acted(ok, progress, cost) ==
    LET probe == ok /\ run.action.type = "read" /\ look.modality = "dom" IN
    Record([run EXCEPT !.steps = @ + 1, !.probes = IF probe THEN @ + 1 ELSE @,
                       !.stuck = Stuck(run, progress)], look.modality, cost)

Signals(seen, ok) ==
    IF kind = "hybrid" /\ seen.modality = "dom"
    THEN {"usable", "weak"} \cup (IF ok THEN {} ELSE {"error"})
    ELSE {seen.signal}

Act ==
    /\ pc = "acting" /\ session = "open"
    /\ run.action.type \in {"finish", "fail"} => kind = "hybrid"
    /\ Sent
    /\ \E ok, progress \in BOOLEAN, cost \in Costs(look.modality) :
          /\ run' = Acted(ok, progress, cost)
          /\ look' \in {[look EXCEPT !.signal = s] : s \in Signals(look, ok)}
    /\ IF ~Affordable(run') THEN End("image_budget")
       ELSE IF run'.stuck > MaxNoProgress THEN End("no_progress")
       ELSE pc' = "turn" /\ UNCHANGED result
    /\ UNCHANGED <<kind, maxPixels, category, session, lost>>

\* The request of the run is cancelled.  Only the hybrid agent closes its session,
\* and only where it waits for the model or the worker.
ClosedOnCancel == kind = "hybrid" /\ pc \in {"switching", "calling", "acting"}

Cancel ==
    /\ pc \in {"start", "switching", "calling", "acting", "closing"}
    /\ result' = "cancelled"
    /\ IF ClosedOnCancel THEN pc' = "closing" /\ UNCHANGED lost
                         ELSE pc' = "ended" /\ lost' = TRUE
    /\ \/ UNCHANGED session
       \/ pc = "start" /\ session' = "open"
    /\ UNCHANGED <<kind, maxPixels, category, run, look, streak>>

-----------------------------------------------------------------------------
Step == Create \/ Turn \/ Switch \/ Call \/ CallFails \/ Act \/ ActFails \/ Terminal \/ Close
Next == Step \/ Expire \/ Cancel

Spec == Init /\ [][Next]_vars

-----------------------------------------------------------------------------
(* Properties.                                                             *)

\* A run that has ended leaves no browser behind, by any of its ends, unless a call
\* of the worker was lost or the run was cancelled where nobody closes.
NoSessionLeft == pc = "ended" /\ session = "open" => lost

\* No action is executed on the credit of an exceeded budget: whatever a response
\* or an observation overspent ends the run before the next action is sent.  Nor
\* do the vision and the hybrid agent send one action more than
\* max_repeated_actions times in a row.
NothingBeyondBudget ==
    /\ pc = "acting" =>
        run.tokens <= MaxTokens /\ run.calls <= MaxCalls /\ run.steps < MaxSteps /\ Affordable(run)
    /\ kind # "dom" => streak.count <= MaxRepeated

\* An image the router allows can be paid for: the switch it grants never ends in
\* the budget of images, whatever the image costs.
SwitchIsAffordable == [][pc = "switching" => result' # "image_budget"]_vars

=============================================================================
