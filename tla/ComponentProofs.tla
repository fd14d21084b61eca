-------------------------- MODULE ComponentProofs --------------------------
(***************************************************************************)
(* Proofs about the agents, the executor of a plan, identity, memory and   *)
(* the revision of plans, for any budgets, plans, rows and batches; and    *)
(* types of all components.                                                *)
(*                                                                         *)
(* Agents.  AgentInv says what is reserved before a step is taken: tokens, *)
(* calls, steps and images are counted before the call they pay for, the   *)
(* repetitions counted are those of the last actions sent in a row, and a  *)
(* switch to the image is only asked for while the dearest image is paid.  *)
(*                                                                         *)
(* The executor.  RunInv splits the plan at the step in turn: those behind *)
(* it are verified with every instruction done and have their results, in  *)
(* the order of the plan; of the one in turn, the instructions done and    *)
(* those left are all; charges stay within the budget until one ends the   *)
(* run.                                                                    *)
(*                                                                         *)
(* Identity.  A row that changes takes the next version (Moved); an ETag   *)
(* that a write was accepted with names a version that has passed (Past);  *)
(* the user of a request that has come late does not become active again   *)
(* (Known).                                                                *)
(*                                                                         *)
(* Memory.  Until another assembly writes to one of its memories, what an  *)
(* assembly finds in the store is what its preview went through (Accord):  *)
(* there is a chain of stores, one mutation apart, whose n-th agrees with  *)
(* the store on the memories of the batch once n mutations are applied,    *)
(* and whose last one is what its context shows.  A read that leaves a     *)
(* live record out shows ReadLimit records that come before it: records    *)
(* are ranked by how many come before them, and the ranks below the limit  *)
(* are all taken (ReadCuts).                                               *)
(*                                                                         *)
(* Plans.  The verified steps have all they depend on verified (PlanInv),  *)
(* so the step that is next, which a revision starts from, depends on      *)
(* verified steps only; the revised plan is a copy of its parent (Revised, *)
(* RevisionCopies), and a copy of a valid plan is valid (CopyValid).       *)
(***************************************************************************)
EXTENDS ControlProofs

\* A finite set of numbers has a greatest one: of the sets without one, take one of
\* the smallest cardinality, and leave out an element.
LEMMA GreatestExists ==
    ASSUME NEW S, S \subseteq Nat, S # {}, IsFiniteSet(S)
    PROVE  \E n \in S : \A k \in S : k <= n
  <1> DEFINE Bad(A) == A \subseteq Nat /\ A # {} /\ IsFiniteSet(A) /\ ~\E n \in A : \A k \in A : k <= n
             Sizes == {c \in Nat : \E A : Bad(A) /\ Cardinality(A) = c}
  <1> SUFFICES ASSUME Bad(S) PROVE FALSE
    OBVIOUS
  <1>1. Sizes \subseteq Nat /\ Cardinality(S) \in Sizes
    BY FS_CardinalityType
  <1>2. PICK c \in Sizes : \A d \in Sizes : c <= d
    BY <1>1, SmallestNat
  <1>3. PICK A : Bad(A) /\ Cardinality(A) = c
    BY <1>2
  <1>4. PICK x : x \in A
    BY <1>3
  <1>5. /\ IsFiniteSet(A \ {x}) /\ Cardinality(A \ {x}) = c - 1 /\ c \in Nat
        /\ A \ {x} \subseteq Nat /\ x \in Nat
    BY <1>2, <1>3, <1>4, FS_RemoveElement
  <1>6. Cardinality(A \ {x}) \in Nat
    BY <1>5, FS_CardinalityType
  <1>7. ~Bad(A \ {x})
    <2>1. Bad(A \ {x}) => Cardinality(A \ {x}) \in Sizes
      BY <1>6
    <2> HIDE DEF Sizes, Bad
    <2>2. Cardinality(A \ {x}) \in Sizes => c <= c - 1
      BY <1>2, <1>5
    <2>3. QED
      BY <2>1, <2>2, <1>5
  <1>8. CASE A \ {x} = {}
    <2>1. \A k \in A : k = x
      BY <1>8
    <2>2. \A k \in A : k <= x
      BY <2>1, <1>5
    <2>3. QED
      BY <1>3, <1>4, <2>2
  <1>9. CASE A \ {x} # {}
    <2>1. PICK n \in A \ {x} : \A k \in A \ {x} : k <= n
      BY <1>5, <1>7, <1>9
    <2>2. n \in A /\ n \in Nat
      BY <2>1, <1>5
    <2>3. CASE n <= x
      <3>1. \A k \in A : k <= x
        BY <2>1, <2>2, <2>3, <1>5
      <3>2. QED
        BY <3>1, <1>3, <1>4
    <2>4. CASE ~(n <= x)
      <3>1. \A k \in A : k <= n
        BY <2>1, <2>2, <2>4, <1>5
      <3>2. QED
        BY <3>1, <1>3, <2>2
    <2>5. QED
      BY <2>3, <2>4
  <1>10. QED
    BY <1>8, <1>9

-----------------------------------------------------------------------------
(* The DOM, the vision and the hybrid agent.                               *)

LEMMA AgentBounds ==
    /\ MaxSteps \in Nat /\ MaxCalls \in Nat /\ MaxRepeated \in Nat /\ MaxNoProgress \in Nat
    /\ MaxDoms \in Nat /\ MaxImages \in Nat /\ MaxTokens \in Nat
    /\ MaxSteps > 0 /\ MaxCalls > 0 /\ MaxRepeated > 0 /\ MaxDoms > 0 /\ MaxImages > 0
    /\ None \notin Statuses
  BY AgentAssumption DEF AgentAssumption

LEMMA MostIsMost ==
    /\ MostUsage \in Nat /\ \A t \in Usage : t \in Nat /\ t <= MostUsage
    /\ MostPixels \in Nat /\ \A c \in ImageCosts : c \in Nat /\ c <= MostPixels
  <1>1. /\ Usage \subseteq Nat /\ Usage # {} /\ IsFiniteSet(Usage)
        /\ ImageCosts \subseteq Nat /\ ImageCosts # {} /\ IsFiniteSet(ImageCosts)
    BY AgentAssumption DEF AgentAssumption
  <1>2. \E n \in Usage : \A k \in Usage : k <= n
    BY <1>1, GreatestExists
  <1>3. MostUsage \in Usage /\ \A k \in Usage : k <= MostUsage
    BY <1>2 DEF MostUsage
  <1>4. \E n \in ImageCosts : \A k \in ImageCosts : k <= n
    BY <1>1, GreatestExists
  <1>5. MostPixels \in ImageCosts /\ \A k \in ImageCosts : k <= MostPixels
    BY <1>4 DEF MostPixels
  <1>6. QED
    BY <1>1, <1>3, <1>5

\* _RunState without the bounds of its counters.
RunState ==
    [steps : Nat, calls : Nat, tokens : Nat, doms : Nat, images : Nat, pixels : Nat,
     repeated : Nat, previous : Signatures \cup {None}, stuck : Nat, switches : Nat,
     probes : Nat, action : Action \cup {None}]

Streaks == [action : Action \cup {None}, modality : Modalities \cup {None}, count : Nat]

AgentTyped ==
    /\ kind \in Kinds /\ maxPixels \in PixelBudgets /\ category \in {"standard", "visual_recovery"}
    /\ pc \in {"start", "turn", "switching", "calling", "acting", "closing", "ended"}
    /\ run \in RunState /\ streak \in Streaks
    /\ look \in [modality : Modalities, signal : {"usable", "weak", "error"}]
    /\ session \in {"none", "open", "closed"}
    /\ result \in Statuses \cup {None} /\ lost \in BOOLEAN

\* What no counter exceeds, also in the run that an exceeded budget has just ended.
Spent(r, n, pixelsMost) ==
    /\ r.steps <= MaxSteps /\ r.calls <= MaxCalls /\ r.tokens <= MaxTokens + MostUsage
    /\ r.doms <= r.steps + 1 /\ r.images <= MaxImages + 1
    /\ r.pixels <= pixelsMost + MostPixels
    /\ r.repeated <= MaxRepeated + 1 /\ r.stuck <= MaxNoProgress + 1
    /\ r.switches <= 1 /\ r.probes <= r.steps /\ n <= MaxSteps

\* A run that goes on is within its budgets,
WithinBudgets(r, n, pixelsMost) ==
    /\ r.images <= MaxImages /\ r.pixels <= pixelsMost /\ r.doms <= MaxDoms
    /\ r.tokens <= MaxTokens /\ r.repeated <= MaxRepeated /\ r.stuck <= MaxNoProgress
    /\ n <= r.steps

\* and has left what the step it waits for may take.
Reserved(at_, r, pixelsMost) ==
    /\ at_ = "start" => r.images = 0 /\ r.pixels = 0 /\ r.doms = 0
    /\ at_ \in {"switching", "calling"} => r.steps < MaxSteps /\ r.calls < MaxCalls
    /\ at_ = "switching" => r.images < MaxImages /\ r.pixels + MostPixels <= pixelsMost
    /\ at_ = "acting" => r.steps < MaxSteps /\ r.action \in Action

AgentGoesOn ==
    pc \notin {"closing", "ended"} =>
        /\ result # "image_budget"
        /\ WithinBudgets(run, streak.count, maxPixels) /\ Reserved(pc, run, maxPixels)

\* The signature of an action of the vision or the hybrid agent.
SignatureOf(action, modality) ==
    [type |-> action.type, target |-> None, modality |-> modality, step |-> 0]

Same(s, action, modality) == s.action = action /\ s.modality = modality

\* The actions sent in a row are among the repetitions counted.
Counted(at_, r, s, modality) ==
    /\ s.count <= MaxRepeated
    /\ at_ \in {"start", "turn", "switching", "calling"} =>
          /\ s.count <= r.repeated
          /\ s.count = 0 \/ r.previous = SignatureOf(s.action, s.modality)
    /\ at_ = "acting" =>
          /\ 1 <= r.repeated /\ r.previous = SignatureOf(r.action, modality)
          /\ Same(s, r.action, modality) => s.count + 1 <= r.repeated

AgentInv ==
    /\ AgentTyped
    /\ Spent(run, streak.count, maxPixels)
    /\ AgentGoesOn
    /\ kind # "dom" => Counted(pc, run, streak, look.modality)
    /\ pc = "ended" /\ session = "open" => lost

LEMMA AgentTypes == AgentInv => TypeOK
  <1> SUFFICES ASSUME AgentInv PROVE TypeOK
    OBVIOUS
  <1>1. AgentTyped /\ Spent(run, streak.count, maxPixels)
    BY DEF AgentInv
  <1>2. maxPixels \in Nat
    BY <1>1, AgentAssumption DEF AgentTyped, AgentAssumption
  <1>3. /\ run.steps \in 0..MaxSteps /\ run.calls \in 0..MaxCalls
        /\ run.tokens \in 0..MaxTokens + MostUsage
        /\ run.doms \in 0..MaxSteps + 1 /\ run.images \in 0..MaxImages + 1
        /\ run.pixels \in 0..maxPixels + MostPixels
        /\ run.repeated \in 0..MaxRepeated + 1 /\ run.stuck \in 0..MaxNoProgress + 1
        /\ run.switches \in 0..1 /\ run.probes \in 0..MaxSteps
        /\ streak.count \in 0..MaxSteps
    BY <1>1, <1>2, AgentBounds, MostIsMost DEF AgentTyped, Spent, RunState, Streaks
  <1>4. /\ run = [steps |-> run.steps, calls |-> run.calls, tokens |-> run.tokens,
                  doms |-> run.doms, images |-> run.images, pixels |-> run.pixels,
                  repeated |-> run.repeated, previous |-> run.previous, stuck |-> run.stuck,
                  switches |-> run.switches, probes |-> run.probes, action |-> run.action]
        /\ run.previous \in Signatures \cup {None} /\ run.action \in Action \cup {None}
    BY <1>1 DEF AgentTyped, RunState
  <1>5. /\ streak = [action |-> streak.action, modality |-> streak.modality,
                     count |-> streak.count]
        /\ streak.action \in Action \cup {None} /\ streak.modality \in Modalities \cup {None}
    BY <1>1 DEF AgentTyped, Streaks
  <1>6. run \in [steps : 0..MaxSteps, calls : 0..MaxCalls, tokens : 0..MaxTokens + MostUsage,
                doms : 0..MaxSteps + 1, images : 0..MaxImages + 1,
                pixels : 0..maxPixels + MostPixels,
                repeated : 0..MaxRepeated + 1, previous : Signatures \cup {None},
                stuck : 0..MaxNoProgress + 1, switches : 0..1, probes : 0..MaxSteps,
                action : Action \cup {None}]
    BY <1>3, <1>4
  <1>7. streak \in [action : Action \cup {None}, modality : Modalities \cup {None}, count : 0..MaxSteps]
    BY <1>3, <1>5
  <1>8. QED
    BY <1>1, <1>6, <1>7 DEF AgentTyped, TypeOK

-----------------------------------------------------------------------------
(* What the steps of a loop write.                                         *)

LEMMA RecordAdds ==
    ASSUME NEW r, r \in RunState, NEW modality, modality \in Modalities, NEW cost, cost \in Nat,
           NEW u, u = Record(r, modality, cost)
    PROVE  /\ u \in RunState
           /\ u.steps = r.steps /\ u.calls = r.calls /\ u.tokens = r.tokens
           /\ u.repeated = r.repeated /\ u.previous = r.previous /\ u.stuck = r.stuck
           /\ u.switches = r.switches /\ u.probes = r.probes /\ u.action = r.action
           /\ u.doms \in {r.doms, r.doms + 1} /\ u.images \in {r.images, r.images + 1}
           /\ u.pixels \in {r.pixels, r.pixels + cost}
  <1>1. CASE modality = "vision"
    <2> DEFINE v == [r EXCEPT !.images = @ + 1]
    <2>1. v \in RunState /\ v.images = r.images + 1 /\ v.pixels = r.pixels
      BY DEF RunState
    <2>2. /\ v.steps = r.steps /\ v.calls = r.calls /\ v.tokens = r.tokens
          /\ v.repeated = r.repeated /\ v.previous = r.previous /\ v.stuck = r.stuck
          /\ v.switches = r.switches /\ v.probes = r.probes /\ v.action = r.action
          /\ v.doms = r.doms
      BY DEF RunState
    <2>3. u = [v EXCEPT !.pixels = @ + cost]
      BY <1>1 DEF Record
    <2> HIDE DEF v
    <2>4. u \in RunState /\ u.pixels = v.pixels + cost
      BY <2>1, <2>3 DEF RunState
    <2>5. /\ u.steps = v.steps /\ u.calls = v.calls /\ u.tokens = v.tokens
          /\ u.repeated = v.repeated /\ u.previous = v.previous /\ u.stuck = v.stuck
          /\ u.switches = v.switches /\ u.probes = v.probes /\ u.action = v.action
          /\ u.doms = v.doms /\ u.images = v.images
      BY <2>1, <2>3 DEF RunState
    <2>6. QED
      BY <2>1, <2>2, <2>4, <2>5
  <1>2. CASE modality # "vision" /\ kind = "hybrid"
    <2>1. u = [r EXCEPT !.doms = @ + 1]
      BY <1>2 DEF Record
    <2>2. u \in RunState /\ u.doms = r.doms + 1
      BY <2>1 DEF RunState
    <2>3. QED
      BY <2>1, <2>2 DEF RunState
  <1>3. CASE modality # "vision" /\ kind # "hybrid"
    BY <1>3 DEF Record
  <1>4. QED
    BY <1>1, <1>2, <1>3

LEMMA UsedAdds ==
    ASSUME NEW r, r \in RunState, NEW t, t \in Nat,
           NEW u, u = Used([r EXCEPT !.calls = @ + 1], t)
    PROVE  /\ u \in RunState
           /\ u.steps = r.steps /\ u.calls = r.calls + 1 /\ u.tokens = r.tokens + t
           /\ u.repeated = r.repeated /\ u.previous = r.previous /\ u.stuck = r.stuck
           /\ u.switches = r.switches /\ u.probes = r.probes /\ u.action = r.action
           /\ u.doms = r.doms /\ u.images = r.images /\ u.pixels = r.pixels
  <1> DEFINE v == [r EXCEPT !.calls = @ + 1]
  <1>1. v \in RunState
    BY DEF RunState
  <1>2. u = [v EXCEPT !.tokens = @ + t]
    BY DEF Used
  <1>3. u \in RunState
    <2> HIDE DEF v
    <2>1. QED
    BY <1>1, <1>2 DEF RunState
  <1>4. /\ u.steps = r.steps /\ u.calls = r.calls + 1 /\ u.tokens = r.tokens + t
    BY <1>2 DEF RunState
  <1>5. QED
    BY <1>2, <1>3, <1>4 DEF RunState

\* The counters of a call with its decision.
Decided(r, sig, action) == [Repeat(r, sig) EXCEPT !.action = action]

LEMMA RepeatCounts ==
    ASSUME NEW r, r \in RunState, NEW sig, sig \in Signatures, NEW a, a \in Action,
           NEW u, u = Decided(r, sig, a)
    PROVE  /\ u \in RunState
           /\ u.steps = r.steps /\ u.calls = r.calls /\ u.tokens = r.tokens
           /\ u.repeated = (IF sig = r.previous THEN r.repeated + 1 ELSE 1)
           /\ u.previous = sig /\ u.stuck = r.stuck
           /\ u.switches = r.switches /\ u.probes = r.probes /\ u.action = a
           /\ u.doms = r.doms /\ u.images = r.images /\ u.pixels = r.pixels
  <1> DEFINE n == IF sig = r.previous THEN r.repeated + 1 ELSE 1
             v == [r EXCEPT !.repeated = n]
             w == [v EXCEPT !.previous = sig]
  <1>1. n \in Nat /\ u = [w EXCEPT !.action = a]
    BY DEF Decided, Repeat, RunState
  <1> HIDE DEF n
  <1>2. v \in RunState /\ v.repeated = n
    BY <1>1 DEF RunState
  <1>3. /\ v.steps = r.steps /\ v.calls = r.calls /\ v.tokens = r.tokens
        /\ v.stuck = r.stuck /\ v.switches = r.switches /\ v.probes = r.probes
        /\ v.doms = r.doms /\ v.images = r.images /\ v.pixels = r.pixels
    BY DEF RunState
  <1> HIDE DEF v
  <1>4. w \in RunState /\ w.repeated = n /\ w.previous = sig
    BY <1>2 DEF RunState
  <1>5. /\ w.steps = v.steps /\ w.calls = v.calls /\ w.tokens = v.tokens
        /\ w.stuck = v.stuck /\ w.switches = v.switches /\ w.probes = v.probes
        /\ w.doms = v.doms /\ w.images = v.images /\ w.pixels = v.pixels
    BY <1>2 DEF RunState
  <1> HIDE DEF w
  <1>6. u \in RunState /\ u.action = a
    BY <1>1, <1>4 DEF RunState
  <1>7. /\ u.steps = w.steps /\ u.calls = w.calls /\ u.tokens = w.tokens
        /\ u.stuck = w.stuck /\ u.switches = w.switches /\ u.probes = w.probes
        /\ u.doms = w.doms /\ u.images = w.images /\ u.pixels = w.pixels
        /\ u.repeated = w.repeated /\ u.previous = w.previous
    BY <1>1, <1>4 DEF RunState
  <1>8. QED
    BY <1>3, <1>4, <1>5, <1>6, <1>7 DEF n

\* The counters of an answered action before its observation is recorded.
Stepped(r, probe, progress) ==
    [r EXCEPT !.steps = @ + 1, !.probes = IF probe THEN @ + 1 ELSE @, !.stuck = Stuck(r, progress)]

LEMMA SteppedCounts ==
    ASSUME NEW r, r \in RunState, NEW probe, NEW progress, NEW u, u = Stepped(r, probe, progress)
    PROVE  /\ u \in RunState
           /\ u.steps = r.steps + 1 /\ u.calls = r.calls /\ u.tokens = r.tokens
           /\ u.repeated = r.repeated /\ u.previous = r.previous
           /\ u.stuck \in {0, r.stuck + 1} /\ u.probes \in {r.probes, r.probes + 1}
           /\ u.switches = r.switches /\ u.action = r.action
           /\ u.doms = r.doms /\ u.images = r.images /\ u.pixels = r.pixels
  <1> DEFINE p == IF probe THEN r.probes + 1 ELSE r.probes
             k == IF progress THEN 0 ELSE r.stuck + 1
             v == [r EXCEPT !.steps = @ + 1]
             w == [v EXCEPT !.probes = p]
  <1>1. /\ p \in Nat /\ p \in {r.probes, r.probes + 1} /\ k \in Nat /\ k \in {0, r.stuck + 1}
        /\ u = [w EXCEPT !.stuck = k]
    BY DEF Stepped, Stuck, RunState
  <1> HIDE DEF p, k
  <1>2. v \in RunState /\ v.steps = r.steps + 1
    BY DEF RunState
  <1>3. /\ v.calls = r.calls /\ v.tokens = r.tokens /\ v.repeated = r.repeated
        /\ v.previous = r.previous /\ v.switches = r.switches /\ v.action = r.action
        /\ v.doms = r.doms /\ v.images = r.images /\ v.pixels = r.pixels
    BY DEF RunState
  <1> HIDE DEF v
  <1>4. w \in RunState /\ w.probes = p
    BY <1>1, <1>2 DEF RunState
  <1>5. /\ w.calls = v.calls /\ w.tokens = v.tokens /\ w.repeated = v.repeated
        /\ w.previous = v.previous /\ w.switches = v.switches /\ w.action = v.action
        /\ w.doms = v.doms /\ w.images = v.images /\ w.pixels = v.pixels
        /\ w.steps = v.steps
    BY <1>2 DEF RunState
  <1> HIDE DEF w
  <1>6. u \in RunState /\ u.stuck = k
    BY <1>1, <1>4 DEF RunState
  <1>7. /\ u.calls = w.calls /\ u.tokens = w.tokens /\ u.repeated = w.repeated
        /\ u.previous = w.previous /\ u.switches = w.switches /\ u.action = w.action
        /\ u.doms = w.doms /\ u.images = w.images /\ u.pixels = w.pixels
        /\ u.steps = w.steps /\ u.probes = w.probes
    BY <1>1, <1>4 DEF RunState
  <1>8. QED
    BY <1>1, <1>2, <1>3, <1>4, <1>5, <1>6, <1>7

LEMMA SignatureTyped ==
    ASSUME AgentTyped, run.steps <= MaxSteps, NEW a, a \in Action
    PROVE  /\ Signature(a) \in Signatures
           /\ kind # "dom" => Signature(a) = SignatureOf(a, look.modality)
  <1>1. /\ a.type \in {"click", "read", "wait", "finish", "fail"} /\ a.target \in Targets \cup {None}
        /\ look.modality \in Modalities /\ run.steps \in 0..MaxSteps
    BY AgentBounds DEF Action, AgentTyped, RunState
  <1>2. 0 \in 0..MaxSteps
    BY AgentBounds
  <1>3. QED
    BY <1>1, <1>2 DEF Signature, Signatures, SignatureOf

LEMMA CostsAreNat ==
    \A modality \in Modalities : \A c \in Costs(modality) : c \in Nat /\ c <= MostPixels
  BY MostIsMost DEF Costs

-----------------------------------------------------------------------------
(* The steps of a loop.                                                    *)

\* A run that is over owes nothing but its session.
LEMMA AgentOver ==
    ASSUME AgentInv, UNCHANGED <<kind, maxPixels, category>>,
           pc' \in {"closing", "ended"}, pc' = "ended" /\ session' = "open" => lost',
           result' \in Statuses,
           look' \in [modality : Modalities, signal : {"usable", "weak", "error"}],
           session' \in {"none", "open", "closed"}, lost' \in BOOLEAN,
           run' \in RunState, streak' \in Streaks,
           Spent(run', streak'.count, maxPixels), kind # "dom" => streak'.count <= MaxRepeated
    PROVE  AgentInv'
  <1>1. AgentTyped'
    BY DEF AgentInv, AgentTyped
  <1>2. AgentGoesOn'
    BY DEF AgentGoesOn
  <1>3. (kind # "dom" => Counted(pc, run, streak, look.modality))'
    BY DEF Counted
  <1>4. Spent(run, streak.count, maxPixels)'
    BY DEF Spent
  <1>5. QED
    BY <1>1, <1>2, <1>3, <1>4 DEF AgentInv

\* A run that ends where its counters stand.
LEMMA AgentEnds ==
    ASSUME AgentInv, UNCHANGED <<kind, maxPixels, category, run, look, streak>>,
           pc' \in {"closing", "ended"}, pc' = "ended" /\ session' = "open" => lost',
           result' \in Statuses,
           session' \in {"none", "open", "closed"}, lost' \in BOOLEAN
    PROVE  AgentInv'
  <1>1. /\ run \in RunState /\ streak \in Streaks /\ Spent(run, streak.count, maxPixels)
        /\ look \in [modality : Modalities, signal : {"usable", "weak", "error"}]
        /\ kind # "dom" => streak.count <= MaxRepeated
    BY DEF AgentInv, AgentTyped, Counted
  <1>2. Spent(run', streak'.count, maxPixels)
    BY <1>1
  <1>3. kind # "dom" => streak'.count <= MaxRepeated
    BY <1>1
  <1>4. QED
    BY <1>1, <1>2, <1>3, AgentOver

LEMMA AgentCreate == ASSUME AgentInv, Create PROVE AgentInv'
  <1>1. /\ AgentTyped /\ Spent(run, streak.count, maxPixels) /\ AgentGoesOn /\ pc = "start"
        /\ kind # "dom" => Counted(pc, run, streak, look.modality)
        /\ UNCHANGED <<kind, maxPixels, category, streak>>
    BY DEF AgentInv, Create
  <1>2. /\ WithinBudgets(run, streak.count, maxPixels) /\ Reserved(pc, run, maxPixels)
        /\ run \in RunState /\ look.modality \in Modalities
        /\ look \in [modality : Modalities, signal : {"usable", "weak", "error"}]
        /\ maxPixels \in Nat /\ streak \in Streaks /\ streak.count \in Nat /\ result # "image_budget"
    BY <1>1, AgentAssumption DEF AgentGoesOn, AgentTyped, AgentAssumption, Streaks
  <1>3. CASE /\ session' \in {"none", "open"} /\ lost' = TRUE /\ UNCHANGED <<run, look>>
             /\ pc' = "ended" /\ result' = "browser_error"
    <2>1. result' \in Statuses
      BY <1>3 DEF Statuses
    <2>2. QED
      BY <1>1, <1>3, <2>1, AgentEnds
  <1>4. CASE /\ session' = "open" /\ UNCHANGED <<look, lost>>
             /\ \E cost \in Costs(look.modality) : run' = Record(run, look.modality, cost)
             /\ IF Affordable(run') THEN pc' = "turn" /\ UNCHANGED result
                                    ELSE End("image_budget")
    <2>1. PICK cost \in Costs(look.modality) : run' = Record(run, look.modality, cost)
      BY <1>4
    <2>2. cost \in Nat /\ cost <= MostPixels
      BY <1>2, CostsAreNat
    <2>3. /\ run' \in RunState
          /\ run'.steps = run.steps /\ run'.calls = run.calls /\ run'.tokens = run.tokens
          /\ run'.repeated = run.repeated /\ run'.previous = run.previous
          /\ run'.stuck = run.stuck /\ run'.switches = run.switches
          /\ run'.probes = run.probes /\ run'.action = run.action
          /\ run'.doms \in {run.doms, run.doms + 1}
          /\ run'.images \in {run.images, run.images + 1}
          /\ run'.pixels \in {run.pixels, run.pixels + cost}
      BY <1>2, <2>1, <2>2, RecordAdds
    <2>4. Spent(run', streak'.count, maxPixels)
      BY <1>1, <1>2, <2>2, <2>3, MostIsMost, AgentBounds DEF Spent, Reserved, RunState
    <2>5. CASE Affordable(run')
      <3>1. pc' = "turn" /\ UNCHANGED <<result, look, lost>> /\ session' = "open"
        BY <1>4, <2>5
      <3>2. WithinBudgets(run', streak'.count, maxPixels)
        BY <1>1, <1>2, <2>3, <2>5 DEF WithinBudgets, Affordable
      <3>3. AgentGoesOn'
        BY <1>1, <1>2, <3>1, <3>2 DEF AgentGoesOn, Reserved
      <3>4. kind # "dom" => Counted(pc', run', streak', look'.modality)
        BY <1>1, <2>3, <3>1 DEF Counted
      <3>5. AgentTyped'
        BY <1>1, <2>3, <3>1 DEF AgentTyped
      <3>6. QED
        BY <1>1, <2>4, <3>1, <3>3, <3>4, <3>5 DEF AgentInv
    <2>6. CASE ~Affordable(run')
      <3>1. pc' = "closing" /\ result' = "image_budget" /\ result' \in Statuses
        BY <1>4, <2>6 DEF End, Statuses
      <3>2. streak' \in Streaks /\ (kind # "dom" => streak'.count <= MaxRepeated)
        BY <1>1, <1>2 DEF Counted
      <3>3. lost' \in BOOLEAN /\ look' = look /\ session' = "open"
        BY <1>1, <1>4 DEF AgentTyped
      <3>4. QED
        BY <1>1, <1>2, <2>3, <2>4, <3>1, <3>2, <3>3, AgentOver
    <2>7. QED
      BY <2>5, <2>6
  <1>5. QED
    BY <1>3, <1>4 DEF Create, EndOpen

\* A run that goes on.
LEMMA AgentGoes ==
    ASSUME AgentInv, UNCHANGED <<kind, maxPixels, category, result, lost>>,
           pc \notin {"closing", "ended"},
           pc' \in {"turn", "switching", "calling", "acting"},
           look' \in [modality : Modalities, signal : {"usable", "weak", "error"}],
           session' \in {"none", "open", "closed"},
           run' \in RunState, streak' \in Streaks,
           Spent(run', streak'.count, maxPixels),
           WithinBudgets(run', streak'.count, maxPixels),
           Reserved(pc', run', maxPixels),
           kind # "dom" => Counted(pc', run', streak', look'.modality)
    PROVE  AgentInv'
  <1>1. AgentTyped' /\ result' # "image_budget"
    BY DEF AgentInv, AgentTyped, AgentGoesOn
  <1>2. WithinBudgets(run, streak.count, maxPixels)' /\ Reserved(pc, run, maxPixels)'
    BY DEF WithinBudgets, Reserved
  <1>3. AgentGoesOn'
    BY <1>1, <1>2 DEF AgentGoesOn
  <1>4. Spent(run, streak.count, maxPixels)'
    BY DEF Spent
  <1>5. (kind # "dom" => Counted(pc, run, streak, look.modality))'
    BY DEF Counted
  <1>6. QED
    BY <1>1, <1>3, <1>4, <1>5 DEF AgentInv

\* What holds while a run goes on.
LEMMA AgentStands ==
    ASSUME AgentInv, pc \notin {"closing", "ended"}
    PROVE  /\ WithinBudgets(run, streak.count, maxPixels) /\ Reserved(pc, run, maxPixels)
           /\ Spent(run, streak.count, maxPixels)
           /\ run \in RunState /\ streak \in Streaks /\ streak.count \in Nat
           /\ look.modality \in Modalities
           /\ look \in [modality : Modalities, signal : {"usable", "weak", "error"}]
           /\ maxPixels \in Nat /\ lost \in BOOLEAN /\ session \in {"none", "open", "closed"}
           /\ kind # "dom" => Counted(pc, run, streak, look.modality) /\ streak.count <= MaxRepeated
  BY AgentAssumption DEF AgentInv, AgentGoesOn, AgentTyped, AgentAssumption, Streaks, Counted

LEMMA AgentTurn == ASSUME AgentInv, Turn PROVE AgentInv'
  <1>1. /\ pc = "turn" /\ UNCHANGED <<kind, maxPixels, category, look, session, streak, lost>>
        /\ WithinBudgets(run, streak.count, maxPixels) /\ Reserved(pc, run, maxPixels)
        /\ Spent(run, streak.count, maxPixels)
        /\ run \in RunState /\ streak \in Streaks
        /\ look \in [modality : Modalities, signal : {"usable", "weak", "error"}]
        /\ maxPixels \in Nat /\ lost \in BOOLEAN /\ session \in {"none", "open", "closed"}
        /\ kind # "dom" => Counted(pc, run, streak, look.modality)
    BY AgentStands DEF Turn
  <1>2. CASE End("budget") /\ UNCHANGED run
    <2>1. pc' = "closing" /\ result' \in Statuses
      BY <1>2 DEF End, Statuses
    <2>2. QED
      BY <1>1, <1>2, <2>1, AgentEnds
  <1>3. CASE End("switch_budget") /\ UNCHANGED run
    <2>1. pc' = "closing" /\ result' \in Statuses
      BY <1>3 DEF End, Statuses
    <2>2. QED
      BY <1>1, <1>3, <2>1, AgentEnds
  <1>4. CASE /\ run.steps < MaxSteps /\ run.calls < MaxCalls
             /\ run.switches < SwitchLimit /\ CanRequestVision
             /\ pc' = "switching" /\ run' = [run EXCEPT !.switches = @ + 1]
             /\ UNCHANGED result
    <2>1. /\ run' \in RunState /\ run'.switches = run.switches + 1
          /\ run'.steps = run.steps /\ run'.calls = run.calls /\ run'.tokens = run.tokens
          /\ run'.repeated = run.repeated /\ run'.previous = run.previous
          /\ run'.stuck = run.stuck /\ run'.probes = run.probes /\ run'.action = run.action
          /\ run'.doms = run.doms /\ run'.images = run.images /\ run'.pixels = run.pixels
      BY <1>1, <1>4 DEF RunState
    <2>2. run.switches + 1 <= 1
      BY <1>1, <1>4 DEF SwitchLimit, RunState
    <2>3. Spent(run', streak'.count, maxPixels) /\ WithinBudgets(run', streak'.count, maxPixels)
      BY <1>1, <2>1, <2>2 DEF Spent, WithinBudgets
    <2>4. Reserved(pc', run', maxPixels)
      BY <1>1, <1>4, <2>1 DEF Reserved, CanRequestVision
    <2>5. kind # "dom" => Counted(pc', run', streak', look'.modality)
      BY <1>1, <1>4, <2>1 DEF Counted
    <2>6. QED
      BY <1>1, <1>4, <2>1, <2>3, <2>4, <2>5, AgentGoes
  <1>5. CASE /\ run.steps < MaxSteps /\ run.calls < MaxCalls
             /\ pc' = "calling" /\ UNCHANGED <<result, run>>
    <2>1. Spent(run', streak'.count, maxPixels) /\ WithinBudgets(run', streak'.count, maxPixels)
      BY <1>1, <1>5
    <2>2. Reserved(pc', run', maxPixels)
      BY <1>1, <1>5 DEF Reserved
    <2>3. kind # "dom" => Counted(pc', run', streak', look'.modality)
      BY <1>1, <1>5 DEF Counted
    <2>4. QED
      BY <1>1, <1>5, <2>1, <2>2, <2>3, AgentGoes
  <1>6. (run.steps >= MaxSteps \/ ~MayCall(run)) \/ (run.steps < MaxSteps /\ run.calls < MaxCalls)
    BY <1>1, AgentBounds DEF MayCall, RunState
  <1>7. QED
    BY <1>1, <1>2, <1>3, <1>4, <1>5, <1>6 DEF Turn

\* An observation that a step has asked for is recorded: within the budgets, or the
\* run is about to end.
LEMMA Observed ==
    ASSUME NEW r, r \in RunState, NEW modality, modality \in Modalities, NEW cost, cost \in Nat,
           cost <= MostPixels, NEW u, u = Record(r, modality, cost), NEW n, n \in Nat,
           AgentTyped, r.doms <= r.steps,
           r.steps <= MaxSteps, r.calls <= MaxCalls, r.tokens <= MaxTokens + MostUsage,
           r.images <= MaxImages, r.pixels <= maxPixels,
           r.repeated <= MaxRepeated + 1, r.stuck <= MaxNoProgress + 1,
           r.switches <= 1, r.probes <= r.steps, n <= MaxSteps
    PROVE  Spent(u, n, maxPixels)
  <1>1. /\ u.steps = r.steps /\ u.calls = r.calls /\ u.tokens = r.tokens
        /\ u.repeated = r.repeated /\ u.stuck = r.stuck /\ u.switches = r.switches
        /\ u.probes = r.probes
        /\ u.doms \in {r.doms, r.doms + 1} /\ u.images \in {r.images, r.images + 1}
        /\ u.pixels \in {r.pixels, r.pixels + cost}
    BY RecordAdds
  <1>2. maxPixels \in Nat /\ MostPixels \in Nat
    BY MostIsMost, AgentAssumption DEF AgentTyped, AgentAssumption
  <1>3. QED
    BY <1>1, <1>2, AgentBounds DEF Spent, RunState

\* The image that a granted switch observes is within the budget of images.
LEMMA ImageIsAffordable ==
    ASSUME AgentInv, pc = "switching", NEW cost, cost \in ImageCosts,
           NEW u, u = Record(run, "vision", cost)
    PROVE  /\ u \in RunState
           /\ u.steps = run.steps /\ u.calls = run.calls /\ u.tokens = run.tokens
           /\ u.repeated = run.repeated /\ u.previous = run.previous
           /\ u.stuck = run.stuck /\ u.switches = run.switches
           /\ u.probes = run.probes /\ u.action = run.action /\ u.doms = run.doms
           /\ u.images <= MaxImages /\ u.pixels <= maxPixels /\ u.doms <= MaxDoms
  <1>1. /\ WithinBudgets(run, streak.count, maxPixels) /\ Reserved("switching", run, maxPixels)
        /\ run \in RunState /\ maxPixels \in Nat
    BY AgentStands
  <1>2. cost \in Nat /\ cost <= MostPixels /\ MostPixels \in Nat /\ "vision" \in Modalities
    BY MostIsMost DEF Modalities
  <1>3. /\ u \in RunState
        /\ u.steps = run.steps /\ u.calls = run.calls /\ u.tokens = run.tokens
        /\ u.repeated = run.repeated /\ u.previous = run.previous
        /\ u.stuck = run.stuck /\ u.switches = run.switches
        /\ u.probes = run.probes /\ u.action = run.action
        /\ u.images \in {run.images, run.images + 1}
        /\ u.pixels \in {run.pixels, run.pixels + cost}
    BY <1>1, <1>2, RecordAdds
  <1>4. u.doms = run.doms
    BY <1>1 DEF Record, RunState
  <1>5. u.images <= MaxImages /\ u.pixels <= maxPixels
    BY <1>1, <1>2, <1>3, AgentBounds DEF Reserved, WithinBudgets, RunState
  <1>6. QED
    BY <1>1, <1>3, <1>4, <1>5 DEF WithinBudgets

LEMMA AgentSwitch == ASSUME AgentInv, Switch PROVE AgentInv'
  <1>1. /\ pc = "switching" /\ UNCHANGED <<kind, maxPixels, category, streak, lost>>
        /\ WithinBudgets(run, streak.count, maxPixels) /\ Reserved(pc, run, maxPixels)
        /\ Spent(run, streak.count, maxPixels)
        /\ run \in RunState /\ streak \in Streaks
        /\ look \in [modality : Modalities, signal : {"usable", "weak", "error"}]
        /\ maxPixels \in Nat /\ lost \in BOOLEAN /\ session \in {"none", "open", "closed"}
        /\ kind # "dom" => Counted(pc, run, streak, look.modality) /\ streak.count <= MaxRepeated
    BY AgentStands DEF Switch
  <1>2. CASE /\ End("browser_error") /\ UNCHANGED <<run, look>>
             /\ session' \in IF session = "open" THEN {"open", "closed"} ELSE {session}
    <2>1. pc' = "closing" /\ result' \in Statuses /\ session' \in {"none", "open", "closed"}
      BY <1>1, <1>2 DEF End, Statuses
    <2>2. QED
      BY <1>1, <1>2, <2>1, AgentEnds
  <1>3. ASSUME NEW cost \in ImageCosts, run' = Record(run, "vision", cost), UNCHANGED session,
               look' = [look EXCEPT !.modality = "vision"],
               IF Affordable(run') THEN pc' = "calling" /\ UNCHANGED result
                                   ELSE End("image_budget")
        PROVE  AgentInv'
    <2>1. cost \in Nat /\ cost <= MostPixels /\ MostPixels \in Nat /\ "vision" \in Modalities
      BY <1>3, MostIsMost DEF Modalities
    <2>2. /\ run' \in RunState
          /\ run'.steps = run.steps /\ run'.calls = run.calls /\ run'.tokens = run.tokens
          /\ run'.repeated = run.repeated /\ run'.previous = run.previous
          /\ run'.stuck = run.stuck /\ run'.switches = run.switches
          /\ run'.probes = run.probes /\ run'.action = run.action /\ run'.doms = run.doms
          /\ run'.images <= MaxImages /\ run'.pixels <= maxPixels /\ Affordable(run')
      <3> DEFINE u == Record(run, "vision", cost)
      <3>1. u = Record(run, "vision", cost) /\ run' = u
        BY <1>3
      <3> HIDE DEF u
      <3>2. /\ u \in RunState
            /\ u.steps = run.steps /\ u.calls = run.calls /\ u.tokens = run.tokens
            /\ u.repeated = run.repeated /\ u.previous = run.previous
            /\ u.stuck = run.stuck /\ u.switches = run.switches
            /\ u.probes = run.probes /\ u.action = run.action /\ u.doms = run.doms
            /\ u.images <= MaxImages /\ u.pixels <= maxPixels
        BY <1>1, <1>3, <3>1, ImageIsAffordable
      <3>3. run'.images <= MaxImages /\ run'.pixels <= maxPixels /\ run'.doms <= MaxDoms
        BY <1>1, <3>1, <3>2 DEF WithinBudgets
      <3>4. QED
        BY <1>1, <3>1, <3>2, <3>3 DEF Affordable
    <2>6. pc' = "calling" /\ UNCHANGED result
      BY <1>3, <2>2
    <2>7. WithinBudgets(run', streak'.count, maxPixels)
      BY <1>1, <2>2 DEF WithinBudgets
    <2>8. Spent(run', streak'.count, maxPixels)
      BY <1>1, <2>1, <2>2, AgentBounds DEF Spent, RunState
    <2>9. Reserved(pc', run', maxPixels)
      BY <1>1, <2>2, <2>6 DEF Reserved
    <2>10. kind # "dom" => Counted(pc', run', streak', look'.modality)
      BY <1>1, <2>2, <2>6 DEF Counted
    <2>11. look' \in [modality : Modalities, signal : {"usable", "weak", "error"}]
      BY <1>1, <1>3, <2>1
    <2>12. QED
      BY <1>1, <1>3, <2>2, <2>6, <2>7, <2>8, <2>9, <2>10, <2>11, AgentGoes
  <1>4. QED
    BY <1>2, <1>3 DEF Switch

LEMMA AgentCallFails == ASSUME AgentInv, CallFails PROVE AgentInv'
  <1>1. /\ pc = "calling" /\ UNCHANGED <<kind, maxPixels, category, look, session, streak, lost>>
        /\ WithinBudgets(run, streak.count, maxPixels) /\ Reserved(pc, run, maxPixels)
        /\ Spent(run, streak.count, maxPixels)
        /\ run \in RunState /\ streak \in Streaks
        /\ look \in [modality : Modalities, signal : {"usable", "weak", "error"}]
        /\ maxPixels \in Nat /\ lost \in BOOLEAN /\ session \in {"none", "open", "closed"}
        /\ kind # "dom" => streak.count <= MaxRepeated
    BY AgentStands DEF CallFails
  <1>2. pc' = "closing" /\ result' \in Statuses
    BY DEF CallFails, End, Statuses
  <1>3. run' \in RunState /\ Spent(run', streak'.count, maxPixels)
    <2>1. ASSUME NEW t \in Usage, run' = Used([run EXCEPT !.calls = @ + 1], t)
          PROVE  run' \in RunState /\ Spent(run', streak'.count, maxPixels)
      <3>1. t \in Nat /\ t <= MostUsage /\ MostUsage \in Nat
        BY <2>1, MostIsMost
      <3>2. /\ run' \in RunState
            /\ run'.steps = run.steps /\ run'.calls = run.calls + 1 /\ run'.tokens = run.tokens + t
            /\ run'.repeated = run.repeated /\ run'.stuck = run.stuck
            /\ run'.switches = run.switches /\ run'.probes = run.probes
            /\ run'.doms = run.doms /\ run'.images = run.images /\ run'.pixels = run.pixels
        BY <1>1, <2>1, <3>1, UsedAdds
      <3>3. QED
        BY <1>1, <3>1, <3>2, AgentBounds DEF Spent, WithinBudgets, Reserved, RunState
    <2>2. CASE run' = [run EXCEPT !.calls = @ + 1]
      <3>1. /\ run' \in RunState /\ run'.calls = run.calls + 1
            /\ run'.steps = run.steps /\ run'.tokens = run.tokens
            /\ run'.repeated = run.repeated /\ run'.stuck = run.stuck
            /\ run'.switches = run.switches /\ run'.probes = run.probes
            /\ run'.doms = run.doms /\ run'.images = run.images /\ run'.pixels = run.pixels
        BY <1>1, <2>2 DEF RunState
      <3>2. QED
        BY <1>1, <3>1, AgentBounds DEF Spent, Reserved, RunState
    <2>3. CASE run' = run
      BY <1>1, <2>3
    <2>4. QED
      BY <2>1, <2>2, <2>3 DEF CallFails
  <1>4. look' = look /\ session' = session /\ lost' = lost /\ streak' = streak
    BY <1>1
  <1>5. QED
    BY <1>1, <1>2, <1>3, <1>4, AgentOver

LEMMA AgentCall == ASSUME AgentInv, Call PROVE AgentInv'
  <1>1. /\ pc = "calling" /\ UNCHANGED <<kind, maxPixels, category, look, session, streak, lost>>
        /\ WithinBudgets(run, streak.count, maxPixels) /\ Reserved(pc, run, maxPixels)
        /\ Spent(run, streak.count, maxPixels)
        /\ run \in RunState /\ streak \in Streaks /\ streak.count \in Nat
        /\ look \in [modality : Modalities, signal : {"usable", "weak", "error"}]
        /\ maxPixels \in Nat /\ lost \in BOOLEAN /\ session \in {"none", "open", "closed"}
        /\ kind # "dom" => Counted(pc, run, streak, look.modality) /\ streak.count <= MaxRepeated
    BY AgentStands DEF Call
  <1> DEFINE Charged(t) == Used([run EXCEPT !.calls = @ + 1], t)
  <1>2. ASSUME NEW t, t \in Usage, NEW r, r = Charged(t)
        PROVE  /\ r \in RunState /\ Spent(r, streak.count, maxPixels)
               /\ r.steps = run.steps /\ r.calls = run.calls + 1 /\ r.tokens = run.tokens + t
               /\ r.repeated = run.repeated /\ r.previous = run.previous /\ r.stuck = run.stuck
               /\ r.switches = run.switches /\ r.probes = run.probes
               /\ r.doms = run.doms /\ r.images = run.images /\ r.pixels = run.pixels
    <2>1. t \in Nat /\ t <= MostUsage /\ MostUsage \in Nat
      BY <1>2, MostIsMost
    <2>2. /\ r \in RunState
          /\ r.steps = run.steps /\ r.calls = run.calls + 1 /\ r.tokens = run.tokens + t
          /\ r.repeated = run.repeated /\ r.previous = run.previous /\ r.stuck = run.stuck
          /\ r.switches = run.switches /\ r.probes = run.probes
          /\ r.doms = run.doms /\ r.images = run.images /\ r.pixels = run.pixels
      BY <1>1, <1>2, <2>1, UsedAdds
    <2>3. Spent(r, streak.count, maxPixels)
      BY <1>1, <2>1, <2>2, AgentBounds DEF Spent, WithinBudgets, Reserved, RunState
    <2>4. QED
      BY <2>2, <2>3
  <1>3. ASSUME NEW t, t \in Usage, run' = Charged(t), pc' = "closing", result' \in Statuses
        PROVE  AgentInv'
    <2>1. run' \in RunState /\ Spent(run', streak.count, maxPixels)
      BY <1>2, <1>3
    <2>2. look' = look /\ session' = session /\ lost' = lost /\ streak' = streak
      BY <1>1
    <2>3. QED
      BY <1>1, <1>3, <2>1, <2>2, AgentOver
  <1>4. ASSUME NEW t, t \in Usage, NEW r, r = Charged(t), Within(r), NEW action \in Action,
               run' = [Repeat(r, Signature(action)) EXCEPT !.action = action],
               IF run'.repeated > MaxRepeated THEN End("repeated")
               ELSE pc' = "acting" /\ UNCHANGED result
        PROVE  AgentInv'
    <2>1. /\ r \in RunState /\ Spent(r, streak.count, maxPixels)
          /\ r.steps = run.steps /\ r.calls = run.calls + 1 /\ r.tokens <= MaxTokens
          /\ r.repeated = run.repeated /\ r.previous = run.previous /\ r.stuck = run.stuck
          /\ r.switches = run.switches /\ r.probes = run.probes
          /\ r.doms = run.doms /\ r.images = run.images /\ r.pixels = run.pixels
      BY <1>2, <1>4 DEF Within
    <2>2. /\ Signature(action) \in Signatures
          /\ kind # "dom" => Signature(action) = SignatureOf(action, look.modality)
      <3>1. AgentTyped /\ run.steps <= MaxSteps
        BY <1>1 DEF AgentInv, Spent
      <3>2. QED
        BY <1>4, <3>1, SignatureTyped
    <2>3. /\ run' \in RunState
          /\ run'.steps = r.steps /\ run'.calls = r.calls /\ run'.tokens = r.tokens
          /\ run'.repeated = (IF Signature(action) = r.previous THEN r.repeated + 1 ELSE 1)
          /\ run'.previous = Signature(action) /\ run'.stuck = r.stuck
          /\ run'.switches = r.switches /\ run'.probes = r.probes /\ run'.action = action
          /\ run'.doms = r.doms /\ run'.images = r.images /\ run'.pixels = r.pixels
      <3> DEFINE sig == Signature(action)
      <3>1. sig \in Signatures /\ action \in Action /\ r \in RunState
            /\ run' = Decided(r, sig, action)
        BY <1>4, <2>1, <2>2 DEF Decided
      <3> HIDE DEF sig
      <3>2. /\ run' \in RunState
            /\ run'.steps = r.steps /\ run'.calls = r.calls /\ run'.tokens = r.tokens
            /\ run'.repeated = (IF sig = r.previous THEN r.repeated + 1 ELSE 1)
            /\ run'.previous = sig /\ run'.stuck = r.stuck
            /\ run'.switches = r.switches /\ run'.probes = r.probes /\ run'.action = action
            /\ run'.doms = r.doms /\ run'.images = r.images /\ run'.pixels = r.pixels
        BY <3>1, RepeatCounts
      <3>3. QED
        BY <3>2 DEF sig
    <2>4. run'.repeated \in Nat /\ 1 <= run'.repeated /\ run'.repeated <= MaxRepeated + 1
      BY <1>1, <2>1, <2>3, AgentBounds DEF WithinBudgets, RunState
    <2>5. Spent(run', streak'.count, maxPixels)
      BY <1>1, <2>1, <2>3, <2>4 DEF Spent
    <2>6. CASE run'.repeated > MaxRepeated
      <3>1. pc' = "closing" /\ result' \in Statuses
        BY <1>4, <2>6 DEF End, Statuses
      <3>2. look' = look /\ session' = session /\ lost' = lost /\ streak' = streak
        BY <1>1
      <3>3. QED
        BY <1>1, <2>3, <2>5, <3>1, <3>2, AgentOver
    <2>7. CASE ~(run'.repeated > MaxRepeated)
      <3>1. pc' = "acting" /\ UNCHANGED result
        BY <1>4, <2>7
      <3>2. run'.repeated <= MaxRepeated
        BY <2>4, <2>7, AgentBounds
      <3>3. WithinBudgets(run', streak'.count, maxPixels)
        BY <1>1, <2>1, <2>3, <3>2 DEF WithinBudgets
      <3>4. Reserved(pc', run', maxPixels)
        BY <1>1, <1>4, <2>1, <2>3, <3>1 DEF Reserved
      <3>5. ASSUME kind # "dom" PROVE Counted(pc', run', streak', look'.modality)
        <4>1. /\ Counted("calling", run, streak, look.modality)
              /\ run'.previous = SignatureOf(action, look.modality)
              /\ streak' = streak /\ look' = look /\ run'.action = action
          BY <1>1, <2>2, <2>3, <3>5
        <4>2. ASSUME Same(streak, action, look.modality) PROVE streak.count + 1 <= run'.repeated
          <5>1. CASE streak.count = 0
            BY <5>1, <2>4
          <5>2. CASE streak.count # 0
            <6>1. run.previous = SignatureOf(action, look.modality)
              BY <4>1, <4>2, <5>2 DEF Counted, Same
            <6>2. run'.repeated = run.repeated + 1
              BY <6>1, <2>1, <2>2, <2>3, <3>5
            <6>3. streak.count <= run.repeated /\ run.repeated \in Nat
              BY <4>1, <1>1 DEF Counted, RunState
            <6>4. QED
              BY <6>2, <6>3, <1>1
          <5>3. QED
            BY <5>1, <5>2
        <4>3. QED
          BY <4>1, <4>2, <1>1, <2>4, <3>1, <3>5 DEF Counted
      <3>6. look' = look /\ session' = session /\ streak' = streak
        BY <1>1
      <3>7. QED
        BY <1>1, <2>3, <2>5, <3>1, <3>3, <3>4, <3>5, <3>6, AgentGoes
    <2>8. QED
      BY <2>6, <2>7
  <1>5. QED
    <2>1. PICK t \in Usage :
             \/ run' = Charged(t) /\ End("budget")
             \/ Within(Charged(t)) /\ run' = Charged(t) /\ End("invalid_model_output")
             \/ /\ Within(Charged(t))
                /\ \E action \in Action :
                      run' = [Repeat(Charged(t), Signature(action)) EXCEPT !.action = action]
                /\ IF run'.repeated > MaxRepeated THEN End("repeated")
                   ELSE pc' = "acting" /\ UNCHANGED result
      BY DEF Call
    <2>2. CASE run' = Charged(t) /\ (End("budget") \/ End("invalid_model_output"))
      <3>1. pc' = "closing" /\ result' \in Statuses
        BY <2>2 DEF End, Statuses
      <3>2. QED
        BY <1>3, <2>1, <2>2, <3>1
    <2>3. CASE /\ Within(Charged(t))
               /\ \E action \in Action :
                     run' = [Repeat(Charged(t), Signature(action)) EXCEPT !.action = action]
               /\ IF run'.repeated > MaxRepeated THEN End("repeated")
                  ELSE pc' = "acting" /\ UNCHANGED result
      <3> DEFINE r == Charged(t)
      <3>1. /\ r = Charged(t) /\ Within(r)
            /\ \E action \in Action :
                     run' = [Repeat(r, Signature(action)) EXCEPT !.action = action]
        BY <2>3
      <3> HIDE DEF r, Charged
      <3>2. QED
        BY <1>4, <2>1, <2>3, <3>1
    <2>4. QED
      BY <2>1, <2>2, <2>3

LEMMA SentCounts ==
    ASSUME AgentInv, pc = "acting", Sent
    PROVE  /\ streak' \in Streaks /\ streak'.count \in Nat
           /\ streak'.count <= run.steps + 1 /\ streak'.count <= MaxSteps
           /\ kind # "dom" =>
                 /\ streak'.count <= run.repeated /\ streak'.count <= MaxRepeated
                 /\ run.previous = SignatureOf(streak'.action, streak'.modality)
  <1>1. /\ WithinBudgets(run, streak.count, maxPixels) /\ Reserved("acting", run, maxPixels)
        /\ run \in RunState /\ streak \in Streaks /\ streak.count \in Nat
        /\ look.modality \in Modalities
        /\ kind # "dom" => Counted("acting", run, streak, look.modality)
    BY AgentStands
  <1> DEFINE n == IF Same(streak, run.action, look.modality) THEN streak.count + 1 ELSE 1
  <1>2. streak' = [action |-> run.action, modality |-> look.modality, count |-> n]
    BY DEF Sent, Same
  <1>3. n \in Nat /\ n <= streak.count + 1
    BY <1>1
  <1>4. kind # "dom" => n <= run.repeated /\ run.previous = SignatureOf(run.action, look.modality)
    BY <1>1 DEF Counted
  <1> HIDE DEF n
  <1>5. run.action \in Action
    BY <1>1 DEF Reserved
  <1>6. /\ streak' \in Streaks /\ streak'.count = n
        /\ streak'.action = run.action /\ streak'.modality = look.modality
    BY <1>1, <1>2, <1>3, <1>5 DEF Streaks
  <1>7. run.steps \in Nat /\ run.repeated \in Nat
    BY <1>1 DEF RunState
  <1>8. n <= run.steps + 1 /\ n <= MaxSteps
    BY <1>1, <1>3, <1>7, AgentBounds DEF WithinBudgets, Reserved
  <1>9. kind # "dom" => n <= MaxRepeated
    BY <1>1, <1>3, <1>4, <1>7, AgentBounds DEF WithinBudgets
  <1>10. QED
    BY <1>3, <1>4, <1>6, <1>8, <1>9

LEMMA AgentActFails == ASSUME AgentInv, ActFails PROVE AgentInv'
  <1>1. /\ pc = "acting" /\ UNCHANGED <<kind, maxPixels, category, run, look, lost>>
        /\ Spent(run, streak.count, maxPixels)
        /\ run \in RunState /\ streak \in Streaks
        /\ look \in [modality : Modalities, signal : {"usable", "weak", "error"}]
        /\ lost \in BOOLEAN /\ session \in {"none", "open", "closed"}
        /\ kind # "dom" => streak.count <= MaxRepeated
    BY AgentStands DEF ActFails
  <1>2. pc' = "closing" /\ result' \in Statuses
    BY DEF ActFails, End, Statuses
  <1>3. CASE UNCHANGED <<session, streak>>
    BY <1>1, <1>2, <1>3, AgentEnds
  <1>4. CASE Sent /\ session' \in {"open", "closed"}
    <2>1. /\ streak' \in Streaks /\ streak'.count <= MaxSteps
          /\ kind # "dom" => streak'.count <= MaxRepeated
      BY <1>1, <1>4, SentCounts
    <2>2. Spent(run', streak'.count, maxPixels)
      BY <1>1, <2>1 DEF Spent
    <2>3. run' = run /\ look' = look /\ lost' = lost
      BY <1>1
    <2>4. QED
      BY <1>1, <1>2, <1>4, <2>1, <2>2, <2>3, AgentOver
  <1>5. QED
    BY <1>3, <1>4 DEF ActFails

LEMMA AgentTerminal == ASSUME AgentInv, Terminal PROVE AgentInv'
  <1>1. /\ pc = "acting" /\ UNCHANGED <<kind, maxPixels, category, look, lost>>
        /\ Spent(run, streak.count, maxPixels) /\ Reserved(pc, run, maxPixels)
        /\ run \in RunState
        /\ look \in [modality : Modalities, signal : {"usable", "weak", "error"}]
        /\ lost \in BOOLEAN
    BY AgentStands DEF Terminal
  <1>2. /\ session' = "closed" /\ Sent /\ run' = [run EXCEPT !.steps = @ + 1]
        /\ pc' \in {"closing", "ended"} /\ result' \in Statuses
    BY DEF Terminal, Statuses
  <1>3. /\ streak' \in Streaks /\ streak'.count <= MaxSteps
        /\ kind # "dom" => streak'.count <= MaxRepeated
    BY <1>1, <1>2, SentCounts
  <1>4. /\ run' \in RunState /\ run'.steps = run.steps + 1 /\ run'.calls = run.calls
        /\ run'.tokens = run.tokens /\ run'.repeated = run.repeated /\ run'.stuck = run.stuck
        /\ run'.switches = run.switches /\ run'.probes = run.probes
        /\ run'.doms = run.doms /\ run'.images = run.images /\ run'.pixels = run.pixels
    BY <1>1, <1>2 DEF RunState
  <1>5. Spent(run', streak'.count, maxPixels)
    BY <1>1, <1>3, <1>4, AgentBounds DEF Spent, Reserved, RunState
  <1>6. look' = look /\ lost' = lost
    BY <1>1
  <1>7. QED
    BY <1>1, <1>2, <1>3, <1>4, <1>5, <1>6, AgentOver

LEMMA AgentAct == ASSUME AgentInv, Act PROVE AgentInv'
  <1>1. /\ pc = "acting" /\ session = "open"
        /\ UNCHANGED <<kind, maxPixels, category, session, lost>> /\ Sent
        /\ WithinBudgets(run, streak.count, maxPixels) /\ Reserved(pc, run, maxPixels)
        /\ Spent(run, streak.count, maxPixels)
        /\ run \in RunState /\ look.modality \in Modalities
        /\ look \in [modality : Modalities, signal : {"usable", "weak", "error"}]
        /\ maxPixels \in Nat /\ lost \in BOOLEAN
    BY AgentStands DEF Act
  <1>2. /\ streak' \in Streaks /\ streak'.count \in Nat
        /\ streak'.count <= run.steps + 1 /\ streak'.count <= MaxSteps
        /\ kind # "dom" =>
              /\ streak'.count <= run.repeated /\ streak'.count <= MaxRepeated
              /\ run.previous = SignatureOf(streak'.action, streak'.modality)
    BY <1>1, SentCounts
  <1>3. PICK success \in BOOLEAN, progress \in BOOLEAN, cost \in Costs(look.modality) :
             /\ run' = Acted(success, progress, cost)
             /\ look' \in {[look EXCEPT !.signal = s] : s \in Signals(look, success)}
    BY DEF Act
  <1>4. look' \in [modality : Modalities, signal : {"usable", "weak", "error"}]
    BY <1>1, <1>3 DEF Signals
  <1>5. cost \in Nat /\ cost <= MostPixels
    BY <1>1, CostsAreNat
  <1>6. PICK u : /\ u \in RunState /\ run' = Record(u, look.modality, cost)
                 /\ u.steps = run.steps + 1 /\ u.calls = run.calls /\ u.tokens = run.tokens
                 /\ u.repeated = run.repeated /\ u.previous = run.previous
                 /\ u.stuck \in {0, run.stuck + 1} /\ u.probes \in {run.probes, run.probes + 1}
                 /\ u.switches = run.switches /\ u.action = run.action
                 /\ u.doms = run.doms /\ u.images = run.images /\ u.pixels = run.pixels
    <2> DEFINE probe == success /\ run.action.type = "read" /\ look.modality = "dom"
               u == Stepped(run, probe, progress)
    <2>1. run' = Record(u, look.modality, cost)
      BY <1>3 DEF Acted, Stepped
    <2> HIDE DEF probe
    <2>2. u = Stepped(run, probe, progress)
      OBVIOUS
    <2> HIDE DEF u
    <2>3. QED
      BY <1>1, <2>1, <2>2, SteppedCounts
  <1>7. /\ run' \in RunState
        /\ run'.steps = u.steps /\ run'.calls = u.calls /\ run'.tokens = u.tokens
        /\ run'.repeated = u.repeated /\ run'.previous = u.previous /\ run'.stuck = u.stuck
        /\ run'.switches = u.switches /\ run'.probes = u.probes /\ run'.action = u.action
        /\ run'.doms \in {u.doms, u.doms + 1} /\ run'.images \in {u.images, u.images + 1}
        /\ run'.pixels \in {u.pixels, u.pixels + cost}
    BY <1>1, <1>5, <1>6, RecordAdds
  <1>8. /\ run.stuck + 1 <= MaxNoProgress + 1 /\ 0 <= MaxNoProgress + 1
        /\ run.stuck \in Nat /\ run.steps \in Nat /\ run.probes \in Nat /\ run.doms \in Nat
        /\ run.images \in Nat /\ run.pixels \in Nat /\ MostPixels \in Nat
    BY <1>1, AgentBounds, MostIsMost DEF WithinBudgets, RunState
  <1>9. Spent(run', streak'.count, maxPixels)
    BY <1>1, <1>2, <1>5, <1>6, <1>7, <1>8, AgentBounds DEF Spent, WithinBudgets, Reserved
  <1>10. CASE ~Affordable(run') \/ run'.stuck > MaxNoProgress
    <2>1. pc' = "closing" /\ result' \in Statuses
      BY <1>10 DEF Act, End, Statuses
    <2>2. lost' = lost /\ session' = session
      BY <1>1
    <2>3. QED
      BY <1>1, <1>2, <1>4, <1>7, <1>9, <2>1, <2>2, AgentOver
  <1>11. CASE Affordable(run') /\ ~(run'.stuck > MaxNoProgress)
    <2>1. pc' = "turn" /\ UNCHANGED result
      BY <1>11 DEF Act
    <2>2. run'.stuck <= MaxNoProgress
      BY <1>7, <1>11, AgentBounds DEF RunState
    <2>3. WithinBudgets(run', streak'.count, maxPixels)
      BY <1>1, <1>2, <1>6, <1>7, <1>11, <2>2 DEF WithinBudgets, Affordable
    <2>4. Reserved(pc', run', maxPixels)
      BY <2>1 DEF Reserved
    <2>5. kind # "dom" => Counted(pc', run', streak', look'.modality)
      BY <1>2, <1>6, <1>7, <2>1 DEF Counted
    <2>6. session' \in {"none", "open", "closed"}
      BY <1>1
    <2>7. QED
      BY <1>1, <1>2, <1>4, <1>7, <1>9, <2>1, <2>3, <2>4, <2>5, <2>6, AgentGoes
  <1>12. QED
    BY <1>10, <1>11

\* The session is closed, or the call that closes it is lost.
LEMMA AgentClose == ASSUME AgentInv, Close PROVE AgentInv'
  <1>1. /\ AgentTyped /\ Spent(run, streak.count, maxPixels)
        /\ kind # "dom" => Counted(pc, run, streak, look.modality)
        /\ pc = "closing" /\ pc' = "ended"
        /\ UNCHANGED <<kind, maxPixels, category, run, look, result, streak>>
        /\ \/ session' = "closed" /\ UNCHANGED lost
           \/ session = "open" /\ lost' = TRUE /\ UNCHANGED session
    BY DEF AgentInv, Close
  <1>2. AgentTyped'
    BY <1>1 DEF AgentTyped
  <1>3. AgentGoesOn' /\ (kind # "dom" => Counted(pc, run, streak, look.modality))'
    BY <1>1 DEF AgentGoesOn, Counted
  <1>4. Spent(run, streak.count, maxPixels)'
    BY <1>1
  <1>5. QED
    BY <1>1, <1>2, <1>3, <1>4 DEF AgentInv

LEMMA AgentExpire == ASSUME AgentInv, Expire PROVE AgentInv'
  <1>1. /\ AgentTyped /\ Spent(run, streak.count, maxPixels) /\ AgentGoesOn
        /\ kind # "dom" => Counted(pc, run, streak, look.modality)
        /\ UNCHANGED <<kind, maxPixels, category, pc, run, look, result, streak, lost>>
        /\ session' = "closed"
    BY DEF AgentInv, Expire
  <1>2. AgentTyped'
    BY <1>1 DEF AgentTyped
  <1>3. AgentGoesOn' /\ (kind # "dom" => Counted(pc, run, streak, look.modality))'
    BY <1>1 DEF AgentGoesOn
  <1>4. Spent(run, streak.count, maxPixels)'
    BY <1>1
  <1>5. QED
    BY <1>1, <1>2, <1>3, <1>4 DEF AgentInv

LEMMA AgentCancel == ASSUME AgentInv, Cancel PROVE AgentInv'
  <1>1. /\ AgentTyped /\ UNCHANGED <<kind, maxPixels, category, run, look, streak>>
    BY DEF AgentInv, Cancel
  <1>2. /\ result' \in Statuses /\ pc' \in {"closing", "ended"}
        /\ session' \in {"none", "open", "closed"} /\ lost' \in BOOLEAN
    BY <1>1 DEF AgentTyped, Cancel, Statuses
  <1>3. pc' = "ended" => lost'
    BY DEF Cancel
  <1>4. QED
    BY <1>1, <1>2, <1>3, AgentEnds

LEMMA AgentStep == AgentInv /\ [Next]_vars => AgentInv'
  <1> SUFFICES ASSUME AgentInv, [Next]_vars PROVE AgentInv'
    OBVIOUS
  <1>1. CASE UNCHANGED vars
    BY <1>1 DEF vars, AgentInv, AgentTyped, AgentGoesOn
  <1>2. CASE Next
    BY <1>2, AgentCreate, AgentTurn, AgentSwitch, AgentCall, AgentCallFails, AgentAct,
       AgentActFails, AgentTerminal, AgentClose, AgentExpire, AgentCancel DEF Next, Step
  <1>3. QED
    BY <1>1, <1>2

LEMMA AgentStart == Init => AgentInv
  <1> SUFFICES ASSUME Init PROVE AgentInv
    OBVIOUS
  <1>1. /\ kind \in Kinds /\ maxPixels \in PixelBudgets /\ pc = "start"
        /\ category \in {"standard", "visual_recovery"}
        /\ look \in [modality : Modalities, signal : {"usable", "weak", "error"}]
        /\ session = "none" /\ result = None /\ lost = FALSE
        /\ streak = [action |-> None, modality |-> None, count |-> 0]
    BY DEF Init, FirstLooks, Modalities
  <1>2. /\ run \in RunState /\ run.steps = 0 /\ run.calls = 0 /\ run.tokens = 0 /\ run.doms = 0
        /\ run.images = 0 /\ run.pixels = 0 /\ run.repeated = 0 /\ run.stuck = 0
        /\ run.switches = 0 /\ run.probes = 0
    BY DEF Init, RunState
  <1>3. streak \in Streaks /\ streak.count = 0
    BY <1>1 DEF Streaks
  <1>4. maxPixels \in Nat /\ MostUsage \in Nat /\ MostPixels \in Nat
    BY <1>1, MostIsMost, AgentAssumption DEF AgentAssumption
  <1>5. AgentTyped
    BY <1>1, <1>2, <1>3 DEF AgentTyped
  <1>6. Spent(run, streak.count, maxPixels) /\ WithinBudgets(run, streak.count, maxPixels)
    BY <1>2, <1>3, <1>4, AgentBounds DEF Spent, WithinBudgets
  <1>7. AgentGoesOn
    <2>1. result # "image_budget"
      BY <1>1, AgentBounds DEF Statuses
    <2>2. QED
      BY <1>1, <1>2, <1>6, <2>1 DEF AgentGoesOn, Reserved
  <1>8. kind # "dom" => Counted(pc, run, streak, look.modality)
    BY <1>1, <1>2, <1>3, AgentBounds DEF Counted
  <1>9. QED
    BY <1>1, <1>5, <1>6, <1>7, <1>8 DEF AgentInv

LEMMA AgentMoves == [AllNext]_allVars => [Next]_vars
  BY DEF AllNext, allVars, vars

THEOREM AgentInvariantHolds == AllSpec => []AgentInv
  <1>1. AllInit => AgentInv
    BY AgentStart DEF AllInit
  <1>2. AgentInv /\ [AllNext]_allVars => AgentInv'
    BY AgentStep, AgentMoves
  <1>3. QED
    BY <1>1, <1>2, PTL DEF AllSpec

\* The switch that can_request_vision grants never ends in the budget of images,
\* whatever the image it asks for costs (router.py, hybrid_agent/loop.py).
THEOREM SwitchIsAlwaysAffordable == AllSpec => SwitchIsAffordable
  <1>1. ASSUME AgentInv, [Next]_vars
        PROVE  [pc = "switching" => result' # "image_budget"]_vars
    <2> SUFFICES ASSUME Next, pc = "switching" PROVE result' # "image_budget"
      BY <1>1
    <2>1. CASE Switch
      <3>1. WithinBudgets(run, streak.count, maxPixels) /\ result # "image_budget"
        BY <1>1 DEF AgentInv, AgentGoesOn
      <3>2. CASE End("browser_error")
        BY <3>2 DEF End
      <3>3. ASSUME NEW cost \in ImageCosts, run' = Record(run, "vision", cost),
                   IF Affordable(run') THEN pc' = "calling" /\ UNCHANGED result
                                       ELSE End("image_budget")
            PROVE  result' # "image_budget"
        <4> DEFINE u == Record(run, "vision", cost)
        <4>1. u = Record(run, "vision", cost) /\ run' = u
          BY <3>3
        <4> HIDE DEF u
        <4>2. u.images <= MaxImages /\ u.pixels <= maxPixels /\ u.doms <= MaxDoms
          BY <1>1, <3>3, <4>1, ImageIsAffordable
        <4>3. maxPixels' = maxPixels
          BY <2>1 DEF Switch
        <4>4. Affordable(run')
          BY <4>1, <4>2, <4>3 DEF Affordable
        <4>5. QED
          BY <3>1, <3>3, <4>4
      <3>4. QED
        BY <2>1, <3>2, <3>3 DEF Switch
    <2>2. CASE Expire
      BY <1>1, <2>2 DEF AgentInv, AgentGoesOn, Expire
    <2>3. CASE Cancel
      BY <2>3 DEF Cancel
    <2>4. QED
      BY <2>1, <2>2, <2>3 DEF Next, Step, Create, Turn, Call, CallFails, Act, ActFails, Terminal, Close
  <1>2. QED
    BY <1>1, AgentInvariantHolds, AgentMoves, PTL DEF AllSpec, SwitchIsAffordable

-----------------------------------------------------------------------------
(* The executor of a plan.                                                 *)

LEMMA PlanFacts ==
    /\ Order \in Seq(Runs!Steps) /\ Len(Order) \in Nat /\ Len(Order) > 1
    /\ \A i \in 1..Len(Order) : Order[i] \in Runs!Steps
    /\ \A s \in Runs!Steps : \E i \in 1..Len(Order) : Order[i] = s
    /\ \A i, j \in 1..Len(Order) : Order[i] = Order[j] => i = j
    /\ Instructions \in [Runs!Steps -> Nat \ {0}]
    /\ Budgets \subseteq [Runs!Counters -> Nat]
  <1>1. Order \in Seq(Runs!Steps) /\ Len(Order) > 1
    BY PlanningAssumption DEF PlanningAssumption, Runs!Steps
  <1>2. Len(Order) \in Nat /\ \A i \in 1..Len(Order) : Order[i] \in Runs!Steps
    BY <1>1
  <1>3. /\ \A s \in Runs!Steps : \E i \in 1..Len(Order) : Order[i] = s
        /\ \A i, j \in 1..Len(Order) : Order[i] = Order[j] => i = j
        /\ Instructions \in [Runs!Steps -> Nat \ {0}]
    BY PlanningAssumption DEF PlanningAssumption, Runs!Steps
  <1>4. Budgets \subseteq [Runs!Counters -> Nat]
    BY PlanningAssumption DEF PlanningAssumption, Runs!Counters
  <1>5. QED
    BY <1>1, <1>2, <1>3, <1>4

LEMMA OrderLength == Len(Order) \in Nat /\ Len(Order) > 1
  BY PlanFacts

LEMMA OrderedStep ==
    \A i \in 1..Len(Order) :
        Order[i] \in Runs!Steps /\ Instructions[Order[i]] \in Nat /\ Instructions[Order[i]] > 0
  <1> SUFFICES ASSUME NEW i \in 1..Len(Order)
               PROVE  /\ Order[i] \in Runs!Steps
                      /\ Instructions[Order[i]] \in Nat /\ Instructions[Order[i]] > 0
    OBVIOUS
  <1>1. Order[i] \in Runs!Steps
    BY PlanFacts
  <1>2. Instructions[Order[i]] \in Nat \ {0}
    BY <1>1, PlanFacts
  <1>3. QED
    BY <1>1, <1>2

Rows == [step : Runs!Steps, state : {"verified", "failed", "blocked"}]

Outcomes == {"finished_ungraded", "budget_exhausted", "dependency_blocked", "tool_rejected",
             "failed", "browser_error", "cancelled", "verification_inconclusive",
             "verification_not_verified"}

\* Where the executor works on a plan, and on the step in turn.
OnStep == {"match", "acting", "observing", "verify"}
Busy == {"ready", "step", "final", "finishing"} \cup OnStep

RunTyped ==
    /\ budget \in Budgets /\ scenario \in Scenarios
    /\ runPc \in {"start", "creating", "closing", "ended"} \cup Busy
    /\ used \in [Runs!Counters -> Nat] /\ states \in [Runs!Steps -> Runs!States]
    /\ at \in 1..Len(Order) + 1 /\ left \in Nat /\ ok \in BOOLEAN
    /\ results \in Seq(Rows)
    /\ runSession \in {"none", "open", "closed"}
    /\ status \in {"none"} \cup Outcomes
    /\ good \in [Runs!Steps -> Nat] /\ runLost \in BOOLEAN

\* The counters that no charge lets go beyond their limit unnoticed.
Strict == {"actions", "verifiers", "executed", "doms"}

RunCharged ==
    /\ runPc \in {"start", "creating"} => \A c \in Runs!Counters : used[c] = 0
    /\ runPc = "ready" => used["matches"] = 0
    /\ runPc \in Busy => \A c \in Strict : used[c] <= budget[c]
    /\ runPc \in {"acting", "finishing"} => used["matches"] <= budget["matches"]

\* What is carried through: the steps before the one in turn, in their order.
Behind(n, st, gd, rs) ==
    /\ Len(rs) = n - 1
    /\ \A i \in 1..Len(Order) : i < n =>
          /\ st[Order[i]] = "verified" /\ gd[Order[i]] = Instructions[Order[i]]
          /\ rs[i].step = Order[i]

\* Of the step in turn, the instructions done and those left are all, as long as none
\* failed; of the steps after it, none is done.
RunCarries ==
    /\ runPc \in {"start", "creating", "ready"} => at = 1
    /\ runPc \in {"step"} \cup OnStep => at <= Len(Order)
    /\ runPc = "final" => at = Len(Order) + 1
    /\ runPc \in {"start", "creating"} \cup Busy => Behind(at, states, good, results)
    /\ runPc \in {"start", "creating", "ready", "step"} =>
          \A i \in 1..Len(Order) : i >= at => good[Order[i]] = 0
    /\ runPc \in OnStep => \A i \in 1..Len(Order) : i > at => good[Order[i]] = 0
    /\ runPc \in {"match", "acting"} =>
          left > 0 /\ good[Order[at]] + left = Instructions[Order[at]]
    /\ runPc \in {"observing", "verify"} =>
          (ok => good[Order[at]] = Instructions[Order[at]])
    /\ runPc = "finishing" /\ scenario # "finish_immediately" => at = Len(Order) + 1

RunFinished ==
    /\ runPc \in {"start", "creating"} \cup Busy => status = "none"
    /\ status = "finished_ungraded" /\ scenario # "finish_immediately" =>
          at = Len(Order) + 1 /\ Behind(at, states, good, results)

RunInv ==
    /\ RunTyped /\ RunCharged /\ RunCarries /\ RunFinished
    /\ runPc = "start" => runSession = "none"
    /\ runPc = "ended" /\ runSession = "open" => runLost

LEMMA RunStart == Runs!Init => RunInv
  <1> SUFFICES ASSUME Runs!Init PROVE RunInv
    OBVIOUS
  <1>1. /\ budget \in Budgets /\ scenario \in Scenarios
        /\ runPc = "start" /\ used = [c \in Runs!Counters |-> 0]
        /\ states = [s \in Runs!Steps |-> "pending"] /\ at = 1 /\ left = 0 /\ ok = FALSE
        /\ results = <<>> /\ runSession = "none" /\ status = "none"
        /\ good = [s \in Runs!Steps |-> 0] /\ runLost = FALSE
    BY DEF Runs!Init
  <1>2. /\ RunTyped
    <2>1. at \in 1..Len(Order) + 1 /\ results \in Seq(Rows)
      BY <1>1, PlanFacts
    <2>2. QED
      BY <1>1, <2>1 DEF RunTyped, Runs!States
  <1>3. RunCharged
    BY <1>1 DEF RunCharged, Busy, OnStep
  <1>4. RunCarries
    BY <1>1, PlanFacts DEF RunCarries, Behind, Busy, OnStep
  <1>5. RunFinished
    BY <1>1 DEF RunFinished
  <1>6. QED
    BY <1>1, <1>2, <1>3, <1>4, <1>5 DEF RunInv

\* A run that is over and has not finished owes nothing but its session.
LEMMA RunOver ==
    ASSUME RunInv, UNCHANGED <<budget, scenario>>,
           at' \in 1..Len(Order) + 1, left' \in Nat, good' \in [Runs!Steps -> Nat],
           runPc' \in {"closing", "ended"},
           runPc' = "ended" /\ runSession' = "open" => runLost',
           used' \in [Runs!Counters -> Nat], states' \in [Runs!Steps -> Runs!States],
           ok' \in BOOLEAN, results' \in Seq(Rows),
           runSession' \in {"none", "open", "closed"}, runLost' \in BOOLEAN,
           status' \in Outcomes \ {"finished_ungraded"}
    PROVE  RunInv'
  <1>1. RunTyped'
    BY DEF RunInv, RunTyped
  <1>2. RunCharged' /\ RunCarries' /\ RunFinished'
    BY DEF RunCharged, RunCarries, RunFinished, Busy, OnStep
  <1>3. QED
    BY <1>1, <1>2 DEF RunInv

LEMMA PlusAdds ==
    ASSUME NEW u, u \in [Runs!Counters -> Nat], NEW c, c \in Runs!Counters,
           NEW v, v = Runs!Plus(u, c)
    PROVE  /\ v \in [Runs!Counters -> Nat] /\ v[c] = u[c] + 1
           /\ \A d \in Runs!Counters : d # c => v[d] = u[d]
  BY DEF Runs!Plus

LEMMA CounterNames ==
    /\ "actions" \in Runs!Counters /\ "matches" \in Runs!Counters
    /\ "rejections" \in Runs!Counters /\ "verifiers" \in Runs!Counters
    /\ "executed" \in Runs!Counters /\ "doms" \in Runs!Counters
    /\ Strict \subseteq Runs!Counters /\ "matches" \notin Strict /\ "rejections" \notin Strict
  BY DEF Runs!Counters, Strict

LEMMA RejectedCounts ==
    ASSUME NEW u, u \in [Runs!Counters -> Nat], NEW v, v = Runs!Rejected(u)
    PROVE  v \in [Runs!Counters -> Nat] /\ \A d \in Strict : v[d] = u[d]
  <1> DEFINE m == Runs!Plus(u, "matches")
             w == Runs!Plus(m, "rejections")
  <1>1. m = Runs!Plus(u, "matches") /\ w = Runs!Plus(m, "rejections") /\ v \in {m, w}
    BY DEF Runs!Rejected
  <1> HIDE DEF m, w
  <1>2. /\ m \in [Runs!Counters -> Nat] /\ \A d \in Strict : m[d] = u[d]
    BY <1>1, PlusAdds, CounterNames
  <1>3. /\ w \in [Runs!Counters -> Nat] /\ \A d \in Strict : w[d] = m[d]
    <2>1. w = Runs!Plus(m, "rejections") /\ m \in [Runs!Counters -> Nat]
      BY <1>1, <1>2
    <2>2. w \in [Runs!Counters -> Nat] /\ \A d \in Runs!Counters : d # "rejections" => w[d] = m[d]
      BY <2>1, PlusAdds, CounterNames
    <2>3. QED
      BY <2>2, CounterNames
  <1>4. QED
    BY <1>1, <1>2, <1>3

LEMMA RunTypes ==
    ASSUME RunInv
    PROVE  /\ budget \in [Runs!Counters -> Nat] /\ used \in [Runs!Counters -> Nat]
           /\ states \in [Runs!Steps -> Runs!States] /\ good \in [Runs!Steps -> Nat]
           /\ at \in 1..Len(Order) + 1 /\ left \in Nat /\ ok \in BOOLEAN
           /\ results \in Seq(Rows) /\ runSession \in {"none", "open", "closed"}
           /\ runLost \in BOOLEAN /\ scenario \in Scenarios /\ budget \in Budgets
           /\ status \in {"none"} \cup Outcomes
           /\ runPc \in {"start", "creating", "closing", "ended"} \cup Busy
           /\ RunCharged /\ RunCarries /\ RunFinished
  BY PlanFacts DEF RunInv, RunTyped

\* A charge that is within its limit counts, and leaves the other counters alone.
LEMMA ChargeCounts ==
    ASSUME RunInv, NEW c, c \in Strict, NEW next, Runs!Charge(c, next)
    PROVE  /\ used' \in [Runs!Counters -> Nat]
           /\ \A d \in Runs!Counters : d # c => used'[d] = used[d]
           /\ \/ runPc' = "closing" /\ status' = "budget_exhausted"
              \/ runPc' = next /\ status' = status /\ used'[c] <= budget[c]
  <1> DEFINE u == Runs!Plus(used, c)
  <1>1. u = Runs!Plus(used, c) /\ used' = u /\ c \in Runs!Counters
    BY CounterNames DEF Runs!Charge
  <1> HIDE DEF u
  <1>2. /\ u \in [Runs!Counters -> Nat] /\ \A d \in Runs!Counters : d # c => u[d] = used[d]
    BY <1>1, RunTypes, PlusAdds
  <1>3. \/ runPc' = "closing" /\ status' = "budget_exhausted"
        \/ runPc' = next /\ status' = status /\ ~(used'[c] > budget[c])
    BY DEF Runs!Charge, Runs!Exceeds, Runs!End, Runs!Go
  <1>4. ~(used'[c] > budget[c]) => used'[c] <= budget[c]
    BY <1>1, <1>2, RunTypes
  <1>5. QED
    BY <1>1, <1>2, <1>3, <1>4

\* A run that ends as it stands.
LEMMA RunStops ==
    ASSUME RunInv, UNCHANGED <<budget, scenario, states, at, left, ok, results, good>>,
           runPc' \in {"closing", "ended"},
           runPc' = "ended" /\ runSession' = "open" => runLost',
           used' \in [Runs!Counters -> Nat],
           runSession' \in {"none", "open", "closed"}, runLost' \in BOOLEAN,
           status' \in Outcomes \ {"finished_ungraded"}
    PROVE  RunInv'
  <1>1. /\ at' \in 1..Len(Order) + 1 /\ left' \in Nat /\ good' \in [Runs!Steps -> Nat]
        /\ states' \in [Runs!Steps -> Runs!States] /\ ok' \in BOOLEAN /\ results' \in Seq(Rows)
    BY RunTypes
  <1>2. QED
    BY <1>1, RunOver

LEMMA RunGenerate == ASSUME RunInv, Runs!Generate PROVE RunInv'
  <1>1. /\ runPc = "start" /\ runSession = "none"
        /\ UNCHANGED <<budget, scenario, used, states, at, left, ok, results, runSession, good,
                       runLost>>
    BY DEF Runs!Generate, RunInv
  <1>2. CASE Runs!Go("creating")
    <2>1. runPc' = "creating" /\ status' = status
      BY <1>2 DEF Runs!Go
    <2>2. RunTyped'
      BY <1>1, <2>1 DEF RunInv, RunTyped
    <2>3. RunCharged'
      BY <1>1, <2>1 DEF RunInv, RunCharged, Busy, OnStep
    <2>4. RunCarries'
      BY <1>1, <2>1 DEF RunInv, RunCarries, Busy, OnStep
    <2>5. RunFinished'
      BY <1>1, <2>1 DEF RunInv, RunFinished
    <2>6. QED
      BY <1>1, <2>1, <2>2, <2>3, <2>4, <2>5 DEF RunInv
  <1>3. CASE Runs!EndOpen("budget_exhausted")
    <2>1. runPc' = "ended" /\ status' \in Outcomes \ {"finished_ungraded"}
      BY <1>3 DEF Runs!EndOpen, Outcomes
    <2>2. /\ used' \in [Runs!Counters -> Nat] /\ runLost' \in BOOLEAN /\ runSession' = "none"
      BY <1>1, RunTypes
    <2>3. QED
      BY <1>1, <2>1, <2>2, RunStops
  <1>4. QED
    BY <1>2, <1>3 DEF Runs!Generate

LEMMA RunCreate == ASSUME RunInv, Runs!Create PROVE RunInv'
  <1>1. /\ runPc = "creating"
        /\ UNCHANGED <<budget, scenario, states, at, left, ok, results, good>>
        /\ RunCharged /\ RunCarries /\ RunFinished /\ used \in [Runs!Counters -> Nat]
        /\ runLost \in BOOLEAN /\ budget \in [Runs!Counters -> Nat]
    BY RunTypes DEF Runs!Create
  <1>2. CASE runPc' = "closing" /\ status' = "budget_exhausted" /\ runSession' = "open"
             /\ used' \in [Runs!Counters -> Nat] /\ runLost' = runLost
    <2>1. status' \in Outcomes \ {"finished_ungraded"}
      BY <1>2 DEF Outcomes
    <2>2. QED
      BY <1>1, <1>2, <2>1, RunStops
  <1>3. CASE /\ runPc' = "ready" /\ status' = status /\ runSession' = "open" /\ runLost' = runLost
             /\ used' \in [Runs!Counters -> Nat] /\ used'["doms"] <= budget["doms"]
             /\ \A d \in Runs!Counters : d # "doms" => used'[d] = used[d]
    <2>1. RunTyped'
      BY <1>1, <1>3 DEF RunInv, RunTyped, Busy
    <2>2. RunCharged'
      <3>1. \A d \in Runs!Counters : d # "doms" => used'[d] = 0
        BY <1>1, <1>3 DEF RunCharged
      <3>2. \A c \in Strict : used'[c] <= budget[c]
        BY <1>1, <1>3, <3>1, CounterNames
      <3>3. used'["matches"] = 0
        BY <3>1, CounterNames
      <3>4. QED
        BY <1>1, <1>3, <3>2, <3>3 DEF RunCharged
    <2>3. RunCarries'
      BY <1>1, <1>3 DEF RunCarries, Busy, OnStep
    <2>4. RunFinished'
      BY <1>1, <1>3 DEF RunFinished
    <2>5. QED
      BY <1>3, <2>1, <2>2, <2>3, <2>4 DEF RunInv
  <1>4. CASE /\ runSession' \in {"none", "open"} /\ runLost' = TRUE
             /\ Runs!EndOpen("browser_error") /\ UNCHANGED used
    <2>1. runPc' = "ended" /\ status' \in Outcomes \ {"finished_ungraded"}
      BY <1>4 DEF Runs!EndOpen, Outcomes
    <2>2. used' \in [Runs!Counters -> Nat]
      BY <1>1, <1>4
    <2>3. QED
      BY <1>1, <1>4, <2>1, <2>2, RunStops
  <1>5. CASE /\ runSession' = "open" /\ UNCHANGED runLost
             /\ Runs!Charge("doms", "ready") \/ Runs!OutOfTime
    <2>1. CASE Runs!Charge("doms", "ready")
      <3>1. "doms" \in Strict
        BY DEF Strict
      <3>2. QED
        BY <1>2, <1>3, <1>5, <2>1, <3>1, ChargeCounts
    <2>2. CASE Runs!OutOfTime
      BY <1>1, <1>2, <1>5, <2>2 DEF Runs!OutOfTime, Runs!End
    <2>3. QED
      BY <1>5, <2>1, <2>2
  <1>6. QED
    BY <1>4, <1>5 DEF Runs!Create

LEMMA RunBegin == ASSUME RunInv, Runs!Begin PROVE RunInv'
  <1>1. /\ runPc = "ready"
        /\ UNCHANGED <<budget, scenario, states, at, left, ok, runSession, good, runLost>>
        /\ RunCharged /\ RunCarries /\ RunFinished /\ used \in [Runs!Counters -> Nat]
        /\ runLost \in BOOLEAN /\ runSession \in {"none", "open", "closed"}
        /\ budget \in [Runs!Counters -> Nat] /\ results \in Seq(Rows)
        /\ status = "none"
    BY RunTypes DEF Runs!Begin, RunFinished, Busy
  <1>2. CASE /\ runPc' = "closing" /\ status' \in Outcomes \ {"finished_ungraded"}
             /\ used' \in [Runs!Counters -> Nat] /\ results' \in Seq(Rows)
    <2>1. /\ at' \in 1..Len(Order) + 1 /\ left' \in Nat /\ good' \in [Runs!Steps -> Nat]
          /\ states' \in [Runs!Steps -> Runs!States] /\ ok' \in BOOLEAN
      BY <1>1, RunTypes
    <2>2. QED
      BY <1>1, <1>2, <2>1, RunOver
  <1>3. CASE /\ scenario = "finish_immediately" /\ UNCHANGED results
             /\ Runs!Charge("actions", "finishing") \/ Runs!OutOfTime
    <2>1. CASE Runs!OutOfTime
      BY <1>1, <1>2, <1>3, <2>1 DEF Runs!OutOfTime, Runs!End, Outcomes
    <2>2. CASE Runs!Charge("actions", "finishing")
      <3>1. "actions" \in Strict
        BY DEF Strict
      <3>2. /\ used' \in [Runs!Counters -> Nat]
            /\ \A d \in Runs!Counters : d # "actions" => used'[d] = used[d]
            /\ \/ runPc' = "closing" /\ status' = "budget_exhausted"
               \/ runPc' = "finishing" /\ status' = status /\ used'["actions"] <= budget["actions"]
        BY <2>2, <3>1, ChargeCounts
      <3>3. CASE runPc' = "closing" /\ status' = "budget_exhausted"
        <4>1. status' \in Outcomes \ {"finished_ungraded"} /\ results' \in Seq(Rows)
          BY <1>1, <1>3, <3>3 DEF Outcomes
        <4>2. QED
          BY <1>2, <3>2, <3>3, <4>1
      <3>4. CASE runPc' = "finishing" /\ status' = status /\ used'["actions"] <= budget["actions"]
        <4>1. RunTyped'
          BY <1>1, <1>3, <3>2, <3>4 DEF RunInv, RunTyped, Busy
        <4>2. RunCharged'
          <5>1. \A c \in Strict : used'[c] <= budget[c]
            BY <1>1, <3>2, <3>4, CounterNames DEF RunCharged, Busy
          <5>2. used'["matches"] = 0 /\ budget["matches"] \in Nat
            BY <1>1, <3>2, CounterNames DEF RunCharged
          <5>3. used'["matches"] <= budget["matches"]
            BY <5>2
          <5>4. QED
            BY <1>1, <3>4, <5>1, <5>3 DEF RunCharged
        <4>3. RunCarries'
          BY <1>1, <1>3, <3>4 DEF RunCarries, Busy, OnStep
        <4>4. RunFinished'
          BY <1>1, <3>4 DEF RunFinished
        <4>5. QED
          BY <3>4, <4>1, <4>2, <4>3, <4>4 DEF RunInv
      <3>5. QED
        BY <3>2, <3>3, <3>4
    <2>3. QED
      BY <1>3, <2>1, <2>2
  <1>4. CASE Runs!Blocked(Order[2])
    <2>1. Order[2] \in Runs!Steps
      BY PlanFacts
    <2>2. [step |-> Order[2], state |-> "blocked"] \in Rows
      BY <2>1 DEF Rows
    <2>3. Runs!Result(Order[2], "blocked") \in Seq(Rows)
      BY <1>1, <2>2 DEF Runs!Result
    <2>4. /\ runPc' = "closing" /\ status' \in Outcomes \ {"finished_ungraded"}
          /\ results' \in Seq(Rows) /\ used' = used
      BY <1>1, <1>4, <2>3 DEF Runs!Blocked, Runs!OutOfTime, Runs!End, Outcomes
    <2>5. QED
      BY <1>1, <1>2, <2>4
  <1>5. CASE used' \in {used, Runs!Rejected(used)} /\ Runs!Go("step") /\ UNCHANGED results
    <2>1. runPc' = "step" /\ status' = status
      BY <1>5 DEF Runs!Go
    <2>2. used' \in [Runs!Counters -> Nat] /\ \A d \in Strict : used'[d] = used[d]
      BY <1>1, <1>5, RejectedCounts
    <2>3. RunTyped'
      BY <1>1, <1>5, <2>1, <2>2 DEF RunInv, RunTyped, Busy
    <2>4. RunCharged'
      BY <1>1, <2>1, <2>2 DEF RunCharged, Busy
    <2>5. RunCarries'
      BY <1>1, <1>5, <2>1, PlanFacts DEF RunCarries, Busy, OnStep
    <2>6. RunFinished'
      BY <1>1, <2>1 DEF RunFinished
    <2>7. QED
      BY <2>1, <2>3, <2>4, <2>5, <2>6 DEF RunInv
  <1>6. QED
    BY <1>3, <1>4, <1>5 DEF Runs!Begin

LEMMA RunStartStep == ASSUME RunInv, Runs!StartStep PROVE RunInv'
  <1>1. /\ runPc = "step" /\ UNCHANGED <<budget, scenario, at, runSession, good, runLost>>
        /\ RunCharged /\ RunCarries /\ RunFinished /\ used \in [Runs!Counters -> Nat]
        /\ runLost \in BOOLEAN /\ runSession \in {"none", "open", "closed"}
        /\ budget \in [Runs!Counters -> Nat] /\ results \in Seq(Rows)
        /\ at \in 1..Len(Order) /\ states \in [Runs!Steps -> Runs!States]
    <2>1. runPc = "step" /\ UNCHANGED <<budget, scenario, at, runSession, good, runLost>>
      BY DEF Runs!StartStep
    <2>2. at <= Len(Order) /\ at \in 1..Len(Order) + 1
      BY <2>1, RunTypes DEF RunCarries
    <2>3. at \in 1..Len(Order)
      BY <2>2, OrderLength
    <2>4. QED
      BY <2>1, <2>3, RunTypes
  <1>2. Runs!Step = Order[at] /\ Order[at] \in Runs!Steps
    BY <1>1, PlanFacts DEF Runs!Step
  <1>3. CASE /\ runPc' = "closing" /\ status' \in Outcomes \ {"finished_ungraded"}
             /\ used' \in [Runs!Counters -> Nat] /\ results' \in Seq(Rows)
             /\ states' \in [Runs!Steps -> Runs!States] /\ left' \in Nat /\ ok' \in BOOLEAN
    <2>1. at' \in 1..Len(Order) + 1 /\ good' \in [Runs!Steps -> Nat]
      BY <1>1, RunTypes
    <2>2. QED
      BY <1>1, <1>3, <2>1, RunOver
  <1>4. CASE ~Runs!Startable(Runs!Step)
    <2>1. Runs!Blocked(Runs!Step) /\ UNCHANGED <<states, left, ok>>
      BY <1>4 DEF Runs!StartStep
    <2>2. [step |-> Order[at], state |-> "blocked"] \in Rows
      BY <1>2 DEF Rows
    <2>3. Runs!Result(Runs!Step, "blocked") \in Seq(Rows)
      BY <1>1, <1>2, <2>2 DEF Runs!Result
    <2>4. /\ runPc' = "closing" /\ status' \in Outcomes \ {"finished_ungraded"}
          /\ results' \in Seq(Rows) /\ used' = used
      BY <1>1, <2>1, <2>3 DEF Runs!Blocked, Runs!OutOfTime, Runs!End, Outcomes
    <2>5. left' \in Nat /\ ok' \in BOOLEAN
      BY <2>1, RunTypes
    <2>6. QED
      BY <1>1, <1>3, <2>1, <2>4, <2>5
  <1>5. CASE Runs!Startable(Runs!Step)
    <2>1. /\ states' = [states EXCEPT ![Order[at]] = "executing"]
          /\ left' = Instructions[Order[at]] /\ ok' = FALSE /\ UNCHANGED results
          /\ Runs!Charge("executed", "match") \/ Runs!OutOfTime
      BY <1>2, <1>5 DEF Runs!StartStep
    <2>2. /\ states' \in [Runs!Steps -> Runs!States] /\ left' \in Nat /\ left' > 0
          /\ results' \in Seq(Rows) /\ ok' \in BOOLEAN
      BY <1>1, <1>2, <2>1, OrderedStep DEF Runs!States
    <2>3. CASE Runs!OutOfTime
      <3>1. /\ runPc' = "closing" /\ status' \in Outcomes \ {"finished_ungraded"} /\ used' = used
        BY <2>3 DEF Runs!OutOfTime, Runs!End, Outcomes
      <3>2. QED
        BY <1>1, <1>3, <2>2, <3>1
    <2>4. CASE Runs!Charge("executed", "match")
      <3>1. /\ used' \in [Runs!Counters -> Nat]
            /\ \A d \in Runs!Counters : d # "executed" => used'[d] = used[d]
            /\ \/ runPc' = "closing" /\ status' = "budget_exhausted"
               \/ runPc' = "match" /\ status' = status /\ used'["executed"] <= budget["executed"]
        BY <2>4, ChargeCounts DEF Strict
      <3>2. CASE runPc' = "closing" /\ status' = "budget_exhausted"
        <4>1. status' \in Outcomes \ {"finished_ungraded"}
          BY <3>2 DEF Outcomes
        <4>2. QED
          BY <1>3, <2>2, <3>1, <3>2, <4>1
      <3>3. CASE runPc' = "match" /\ status' = status /\ used'["executed"] <= budget["executed"]
        <4>1. RunTyped'
          BY <1>1, <2>2, <3>1, <3>3 DEF RunInv, RunTyped, Busy, OnStep
        <4>2. RunCharged'
          <5>1. \A c \in Strict : used'[c] <= budget[c]
            BY <1>1, <3>1, <3>3, CounterNames DEF RunCharged, Busy
          <5>2. QED
            BY <1>1, <3>3, <5>1 DEF RunCharged
        <4>3. RunCarries'
          <5>1. Behind(at, states', good, results)
            <6>1. Behind(at, states, good, results)
              BY <1>1 DEF RunCarries, Busy
            <6>2. \A i \in 1..Len(Order) : i < at => states'[Order[i]] = states[Order[i]]
              BY <1>1, <2>1, PlanFacts
            <6>3. QED
              BY <6>1, <6>2 DEF Behind
          <5>2. \A i \in 1..Len(Order) : i >= at => good[Order[i]] = 0
            BY <1>1 DEF RunCarries
          <5>3. /\ good[Order[at]] = 0 /\ Instructions[Order[at]] \in Nat
            BY <1>1, <5>2, OrderedStep
          <5>4. good[Order[at]] + left' = Instructions[Order[at]]
            BY <2>1, <5>3
          <5>5. \A i \in 1..Len(Order) : i > at => good[Order[i]] = 0
            BY <1>1, <5>2
          <5>6. at <= Len(Order)
            BY <1>1
          <5>7. QED
            BY <1>1, <2>1, <2>2, <3>3, <5>1, <5>4, <5>5, <5>6 DEF RunCarries, Busy, OnStep
        <4>4. RunFinished'
          BY <1>1, <3>3 DEF RunFinished, Busy
        <4>5. QED
          BY <3>3, <4>1, <4>2, <4>3, <4>4 DEF RunInv
      <3>4. QED
        BY <3>1, <3>2, <3>3
    <2>5. QED
      BY <2>1, <2>3, <2>4
  <1>6. QED
    BY <1>4, <1>5

\* A tool that is matched has room for its action, and its match is within the limit.
LEMMA MatchCounts ==
    ASSUME RunInv, runPc \in Busy, NEW next, Runs!Match(next)
    PROVE  /\ used' \in [Runs!Counters -> Nat]
           /\ \/ runPc' = "closing" /\ status' \in Outcomes \ {"finished_ungraded"}
              \/ /\ runPc' = next /\ status' = status
                 /\ \A c \in Strict : used'[c] <= budget[c]
                 /\ used'["matches"] <= budget["matches"]
  <1>1. /\ used \in [Runs!Counters -> Nat] /\ budget \in [Runs!Counters -> Nat]
        /\ \A c \in Strict : used[c] <= budget[c]
    BY RunTypes DEF RunCharged
  <1> DEFINE u == Runs!Plus(used, "matches")
             v == Runs!Plus(u, "actions")
  <1>2. u = Runs!Plus(used, "matches") /\ v = Runs!Plus(u, "actions")
    OBVIOUS
  <1>3. \/ Runs!Reject
        \/ Runs!OutOfTime
        \/ used' = u /\ (Runs!End("budget_exhausted") \/ Runs!End("failed"))
        \/ /\ used["actions"] < budget["actions"] /\ ~(u["matches"] > budget["matches"])
           /\ used' = v /\ Runs!Go(next)
    BY DEF Runs!Match, Runs!Exceeds, Runs!CanAct
  <1> HIDE DEF u, v
  <1>4. /\ u \in [Runs!Counters -> Nat]
        /\ \A d \in Runs!Counters : d # "matches" => u[d] = used[d]
    <2>1. u = Runs!Plus(used, "matches")
      BY <1>2
    <2>2. QED
      BY <1>1, <2>1, PlusAdds, CounterNames
  <1>5. /\ v \in [Runs!Counters -> Nat] /\ v["actions"] = u["actions"] + 1
        /\ \A d \in Runs!Counters : d # "actions" => v[d] = u[d]
    <2>1. v = Runs!Plus(u, "actions")
      BY <1>2
    <2>2. QED
      BY <1>4, <2>1, PlusAdds, CounterNames
  <1>6. CASE Runs!Reject
    BY <1>1, <1>6, RejectedCounts DEF Runs!Reject, Runs!End, Outcomes
  <1>7. CASE Runs!OutOfTime
    BY <1>1, <1>7 DEF Runs!OutOfTime, Runs!End, Outcomes
  <1>8. CASE used' = u /\ (Runs!End("budget_exhausted") \/ Runs!End("failed"))
    BY <1>4, <1>8 DEF Runs!End, Outcomes
  <1>9. CASE /\ used["actions"] < budget["actions"] /\ ~(u["matches"] > budget["matches"])
             /\ used' = v /\ Runs!Go(next)
    <2>1. v["matches"] = u["matches"] /\ u["matches"] \in Nat /\ budget["matches"] \in Nat
      BY <1>1, <1>4, <1>5, CounterNames
    <2>2. v["matches"] <= budget["matches"]
      BY <1>9, <2>1
    <2>3. used["actions"] \in Nat /\ budget["actions"] \in Nat /\ u["actions"] = used["actions"]
      BY <1>1, <1>4, CounterNames
    <2>4. v["actions"] <= budget["actions"]
      BY <1>5, <1>9, <2>3
    <2>5. \A c \in Strict : v[c] <= budget[c]
      BY <1>1, <1>4, <1>5, <2>4, CounterNames
    <2>6. QED
      BY <1>5, <1>9, <2>2, <2>5 DEF Runs!Go
  <1>10. QED
    BY <1>3, <1>6, <1>7, <1>8, <1>9

LEMMA RunMatchInstruction == ASSUME RunInv, Runs!MatchInstruction PROVE RunInv'
  <1>1. /\ runPc = "match" /\ Runs!Match("acting")
        /\ UNCHANGED <<budget, scenario, states, at, left, ok, results, runSession, good, runLost>>
        /\ RunCarries /\ RunFinished /\ runSession \in {"none", "open", "closed"}
        /\ runLost \in BOOLEAN
    BY RunTypes DEF Runs!MatchInstruction
  <1>2. /\ used' \in [Runs!Counters -> Nat]
        /\ \/ runPc' = "closing" /\ status' \in Outcomes \ {"finished_ungraded"}
           \/ /\ runPc' = "acting" /\ status' = status
              /\ \A c \in Strict : used'[c] <= budget[c]
              /\ used'["matches"] <= budget["matches"]
    BY <1>1, MatchCounts DEF Busy, OnStep
  <1>3. CASE runPc' = "closing" /\ status' \in Outcomes \ {"finished_ungraded"}
    <2>1. runSession' \in {"none", "open", "closed"} /\ runLost' \in BOOLEAN
      BY <1>1
    <2>2. QED
      BY <1>1, <1>2, <1>3, <2>1, RunStops
  <1>4. CASE /\ runPc' = "acting" /\ status' = status
             /\ \A c \in Strict : used'[c] <= budget[c]
             /\ used'["matches"] <= budget["matches"]
    <2>1. RunTyped'
      BY <1>1, <1>2, <1>4 DEF RunInv, RunTyped, Busy, OnStep
    <2>2. RunCharged'
      BY <1>1, <1>4 DEF RunCharged
    <2>3. RunCarries'
      BY <1>1, <1>4 DEF RunCarries, Busy, OnStep
    <2>4. RunFinished'
      BY <1>1, <1>4 DEF RunFinished, Busy, OnStep
    <2>5. QED
      BY <1>4, <2>1, <2>2, <2>3, <2>4 DEF RunInv
  <1>5. QED
    BY <1>2, <1>3, <1>4

LEMMA RunMatchFinish == ASSUME RunInv, Runs!MatchFinish PROVE RunInv'
  <1>1. /\ runPc = "final" /\ Runs!Match("finishing")
        /\ UNCHANGED <<budget, scenario, states, at, left, ok, results, runSession, good, runLost>>
        /\ RunCarries /\ RunFinished /\ runSession \in {"none", "open", "closed"}
        /\ runLost \in BOOLEAN
    BY RunTypes DEF Runs!MatchFinish
  <1>2. /\ used' \in [Runs!Counters -> Nat]
        /\ \/ runPc' = "closing" /\ status' \in Outcomes \ {"finished_ungraded"}
           \/ /\ runPc' = "finishing" /\ status' = status
              /\ \A c \in Strict : used'[c] <= budget[c]
              /\ used'["matches"] <= budget["matches"]
    BY <1>1, MatchCounts DEF Busy
  <1>3. CASE runPc' = "closing" /\ status' \in Outcomes \ {"finished_ungraded"}
    <2>1. runSession' \in {"none", "open", "closed"} /\ runLost' \in BOOLEAN
      BY <1>1
    <2>2. QED
      BY <1>1, <1>2, <1>3, <2>1, RunStops
  <1>4. CASE /\ runPc' = "finishing" /\ status' = status
             /\ \A c \in Strict : used'[c] <= budget[c]
             /\ used'["matches"] <= budget["matches"]
    <2>1. RunTyped'
      BY <1>1, <1>2, <1>4 DEF RunInv, RunTyped, Busy
    <2>2. RunCharged'
      BY <1>1, <1>4 DEF RunCharged
    <2>3. RunCarries'
      BY <1>1, <1>4 DEF RunCarries, Busy, OnStep
    <2>4. RunFinished'
      BY <1>1, <1>4 DEF RunFinished, Busy
    <2>5. QED
      BY <1>4, <2>1, <2>2, <2>3, <2>4 DEF RunInv
  <1>5. QED
    BY <1>2, <1>3, <1>4

LEMMA RunCallFails == ASSUME RunInv, Runs!CallFails PROVE RunInv'
  <1>1. /\ UNCHANGED <<budget, scenario, used, states, at, left, ok, results, good, runLost>>
        /\ runPc' = "closing" /\ status' \in Outcomes \ {"finished_ungraded"}
        /\ runSession' \in IF runSession = "open" THEN {"open", "closed"} ELSE {runSession}
    BY DEF Runs!CallFails, Runs!End, Outcomes
  <1>2. /\ runSession' \in {"none", "open", "closed"} /\ runLost' \in BOOLEAN
        /\ used' \in [Runs!Counters -> Nat]
    BY <1>1, RunTypes
  <1>3. QED
    BY <1>1, <1>2, RunStops

LEMMA RunPageUnknown == ASSUME RunInv, Runs!PageUnknown PROVE RunInv'
  <1>1. /\ UNCHANGED <<budget, scenario, used, states, at, left, ok, results, runSession, good,
                       runLost>>
        /\ runPc' = "closing" /\ status' \in Outcomes \ {"finished_ungraded"}
    BY DEF Runs!PageUnknown, Runs!End, Outcomes
  <1>2. /\ runSession' \in {"none", "open", "closed"} /\ runLost' \in BOOLEAN
        /\ used' \in [Runs!Counters -> Nat]
    BY <1>1, RunTypes
  <1>3. QED
    BY <1>1, <1>2, RunStops

LEMMA RunCancel == ASSUME RunInv, Runs!Cancel PROVE RunInv'
  <1>1. /\ UNCHANGED <<budget, scenario, used, states, at, left, ok, results, good>>
        /\ runPc' \in {"closing", "ended"} /\ status' \in Outcomes \ {"finished_ungraded"}
        /\ runPc' = "ended" => runLost'
    BY DEF Runs!Cancel, Outcomes
  <1>2. /\ runSession' \in {"none", "open", "closed"} /\ runLost' \in BOOLEAN
        /\ used' \in [Runs!Counters -> Nat]
    BY <1>1, RunTypes DEF Runs!Cancel
  <1>3. QED
    BY <1>1, <1>2, RunStops

LEMMA RunClose == ASSUME RunInv, Runs!Close PROVE RunInv'
  <1>1. /\ runPc = "closing" /\ runPc' = "ended"
        /\ UNCHANGED <<budget, scenario, used, states, at, left, ok, results, status, good>>
        /\ \/ runSession' = "closed" /\ UNCHANGED runLost
           \/ runSession = "open" /\ runLost' = TRUE /\ UNCHANGED runSession
    BY DEF Runs!Close
  <1>2. RunTyped'
    BY <1>1 DEF RunInv, RunTyped
  <1>3. RunCharged' /\ RunCarries'
    BY <1>1 DEF RunCharged, RunCarries, Busy, OnStep
  <1>4. RunFinished'
    BY <1>1 DEF RunInv, RunFinished, Busy, OnStep
  <1>5. QED
    BY <1>1, <1>2, <1>3, <1>4 DEF RunInv

LEMMA RunExpire == ASSUME RunInv, Runs!Expire PROVE RunInv'
  <1>1. /\ runSession = "open" /\ runSession' = "closed"
        /\ UNCHANGED <<budget, scenario, runPc, used, states, at, left, ok, results, status, good,
                       runLost>>
    BY DEF Runs!Expire
  <1>2. RunTyped' /\ RunCharged' /\ RunCarries' /\ RunFinished'
    BY <1>1 DEF RunInv, RunTyped, RunCharged, RunCarries, RunFinished
  <1>3. QED
    BY <1>1, <1>2 DEF RunInv

LEMMA RunFinish == ASSUME RunInv, Runs!Finish PROVE RunInv'
  <1>1. /\ runPc = "finishing" /\ runSession = "open" /\ runPc' = "closing"
        /\ UNCHANGED <<budget, scenario, used, states, at, left, ok, results, good, runLost>>
        /\ \/ status' = "finished_ungraded" /\ runSession' = "closed"
           \/ status' = "failed" /\ runSession' \in {"open", "closed"}
    BY DEF Runs!Finish, Runs!End
  <1>2. RunTyped'
    BY <1>1 DEF RunInv, RunTyped, Outcomes
  <1>3. RunCharged' /\ RunCarries'
    BY <1>1 DEF RunCharged, RunCarries, Busy, OnStep
  <1>4. RunFinished'
    BY <1>1 DEF RunInv, RunFinished, RunCarries, Busy, OnStep
  <1>5. QED
    BY <1>1, <1>2, <1>3, <1>4 DEF RunInv

LEMMA RunObserve == ASSUME RunInv, Runs!Observe PROVE RunInv'
  <1>1. /\ runPc = "observing"
        /\ UNCHANGED <<budget, scenario, states, at, left, ok, results, runSession, good, runLost>>
        /\ RunCharged /\ RunCarries /\ RunFinished /\ runSession \in {"none", "open", "closed"}
        /\ runLost \in BOOLEAN /\ used \in [Runs!Counters -> Nat]
        /\ Runs!Charge("doms", "verify") \/ Runs!OutOfTime
    BY RunTypes DEF Runs!Observe
  <1>2. CASE /\ runPc' = "closing" /\ status' \in Outcomes \ {"finished_ungraded"}
             /\ used' \in [Runs!Counters -> Nat]
    <2>1. runSession' \in {"none", "open", "closed"} /\ runLost' \in BOOLEAN
      BY <1>1
    <2>2. QED
      BY <1>1, <1>2, <2>1, RunStops
  <1>3. CASE Runs!OutOfTime
    BY <1>1, <1>2, <1>3 DEF Runs!OutOfTime, Runs!End, Outcomes
  <1>4. CASE Runs!Charge("doms", "verify")
    <2>1. /\ used' \in [Runs!Counters -> Nat]
          /\ \A d \in Runs!Counters : d # "doms" => used'[d] = used[d]
          /\ \/ runPc' = "closing" /\ status' = "budget_exhausted"
             \/ runPc' = "verify" /\ status' = status /\ used'["doms"] <= budget["doms"]
      BY <1>4, ChargeCounts DEF Strict
    <2>2. CASE runPc' = "closing" /\ status' = "budget_exhausted"
      BY <1>2, <2>1, <2>2 DEF Outcomes
    <2>3. CASE runPc' = "verify" /\ status' = status /\ used'["doms"] <= budget["doms"]
      <3>1. RunTyped'
        BY <1>1, <2>1, <2>3 DEF RunInv, RunTyped, Busy, OnStep
      <3>2. \A c \in Strict : used'[c] <= budget[c]
        BY <1>1, <2>1, <2>3, CounterNames DEF RunCharged, Busy, OnStep
      <3>3. RunCharged'
        BY <1>1, <2>3, <3>2 DEF RunCharged
      <3>4. RunCarries'
        BY <1>1, <2>3 DEF RunCarries, Busy, OnStep
      <3>5. RunFinished'
        BY <1>1, <2>3 DEF RunFinished, Busy, OnStep
      <3>6. QED
        BY <2>3, <3>1, <3>3, <3>4, <3>5 DEF RunInv
    <2>4. QED
      BY <2>1, <2>2, <2>3
  <1>5. QED
    BY <1>1, <1>3, <1>4

LEMMA RunAct == ASSUME RunInv, Runs!Act PROVE RunInv'
  <1>1. /\ runPc = "acting" /\ UNCHANGED <<budget, scenario, states, at, results, runLost>>
        /\ RunCharged /\ RunCarries /\ RunFinished /\ runSession = "open"
        /\ runLost \in BOOLEAN /\ used \in [Runs!Counters -> Nat] /\ good \in [Runs!Steps -> Nat]
        /\ states \in [Runs!Steps -> Runs!States] /\ results \in Seq(Rows)
        /\ left \in Nat /\ left > 0 /\ ok \in BOOLEAN
    BY RunTypes DEF Runs!Act, RunCarries
  <1>2. at \in 1..Len(Order)
    <2>1. at <= Len(Order) /\ at \in 1..Len(Order) + 1
      BY <1>1, RunTypes DEF RunCarries, OnStep
    <2>2. QED
      BY <2>1, OrderLength
  <1>3. /\ Runs!Step = Order[at] /\ Order[at] \in Runs!Steps /\ Instructions[Order[at]] \in Nat
        /\ good[Order[at]] \in Nat
    BY <1>1, <1>2, OrderedStep DEF Runs!Step
  <1>4. CASE /\ runPc' = "closing" /\ status' \in Outcomes \ {"finished_ungraded"}
             /\ used' \in [Runs!Counters -> Nat] /\ runSession' \in {"open", "closed"}
             /\ left' \in Nat /\ ok' \in BOOLEAN /\ good' \in [Runs!Steps -> Nat]
    <2>1. /\ at' \in 1..Len(Order) + 1 /\ states' \in [Runs!Steps -> Runs!States]
          /\ results' \in Seq(Rows) /\ runLost' \in BOOLEAN
      BY <1>1, RunTypes
    <2>2. QED
      BY <1>1, <1>4, <2>1, RunOver
  <1>5. CASE /\ Runs!End("failed") /\ runSession' = "closed" /\ UNCHANGED <<used, ok, left, good>>
    <2>1. /\ runPc' = "closing" /\ status' \in Outcomes \ {"finished_ungraded"}
          /\ used' = used /\ ok' = ok /\ left' = left /\ good' = good
      BY <1>5 DEF Runs!End, Outcomes
    <2>2. QED
      BY <1>1, <1>4, <1>5, <2>1
  <1>6. ASSUME UNCHANGED runSession, NEW success \in BOOLEAN, ok' = success, left' = left - 1,
               good' = IF success THEN [good EXCEPT ![Runs!Step] = @ + 1] ELSE good,
               \/ Runs!Charge("doms", IF Runs!Continues(success) THEN "match"
                                      ELSE IF at = 1 THEN "observing" ELSE "verify")
               \/ Runs!OutOfTime
        PROVE  RunInv'
    <2>1. /\ left' \in Nat /\ ok' \in BOOLEAN /\ good' \in [Runs!Steps -> Nat]
          /\ runSession' \in {"open", "closed"}
      BY <1>1, <1>3, <1>6
    <2>2. /\ \A s \in Runs!Steps : s # Order[at] => good'[s] = good[s]
          /\ success => good'[Order[at]] = good[Order[at]] + 1
      BY <1>1, <1>3, <1>6
    <2>3. CASE Runs!OutOfTime
      <3>1. used' = used /\ runPc' = "closing" /\ status' \in Outcomes \ {"finished_ungraded"}
        BY <2>3 DEF Runs!OutOfTime, Runs!End, Outcomes
      <3>2. QED
        BY <1>1, <1>4, <2>1, <3>1
    <2>4. ASSUME NEW next,
                 next = IF Runs!Continues(success) THEN "match"
                        ELSE IF at = 1 THEN "observing" ELSE "verify",
                 Runs!Charge("doms", next)
          PROVE  RunInv'
      <3>1. /\ used' \in [Runs!Counters -> Nat]
            /\ \A d \in Runs!Counters : d # "doms" => used'[d] = used[d]
            /\ \/ runPc' = "closing" /\ status' = "budget_exhausted"
               \/ runPc' = next /\ status' = status /\ used'["doms"] <= budget["doms"]
        BY <2>4, ChargeCounts DEF Strict
      <3>2. CASE runPc' = "closing" /\ status' = "budget_exhausted"
        <4>1. status' \in Outcomes \ {"finished_ungraded"}
          BY <3>2 DEF Outcomes
        <4>2. QED
          BY <1>4, <2>1, <3>1, <3>2, <4>1
      <3>3. CASE runPc' = next /\ status' = status /\ used'["doms"] <= budget["doms"]
        <4>1. next \in {"match", "observing", "verify"}
          BY <2>4
        <4>2. RunTyped'
          BY <1>1, <2>1, <3>1, <3>3, <4>1 DEF RunInv, RunTyped, Busy, OnStep
        <4>3. \A c \in Strict : used'[c] <= budget[c]
          BY <1>1, <3>1, <3>3, CounterNames DEF RunCharged, Busy, OnStep
        <4>4. RunCharged'
          BY <1>1, <3>3, <4>1, <4>3 DEF RunCharged
        <4>5. \A i \in 1..Len(Order) : i # at => good'[Order[i]] = good[Order[i]]
          BY <1>2, <2>2, PlanFacts
        <4>6. Behind(at, states, good', results)
          <5>1. Behind(at, states, good, results)
            BY <1>1 DEF RunCarries, Busy, OnStep
          <5>2. \A i \in 1..Len(Order) : i < at => good'[Order[i]] = good[Order[i]]
            BY <1>2, <4>5
          <5>3. QED
            BY <5>1, <5>2 DEF Behind
        <4>7. \A i \in 1..Len(Order) : i > at => good'[Order[i]] = 0
          <5>1. \A i \in 1..Len(Order) : i > at => good[Order[i]] = 0
            BY <1>1 DEF RunCarries, OnStep
          <5>2. QED
            BY <1>2, <4>5, <5>1
        <4>8. good[Order[at]] + left = Instructions[Order[at]]
          BY <1>1 DEF RunCarries
        <4>9. next = "match" => left' > 0 /\ good'[Order[at]] + left' = Instructions[Order[at]]
          <5>1. next = "match" => success /\ left > 1
            BY <2>4 DEF Runs!Continues
          <5>2. QED
            BY <1>1, <1>3, <1>6, <2>2, <4>8, <5>1
        <4>10. next \in {"observing", "verify"} =>
                  (ok' => good'[Order[at]] = Instructions[Order[at]])
          <5>1. next \in {"observing", "verify"} => ~success \/ ~(left > 1)
            BY <2>4 DEF Runs!Continues
          <5>2. ~(left > 1) => left = 1
            BY <1>1
          <5>3. QED
            BY <1>1, <1>3, <1>6, <2>2, <4>8, <5>1, <5>2
        <4>11. at <= Len(Order)
          BY <1>2
        <4>12. RunCarries'
          BY <1>1, <3>3, <4>1, <4>6, <4>7, <4>9, <4>10, <4>11 DEF RunCarries, Busy, OnStep
        <4>13. RunFinished'
          BY <1>1, <3>3, <4>1 DEF RunFinished, Busy, OnStep
        <4>14. QED
          BY <3>3, <4>1, <4>2, <4>4, <4>12, <4>13 DEF RunInv
      <3>4. QED
        BY <3>1, <3>2, <3>3
    <2>5. QED
      BY <1>6, <2>3, <2>4
  <1>7. QED
    BY <1>5, <1>6 DEF Runs!Act

LEMMA RunVerify == ASSUME RunInv, Runs!Verify PROVE RunInv'
  <1>1. /\ runPc = "verify" /\ UNCHANGED <<budget, scenario, left, ok, runSession, good, runLost>>
        /\ RunCharged /\ RunCarries /\ RunFinished /\ runSession \in {"none", "open", "closed"}
        /\ runLost \in BOOLEAN /\ used \in [Runs!Counters -> Nat] /\ good \in [Runs!Steps -> Nat]
        /\ states \in [Runs!Steps -> Runs!States] /\ results \in Seq(Rows)
        /\ budget \in [Runs!Counters -> Nat]
    BY RunTypes DEF Runs!Verify
  <1>2. at \in 1..Len(Order)
    <2>1. at <= Len(Order) /\ at \in 1..Len(Order) + 1
      BY <1>1, RunTypes DEF RunCarries, OnStep
    <2>2. QED
      BY <2>1, OrderLength
  <1>3. Runs!Step = Order[at] /\ Order[at] \in Runs!Steps
    BY <1>2, OrderedStep DEF Runs!Step
  <1> DEFINE u == Runs!Plus(used, "verifiers")
  <1>4. u = Runs!Plus(used, "verifiers")
    OBVIOUS
  <1>5. \/ /\ "verified" \in Runs!Verdicts(u)
           /\ used' = u /\ states' = [states EXCEPT ![Order[at]] = "verified"]
           /\ results' = Append(results, [step |-> Order[at], state |-> "verified"])
           /\ at' = at + 1
           /\ runPc' = (IF at = Len(Order) THEN "final" ELSE "step") /\ status' = status
        \/ /\ states' = [states EXCEPT ![Order[at]] = "failed"] /\ at' = at
           /\ runPc' = "closing" /\ status' \in Outcomes \ {"finished_ungraded"}
           /\ used' \in {used, u}
           /\ results' \in {results, Append(results, [step |-> Order[at], state |-> "failed"])}
    BY <1>3 DEF Runs!Verify, Runs!End, Runs!Go, Runs!Result, Outcomes
  <1> HIDE DEF u
  <1>6. /\ u \in [Runs!Counters -> Nat] /\ u["verifiers"] \in Nat
        /\ \A d \in Runs!Counters : d # "verifiers" => u[d] = used[d]
    <2>1. "verifiers" \in Runs!Counters /\ used \in [Runs!Counters -> Nat]
      BY <1>1, CounterNames
    <2>2. /\ u \in [Runs!Counters -> Nat]
          /\ \A d \in Runs!Counters : d # "verifiers" => u[d] = used[d]
      BY <1>4, <2>1, PlusAdds
    <2>3. QED
      BY <2>1, <2>2
  <1>7. CASE /\ states' = [states EXCEPT ![Order[at]] = "failed"] /\ at' = at
             /\ runPc' = "closing" /\ status' \in Outcomes \ {"finished_ungraded"}
             /\ used' \in {used, u}
             /\ results' \in {results, Append(results, [step |-> Order[at], state |-> "failed"])}
    <2>1. states' \in [Runs!Steps -> Runs!States]
      BY <1>1, <1>3, <1>7 DEF Runs!States
    <2>2. results' \in Seq(Rows)
      <3>1. [step |-> Order[at], state |-> "failed"] \in Rows
        BY <1>3 DEF Rows
      <3>2. Append(results, [step |-> Order[at], state |-> "failed"]) \in Seq(Rows)
        BY <1>1, <3>1
      <3>3. QED
        BY <1>1, <1>7, <3>2
    <2>3. /\ at' \in 1..Len(Order) + 1 /\ left' \in Nat /\ good' \in [Runs!Steps -> Nat]
          /\ ok' \in BOOLEAN /\ used' \in [Runs!Counters -> Nat]
          /\ runSession' \in {"none", "open", "closed"} /\ runLost' \in BOOLEAN
      BY <1>1, <1>6, <1>7, RunTypes
    <2>4. QED
      BY <1>1, <1>7, <2>1, <2>2, <2>3, RunOver
  <1>8. CASE /\ "verified" \in Runs!Verdicts(u)
             /\ used' = u /\ states' = [states EXCEPT ![Order[at]] = "verified"]
             /\ results' = Append(results, [step |-> Order[at], state |-> "verified"])
             /\ at' = at + 1
             /\ runPc' = (IF at = Len(Order) THEN "final" ELSE "step") /\ status' = status
    <2>1. ok /\ ~(u["verifiers"] > budget["verifiers"])
      BY <1>8 DEF Runs!Verdicts, Runs!Exceeds
    <2>2. states' \in [Runs!Steps -> Runs!States]
      BY <1>1, <1>3, <1>8 DEF Runs!States
    <2>3. /\ results' \in Seq(Rows) /\ Len(results') = Len(results) + 1
          /\ \A i \in 1..Len(results) : results'[i] = results[i]
          /\ results'[Len(results) + 1].step = Order[at] /\ Len(results) \in Nat
      <3>1. [step |-> Order[at], state |-> "verified"] \in Rows
        BY <1>3 DEF Rows
      <3>2. QED
        BY <1>1, <1>8, <3>1
    <2>4. at' \in 1..Len(Order) + 1 /\ at \in Nat /\ at > 0
      BY <1>2, <1>8, OrderLength
    <2>5. runPc' \in {"final", "step"}
      BY <1>8
    <2>6. RunTyped'
      BY <1>1, <1>6, <1>8, <2>2, <2>3, <2>4, <2>5 DEF RunInv, RunTyped, Busy
    <2>7. \A c \in Strict : used'[c] <= budget[c]
      <3>1. budget["verifiers"] \in Nat
        BY <1>1, CounterNames
      <3>2. u["verifiers"] <= budget["verifiers"]
        BY <1>6, <2>1, <3>1
      <3>3. QED
        BY <1>1, <1>6, <1>8, <3>2, CounterNames DEF RunCharged, Busy, OnStep
    <2>8. RunCharged'
      BY <1>1, <2>5, <2>7 DEF RunCharged
    <2>9. Behind(at, states, good, results) /\ good[Order[at]] = Instructions[Order[at]]
      BY <1>1, <2>1 DEF RunCarries, Busy, OnStep
    <2>10. Behind(at', states', good, results')
      <3>1. Len(results) = at - 1
        BY <2>9 DEF Behind
      <3>2. Len(results') = at' - 1
        BY <1>8, <2>3, <2>4, <3>1
      <3>3. ASSUME NEW i \in 1..Len(Order), i < at + 1
            PROVE  /\ states'[Order[i]] = "verified" /\ good[Order[i]] = Instructions[Order[i]]
                   /\ results'[i].step = Order[i]
        <4>1. CASE i = at
          <5>1. states'[Order[at]] = "verified"
            BY <1>1, <1>3, <1>8
          <5>2. results'[at].step = Order[at]
            BY <2>3, <2>4, <3>1
          <5>3. QED
            BY <2>9, <4>1, <5>1, <5>2
        <4>2. CASE i # at
          <5>1. i < at /\ i \in 1..Len(results)
            BY <2>4, <3>1, <3>3, <4>2
          <5>2. Order[i] # Order[at] /\ Order[i] \in Runs!Steps
            BY <1>2, <4>2, PlanFacts
          <5>3. states'[Order[i]] = states[Order[i]]
            BY <1>1, <1>8, <5>2
          <5>4. QED
            BY <2>3, <2>9, <5>1, <5>3 DEF Behind
        <4>3. QED
          BY <4>1, <4>2
      <3>4. QED
        BY <1>8, <3>2, <3>3 DEF Behind
    <2>11. runPc' = "step" => at' <= Len(Order)
      BY <1>2, <1>8, OrderLength
    <2>12. runPc' = "final" => at' = Len(Order) + 1
      BY <1>8
    <2>13. \A i \in 1..Len(Order) : i >= at' => good[Order[i]] = 0
      <3>1. \A i \in 1..Len(Order) : i > at => good[Order[i]] = 0
        BY <1>1 DEF RunCarries, OnStep
      <3>2. QED
        BY <1>8, <2>4, <3>1
    <2>14. RunCarries'
      BY <1>1, <2>5, <2>10, <2>11, <2>12, <2>13 DEF RunCarries, Busy, OnStep
    <2>15. RunFinished'
      BY <1>1, <1>8, <2>5 DEF RunFinished, Busy, OnStep
    <2>16. QED
      BY <2>5, <2>6, <2>8, <2>14, <2>15 DEF RunInv
  <1>9. QED
    BY <1>5, <1>7, <1>8

LEMMA RunStep == RunInv /\ [Runs!Next]_planningVars => RunInv'
  <1> SUFFICES ASSUME RunInv, [Runs!Next]_planningVars PROVE RunInv'
    OBVIOUS
  <1>1. CASE UNCHANGED planningVars
    BY <1>1 DEF planningVars, RunInv, RunTyped, RunCharged, RunCarries, RunFinished
  <1>2. CASE Runs!Next
    BY <1>2, RunGenerate, RunCreate, RunBegin, RunStartStep, RunMatchInstruction,
       RunMatchFinish, RunCallFails, RunAct, RunObserve, RunVerify, RunPageUnknown, RunFinish,
       RunClose, RunCancel, RunExpire DEF Runs!Next
  <1>3. QED
    BY <1>1, <1>2

LEMMA RunMoves == [AllNext]_allVars => [Runs!Next]_planningVars
  BY DEF AllNext, allVars, planningVars

\* The charges, the steps carried through and the session of a planning run.
THEOREM RunInvariantHolds == AllSpec => []RunInv
  <1>1. AllInit => RunInv
    BY RunStart DEF AllInit
  <1>2. RunInv /\ [AllNext]_allVars => RunInv'
    BY RunStep, RunMoves
  <1>3. QED
    BY <1>1, <1>2, PTL DEF AllSpec

\* A planning run that finishes has had every instruction of every step succeed and
\* every step verified, in the order of the plan (executor.py).
THEOREM FinishedAlwaysMeansDone == AllSpec => []FinishedMeansDone
  <1>1. RunInv => FinishedMeansDone
    <2> SUFFICES ASSUME RunInv, status = "finished_ungraded", scenario # "finish_immediately"
                 PROVE  /\ \A s \in Runs!Steps :
                              states[s] = "verified" /\ good[s] = Instructions[s]
                        /\ [i \in DOMAIN results |-> results[i].step] = Order
      BY DEF FinishedMeansDone, Runs!FinishedMeansDone
    <2>1. at = Len(Order) + 1 /\ Behind(at, states, good, results) /\ results \in Seq(Rows)
      BY RunTypes DEF RunFinished
    <2>2. \A i \in 1..Len(Order) : i < at
      BY <2>1, OrderLength
    <2>3. \A i \in 1..Len(Order) :
             /\ states[Order[i]] = "verified" /\ good[Order[i]] = Instructions[Order[i]]
             /\ results[i].step = Order[i]
      BY <2>1, <2>2 DEF Behind
    <2>4. \A s \in Runs!Steps : states[s] = "verified" /\ good[s] = Instructions[s]
      <3>1. \A s \in Runs!Steps : \E i \in 1..Len(Order) : Order[i] = s
        BY PlanFacts
      <3>2. QED
        BY <2>3, <3>1
    <2>5. DOMAIN results = 1..Len(Order)
      <3>1. Len(results) = Len(Order)
        BY <2>1, OrderLength DEF Behind
      <3>2. DOMAIN results = 1..Len(results)
        BY <2>1
      <3>3. QED
        BY <3>1, <3>2
    <2>6. Order = [i \in 1..Len(Order) |-> Order[i]]
      <3>1. Order \in Seq(Runs!Steps)
        BY PlanFacts
      <3>2. QED
        BY <3>1
    <2>7. [i \in DOMAIN results |-> results[i].step] = Order
      BY <2>3, <2>5, <2>6
    <2>8. QED
      BY <2>4, <2>7
  <1>2. QED
    BY <1>1, RunInvariantHolds, PTL

\* No run of an agent or of the executor leaves a browser session behind, by any of its
\* ends, unless a call of the worker was lost (loop.py, executor.py).
THEOREM NoBrowserIsLeft == AllSpec => []NoBrowserLeft
  <1>1. AgentInv /\ RunInv => NoBrowserLeft
    BY DEF AgentInv, RunInv, NoBrowserLeft, NoSessionLeft, Runs!RunLeavesNoSession
  <1>2. QED
    BY <1>1, AgentInvariantHolds, RunInvariantHolds, PTL

\* Nothing is sent to the worker on the credit of an exceeded limit, neither by an
\* agent nor by the executor (loop.py, budget.py).
THEOREM BudgetsAlwaysHold == AllSpec => []BudgetsHold
  <1>1. AgentInv => NothingBeyondBudget
    <2> SUFFICES ASSUME AgentInv PROVE NothingBeyondBudget
      OBVIOUS
    <2>1. ASSUME pc = "acting"
          PROVE  run.tokens <= MaxTokens /\ run.calls <= MaxCalls /\ run.steps < MaxSteps
                 /\ Affordable(run)
      <3>1. /\ WithinBudgets(run, streak.count, maxPixels) /\ Reserved("acting", run, maxPixels)
            /\ Spent(run, streak.count, maxPixels)
        BY <2>1, AgentStands
      <3>2. QED
        BY <3>1 DEF WithinBudgets, Reserved, Spent, Affordable
    <2>2. kind # "dom" => streak.count <= MaxRepeated
      BY DEF AgentInv, Counted
    <2>3. QED
      BY <2>1, <2>2 DEF NothingBeyondBudget
  <1>2. RunInv => Runs!LedgerHolds
    <2> SUFFICES ASSUME RunInv, runPc \in {"acting", "finishing"},
                        NEW c \in Runs!Counters \ {"rejections"}
                 PROVE  used[c] <= budget[c]
      BY DEF Runs!LedgerHolds
    <2>1. RunCharged /\ runPc \in Busy
      BY RunTypes DEF Busy, OnStep
    <2>2. c = "matches" \/ c \in Strict
      BY DEF Runs!Counters, Strict
    <2>3. QED
      BY <2>1, <2>2 DEF RunCharged
  <1>3. AgentInv /\ RunInv => BudgetsHold
    BY <1>1, <1>2 DEF BudgetsHold
  <1>4. QED
    BY <1>3, AgentInvariantHolds, RunInvariantHolds, PTL

-----------------------------------------------------------------------------
(* Identity.                                                               *)

LEMMA IdentityFacts ==
    /\ Home \in [Identities!Rows -> Orgs] /\ \A o \in Orgs : Home[o] = o /\ o \in Identities!Rows
    /\ Member \in [Memberships -> Users]
    /\ Memories \subseteq Identities!Rows /\ Users \subseteq Identities!Rows
    /\ Memberships \subseteq Identities!Rows
    /\ \A x \in DOMAIN FirstRows : FirstRows[x] \in Identities!Roles \cup Values
    /\ Claims \subseteq Identities!Roles /\ FirstKids \subseteq Kids
    /\ MaxFetches \in Nat /\ MaxWrites \in Nat
  BY IdentityAssumption DEF IdentityAssumption, Identities!Rows, Identities!Roles

\* A row changes with its version: it comes to be, or stays, or is disabled for good.
Moved(a, b) ==
    /\ b.version = a.version + 1 /\ b.status # "none"
    /\ a.status \in {"none", "active"} \/ b.status = a.status

\* What is known of the user of a request that is worked on.
Known(q, rows) ==
    q.pc # "idle" =>
        /\ q.user \in Users /\ rows[q.user].status # "none"
        /\ q.late => rows[q.user].status # "active"
        /\ q.pc = "resolved" => ~q.late
        /\ q.pc \in {"received", "verified"} => q.claim \in Identities!Roles

\* An ETag that a write was accepted with names a version of the past.
Past(e, rows, collections) ==
    /\ e.kind = "row" => e.version < rows[e.res].version
    /\ e.kind = "memories" => e.res \in Orgs /\ e.version < collections[e.res]

IdentityInv ==
    /\ Identities!TypeOK
    /\ wins <= writes
    /\ \A x \in Identities!Rows : row[x].status = "none" => row[x].version = 0
    /\ \A s \in Sessions : Known(request[s], row)
    /\ \A e \in accepted : Past(e, row, memver)

LEMMA IdentityTypes ==
    ASSUME IdentityInv
    PROVE  /\ row \in [Identities!Rows -> Identities!Row] /\ memver \in [Orgs -> Nat]
           /\ published \subseteq Kids
           /\ jwks \in [keys : SUBSET Kids, fetches : 0..MaxFetches]
           /\ request \in [Sessions -> Identities!Request]
           /\ accepted \subseteq Identities!ETags
           /\ wins \in 0..MaxWrites /\ writes \in 0..MaxWrites /\ wins <= writes
  BY DEF IdentityInv, Identities!TypeOK

LEMMA IdentityStart == Identities!Init => IdentityInv
  <1> SUFFICES ASSUME Identities!Init PROVE IdentityInv
    OBVIOUS
  <1>1. /\ row = [x \in Identities!Rows |->
                    IF x \in DOMAIN FirstRows
                    THEN [status |-> "active", version |-> 1, content |-> FirstRows[x]]
                    ELSE [status |-> "none", version |-> 0, content |-> None]]
        /\ memver = [o \in Orgs |-> 1] /\ published = FirstKids
        /\ jwks = [keys |-> {}, fetches |-> 0]
        /\ request = [s \in Sessions |-> Identities!Idle]
        /\ accepted = {} /\ wins = 0 /\ writes = 0
    BY DEF Identities!Init
  <1>2. ASSUME NEW x \in Identities!Rows
        PROVE  row[x] \in Identities!Row /\ (row[x].status = "none" => row[x].version = 0)
    <2>1. CASE x \in DOMAIN FirstRows
      <3>1. FirstRows[x] \in Identities!Roles \cup Values
        BY <2>1, IdentityFacts
      <3>2. row[x] = [status |-> "active", version |-> 1, content |-> FirstRows[x]]
        BY <1>1, <2>1
      <3>3. QED
        BY <3>1, <3>2 DEF Identities!Row
    <2>2. CASE x \notin DOMAIN FirstRows
      <3>1. row[x] = [status |-> "none", version |-> 0, content |-> None]
        BY <1>1, <2>2
      <3>2. QED
        BY <3>1 DEF Identities!Row
    <2>3. QED
      BY <2>1, <2>2
  <1>3. Identities!Idle \in Identities!Request
    BY DEF Identities!Idle, Identities!Request
  <1>4. row \in [Identities!Rows -> Identities!Row]
    BY <1>1, <1>2
  <1>5. jwks \in [keys : SUBSET Kids, fetches : 0..MaxFetches]
    <2>1. 0 \in 0..MaxFetches
      BY IdentityFacts
    <2>2. QED
      BY <1>1, <2>1
  <1>6. wins \in 0..MaxWrites /\ writes \in 0..MaxWrites /\ wins <= writes
    BY <1>1, IdentityFacts
  <1>7. Identities!TypeOK
    BY <1>1, <1>3, <1>4, <1>5, <1>6, IdentityFacts DEF Identities!TypeOK
  <1>8. \A s \in Sessions : Known(request[s], row)
    BY <1>1 DEF Known, Identities!Idle
  <1>9. QED
    BY <1>1, <1>2, <1>6, <1>7, <1>8 DEF IdentityInv

-----------------------------------------------------------------------------
(* Requests before their handler.                                          *)

LEMMA RequestOK ==
    ASSUME IdentityInv, UNCHANGED <<row, memver, published, accepted, wins, writes>>,
           jwks' \in [keys : SUBSET Kids, fetches : 0..MaxFetches],
           NEW s \in Sessions, NEW q, q \in Identities!Request, Known(q, row),
           request' = [request EXCEPT ![s] = q]
    PROVE  IdentityInv'
  <1>1. request' \in [Sessions -> Identities!Request]
    BY IdentityTypes
  <1>2. \A t \in Sessions : Known(request'[t], row)
    BY IdentityTypes DEF IdentityInv
  <1>3. Identities!TypeOK'
    BY <1>1 DEF IdentityInv, Identities!TypeOK
  <1>4. QED
    BY <1>2, <1>3 DEF IdentityInv

LEMMA IdleRequest ==
    Identities!Idle \in Identities!Request /\ \A rows : Known(Identities!Idle, rows)
  BY DEF Identities!Idle, Identities!Request, Known

LEMMA ReceiveTokenOK == ASSUME IdentityInv, NEW s \in Sessions, Identities!Receive(s) PROVE IdentityInv'
  <1>1. PICK u \in {v \in Users : row[v].status # "none"}, c \in Claims, k \in Kids :
           request' = [request EXCEPT ![s] =
              [Identities!Idle EXCEPT !.pc = "received", !.user = u, !.claim = c, !.kid = k,
                                      !.late = ~Identities!IsActive(u)]]
    BY DEF Identities!Receive
  <1> DEFINE b == ~Identities!IsActive(u)
             v1 == [Identities!Idle EXCEPT !.pc = "received"]
             v2 == [v1 EXCEPT !.user = u]
             v3 == [v2 EXCEPT !.claim = c]
             v4 == [v3 EXCEPT !.kid = k]
             q == [v4 EXCEPT !.late = b]
  <1>2. request' = [request EXCEPT ![s] = q]
    BY <1>1
  <1>3. c \in Identities!Roles /\ u \in Users /\ k \in Kids /\ row[u].status # "none"
    BY IdentityFacts
  <1>4. b \in BOOLEAN /\ (b => row[u].status # "active")
    BY DEF Identities!IsActive
  <1> HIDE DEF b
  <1>5. v1 \in Identities!Request /\ v1.pc = "received"
    BY IdleRequest DEF Identities!Request
  <1> HIDE DEF v1
  <1>6. v2 \in Identities!Request /\ v2.pc = "received" /\ v2.user = u
    BY <1>3, <1>5 DEF Identities!Request
  <1> HIDE DEF v2
  <1>7. v3 \in Identities!Request /\ v3.pc = "received" /\ v3.user = u /\ v3.claim = c
    BY <1>3, <1>6 DEF Identities!Request
  <1> HIDE DEF v3
  <1>8. v4 \in Identities!Request /\ v4.pc = "received" /\ v4.user = u /\ v4.claim = c
    BY <1>3, <1>7 DEF Identities!Request
  <1> HIDE DEF v4
  <1>9. /\ q \in Identities!Request /\ q.pc = "received" /\ q.user = u /\ q.claim = c
        /\ q.late = b
    BY <1>4, <1>8 DEF Identities!Request
  <1> HIDE DEF q
  <1>10. Known(q, row)
    BY <1>3, <1>4, <1>9 DEF Known
  <1>11. jwks' \in [keys : SUBSET Kids, fetches : 0..MaxFetches]
    BY IdentityTypes DEF Identities!Receive
  <1>12. QED
    BY <1>2, <1>9, <1>10, <1>11, RequestOK DEF Identities!Receive

LEMMA FetchOK == ASSUME IdentityInv, NEW s \in Sessions, Identities!Fetch(s) PROVE IdentityInv'
  <1>1. jwks.fetches \in 0..MaxFetches /\ jwks.fetches < MaxFetches /\ published \in SUBSET Kids
        /\ jwks \in [keys : SUBSET Kids, fetches : 0..MaxFetches]
    BY IdentityTypes DEF Identities!Fetch
  <1>2. jwks.fetches + 1 \in 0..MaxFetches
    BY <1>1, IdentityFacts
  <1>3. CASE jwks' = [keys |-> published, fetches |-> jwks.fetches + 1] /\ UNCHANGED request
    <2>1. jwks' \in [keys : SUBSET Kids, fetches : 0..MaxFetches]
      BY <1>1, <1>2, <1>3
    <2>2. UNCHANGED <<row, memver, published, accepted, wins, writes, request>>
      BY <1>3 DEF Identities!Fetch
    <2>3. Identities!TypeOK'
      BY <2>1, <2>2 DEF IdentityInv, Identities!TypeOK
    <2>4. QED
      BY <2>2, <2>3 DEF IdentityInv
  <1>4. CASE /\ jwks' = [jwks EXCEPT !.fetches = @ + 1]
             /\ request' = [request EXCEPT ![s] = Identities!Idle]
    <2>1. jwks' \in [keys : SUBSET Kids, fetches : 0..MaxFetches]
      BY <1>1, <1>2, <1>4
    <2>2. QED
      BY <1>4, <2>1, IdleRequest, RequestOK DEF Identities!Fetch
  <1>5. QED
    BY <1>3, <1>4 DEF Identities!Fetch

LEMMA AuthenticateOK ==
    ASSUME IdentityInv, NEW s \in Sessions, Identities!Authenticate(s) PROVE IdentityInv'
  <1> DEFINE r == request[s]
             q == [r EXCEPT !.pc = "verified", !.kid = None]
  <1>1. r \in Identities!Request /\ Known(r, row) /\ r.pc = "received"
    BY IdentityTypes DEF IdentityInv, Identities!Authenticate
  <1>2. request' = [request EXCEPT ![s] = q]
    BY IdentityTypes DEF Identities!Authenticate
  <1> HIDE DEF r
  <1>3. /\ q \in Identities!Request /\ q.pc = "verified" /\ q.user = r.user /\ q.late = r.late
        /\ q.claim = r.claim
    BY <1>1 DEF Identities!Request
  <1> HIDE DEF q
  <1>4. Known(q, row)
    BY <1>1, <1>3 DEF Known
  <1>5. jwks' \in [keys : SUBSET Kids, fetches : 0..MaxFetches]
    BY IdentityTypes DEF Identities!Authenticate
  <1>6. QED
    BY <1>2, <1>3, <1>4, <1>5, RequestOK DEF Identities!Authenticate

LEMMA RejectTokenOK ==
    ASSUME IdentityInv, NEW s \in Sessions, Identities!RejectToken(s) PROVE IdentityInv'
  <1>1. jwks' \in [keys : SUBSET Kids, fetches : 0..MaxFetches]
    BY IdentityTypes DEF Identities!RejectToken
  <1>2. QED
    BY <1>1, IdleRequest, RequestOK DEF Identities!RejectToken

LEMMA RefuseOK == ASSUME IdentityInv, NEW s \in Sessions, Identities!Refuse(s) PROVE IdentityInv'
  <1>1. jwks' \in [keys : SUBSET Kids, fetches : 0..MaxFetches]
    BY IdentityTypes DEF Identities!Refuse
  <1>2. QED
    BY <1>1, IdleRequest, RequestOK DEF Identities!Refuse, Identities!Done

\* Only a user who is active resolves, and one who was not has not become so since.
LEMMA ResolveOK == ASSUME IdentityInv, NEW s \in Sessions, Identities!Resolve(s) PROVE IdentityInv'
  <1> DEFINE r == request[s]
             u == r.user
             q == [r EXCEPT !.pc = "resolved", !.claim = None,
                            !.actor = [user |-> u, org |-> Home[u], role |-> r.claim]]
  <1>1. r \in Identities!Request /\ Known(r, row) /\ r.pc = "verified"
    BY IdentityTypes DEF IdentityInv, Identities!Resolve
  <1>2. u \in Users /\ r.claim \in Identities!Roles /\ Home[u] \in Orgs
        /\ (r.late => row[u].status # "active") /\ row[u].status # "none"
    BY <1>1, IdentityFacts DEF Known
  <1>3. jwks' \in [keys : SUBSET Kids, fetches : 0..MaxFetches]
    BY IdentityTypes DEF Identities!Resolve
  <1>4. CASE request' = [request EXCEPT ![s] = Identities!Idle]
    BY <1>3, <1>4, IdleRequest, RequestOK DEF Identities!Resolve
  <1>5. CASE request' = [request EXCEPT ![s] = q] /\ Identities!Resolves(u)
    <2>1. row[u].status = "active"
      BY <1>5 DEF Identities!Resolves, Identities!IsActive
    <2>2. [user |-> u, org |-> Home[u], role |-> r.claim] \in Identities!Actor
      BY <1>2 DEF Identities!Actor
    <2> HIDE DEF r
    <2>3. q \in Identities!Request /\ q.pc = "resolved" /\ q.user = u /\ q.late = r.late
      BY <1>1, <2>2 DEF Identities!Request
    <2> HIDE DEF q
    <2>4. Known(q, row)
      BY <1>2, <2>1, <2>3 DEF Known
    <2>5. QED
      BY <1>3, <1>5, <2>3, <2>4, RequestOK DEF Identities!Resolve
  <1>6. QED
    BY <1>4, <1>5, IdentityTypes DEF Identities!Resolve

LEMMA RotateOK == ASSUME IdentityInv, Identities!Rotate PROVE IdentityInv'
  <1>1. /\ UNCHANGED <<row, memver, jwks, request, accepted, wins, writes>>
        /\ published' \subseteq Kids
    BY DEF Identities!Rotate
  <1>2. Identities!TypeOK'
    BY <1>1 DEF IdentityInv, Identities!TypeOK
  <1>3. QED
    BY <1>1, <1>2 DEF IdentityInv

-----------------------------------------------------------------------------
(* Writes of handlers.                                                     *)

LEMMA MovedKeepsKnown ==
    ASSUME IdentityInv, NEW rows,
           \A x \in Identities!Rows : rows[x] = row[x] \/ Moved(row[x], rows[x]),
           NEW s \in Sessions
    PROVE  Known(request[s], rows)
  <1> DEFINE q == request[s]
             u == q.user
  <1>1. Known(q, row) /\ row \in [Identities!Rows -> Identities!Row]
    BY IdentityTypes DEF IdentityInv
  <1>2. CASE q.pc = "idle"
    BY <1>2 DEF Known
  <1>3. CASE q.pc # "idle"
    <2>1. u \in Users /\ u \in Identities!Rows /\ row[u].status # "none"
          /\ (q.late => row[u].status # "active")
      BY <1>1, <1>3, IdentityFacts DEF Known
    <2>2. rows[u] = row[u] \/ Moved(row[u], rows[u])
      BY <2>1
    <2>3. rows[u].status # "none" /\ (q.late => rows[u].status # "active")
      BY <2>1, <2>2 DEF Moved
    <2>4. q.pc = "resolved" => ~q.late
      BY <1>1, <1>3 DEF Known
    <2>5. q.pc \in {"received", "verified"} => q.claim \in Identities!Roles
      BY <1>1, <1>3 DEF Known
    <2>6. QED
      BY <2>1, <2>3, <2>4, <2>5 DEF Known
  <1>4. QED
    BY <1>2, <1>3

\* What a handler that writes does for session s, seen from its rows.
Writes(s) ==
    /\ request[s].pc = "resolved" /\ request' = [request EXCEPT ![s] = Identities!Idle]
    /\ row' \in [Identities!Rows -> Identities!Row] /\ memver' \in [Orgs -> Nat]
    /\ \A x \in Identities!Rows :
          row'[x] = row[x] \/ (Moved(row[x], row'[x]) /\ Home[x] = request[s].actor.org)
    /\ \A o \in Orgs : memver'[o] >= memver[o]
    /\ \A m \in Memories : row'[m] # row[m] => memver'[Home[m]] > memver[Home[m]]
    /\ UNCHANGED <<published, jwks>>
    /\ writes < MaxWrites /\ writes' = writes + 1

\* It carries no ETag, or one that no write was accepted with before and that names
\* the past from now on.
Takes(e) ==
    /\ e \in Identities!ETags /\ Identities!Matches(e)
    /\ accepted' = accepted \cup {e} /\ wins' = wins + 1
    /\ Past(e, row', memver')

Writing ==
    \E s \in Sessions :
        Writes(s) /\ (UNCHANGED <<accepted, wins>> \/ \E e \in Identities!ETags : Takes(e))

LEMMA PastStays ==
    ASSUME IdentityInv, NEW s \in Sessions, Writes(s), NEW e \in accepted
    PROVE  Past(e, row', memver')
  <1>1. e \in Identities!ETags /\ Past(e, row, memver)
    BY IdentityTypes DEF IdentityInv
  <1>2. e.version \in Int /\ e.res \in Identities!Rows
    BY <1>1, IdentityFacts DEF Identities!ETags
  <1>3. row[e.res].version \in Nat /\ row'[e.res].version \in Nat
    BY <1>2, IdentityTypes DEF Writes, Identities!Row
  <1>4. row'[e.res].version >= row[e.res].version
    BY <1>2, <1>3 DEF Writes, Moved
  <1>5. ASSUME e.res \in Orgs PROVE memver'[e.res] >= memver[e.res] /\ memver[e.res] \in Nat
                                    /\ memver'[e.res] \in Nat
    BY <1>5, IdentityTypes DEF Writes
  <1>6. e.kind = "row" => e.version < row'[e.res].version
    BY <1>1, <1>2, <1>3, <1>4 DEF Past
  <1>7. e.kind = "memories" => e.res \in Orgs /\ e.version < memver'[e.res]
    BY <1>1, <1>2, <1>5 DEF Past
  <1>8. QED
    BY <1>6, <1>7 DEF Past

LEMMA WritingOK == ASSUME IdentityInv, Writing PROVE IdentityInv'
  <1>1. PICK s \in Sessions :
           Writes(s) /\ (UNCHANGED <<accepted, wins>> \/ \E e \in Identities!ETags : Takes(e))
    BY DEF Writing
  <1>2. /\ accepted \subseteq Identities!ETags
        /\ wins \in 0..MaxWrites /\ writes \in 0..MaxWrites /\ wins <= writes
        /\ writes < MaxWrites /\ writes' = writes + 1 /\ MaxWrites \in Nat
    BY <1>1, IdentityTypes, IdentityFacts DEF Writes
  <1>3. wins' = wins \/ wins' = wins + 1
    BY <1>1 DEF Takes
  <1>4. wins' \in 0..MaxWrites /\ writes' \in 0..MaxWrites /\ wins' <= writes'
    BY <1>2, <1>3
  <1>5. accepted' \subseteq Identities!ETags
    BY <1>1, <1>2 DEF Takes
  <1>6. request' \in [Sessions -> Identities!Request]
    BY <1>1, IdentityTypes, IdleRequest DEF Writes
  <1>7. Identities!TypeOK'
    BY <1>1, <1>4, <1>5, <1>6, IdentityTypes DEF Writes, Identities!TypeOK
  <1>8. \A x \in Identities!Rows : row'[x] = row[x] \/ Moved(row[x], row'[x])
    BY <1>1 DEF Writes
  <1>9. ASSUME NEW x \in Identities!Rows, row'[x].status = "none" PROVE row'[x].version = 0
    BY <1>8, <1>9 DEF Moved, IdentityInv
  <1>10. ASSUME NEW t \in Sessions PROVE Known(request'[t], row')
    <2>1. CASE t = s
      <3>1. request'[t] = Identities!Idle
        BY <1>1, <2>1, IdentityTypes DEF Writes
      <3>2. QED
        BY <3>1, IdleRequest
    <2>2. CASE t # s
      <3>1. request'[t] = request[t]
        BY <1>1, <2>2, IdentityTypes DEF Writes
      <3>2. QED
        BY <1>8, <3>1, MovedKeepsKnown
    <2>3. QED
      BY <2>1, <2>2
  <1>11. ASSUME NEW e \in accepted' PROVE Past(e, row', memver')
    BY <1>1, <1>11, PastStays DEF Takes
  <1>12. QED
    BY <1>4, <1>7, <1>9, <1>10, <1>11 DEF IdentityInv

-----------------------------------------------------------------------------
(* One row and the collection it belongs to.                               *)

LEMMA OneRow ==
    ASSUME IdentityInv, NEW s \in Sessions, NEW x \in Identities!Rows, NEW r,
           r \in Identities!Row, Moved(row[x], r), Identities!Handles(s, x),
           row' = [row EXCEPT ![x] = r], memver' = Identities!Charged(x),
           request' = [request EXCEPT ![s] = Identities!Idle], UNCHANGED <<published, jwks>>,
           writes < MaxWrites /\ writes' = writes + 1
    PROVE  Writes(s)
  <1>1. /\ row \in [Identities!Rows -> Identities!Row] /\ memver \in [Orgs -> Nat]
        /\ Home \in [Identities!Rows -> Orgs]
    BY IdentityTypes, IdentityFacts
  <1>2. row' \in [Identities!Rows -> Identities!Row] /\ row'[x] = r
        /\ \A y \in Identities!Rows : y # x => row'[y] = row[y]
    BY <1>1
  <1>3. request[s].pc = "resolved" /\ Home[x] = request[s].actor.org
    BY DEF Identities!Handles, Identities!Reaches
  <1>4. \A y \in Identities!Rows :
           row'[y] = row[y] \/ (Moved(row[y], row'[y]) /\ Home[y] = request[s].actor.org)
    BY <1>2, <1>3
  <1>5. ASSUME x \in Memories
        PROVE  /\ memver' \in [Orgs -> Nat] /\ memver'[Home[x]] = memver[Home[x]] + 1
               /\ \A o \in Orgs : o # Home[x] => memver'[o] = memver[o]
    <2>1. memver' = [memver EXCEPT ![Home[x]] = memver[Home[x]] + 1] /\ Home[x] \in Orgs
      BY <1>1, <1>5 DEF Identities!Charged
    <2>2. memver[Home[x]] + 1 \in Nat
      BY <1>1, <2>1
    <2>3. QED
      BY <1>1, <2>1, <2>2
  <1>6. ASSUME x \notin Memories PROVE memver' = memver
    BY <1>6 DEF Identities!Charged
  <1>7. memver' \in [Orgs -> Nat] /\ \A o \in Orgs : memver'[o] >= memver[o]
    <2>1. CASE x \in Memories
      <3>1. ASSUME NEW o \in Orgs PROVE memver'[o] >= memver[o]
        BY <1>1, <1>5, <2>1
      <3>2. QED
        BY <1>5, <2>1, <3>1
    <2>2. CASE x \notin Memories
      BY <1>1, <1>6, <2>2
    <2>3. QED
      BY <2>1, <2>2
  <1>8. ASSUME NEW m \in Memories, row'[m] # row[m] PROVE memver'[Home[m]] > memver[Home[m]]
    <2>1. m = x
      BY <1>2, <1>8, IdentityFacts
    <2>2. Home[x] \in Orgs /\ memver[Home[x]] \in Nat
      BY <1>1
    <2>3. memver'[Home[x]] = memver[Home[x]] + 1
      BY <1>5, <2>1, <1>8
    <2>4. QED
      BY <2>1, <2>2, <2>3
  <1>9. QED
    BY <1>2, <1>3, <1>4, <1>7, <1>8 DEF Writes

\* An ETag that names the row's version before the write names the past after it.
LEMMA RowTaken ==
    ASSUME IdentityInv, NEW s \in Sessions, NEW e \in Identities!ETags, e.kind = "row",
           Identities!Accept(s, e), Moved(row[e.res], row'[e.res])
    PROVE  Takes(e)
  <1>1. e.res \in Identities!Rows /\ e.version \in Int
    BY IdentityFacts DEF Identities!ETags
  <1>2. e.version = row[e.res].version
    BY DEF Identities!Accept, Identities!Matches, Identities!Current
  <1>3. row[e.res].version \in Nat
    BY <1>1, IdentityTypes DEF Identities!Row
  <1>4. e.version < row'[e.res].version
    BY <1>2, <1>3 DEF Moved
  <1>5. Past(e, row', memver')
    BY <1>4 DEF Past
  <1>6. QED
    BY <1>5 DEF Takes, Identities!Accept

LEMMA CreateOK == ASSUME IdentityInv, NEW s \in Sessions, Identities!Create(s) PROVE Writing
  <1>1. PICK x \in Identities!Rows : \E c \in Identities!Contents(x) :
           /\ Identities!Handles(s, x) /\ Identities!Creatable(x)
           /\ row' = [row EXCEPT ![x] = [status |-> "active", version |-> 1, content |-> c]]
           /\ memver' = Identities!Charged(x)
           /\ Identities!Done(s) /\ Identities!Count /\ UNCHANGED <<published, jwks, accepted, wins>>
    BY DEF Identities!Create
  <1>2. PICK c \in Identities!Contents(x) :
           row' = [row EXCEPT ![x] = [status |-> "active", version |-> 1, content |-> c]]
    BY <1>1
  <1> DEFINE r == [status |-> "active", version |-> 1, content |-> c]
  <1>3. c \in Identities!Roles \cup Values
    BY DEF Identities!Contents
  <1>4. r \in Identities!Row /\ r.status = "active" /\ r.version = 1
    BY <1>3 DEF Identities!Row
  <1>5. row' = [row EXCEPT ![x] = r]
    BY <1>2
  <1> HIDE DEF r
  <1>6. row[x].status = "none" /\ row[x].version = 0
    BY <1>1 DEF Identities!Creatable, IdentityInv
  <1>7. Moved(row[x], r)
    BY <1>4, <1>6 DEF Moved
  <1>8. /\ Identities!Handles(s, x) /\ memver' = Identities!Charged(x)
        /\ request' = [request EXCEPT ![s] = Identities!Idle]
        /\ UNCHANGED <<published, jwks>> /\ UNCHANGED <<accepted, wins>>
        /\ writes < MaxWrites /\ writes' = writes + 1
    BY <1>1 DEF Identities!Done, Identities!Count
  <1>9. Writes(s)
    BY <1>4, <1>5, <1>7, <1>8, OneRow
  <1>10. QED
    BY <1>8, <1>9 DEF Writing

\* A change of one row under an ETag.
LEMMA ChangeOK ==
    ASSUME IdentityInv, NEW s \in Sessions, NEW e \in Identities!ETags, Identities!Change(s, e),
           NEW r, r \in Identities!Row, Moved(row[e.res], r),
           row' = [row EXCEPT ![e.res] = r], UNCHANGED <<published, jwks>>
    PROVE  Writing
  <1>1. e.res \in Identities!Rows
    BY DEF Identities!ETags
  <1>2. /\ Identities!Handles(s, e.res) /\ memver' = Identities!Charged(e.res)
        /\ Identities!Accept(s, e) /\ e.kind = "row"
    BY DEF Identities!Change
  <1>3. /\ request' = [request EXCEPT ![s] = Identities!Idle]
        /\ writes < MaxWrites /\ writes' = writes + 1
    BY <1>2 DEF Identities!Accept, Identities!Done, Identities!Count
  <1>4. Writes(s)
    BY <1>1, <1>2, <1>3, OneRow
  <1>5. row'[e.res] = r
    BY <1>1, IdentityTypes
  <1>6. Takes(e)
    BY <1>2, <1>5, RowTaken
  <1>7. QED
    BY <1>4, <1>6 DEF Writing

LEMMA RowFields ==
    ASSUME NEW a \in Identities!Row
    PROVE  /\ a.version \in Nat
           /\ \A d \in {"disabled", "tombstone"} :
                 /\ [a EXCEPT !.status = d] \in Identities!Row
                 /\ [a EXCEPT !.status = d].status = d
                 /\ [a EXCEPT !.status = d].version = a.version
           /\ \A c \in Identities!Roles \cup Values :
                 /\ [a EXCEPT !.content = c] \in Identities!Row
                 /\ [a EXCEPT !.content = c].status = a.status
                 /\ [a EXCEPT !.content = c].version = a.version
           /\ [a EXCEPT !.version = a.version + 1] \in Identities!Row
           /\ [a EXCEPT !.version = a.version + 1].status = a.status
           /\ [a EXCEPT !.version = a.version + 1].version = a.version + 1
  BY DEF Identities!Row

LEMMA UpdateOK == ASSUME IdentityInv, NEW s \in Sessions, Identities!Update(s) PROVE Writing
  <1>1. PICK e \in Identities!ETags : \E c \in Identities!Contents(e.res) :
           /\ Identities!Change(s, e)
           /\ row' = [row EXCEPT ![e.res].content = c, ![e.res].version = @ + 1]
           /\ UNCHANGED <<published, jwks>>
    BY DEF Identities!Update
  <1>2. PICK c \in Identities!Contents(e.res) :
           row' = [row EXCEPT ![e.res].content = c, ![e.res].version = @ + 1]
    BY <1>1
  <1>3. e.res \in Identities!Rows /\ c \in Identities!Roles \cup Values
    BY DEF Identities!ETags, Identities!Contents
  <1> DEFINE old == row[e.res]
             mid == [old EXCEPT !.content = c]
             new == [mid EXCEPT !.version = mid.version + 1]
  <1>4. row' = [row EXCEPT ![e.res] = new]
    BY <1>2, <1>3, IdentityTypes
  <1>5. old \in Identities!Row /\ old.status # "none"
    BY <1>1, <1>3, IdentityTypes DEF Identities!Change
  <1> HIDE DEF old
  <1>6. mid \in Identities!Row /\ mid.status = old.status /\ mid.version = old.version
    BY <1>3, <1>5, RowFields
  <1> HIDE DEF mid
  <1>7. /\ new \in Identities!Row /\ new.status = mid.status
        /\ new.version = mid.version + 1
    BY <1>6, RowFields
  <1>8. new \in Identities!Row /\ new.status = old.status /\ new.version = old.version + 1
    BY <1>6, <1>7
  <1> HIDE DEF new
  <1>9. Moved(old, new)
    BY <1>5, <1>8 DEF Moved
  <1>10. Moved(row[e.res], new)
    BY <1>9 DEF old
  <1>11. QED
    BY <1>1, <1>4, <1>8, <1>10, ChangeOK

LEMMA DisableOK == ASSUME IdentityInv, NEW s \in Sessions, Identities!Disable(s) PROVE Writing
  <1>1. PICK e \in Identities!ETags :
           /\ Identities!Change(s, e) /\ Identities!IsActive(e.res)
           /\ row' = [row EXCEPT ![e.res].status = Identities!Disabled(e.res),
                                 ![e.res].version = @ + 1]
           /\ UNCHANGED <<published, jwks>>
    BY DEF Identities!Disable
  <1> DEFINE d == Identities!Disabled(e.res)
             old == row[e.res]
             mid == [old EXCEPT !.status = d]
             new == [mid EXCEPT !.version = mid.version + 1]
  <1>2. e.res \in Identities!Rows /\ d \in {"disabled", "tombstone"}
    BY DEF Identities!ETags, Identities!Disabled
  <1>3. row' = [row EXCEPT ![e.res] = new]
    BY <1>1, <1>2, IdentityTypes
  <1>4. old \in Identities!Row /\ old.status = "active"
    BY <1>1, <1>2, IdentityTypes DEF Identities!IsActive
  <1> HIDE DEF old, d
  <1>5. mid \in Identities!Row /\ mid.status = d /\ mid.version = old.version
    BY <1>2, <1>4, RowFields
  <1> HIDE DEF mid
  <1>6. /\ new \in Identities!Row /\ new.status = mid.status
         /\ new.version = mid.version + 1
    BY <1>5, RowFields
  <1>7. new \in Identities!Row /\ new.status = d /\ new.version = old.version + 1
    BY <1>5, <1>6
  <1> HIDE DEF new
  <1>8. Moved(old, new)
    BY <1>2, <1>4, <1>7 DEF Moved
  <1>9. Moved(row[e.res], new)
    BY <1>8 DEF old
  <1>10. QED
    BY <1>1, <1>3, <1>7, <1>9, ChangeOK

\* The reset of the memories of an organization moves all its active ones at once.
LEMMA ResetOK == ASSUME IdentityInv, NEW s \in Sessions, Identities!Reset(s) PROVE Writing
  <1>1. PICK e \in Identities!ETags :
           /\ e.kind = "memories" /\ e.res \in Orgs
           /\ request[s].pc = "resolved" /\ Identities!Reaches(s, e.res) /\ Identities!Accept(s, e)
           /\ row' = [x \in Identities!Rows |-> IF x \in Identities!ActiveMemories(e.res)
                                                THEN Identities!Tombstone(x) ELSE row[x]]
           /\ memver' = [memver EXCEPT ![e.res] = @ + 1]
           /\ UNCHANGED <<published, jwks>>
    BY DEF Identities!Reset
  <1> DEFINE o == e.res
  <1>2. /\ row \in [Identities!Rows -> Identities!Row] /\ memver \in [Orgs -> Nat]
        /\ Home[o] = request[s].actor.org /\ Home[o] = o
    BY <1>1, IdentityTypes, IdentityFacts DEF Identities!Reaches
  <1>3. ASSUME NEW x \in Identities!ActiveMemories(o)
        PROVE  /\ Identities!Tombstone(x) \in Identities!Row
               /\ Moved(row[x], Identities!Tombstone(x)) /\ Home[x] = o
    <2>1. x \in Identities!Rows /\ row[x].status = "active" /\ Home[x] = o
      BY IdentityFacts DEF Identities!ActiveMemories, Identities!IsActive
    <2> DEFINE old == row[x]
               mid == [old EXCEPT !.status = "tombstone"]
               new == [mid EXCEPT !.version = mid.version + 1]
    <2>2. old \in Identities!Row /\ old.status = "active"
      BY <1>2, <2>1
    <2>3. Identities!Tombstone(x) = new
      BY DEF Identities!Tombstone
    <2> HIDE DEF old
    <2>4. mid \in Identities!Row /\ mid.status = "tombstone" /\ mid.version = old.version
      BY <2>2, RowFields
    <2> HIDE DEF mid
    <2>5. /\ new \in Identities!Row /\ new.status = mid.status
          /\ new.version = mid.version + 1
      BY <2>4, RowFields
    <2>6. new \in Identities!Row /\ new.status = "tombstone" /\ new.version = old.version + 1
      BY <2>4, <2>5
    <2> HIDE DEF new
    <2>7. Moved(old, new)
      BY <2>2, <2>6 DEF Moved
    <2>8. QED
      BY <2>1, <2>3, <2>6, <2>7 DEF old
  <1>4. ASSUME NEW x \in Identities!Rows
        PROVE  /\ row'[x] \in Identities!Row
               /\ row'[x] = row[x] \/ (Moved(row[x], row'[x]) /\ Home[x] = request[s].actor.org)
               /\ row'[x] = row[x] \/ Home[x] = o
    <2>1. CASE x \in Identities!ActiveMemories(o)
      <3>1. row'[x] = Identities!Tombstone(x)
        BY <1>1, <2>1
      <3>2. QED
        BY <1>2, <1>3, <2>1, <3>1
    <2>2. CASE x \notin Identities!ActiveMemories(o)
      <3>1. row'[x] = row[x]
        BY <1>1, <2>2
      <3>2. QED
        BY <1>2, <3>1
    <2>3. QED
      BY <2>1, <2>2
  <1>5. row' \in [Identities!Rows -> Identities!Row]
    BY <1>1, <1>4
  <1>6. memver[o] \in Nat /\ memver[o] + 1 \in Nat
    BY <1>1, <1>2
  <1>7. /\ memver' \in [Orgs -> Nat] /\ memver'[o] = memver[o] + 1
        /\ \A p \in Orgs : p # o => memver'[p] = memver[p]
    BY <1>1, <1>2, <1>6
  <1>8. \A p \in Orgs : memver'[p] >= memver[p]
    BY <1>2, <1>6, <1>7
  <1>9. ASSUME NEW m \in Memories, row'[m] # row[m] PROVE memver'[Home[m]] > memver[Home[m]]
    BY <1>4, <1>6, <1>7, <1>9, IdentityFacts
  <1>10. /\ request' = [request EXCEPT ![s] = Identities!Idle]
         /\ writes < MaxWrites /\ writes' = writes + 1
    BY <1>1 DEF Identities!Accept, Identities!Done, Identities!Count
  <1>11. Writes(s)
    BY <1>1, <1>4, <1>5, <1>7, <1>8, <1>9, <1>10 DEF Writes
  <1>12. e.version = memver[o] /\ Identities!Matches(e)
    BY <1>1 DEF Identities!Accept, Identities!Matches, Identities!Current
  <1>13. Past(e, row', memver')
    BY <1>1, <1>6, <1>7, <1>12 DEF Past
  <1>14. Takes(e)
    BY <1>1, <1>12, <1>13 DEF Takes, Identities!Accept
  <1>15. QED
    BY <1>11, <1>14 DEF Writing

-----------------------------------------------------------------------------
(* Steps and theorems.                                                     *)

\* A step that is no write leaves the rows, the collections and the ETags alone.
LEMMA IdentityHandled ==
    ASSUME IdentityInv, Identities!Next
    PROVE  IdentityInv' /\ (Writing \/ UNCHANGED <<row, memver, accepted, wins>>)
  <1>1. ASSUME Writing PROVE IdentityInv'
    BY <1>1, WritingOK
  <1>2. CASE Identities!Rotate
    BY <1>2, RotateOK DEF Identities!Rotate
  <1>3. ASSUME NEW s \in Sessions,
               \/ Identities!Receive(s) \/ Identities!Fetch(s) \/ Identities!Authenticate(s)
               \/ Identities!RejectToken(s) \/ Identities!Resolve(s) \/ Identities!Refuse(s)
        PROVE  IdentityInv' /\ UNCHANGED <<row, memver, accepted, wins>>
    <2>1. IdentityInv'
      BY <1>3, ReceiveTokenOK, FetchOK, AuthenticateOK, RejectTokenOK, ResolveOK, RefuseOK
    <2>2. UNCHANGED <<row, memver, accepted, wins>>
      BY <1>3 DEF Identities!Receive, Identities!Fetch, Identities!Authenticate,
                  Identities!RejectToken, Identities!Resolve, Identities!Refuse
    <2>3. QED
      BY <2>1, <2>2
  <1>4. ASSUME NEW s \in Sessions,
               \/ Identities!Create(s) \/ Identities!Update(s) \/ Identities!Disable(s)
               \/ Identities!Reset(s)
        PROVE  Writing
    BY <1>4, CreateOK, UpdateOK, DisableOK, ResetOK
  <1>5. QED
    BY <1>1, <1>2, <1>3, <1>4 DEF Identities!Next

LEMMA IdentityStep == IdentityInv /\ [Identities!Next]_identityVars => IdentityInv'
  <1>1. ASSUME IdentityInv, UNCHANGED identityVars PROVE IdentityInv'
    <2>1. UNCHANGED <<row, memver, published, jwks, request, accepted, wins, writes>>
      BY <1>1 DEF identityVars
    <2>2. Identities!TypeOK'
      BY <1>1, <2>1 DEF IdentityInv, Identities!TypeOK
    <2>3. QED
      BY <1>1, <2>1, <2>2 DEF IdentityInv
  <1>2. QED
    BY <1>1, IdentityHandled

LEMMA IdentityMoves == [AllNext]_allVars => [Identities!Next]_identityVars
  BY DEF AllNext, allVars, identityVars

\* The types of the identity state, what is known of the users of requests that are
\* worked on, and the ETags that writes were accepted with.
THEOREM IdentityInvariantHolds == AllSpec => []IdentityInv
  <1>1. AllInit => IdentityInv
    BY IdentityStart DEF AllInit
  <1>2. IdentityInv /\ [AllNext]_allVars => IdentityInv'
    BY IdentityStep, IdentityMoves
  <1>3. QED
    BY <1>1, <1>2, PTL DEF AllSpec

\* A version names one state of a row, and that of a collection one state of its
\* memories; of the writes that carry one ETag at most one is accepted (identity.py).
THEOREM VersionsAlwaysNameStates == AllSpec => VersionsNameStates
  <1> DEFINE A == /\ \A x \in Identities!Rows :
                        row'[x] # row[x] => row'[x].version = row[x].version + 1
                  /\ \A o \in Orgs :
                        {row[m] : m \in Identities!ActiveMemories(o)}
                            # {row[m] : m \in Identities!ActiveMemories(o)}'
                          => memver'[o] > memver[o]
                  /\ wins' # wins => accepted' # accepted
  <1>1. ASSUME IdentityInv, [Identities!Next]_identityVars PROVE [A]_(Identities!vars)
    <2> SUFFICES ASSUME Identities!Next PROVE A
      BY <1>1 DEF identityVars, Identities!vars
    <2>1. CASE UNCHANGED <<row, memver, accepted, wins>>
      BY <2>1 DEF Identities!ActiveMemories, Identities!IsActive
    <2>2. CASE Writing
      <3>1. PICK s \in Sessions :
               Writes(s) /\ (UNCHANGED <<accepted, wins>> \/ \E e \in Identities!ETags : Takes(e))
        BY <2>2 DEF Writing
      <3>2. \A x \in Identities!Rows : row'[x] # row[x] => row'[x].version = row[x].version + 1
        BY <3>1 DEF Writes, Moved
      <3>3. ASSUME NEW o \in Orgs, ~(memver'[o] > memver[o])
            PROVE  {row[m] : m \in Identities!ActiveMemories(o)}
                     = {row[m] : m \in Identities!ActiveMemories(o)}'
        <4>1. \A m \in Memories : Home[m] = o => row'[m] = row[m]
          BY <3>1, <3>3 DEF Writes
        <4>2. Identities!ActiveMemories(o) = Identities!ActiveMemories(o)'
          BY <4>1 DEF Identities!ActiveMemories, Identities!IsActive
        <4>3. \A m \in Identities!ActiveMemories(o) : row'[m] = row[m]
          BY <4>1 DEF Identities!ActiveMemories
        <4>4. QED
          BY <4>2, <4>3
      <3>4. wins' # wins => accepted' # accepted
        <4> SUFFICES ASSUME wins' # wins, accepted' = accepted PROVE FALSE
          OBVIOUS
        <4>1. PICK e \in Identities!ETags : Takes(e)
          BY <3>1
        <4>2. e \in accepted
          BY <4>1 DEF Takes
        <4>3. Past(e, row, memver)
          BY <1>1, <4>2 DEF IdentityInv
        <4>4. e.version \in Int /\ e.res \in Identities!Rows /\ e.kind \in {"row", "memories"}
          BY IdentityFacts DEF Identities!ETags
        <4>5. e.version = Identities!Current(e)
          BY <4>1 DEF Takes, Identities!Matches
        <4>6. CASE e.kind = "row"
          BY <4>3, <4>4, <4>5, <4>6, IdentityTypes, <1>1 DEF Past, Identities!Current, Identities!Row
        <4>7. CASE e.kind = "memories"
          BY <4>3, <4>4, <4>5, <4>7, IdentityTypes, <1>1 DEF Past, Identities!Current
        <4>8. QED
          BY <4>4, <4>6, <4>7
      <3>5. QED
        BY <3>2, <3>3, <3>4
    <2>3. QED
      BY <1>1, <2>1, <2>2, IdentityHandled
  <1>2. QED
    BY <1>1, IdentityInvariantHolds, IdentityMoves, PTL
       DEF AllSpec, VersionsNameStates, Identities!VersionsNameStates

\* A row is changed only by a request of an actor of its organization whose user was
\* active when the request came, whatever ran between its steps (identity.py).
THEOREM WritesAlwaysAuthorized == AllSpec => WritesAreAuthorized
  <1> DEFINE A == \A x \in Identities!Rows : row'[x] # row[x] =>
                     \E s \in Sessions : /\ request[s].pc = "resolved" /\ request'[s].pc = "idle"
                                         /\ request[s].actor.org = Home[x] /\ ~request[s].late
  <1>1. ASSUME IdentityInv, [Identities!Next]_identityVars PROVE [A]_(Identities!vars)
    <2> SUFFICES ASSUME Identities!Next, NEW x \in Identities!Rows, row'[x] # row[x]
                 PROVE  \E s \in Sessions :
                           /\ request[s].pc = "resolved" /\ request'[s].pc = "idle"
                           /\ request[s].actor.org = Home[x] /\ ~request[s].late
      BY <1>1 DEF identityVars, Identities!vars
    <2>1. PICK s \in Sessions : Writes(s)
      BY <1>1, IdentityHandled DEF Writing
    <2>2. request[s].pc = "resolved" /\ request[s].actor.org = Home[x]
      BY <2>1 DEF Writes
    <2>3. request'[s] = Identities!Idle
      BY <1>1, <2>1, IdentityTypes DEF Writes
    <2>4. ~request[s].late
      BY <1>1, <2>2 DEF IdentityInv, Known
    <2>5. QED
      BY <2>2, <2>3, <2>4 DEF Identities!Idle
  <1>2. QED
    BY <1>1, IdentityInvariantHolds, IdentityMoves, PTL
       DEF AllSpec, WritesAreAuthorized, Identities!WritesAreAuthorized

-----------------------------------------------------------------------------
(* The organization memory and the assembly of a context.                  *)

Stores == [Notes -> Contexts!Record \cup {None}]

\* A mutation of a batch.
Mutations ==
    [action : {"upsert"}, memory : Notes, field : Fields, expires : Times \cup {Never}]
        \cup [action : {"delete"}, memory : Notes, field : {None}, expires : {None}]

LEMMA BatchFacts ==
    ASSUME NEW b \in Batches
    PROVE  /\ b \in Seq(Mutations) /\ Len(b) \in Nat /\ DOMAIN b = 1..Len(b)
           /\ \A i \in 1..Len(b) : b[i] \in Mutations
  BY ContextAssumption DEF ContextAssumption, Mutations

LEMMA MutationFacts ==
    ASSUME NEW mut \in Mutations
    PROVE  /\ mut.memory \in Notes /\ mut.action \in {"upsert", "delete"}
           /\ mut.action = "upsert" => mut.field \in Fields /\ mut.expires \in Times \cup {Never}
  BY DEF Mutations

\* Whether a mutation is accepted, and what it makes of its memory, depends on that
\* memory only; it keeps the owner and the field, and counts the version.
NewRecord(current, task, mut) ==
    IF mut.action = "delete"
    THEN [current EXCEPT !.version = @ + 1, !.status = "tombstone"]
    ELSE [owner |-> task, field |-> mut.field, expires |-> mut.expires, status |-> "active",
          version |-> IF current = None THEN 1 ELSE current.version + 1]

Fits(current, task, mut) ==
    IF current = None THEN mut.action = "upsert"
    ELSE current.owner = task /\ (mut.action = "upsert" => mut.field = current.field)

Follows(new, old) ==
    IF old = None THEN new.version = 1
    ELSE new.owner = old.owner /\ new.field = old.field /\ new.version = old.version + 1

LEMMA StoreReads ==
    ASSUME NEW store, NEW task, NEW mut
    PROVE  /\ Contexts!Accepts(store, task, mut) <=> Fits(store[mut.memory], task, mut)
           /\ Contexts!Mutated(store, task, mut)
                = [store EXCEPT ![mut.memory] = NewRecord(store[mut.memory], task, mut)]
  BY DEF Contexts!Accepts, Contexts!Mutated, Fits, NewRecord

LEMMA RecordFields ==
    ASSUME NEW c \in Contexts!Record
    PROVE  /\ c.version \in Nat
           /\ [c EXCEPT !.version = c.version + 1] \in Contexts!Record
           /\ [c EXCEPT !.version = c.version + 1].version = c.version + 1
           /\ [c EXCEPT !.version = c.version + 1].owner = c.owner
           /\ [c EXCEPT !.version = c.version + 1].field = c.field
           /\ [c EXCEPT !.status = "tombstone"] \in Contexts!Record
           /\ [c EXCEPT !.status = "tombstone"].version = c.version
           /\ [c EXCEPT !.status = "tombstone"].owner = c.owner
           /\ [c EXCEPT !.status = "tombstone"].field = c.field
  BY DEF Contexts!Record

LEMMA RecordFollows ==
    ASSUME NEW c \in Contexts!Record \cup {None}, NEW task \in Tasks, NEW mut \in Mutations,
           Fits(c, task, mut)
    PROVE  NewRecord(c, task, mut) \in Contexts!Record /\ Follows(NewRecord(c, task, mut), c)
  <1> DEFINE new == NewRecord(c, task, mut)
  <1>1. CASE mut.action = "delete"
    <2>1. c # None /\ c \in Contexts!Record
      BY <1>1 DEF Fits
    <2> DEFINE mid == [c EXCEPT !.version = c.version + 1]
               end == [mid EXCEPT !.status = "tombstone"]
    <2>2. new = end
      BY <1>1 DEF NewRecord
    <2>3. /\ mid \in Contexts!Record /\ mid.version = c.version + 1 /\ mid.owner = c.owner
          /\ mid.field = c.field
      BY <2>1, RecordFields
    <2> HIDE DEF mid
    <2>4. /\ end \in Contexts!Record /\ end.version = mid.version /\ end.owner = mid.owner
          /\ end.field = mid.field
      BY <2>3, RecordFields
    <2> HIDE DEF end, new
    <2>5. new \in Contexts!Record /\ Follows(new, c)
      BY <2>1, <2>2, <2>3, <2>4 DEF Follows
    <2>6. QED
      BY <2>5 DEF new
  <1>2. CASE mut.action = "upsert"
    <2> DEFINE v == IF c = None THEN 1 ELSE c.version + 1
               end == [owner |-> task, field |-> mut.field, expires |-> mut.expires,
                       status |-> "active", version |-> v]
    <2>1. v \in Nat
      BY DEF Contexts!Record
    <2>2. new = end
      BY <1>2 DEF NewRecord
    <2>3. mut.field \in Fields /\ mut.expires \in Times \cup {Never}
      BY <1>2, MutationFacts
    <2>4. c # None => task = c.owner /\ mut.field = c.field
      BY <1>2 DEF Fits
    <2>5. v = IF c = None THEN 1 ELSE c.version + 1
      OBVIOUS
    <2> HIDE DEF v
    <2>6. end \in Contexts!Record /\ end.version = v /\ end.owner = task /\ end.field = mut.field
      BY <2>1, <2>3 DEF Contexts!Record
    <2> HIDE DEF end, new
    <2>7. new \in Contexts!Record /\ Follows(new, c)
      BY <2>2, <2>4, <2>5, <2>6 DEF Follows
    <2>8. QED
      BY <2>7 DEF new
  <1>3. QED
    BY <1>1, <1>2, MutationFacts

\* What one mutation does to a store.
LEMMA MutatedStore ==
    ASSUME NEW store \in Stores, NEW task \in Tasks, NEW mut \in Mutations,
           Contexts!Accepts(store, task, mut)
    PROVE  LET new == Contexts!Mutated(store, task, mut)  m == mut.memory IN
           /\ new \in Stores /\ new[m] = NewRecord(store[m], task, mut)
           /\ Follows(new[m], store[m]) /\ \A n \in Notes : n # m => new[n] = store[n]
  <1> DEFINE new == Contexts!Mutated(store, task, mut)
             m == mut.memory
             r == NewRecord(store[m], task, mut)
  <1>1. m \in Notes /\ store[m] \in Contexts!Record \cup {None}
    BY MutationFacts DEF Stores
  <1>2. Fits(store[m], task, mut) /\ new = [store EXCEPT ![m] = r]
    BY StoreReads
  <1>3. r \in Contexts!Record /\ Follows(r, store[m])
    BY <1>1, <1>2, RecordFollows
  <1> HIDE DEF r, m, new
  <1>4. new \in Stores /\ new[m] = r /\ \A n \in Notes : n # m => new[n] = store[n]
    BY <1>1, <1>2, <1>3 DEF Stores
  <1>5. QED
    BY <1>3, <1>4 DEF r, m, new

\* The body of `after` in Preview, up to n.
NextStore(last, task, mut) ==
    IF last = None THEN None
    ELSE IF ~Contexts!Accepts(last, task, mut) THEN None
    ELSE Contexts!Mutated(last, task, mut)

Previewed(f, store, task, b, n) ==
    f = [k \in 0..n |-> IF k = 0 THEN store ELSE NextStore(f[k - 1], task, b[k])]

LEMMA PreviewExists ==
    ASSUME NEW store, NEW task, NEW b, NEW n \in Nat
    PROVE  \E f : Previewed(f, store, task, b, n)
  <1> DEFINE Bad == {m \in Nat : ~ \E f : Previewed(f, store, task, b, m)}
  <1> SUFFICES ASSUME Bad # {} PROVE FALSE
    OBVIOUS
  <1>1. PICK m \in Bad : \A k \in Bad : m <= k
    BY SmallestNat
  <1>2. CASE m = 0
    <2> DEFINE z == [k \in 0..0 |-> store]
    <2>1. Previewed(z, store, task, b, 0)
      BY DEF Previewed
    <2>2. QED
      BY <1>1, <1>2, <2>1
  <1>3. CASE m # 0
    <2>1. m - 1 \in Nat /\ m \in Nat /\ m - 1 \notin Bad
      BY <1>1, <1>3
    <2>2. PICK f : Previewed(f, store, task, b, m - 1)
      BY <2>1
    <2> DEFINE g == [k \in 0..m |-> IF k = m THEN NextStore(f[m - 1], task, b[m]) ELSE f[k]]
    <2>3. \A k \in 0..m - 1 : f[k] = IF k = 0 THEN store ELSE NextStore(f[k - 1], task, b[k])
      BY <2>2 DEF Previewed
    <2>4. \A k \in 0..m : k # m => k \in 0..m - 1 /\ g[k] = f[k]
      BY <2>1
    <2>5. g[m] = NextStore(f[m - 1], task, b[m])
      BY <2>1
    <2>6. \A k \in 0..m : k # 0 => k - 1 \in 0..m - 1 /\ k - 1 \in 0..m /\ g[k - 1] = f[k - 1]
      BY <2>1
    <2>7. ASSUME NEW k \in 0..m
          PROVE  g[k] = IF k = 0 THEN store ELSE NextStore(g[k - 1], task, b[k])
      <3>1. CASE k = 0
        BY <1>3, <2>1, <2>3, <2>4, <3>1
      <3>2. CASE k # 0
        BY <1>3, <2>1, <2>3, <2>4, <2>5, <2>6, <3>2
      <3>3. QED
        BY <3>1, <3>2
    <2>8. g = [k \in 0..m |-> g[k]]
      OBVIOUS
    <2> HIDE DEF g
    <2>9. Previewed(g, store, task, b, m)
      BY <2>7, <2>8 DEF Previewed
    <2>10. QED
      BY <1>1, <2>9
  <1>4. QED
    BY <1>2, <1>3

\* The stores that a batch goes through, every mutation accepted.
Chained(f, task, b) ==
    /\ f \in [0..Len(b) -> Stores]
    /\ \A n \in 1..Len(b) : /\ Contexts!Accepts(f[n - 1], task, b[n])
                            /\ f[n] = Contexts!Mutated(f[n - 1], task, b[n])

LEMMA PreviewChains ==
    ASSUME NEW store \in Stores, NEW task \in Tasks, NEW b \in Batches,
           Contexts!Preview(store, task, b) # None
    PROVE  \E f : Chained(f, task, b) /\ f[0] = store
                  /\ f[Len(b)] = Contexts!Preview(store, task, b)
  <1> DEFINE size == Len(b)
             f == CHOOSE f : Previewed(f, store, task, b, size)
  <1>1. size \in Nat /\ \A i \in 1..size : b[i] \in Mutations
    BY BatchFacts
  <1>2. Contexts!Preview(store, task, b) = f[size]
    BY DEF Contexts!Preview, Previewed, NextStore
  <1>3. size = Len(b)
    OBVIOUS
  <1> HIDE DEF size
  <1>4. Previewed(f, store, task, b, size)
    BY <1>1, PreviewExists
  <1> HIDE DEF f
  <1>5. /\ DOMAIN f = 0..size /\ f[0] = store
        /\ \A k \in 1..size : f[k] = NextStore(f[k - 1], task, b[k])
    <2>1. f = [k \in 0..size |-> IF k = 0 THEN store ELSE NextStore(f[k - 1], task, b[k])]
      BY <1>4 DEF Previewed
    <2>2. 0 \in 0..size /\ \A k \in 1..size : k \in 0..size /\ k # 0
      BY <1>1
    <2>3. QED
      BY <2>1, <2>2
  <1>6. \A n \in 0..size : f[n] # None
    <2> DEFINE Lost == {j \in 0..size : f[size - j] = None}
    <2>1. SUFFICES ASSUME Lost # {} PROVE FALSE
      <3>1. ASSUME NEW n \in 0..size, f[n] = None PROVE FALSE
        <4>1. size - n \in 0..size /\ size - (size - n) = n
          BY <1>1
        <4>2. size - n \in Lost
          BY <3>1, <4>1
        <4>3. QED
          BY <2>1, <4>2
      <3>2. QED
        BY <3>1
    <2>2. Lost \subseteq Nat
      BY <1>1
    <2>3. PICK j \in Lost : \A i \in Lost : j <= i
      BY <2>1, <2>2, SmallestNat
    <2>4. j \in 0..size /\ f[size - j] = None
      BY <2>3
    <2>5. j # 0
      <3>1. size - 0 = size
        BY <1>1
      <3>2. QED
        BY <1>2, <2>4, <3>1
    <2> DEFINE k == size - j + 1
    <2>6. k \in 1..size /\ k - 1 = size - j /\ j - 1 \in 0..size /\ size - (j - 1) = k
      BY <1>1, <2>4, <2>5
    <2> HIDE DEF k
    <2>7. f[k] = None
      BY <1>5, <2>4, <2>6 DEF NextStore
    <2>8. j - 1 \in Lost
      BY <2>6, <2>7
    <2>9. ~(j <= j - 1)
      BY <2>4
    <2>10. QED
      BY <2>3, <2>8, <2>9
  <1>7. ASSUME NEW k \in 1..size, f[k - 1] \in Stores
        PROVE  /\ Contexts!Accepts(f[k - 1], task, b[k])
               /\ f[k] = Contexts!Mutated(f[k - 1], task, b[k]) /\ f[k] \in Stores
    <2>1. f[k] # None /\ f[k] = NextStore(f[k - 1], task, b[k])
      <3>1. k \in 0..size
        BY <1>1
      <3>2. QED
        BY <1>5, <1>6, <3>1
    <2>2. /\ Contexts!Accepts(f[k - 1], task, b[k])
          /\ f[k] = Contexts!Mutated(f[k - 1], task, b[k])
      BY <2>1 DEF NextStore
    <2>3. f[k] \in Stores
      BY <1>1, <1>7, <2>2, MutatedStore
    <2>4. QED
      BY <2>2, <2>3
  <1>8. \A n \in 0..size : f[n] \in Stores
    <2> DEFINE Bad == {n \in 0..size : f[n] \notin Stores}
    <2>1. SUFFICES ASSUME Bad # {} PROVE FALSE
      OBVIOUS
    <2>2. Bad \subseteq Nat
      BY <1>1
    <2>3. PICK n \in Bad : \A i \in Bad : n <= i
      BY <2>1, <2>2, SmallestNat
    <2>4. n # 0 /\ n \in 0..size
      BY <1>5, <2>3
    <2>5. n \in 1..size /\ n - 1 \in 0..size /\ ~(n <= n - 1)
      BY <1>1, <2>4
    <2>6. f[n - 1] \in Stores
      BY <2>3, <2>5
    <2>7. QED
      BY <1>7, <2>3, <2>5, <2>6
  <1>9. \A k \in 1..size : k - 1 \in 0..size
    BY <1>1
  <1>10. f \in [0..size -> Stores]
    <2>1. f = [k \in 0..size |-> f[k]]
      BY <1>4 DEF Previewed
    <2>2. QED
      BY <1>8, <2>1
  <1>11. Chained(f, task, b)
    BY <1>3, <1>7, <1>8, <1>9, <1>10 DEF Chained
  <1>12. QED
    BY <1>2, <1>3, <1>5, <1>11

Touched(q) == {q.batch[i].memory : i \in DOMAIN q.batch}

\* What a batch previewed on stores that agree with the actual one does to both.
LEMMA BatchAgrees ==
    ASSUME NEW task \in Tasks, NEW b \in Batches, NEW f, Chained(f, task, b),
           NEW store \in Stores, NEW a \in Nat, a < Len(b),
           NEW T, \A i \in DOMAIN b : b[i].memory \in T, T \subseteq Notes,
           \A m \in T : store[m] = f[a][m]
    PROVE  /\ b[a + 1] \in Mutations /\ Contexts!Accepts(store, task, b[a + 1])
           /\ \A m \in T : Contexts!Mutated(store, task, b[a + 1])[m] = f[a + 1][m]
  <1> DEFINE mut == b[a + 1]
             new == Contexts!Mutated(store, task, mut)
  <1>1. /\ a + 1 \in 1..Len(b) /\ (a + 1) - 1 = a /\ a \in 0..Len(b) /\ a + 1 \in DOMAIN b
        /\ mut \in Mutations /\ mut.memory \in T
    BY BatchFacts
  <1>2. f[a] \in Stores /\ Contexts!Accepts(f[a], task, mut) /\ f[a + 1] = Contexts!Mutated(f[a], task, mut)
    BY <1>1 DEF Chained
  <1>3. mut = b[a + 1] /\ store[mut.memory] = f[a][mut.memory]
    BY <1>1
  <1> HIDE DEF mut
  <1>4. Contexts!Accepts(store, task, mut)
    BY <1>2, <1>3, StoreReads
  <1>5. /\ Contexts!Mutated(f[a], task, mut)[mut.memory] = NewRecord(f[a][mut.memory], task, mut)
        /\ \A n \in Notes : n # mut.memory => Contexts!Mutated(f[a], task, mut)[n] = f[a][n]
    BY <1>1, <1>2, MutatedStore
  <1>6. /\ Contexts!Mutated(store, task, mut)[mut.memory] = NewRecord(store[mut.memory], task, mut)
        /\ \A n \in Notes : n # mut.memory => Contexts!Mutated(store, task, mut)[n] = store[n]
    BY <1>1, <1>4, MutatedStore
  <1>7. \A m \in T : Contexts!Mutated(store, task, mut)[m] = f[a + 1][m]
    BY <1>2, <1>3, <1>5, <1>6
  <1>8. QED
    BY <1>1, <1>3, <1>4, <1>7

LEMMA ReadFacts ==
    ASSUME NEW store \in Stores, NEW asOf
    PROVE  Contexts!Read(store, asOf) \in SUBSET (Notes \X Contexts!Record)
  BY DEF Contexts!Read, Contexts!Live, Stores

LEMMA LiveAgree ==
    ASSUME NEW store \in Stores, NEW other \in Stores, NEW asOf, NEW T, T \subseteq Notes,
           \A m \in T : store[m] = other[m]
    PROVE  {mr \in Contexts!Live(store, asOf) : mr[1] \in T}
              = {mr \in Contexts!Live(other, asOf) : mr[1] \in T}
  BY DEF Contexts!Live

-----------------------------------------------------------------------------
(* What a read cuts off.  Records are ranked by how many come before them. *)

Noted == Notes \X Contexts!Record

\* A list of records, at most one of a memory.
IsList(S) ==
    /\ S \subseteq Noted /\ IsFiniteSet(S)
    /\ \A x, y \in S : x[1] = y[1] => x = y

Ahead(S, x) == {y \in S : Contexts!Before(y, x)}
Rank(S, x) == Cardinality(Ahead(S, x))

LEMMA BeforeOrders ==
    /\ \A x \in Noted : ~Contexts!Before(x, x)
    /\ \A x, y, z \in Noted :
          Contexts!Before(x, y) /\ Contexts!Before(y, z) => Contexts!Before(x, z)
    /\ \A x, y \in Noted : x[1] # y[1] => Contexts!Before(x, y) \/ Contexts!Before(y, x)
  <1>1. \A x \in Noted : x[1] \in Nat /\ x[2].field \in Nat
    BY ContextAssumption DEF ContextAssumption, Noted, Contexts!Record
  <1>2. QED
    BY <1>1 DEF Contexts!Before

LEMMA Ranks ==
    ASSUME NEW S, IsList(S), NEW x \in S
    PROVE  /\ IsFiniteSet(Ahead(S, x)) /\ Rank(S, x) \in Nat
           /\ \A y \in S : Contexts!Before(y, x) => Rank(S, y) < Rank(S, x)
  <1>1. IsFiniteSet(S) /\ S \subseteq Noted
    BY DEF IsList
  <1>2. \A y \in S : IsFiniteSet(Ahead(S, y)) /\ Rank(S, y) \in Nat
    <2> TAKE y \in S
    <2>1. Ahead(S, y) \subseteq S
      BY DEF Ahead
    <2>2. QED
      BY <1>1, <2>1, FS_Subset, FS_CardinalityType DEF Rank
  <1>3. ASSUME NEW y \in S, Contexts!Before(y, x)
        PROVE  Rank(S, y) < Rank(S, x)
    <2>1. Ahead(S, y) \subseteq Ahead(S, x)
      BY <1>1, <1>3, BeforeOrders DEF Ahead
    <2>2. y \in Ahead(S, x) /\ y \notin Ahead(S, y)
      BY <1>1, <1>3, BeforeOrders DEF Ahead
    <2>3. /\ Rank(S, y) <= Rank(S, x)
          /\ Rank(S, y) = Rank(S, x) => Ahead(S, y) = Ahead(S, x)
      BY <1>2, <2>1, FS_Subset DEF Rank
    <2>4. QED
      BY <1>2, <2>2, <2>3
  <1>4. QED
    BY <1>2, <1>3

\* Cut off are the records from rank k on: there are k before them, and none after.
LEMMA CutIsFull ==
    ASSUME NEW S, IsList(S), NEW k \in Nat, NEW x \in S, ~(Rank(S, x) < k)
    PROVE  LET cut == {y \in S : Rank(S, y) < k} IN
           Cardinality(cut) = k /\ \A y \in cut : Contexts!Before(y, x)
  <1> DEFINE cut == {y \in S : Rank(S, y) < k}
  <1>1. /\ IsFiniteSet(S) /\ S \subseteq Noted
        /\ \A y, z \in S : y # z => Contexts!Before(y, z) \/ Contexts!Before(z, y)
    BY BeforeOrders DEF IsList
  <1>2. \A y \in S : Rank(S, y) \in Nat /\ IsFiniteSet(Ahead(S, y))
    BY Ranks
  <1>3. \A y, z \in S : Contexts!Before(y, z) => Rank(S, y) < Rank(S, z)
    BY Ranks
  <1>4. cut \subseteq S /\ IsFiniteSet(cut) /\ Cardinality(cut) \in Nat
    BY <1>1, FS_Subset, FS_CardinalityType
  <1>5. \A y \in cut : Contexts!Before(y, x)
    BY <1>1, <1>2, <1>3
  <1>6. k <= Cardinality(cut)
    <2> DEFINE ranks == {Rank(S, y) : y \in S \ cut}
    <2>1. ranks \subseteq Nat /\ ranks # {}
      BY <1>2
    <2>2. PICK n \in ranks : \A m \in ranks : n <= m
      BY <2>1, SmallestNat
    <2>3. PICK z \in S \ cut : Rank(S, z) = n
      BY <2>2
    <2>4. \A y \in S \ cut : Rank(S, z) <= Rank(S, y)
      BY <2>2, <2>3
    <2>5. Ahead(S, z) \subseteq cut
      <3> SUFFICES ASSUME NEW y \in Ahead(S, z), y \notin cut PROVE FALSE
        OBVIOUS
      <3>1. y \in S /\ Contexts!Before(y, z)
        BY DEF Ahead
      <3>2. Rank(S, y) < Rank(S, z) /\ Rank(S, z) <= Rank(S, y)
        BY <1>3, <2>4, <3>1
      <3>3. QED
        BY <1>2, <3>1, <3>2
    <2>6. Rank(S, z) <= Cardinality(cut)
      BY <1>4, <2>5, FS_Subset DEF Rank
    <2>7. k <= Rank(S, z)
      BY <1>2, <2>3
    <2>8. QED
      BY <1>2, <1>4, <2>6, <2>7
  <1>7. Cardinality(cut) <= k
    <2>1. CASE cut = {}
      BY <2>1, FS_EmptySet
    <2>2. CASE cut # {}
      <3> DEFINE gaps == {k - Rank(S, y) : y \in cut}
      <3>1. gaps \subseteq Nat /\ gaps # {}
        BY <1>2, <1>4, <2>2
      <3>2. PICK n \in gaps : \A m \in gaps : n <= m
        BY <3>1, SmallestNat
      <3>3. PICK z \in cut : n = k - Rank(S, z)
        BY <3>2
      <3>4. \A y \in cut : k - Rank(S, z) <= k - Rank(S, y)
        BY <3>2, <3>3
      <3>5. z \in S /\ Rank(S, z) \in Nat /\ Rank(S, z) < k /\ IsFiniteSet(Ahead(S, z))
        BY <1>2, <1>4
      <3>6. cut \subseteq Ahead(S, z) \cup {z}
        <4> SUFFICES ASSUME NEW y \in cut, y # z PROVE Contexts!Before(y, z)
          BY <1>4 DEF Ahead
        <4>1. y \in S /\ Rank(S, y) \in Nat /\ Rank(S, y) <= Rank(S, z)
          BY <1>2, <1>4, <3>4, <3>5
        <4>2. Contexts!Before(z, y) => Rank(S, z) < Rank(S, y)
          BY <1>3, <3>5, <4>1
        <4>3. ~Contexts!Before(z, y)
          BY <3>5, <4>1, <4>2
        <4>4. QED
          BY <1>1, <3>5, <4>1, <4>3
      <3>7. z \notin Ahead(S, z)
        BY <1>1, <3>5, BeforeOrders DEF Ahead
      <3>8. /\ IsFiniteSet(Ahead(S, z) \cup {z})
            /\ Cardinality(Ahead(S, z) \cup {z}) = Rank(S, z) + 1
        BY <3>5, <3>7, FS_AddElement DEF Rank
      <3>9. Cardinality(cut) <= Rank(S, z) + 1
        BY <3>6, <3>8, FS_Subset
      <3>10. QED
        BY <1>4, <3>5, <3>9
    <2>3. QED
      BY <2>1, <2>2
  <1>8. Cardinality(cut) = k
    BY <1>4, <1>6, <1>7
  <1>9. QED
    BY <1>5, <1>8

LEMMA LiveIsList ==
    ASSUME NEW store \in Stores, NEW asOf
    PROVE  IsList(Contexts!Live(store, asOf))
  <1> DEFINE all == {<<m, store[m]>> : m \in {m \in Notes : store[m] # None}}
  <1>1. Contexts!Live(store, asOf) \subseteq all
    BY DEF Contexts!Live
  <1>2. IsFiniteSet({m \in Notes : store[m] # None})
    BY ContextAssumption, FS_Subset DEF ContextAssumption
  <1>3. IsFiniteSet(all)
    <2> DEFINE there == {m \in Notes : store[m] # None}
               pair == [m \in there |-> <<m, store[m]>>]
    <2>1. pair \in Surjection(there, all)
      BY DEF Surjection
    <2>2. QED
      BY <1>2, <2>1, FS_Surjection
  <1>4. IsFiniteSet(Contexts!Live(store, asOf))
    BY <1>1, <1>3, FS_Subset
  <1>5. /\ all \subseteq Noted
        /\ \A x, y \in all : x[1] = y[1] => x = y
    BY DEF Stores, Noted
  <1>6. QED
    BY <1>1, <1>4, <1>5 DEF IsList

\* A read leaves a live record out only when it is full of others before it.
LEMMA ReadCuts ==
    ASSUME NEW store \in Stores, NEW asOf,
           NEW mr \in Contexts!Live(store, asOf) \ Contexts!Read(store, asOf)
    PROVE  /\ Cardinality(Contexts!Read(store, asOf)) = ReadLimit
           /\ \A shown \in Contexts!Read(store, asOf) : Contexts!Before(shown, mr)
  <1> DEFINE live == Contexts!Live(store, asOf)
  <1>1. Contexts!Read(store, asOf) = {y \in live : Rank(live, y) < ReadLimit}
    BY DEF Contexts!Read, Contexts!Cardinality, Cardinality, Rank, Ahead
  <1>2. IsList(live) /\ ReadLimit \in Nat
    BY LiveIsList, ContextAssumption DEF ContextAssumption
  <1> HIDE DEF live
  <1>3. mr \in live /\ ~(Rank(live, mr) < ReadLimit)
    BY <1>1 DEF live
  <1>4. LET cut == {y \in live : Rank(live, y) < ReadLimit} IN
        Cardinality(cut) = ReadLimit /\ \A y \in cut : Contexts!Before(y, mr)
    BY ONLY <1>2, <1>3, CutIsFull
  <1>5. QED
    BY <1>1, <1>4

-----------------------------------------------------------------------------
(* The inductive invariant.                                                *)

Asks == [task : Tasks, batch : Batches, asOf : Times, enabled : BOOLEAN]
Stages == {"new", "previewed", "applying", "done", "rejected"}

MemoryTyped ==
    /\ records \in Stores /\ asked \in [Requests -> Asks] /\ stage \in [Requests -> Stages]
    /\ DOMAIN context = Requests
    /\ \A r \in Requests : context[r] \in SUBSET (Notes \X Contexts!Record)
    /\ applied \in [Requests -> Nat] /\ raced \subseteq Requests

\* Nothing is applied before the memory is selected, and something is left while it is.
InTurn(q, at_, n) ==
    /\ at_ \in {"new", "previewed"} => n = 0
    /\ at_ = "applying" => q.enabled /\ n < Len(q.batch)

\* The stores of a preview that the actual one still follows, as far as the memories
\* of the batch go, and whose last one is what the context shows.
Accord(q, at_, store, n, ctx) ==
    at_ \in {"previewed", "applying"} /\ q.enabled =>
        \E f : /\ Chained(f, q.task, q.batch)
               /\ \A m \in Touched(q) : store[m] = f[n][m]
               /\ ctx = Contexts!Read(f[Len(q.batch)], q.asOf)

MemoryInv ==
    /\ MemoryTyped
    /\ \A r \in Requests : InTurn(asked[r], stage[r], applied[r])
    /\ \A r \in Requests \ raced :
          Accord(asked[r], stage[r], records, applied[r], context[r])

\* What AssemblyIsAtomic says of a step.
OwnOf(q, read) == {mr \in read : mr[1] \in Touched(q)}

Shows(read, taken) ==
    \A mr \in taken \ read :
        /\ Cardinality(read) = ReadLimit
        /\ \A shown \in read : Contexts!Before(shown, mr)

AtomicFor(r) ==
    r \notin raced' /\ stage'[r] # stage[r] =>
        /\ stage'[r] = "rejected" => applied'[r] = 0
        /\ stage[r] = "applying" /\ stage'[r] = "done" =>
              LET taken == OwnOf(asked[r], Contexts!Live(records', asked[r].asOf)) IN
              OwnOf(asked[r], context[r]) \subseteq taken /\ Shows(context[r], taken)

AtomicStep ==
    /\ \A r \in Requests : AtomicFor(r)
    /\ \A m \in Notes : records'[m] # records[m] => Follows(records'[m], records[m])

LEMMA MemoryTypes == MemoryInv => Contexts!TypeOK
  BY DEF MemoryInv, MemoryTyped, Contexts!TypeOK, Stores, Asks, Stages

LEMMA MemoryStart == Contexts!Init => MemoryInv
  <1> SUFFICES ASSUME Contexts!Init PROVE MemoryInv
    OBVIOUS
  <1>1. /\ records = [m \in Notes |-> None] /\ asked \in [Requests -> Asks]
        /\ stage = [r \in Requests |-> "new"] /\ context = [r \in Requests |-> {}]
        /\ applied = [r \in Requests |-> 0] /\ raced = {}
    BY DEF Contexts!Init, Asks
  <1>2. records \in Stores
    BY <1>1 DEF Stores
  <1>3. MemoryTyped
    BY <1>1, <1>2 DEF MemoryTyped, Stages
  <1>4. QED
    BY <1>1, <1>3 DEF MemoryInv, InTurn, Accord

LEMMA AskFacts ==
    ASSUME MemoryInv, NEW r \in Requests
    PROVE  /\ asked[r] \in Asks /\ asked[r].task \in Tasks /\ asked[r].batch \in Batches
           /\ Len(asked[r].batch) \in Nat /\ Touched(asked[r]) \subseteq Notes
           /\ \A i \in DOMAIN asked[r].batch : asked[r].batch[i].memory \in Touched(asked[r])
           /\ Contexts!MemoriesOf(r) = Touched(asked[r])
  <1>1. asked[r] \in Asks
    BY DEF MemoryInv, MemoryTyped
  <1>2. asked[r].task \in Tasks /\ asked[r].batch \in Batches
    BY <1>1 DEF Asks
  <1>3. /\ Len(asked[r].batch) \in Nat /\ DOMAIN asked[r].batch = 1..Len(asked[r].batch)
        /\ \A i \in 1..Len(asked[r].batch) : asked[r].batch[i] \in Mutations
    BY <1>2, BatchFacts
  <1>4. Touched(asked[r]) \subseteq Notes
    BY <1>3, MutationFacts DEF Touched
  <1>5. QED
    BY <1>1, <1>2, <1>3, <1>4 DEF Touched, Contexts!MemoriesOf

-----------------------------------------------------------------------------
(* The steps of an assembly.                                               *)

\* Before anything is applied only the stage and the context of an assembly change.
LEMMA StageOK ==
    ASSUME MemoryInv, NEW r \in Requests, NEW st \in Stages, stage' = [stage EXCEPT ![r] = st],
           UNCHANGED <<records, asked, applied, raced>>,
           NEW ctx, ctx \in SUBSET (Notes \X Contexts!Record),
           context'[r] = ctx, DOMAIN context' = Requests,
           \A x \in Requests : x # r => context'[x] = context[x],
           stage[r] \in {"new", "previewed"}, InTurn(asked[r], st, applied[r]),
           r \notin raced => Accord(asked[r], st, records, applied[r], ctx)
    PROVE  MemoryInv' /\ AtomicStep
  <1>1. /\ stage \in [Requests -> Stages] /\ stage' \in [Requests -> Stages] /\ stage'[r] = st
        /\ \A x \in Requests : x # r => stage'[x] = stage[x]
    BY DEF MemoryInv, MemoryTyped
  <1>2. MemoryTyped'
    BY <1>1 DEF MemoryInv, MemoryTyped
  <1>3. \A x \in Requests : InTurn(asked[x], stage'[x], applied[x])
    BY <1>1 DEF MemoryInv
  <1>4. \A x \in Requests \ raced : Accord(asked[x], stage'[x], records, applied[x], context'[x])
    BY <1>1 DEF MemoryInv
  <1>5. MemoryInv'
    BY <1>2, <1>3, <1>4 DEF MemoryInv
  <1>6. ASSUME NEW x \in Requests PROVE AtomicFor(x)
    <2>1. CASE x = r
      BY <2>1 DEF AtomicFor, MemoryInv, InTurn
    <2>2. CASE x # r
      BY <1>1, <2>2 DEF AtomicFor
    <2>3. QED
      BY <2>1, <2>2
  <1>7. QED
    BY <1>5, <1>6 DEF AtomicStep

LEMMA AssembleOK ==
    ASSUME MemoryInv, NEW r \in Requests, Contexts!Assemble(r) PROVE MemoryInv' /\ AtomicStep
  <1> DEFINE q == asked[r]
             store == Contexts!Preview(records, q.task, q.batch)
  <1>1. /\ stage[r] = "new" /\ UNCHANGED <<records, asked, applied, raced>>
        /\ \/ ~q.enabled /\ stage' = [stage EXCEPT ![r] = "previewed"] /\ UNCHANGED context
           \/ /\ q.enabled /\ store = None
              /\ stage' = [stage EXCEPT ![r] = "rejected"] /\ UNCHANGED context
           \/ /\ q.enabled /\ store # None /\ stage' = [stage EXCEPT ![r] = "previewed"]
              /\ context' = [context EXCEPT ![r] = Contexts!Read(store, q.asOf)]
    BY DEF Contexts!Assemble
  <1>2. /\ DOMAIN context = Requests /\ context[r] \in SUBSET (Notes \X Contexts!Record)
        /\ records \in Stores /\ applied[r] = 0
    BY <1>1 DEF MemoryInv, MemoryTyped, InTurn
  <1>3. q.task \in Tasks /\ q.batch \in Batches /\ Len(q.batch) \in Nat /\ Touched(q) \subseteq Notes
    BY AskFacts
  <1>4. q = asked[r] /\ store = Contexts!Preview(records, q.task, q.batch)
    OBVIOUS
  <1> HIDE DEF q, store
  <1>5. CASE ~q.enabled /\ stage' = [stage EXCEPT ![r] = "previewed"] /\ UNCHANGED context
    <2>1. InTurn(q, "previewed", 0) /\ Accord(q, "previewed", records, 0, context[r])
      BY <1>5 DEF InTurn, Accord
    <2>2. QED
      BY <1>1, <1>2, <1>4, <1>5, <2>1, StageOK DEF Stages
  <1>6. CASE stage' = [stage EXCEPT ![r] = "rejected"] /\ UNCHANGED context
    <2>1. InTurn(q, "rejected", 0) /\ Accord(q, "rejected", records, 0, context[r])
      BY DEF InTurn, Accord
    <2>2. QED
      BY <1>1, <1>2, <1>4, <1>6, <2>1, StageOK DEF Stages
  <1>7. CASE /\ q.enabled /\ store # None /\ stage' = [stage EXCEPT ![r] = "previewed"]
             /\ context' = [context EXCEPT ![r] = Contexts!Read(store, q.asOf)]
    <2> DEFINE ctx == Contexts!Read(store, q.asOf)
    <2>1. PICK f : Chained(f, q.task, q.batch) /\ f[0] = records /\ f[Len(q.batch)] = store
      BY <1>2, <1>3, <1>4, <1>7, PreviewChains
    <2>2. store \in Stores
      BY <1>3, <2>1 DEF Chained
    <2>3. ctx \in SUBSET (Notes \X Contexts!Record)
      BY <2>2, ReadFacts
    <2>4. context'[r] = ctx /\ DOMAIN context' = Requests
          /\ \A x \in Requests : x # r => context'[x] = context[x]
      BY <1>2, <1>7
    <2>5. ctx = Contexts!Read(f[Len(q.batch)], q.asOf)
      BY <2>1
    <2> HIDE DEF ctx
    <2>6. Accord(q, "previewed", records, 0, ctx)
      BY <2>1, <2>5 DEF Accord
    <2>7. InTurn(q, "previewed", 0)
      BY DEF InTurn
    <2>8. QED
      BY <1>1, <1>2, <1>4, <1>7, <2>3, <2>4, <2>6, <2>7, StageOK DEF Stages
  <1>8. QED
    BY <1>1, <1>5, <1>6, <1>7

LEMMA RefusalOK ==
    ASSUME MemoryInv, NEW r \in Requests, Contexts!Refuse(r) PROVE MemoryInv' /\ AtomicStep
  <1>1. /\ stage[r] \in {"new", "previewed"} /\ stage' = [stage EXCEPT ![r] = "rejected"]
        /\ UNCHANGED <<records, asked, context, applied, raced>>
    BY DEF Contexts!Refuse
  <1>2. DOMAIN context = Requests /\ context[r] \in SUBSET (Notes \X Contexts!Record)
    BY DEF MemoryInv, MemoryTyped
  <1>3. /\ InTurn(asked[r], "rejected", applied[r])
        /\ Accord(asked[r], "rejected", records, applied[r], context[r])
    BY DEF InTurn, Accord
  <1>4. QED
    BY <1>1, <1>2, <1>3, StageOK DEF Stages

LEMMA SelectOK ==
    ASSUME MemoryInv, NEW r \in Requests, Contexts!Select(r) PROVE MemoryInv' /\ AtomicStep
  <1> DEFINE st == IF asked[r].enabled /\ asked[r].batch # <<>> THEN "applying" ELSE "done"
  <1>1. /\ stage[r] = "previewed" /\ stage' = [stage EXCEPT ![r] = st]
        /\ UNCHANGED <<records, asked, context, applied, raced>>
    BY DEF Contexts!Select
  <1>2. DOMAIN context = Requests /\ context[r] \in SUBSET (Notes \X Contexts!Record)
    BY DEF MemoryInv, MemoryTyped
  <1>3. applied[r] = 0
    BY <1>1 DEF MemoryInv, InTurn
  <1>4. InTurn(asked[r], st, 0)
    <2>1. asked[r].batch \in Seq(Mutations) /\ Len(asked[r].batch) \in Nat
      BY AskFacts, BatchFacts
    <2>2. asked[r].batch # <<>> => 0 < Len(asked[r].batch)
      BY <2>1
    <2>3. QED
      BY <2>2 DEF InTurn
  <1>5. r \notin raced => Accord(asked[r], st, records, applied[r], context[r])
    BY <1>1 DEF MemoryInv, Accord
  <1>6. st \in Stages
    BY DEF Stages
  <1> HIDE DEF st
  <1>7. QED
    BY <1>1, <1>2, <1>3, <1>4, <1>5, <1>6, StageOK

\* An assembly that nobody races finds each of its mutations acceptable still.
LEMMA OnesOwnAccepted ==
    ASSUME MemoryInv, NEW r \in Requests, stage[r] = "applying", r \notin raced
    PROVE  LET q == asked[r]  a == applied[r] IN
           \E f : /\ Chained(f, q.task, q.batch)
                  /\ q.batch[a + 1] \in Mutations
                  /\ Contexts!Accepts(records, q.task, q.batch[a + 1])
                  /\ \A m \in Touched(q) :
                        Contexts!Mutated(records, q.task, q.batch[a + 1])[m] = f[a + 1][m]
                  /\ context[r] = Contexts!Read(f[Len(q.batch)], q.asOf)
  <1> DEFINE q == asked[r]
             a == applied[r]
             ctx == context[r]
  <1>1. /\ Accord(q, stage[r], records, a, ctx) /\ InTurn(q, stage[r], a)
        /\ a \in Nat /\ records \in Stores
    BY DEF MemoryInv, MemoryTyped
  <1>2. /\ q.task \in Tasks /\ q.batch \in Batches /\ Touched(q) \subseteq Notes
        /\ \A i \in DOMAIN q.batch : q.batch[i].memory \in Touched(q)
    BY AskFacts
  <1> HIDE DEF q, a, ctx
  <1>3. PICK f : /\ Chained(f, q.task, q.batch)
                 /\ \A m \in Touched(q) : records[m] = f[a][m]
                 /\ ctx = Contexts!Read(f[Len(q.batch)], q.asOf)
    BY <1>1 DEF Accord, InTurn
  <1>4. a < Len(q.batch)
    BY <1>1 DEF InTurn
  <1>5. /\ q.batch[a + 1] \in Mutations /\ Contexts!Accepts(records, q.task, q.batch[a + 1])
        /\ \A m \in Touched(q) :
              Contexts!Mutated(records, q.task, q.batch[a + 1])[m] = f[a + 1][m]
    BY <1>1, <1>2, <1>3, <1>4, BatchAgrees
  <1>6. QED
    BY <1>3, <1>5 DEF q, a, ctx

LEMMA RejectedOK ==
    ASSUME MemoryInv, NEW r \in Requests, stage[r] = "applying",
           ~Contexts!Accepts(records, asked[r].task, asked[r].batch[applied[r] + 1]),
           stage' = [stage EXCEPT ![r] = "rejected"],
           UNCHANGED <<records, applied, raced, asked, context>>
    PROVE  MemoryInv' /\ AtomicStep
  <1>1. r \in raced
    BY OnesOwnAccepted
  <1>2. /\ stage \in [Requests -> Stages] /\ stage' \in [Requests -> Stages]
        /\ stage'[r] = "rejected" /\ \A x \in Requests : x # r => stage'[x] = stage[x]
    BY DEF MemoryInv, MemoryTyped, Stages
  <1>3. MemoryTyped'
    BY <1>2 DEF MemoryInv, MemoryTyped
  <1>4. \A x \in Requests : InTurn(asked[x], stage'[x], applied[x])
    BY <1>2 DEF MemoryInv, InTurn
  <1>5. \A x \in Requests \ raced : Accord(asked[x], stage'[x], records, applied[x], context[x])
    BY <1>1, <1>2 DEF MemoryInv
  <1>6. MemoryInv'
    BY <1>3, <1>4, <1>5 DEF MemoryInv
  <1>7. \A x \in Requests : AtomicFor(x)
    BY <1>1, <1>2 DEF AtomicFor
  <1>8. QED
    BY <1>6, <1>7 DEF AtomicStep

\* A mutation applied: those it races are marked, and the others do not see it.
LEMMA AppliedOK ==
    ASSUME MemoryInv, NEW r \in Requests, stage[r] = "applying",
           Contexts!Accepts(records, asked[r].task, asked[r].batch[applied[r] + 1]),
           records' = Contexts!Mutated(records, asked[r].task, asked[r].batch[applied[r] + 1]),
           applied' = [applied EXCEPT ![r] = applied[r] + 1],
           stage' = [stage EXCEPT ![r] = IF applied[r] + 1 = Len(asked[r].batch)
                                         THEN "done" ELSE "applying"],
           raced' = raced \cup {x \in Requests \ {r} :
                        stage[x] \in {"previewed", "applying"}
                        /\ asked[r].batch[applied[r] + 1].memory \in Contexts!MemoriesOf(x)},
           UNCHANGED <<asked, context>>
    PROVE  MemoryInv' /\ AtomicStep
  <1> PICK q : q = asked[r]
    OBVIOUS
  <1> PICK a : a = applied[r]
    OBVIOUS
  <1> PICK mut : mut = q.batch[a + 1]
    OBVIOUS
  <1> PICK st : st = IF a + 1 = Len(q.batch) THEN "done" ELSE "applying"
    OBVIOUS
  <1> /\ Contexts!Accepts(records, q.task, mut) /\ records' = Contexts!Mutated(records, q.task, mut)
      /\ applied' = [applied EXCEPT ![r] = a + 1] /\ stage' = [stage EXCEPT ![r] = st]
      /\ raced' = raced \cup {x \in Requests \ {r} :
                      stage[x] \in {"previewed", "applying"}
                      /\ mut.memory \in Contexts!MemoriesOf(x)}
    OBVIOUS
  <1>1. /\ records \in Stores /\ a \in Nat /\ q.enabled /\ a < Len(q.batch)
        /\ applied \in [Requests -> Nat] /\ stage \in [Requests -> Stages] /\ raced \subseteq Requests
    BY DEF MemoryInv, MemoryTyped, InTurn
  <1>2. /\ q.task \in Tasks /\ q.batch \in Batches /\ Len(q.batch) \in Nat /\ q \in Asks
        /\ Touched(q) \subseteq Notes
    BY AskFacts
  <1>3. a + 1 \in 1..Len(q.batch) /\ a + 1 \in Nat /\ a + 1 <= Len(q.batch)
    BY <1>1, <1>2
  <1>4. mut \in Mutations /\ mut.memory \in Notes
    BY <1>2, <1>3, BatchFacts, MutationFacts
  <1> DEFINE new == Contexts!Mutated(records, q.task, mut)
  <1>5. /\ new \in Stores /\ Follows(new[mut.memory], records[mut.memory])
        /\ \A n \in Notes : n # mut.memory => new[n] = records[n]
    BY <1>1, <1>2, <1>4, MutatedStore
  <1>6. records' = new
    OBVIOUS
  <1> HIDE DEF new
  <1>7. st \in Stages /\ st # "rejected"
    BY DEF Stages
  <1>8. /\ stage' \in [Requests -> Stages] /\ stage'[r] = st
        /\ \A x \in Requests : x # r => stage'[x] = stage[x]
    BY <1>1, <1>7
  <1>9. /\ applied' \in [Requests -> Nat] /\ applied'[r] = a + 1
        /\ \A x \in Requests : x # r => applied'[x] = applied[x]
    BY <1>1, <1>3
  <1>10. /\ raced' \subseteq Requests /\ raced \subseteq raced' /\ (r \in raced' => r \in raced)
         /\ \A x \in Requests : x # r /\ x \notin raced' /\ stage[x] \in {"previewed", "applying"}
               => mut.memory \notin Touched(asked[x])
    BY <1>1, AskFacts
  <1>11. MemoryTyped'
    BY <1>5, <1>6, <1>8, <1>9, <1>10 DEF MemoryInv, MemoryTyped
  <1>12. ASSUME NEW x \in Requests PROVE InTurn(asked[x], stage'[x], applied'[x])
    <2>1. CASE x = r
      <3>1. stage'[x] = st /\ applied'[x] = a + 1 /\ asked[x] = q
        BY <1>8, <1>9, <2>1
      <3>2. st = "applying" => a + 1 < Len(q.batch)
        BY <1>2, <1>3
      <3>3. InTurn(q, st, a + 1)
        BY <1>1, <3>2 DEF InTurn
      <3>4. QED
        BY <3>1, <3>3
    <2>2. CASE x # r
      BY <1>8, <1>9, <2>2 DEF MemoryInv
    <2>3. QED
      BY <2>1, <2>2
  <1>13. ASSUME r \notin raced
         PROVE  \E f : /\ Chained(f, q.task, q.batch)
                       /\ \A m \in Touched(q) : new[m] = f[a + 1][m]
                       /\ context[r] = Contexts!Read(f[Len(q.batch)], q.asOf)
    <2>1. \E f : /\ Chained(f, q.task, q.batch)
                 /\ q.batch[a + 1] \in Mutations
                 /\ Contexts!Accepts(records, q.task, q.batch[a + 1])
                 /\ \A m \in Touched(q) :
                       Contexts!Mutated(records, q.task, q.batch[a + 1])[m] = f[a + 1][m]
                 /\ context[r] = Contexts!Read(f[Len(q.batch)], q.asOf)
      BY <1>13, OnesOwnAccepted
    <2>2. new = Contexts!Mutated(records, q.task, q.batch[a + 1])
      BY DEF new
    <2>3. QED
      BY <2>1, <2>2
  <1>14. ASSUME NEW x \in Requests \ raced'
         PROVE  Accord(asked[x], stage'[x], new, applied'[x], context[x])
    <2>1. CASE x = r
      <3>1. stage'[x] = st /\ applied'[x] = a + 1 /\ asked[x] = q /\ context[x] = context[r]
        BY <1>8, <1>9, <2>1
      <3>2. Accord(q, st, new, a + 1, context[r])
        BY <1>10, <1>13, <2>1 DEF Accord
      <3>3. QED
        BY <3>1, <3>2
    <2>2. CASE x # r
      <3>1. stage'[x] = stage[x] /\ applied'[x] = applied[x]
        BY <1>8, <1>9, <2>2
      <3>2. Accord(asked[x], stage[x], records, applied[x], context[x])
        BY <1>10 DEF MemoryInv
      <3>3. stage[x] \in {"previewed", "applying"} =>
               \A m \in Touched(asked[x]) : new[m] = records[m]
        BY <1>5, <1>10, <2>2, AskFacts
      <3>4. Accord(asked[x], stage[x], new, applied[x], context[x])
        BY <3>2, <3>3 DEF Accord
      <3>5. QED
        BY <3>1, <3>4
    <2>3. QED
      BY <2>1, <2>2
  <1>15. MemoryInv'
    BY <1>6, <1>11, <1>12, <1>14 DEF MemoryInv
  <1>16. ASSUME NEW x \in Requests PROVE AtomicFor(x)
    <2>1. CASE x # r
      BY <1>8, <2>1 DEF AtomicFor
    <2>2. CASE x = r
      <3> SUFFICES ASSUME r \notin raced', st = "done"
                   PROVE  LET taken == OwnOf(q, Contexts!Live(new, q.asOf)) IN
                          OwnOf(q, context[r]) \subseteq taken /\ Shows(context[r], taken)
        BY <1>6, <1>7, <1>8, <2>2 DEF AtomicFor
      <3>1. a + 1 = Len(q.batch)
        OBVIOUS
      <3>2. PICK f : /\ Chained(f, q.task, q.batch)
                     /\ \A m \in Touched(q) : new[m] = f[a + 1][m]
                     /\ context[r] = Contexts!Read(f[Len(q.batch)], q.asOf)
        BY <1>10, <1>13
      <3>3. f[a + 1] \in Stores
        BY <1>1, <1>2, <1>3, <3>2 DEF Chained
      <3> PICK end : end = f[a + 1]
        OBVIOUS
      <3>5. /\ new \in Stores /\ end \in Stores /\ Touched(q) \subseteq Notes
            /\ \A m \in Touched(q) : new[m] = end[m]
        BY <1>2, <1>5, <3>2, <3>3
      <3>4. {mr \in Contexts!Live(new, q.asOf) : mr[1] \in Touched(q)}
               = {mr \in Contexts!Live(end, q.asOf) : mr[1] \in Touched(q)}
        BY ONLY <3>5, LiveAgree
      <3> PICK asOf : asOf = q.asOf
        OBVIOUS
      <3> PICK read : read = Contexts!Read(end, asOf)
        OBVIOUS
      <3>6. context[r] = read /\ read \subseteq Contexts!Live(end, asOf)
        BY <3>1, <3>2 DEF Contexts!Read
      <3>7. \A mr \in Contexts!Live(end, asOf) \ read :
               /\ Cardinality(read) = ReadLimit
               /\ \A shown \in read : Contexts!Before(shown, mr)
        BY <3>5, ReadCuts
      <3>8. OwnOf(q, Contexts!Live(new, asOf)) = OwnOf(q, Contexts!Live(end, asOf))
        BY <3>4 DEF OwnOf
      <3>9. /\ OwnOf(q, read) \subseteq OwnOf(q, Contexts!Live(end, asOf))
            /\ Shows(read, OwnOf(q, Contexts!Live(end, asOf)))
        BY <3>6, <3>7 DEF OwnOf, Shows
      <3>10. QED
        BY <3>6, <3>8, <3>9
    <2>3. QED
      BY <2>1, <2>2
  <1>17. \A m \in Notes : new[m] # records[m] => Follows(new[m], records[m])
    BY <1>5
  <1>18. QED
    BY <1>6, <1>15, <1>16, <1>17 DEF AtomicStep

LEMMA ApplyOK ==
    ASSUME MemoryInv, NEW r \in Requests, Contexts!Apply(r) PROVE MemoryInv' /\ AtomicStep
  <1> DEFINE q == asked[r]
             a == applied[r]
             mut == q.batch[a + 1]
             st == IF a + 1 = Len(q.batch) THEN "done" ELSE "applying"
  <1>1. stage[r] = "applying" /\ UNCHANGED <<asked, context>>
    BY DEF Contexts!Apply
  <1>2. CASE ~Contexts!Accepts(records, q.task, mut)
    BY <1>1, <1>2, RejectedOK DEF Contexts!Apply
  <1>3. CASE Contexts!Accepts(records, q.task, mut)
    <2>1. /\ records' = Contexts!Mutated(records, q.task, mut)
          /\ applied' = [applied EXCEPT ![r] = @ + 1]
          /\ stage' = [stage EXCEPT ![r] = IF applied'[r] = Len(q.batch) THEN "done" ELSE @]
          /\ raced' = raced \cup {x \in Requests \ {r} :
                        stage[x] \in {"previewed", "applying"}
                        /\ mut.memory \in Contexts!MemoriesOf(x)}
      BY <1>3 DEF Contexts!Apply
    <2>2. applied' = [applied EXCEPT ![r] = a + 1] /\ applied'[r] = a + 1
      BY <2>1 DEF MemoryInv, MemoryTyped
    <2>3. stage' = [stage EXCEPT ![r] = st]
      BY <1>1, <2>1, <2>2
    <2>4. /\ Contexts!Accepts(records, asked[r].task, asked[r].batch[applied[r] + 1])
          /\ records' = Contexts!Mutated(records, asked[r].task, asked[r].batch[applied[r] + 1])
          /\ applied' = [applied EXCEPT ![r] = applied[r] + 1]
          /\ stage' = [stage EXCEPT ![r] = IF applied[r] + 1 = Len(asked[r].batch)
                                           THEN "done" ELSE "applying"]
          /\ raced' = raced \cup {x \in Requests \ {r} :
                          stage[x] \in {"previewed", "applying"}
                          /\ asked[r].batch[applied[r] + 1].memory \in Contexts!MemoriesOf(x)}
      BY <1>3, <2>1, <2>2, <2>3
    <2> HIDE DEF q, a, mut, st
    <2>5. QED
      BY <1>1, <2>4, AppliedOK
  <1>4. QED
    BY <1>2, <1>3

LEMMA MemoryStep ==
    ASSUME MemoryInv, NEW r \in Requests,
           Contexts!Assemble(r) \/ Contexts!Refuse(r) \/ Contexts!Select(r) \/ Contexts!Apply(r)
    PROVE  MemoryInv' /\ AtomicStep
  BY AssembleOK, RefusalOK, SelectOK, ApplyOK

LEMMA MemoryStands ==
    ASSUME MemoryInv, UNCHANGED memoryVars PROVE MemoryInv'
  BY DEF memoryVars, MemoryInv, MemoryTyped

LEMMA MemoryMoves == [AllNext]_allVars => [Contexts!Next]_memoryVars
  BY DEF AllNext, allVars, memoryVars

\* The types of the memory and its assemblies, and the stores that the preview of
\* each assembly that nobody raced went through.
THEOREM MemoryInvariantHolds == AllSpec => []MemoryInv
  <1>1. AllInit => MemoryInv
    BY MemoryStart DEF AllInit
  <1>2. MemoryInv /\ [AllNext]_allVars => MemoryInv'
    <2> SUFFICES ASSUME MemoryInv, [Contexts!Next]_memoryVars PROVE MemoryInv'
      BY MemoryMoves
    <2>1. CASE Contexts!Next
      BY <2>1, MemoryStep DEF Contexts!Next
    <2>2. CASE UNCHANGED memoryVars
      BY <2>2, MemoryStands
    <2>3. QED
      BY <2>1, <2>2
  <1>3. QED
    BY <1>1, <1>2, PTL DEF AllSpec

\* An assembly that no other one races applies none of its mutations or all of them,
\* and what it read shows its own memories as the store has taken them, one left out
\* only by a read full of others before it; a memory keeps its task and field, and its
\* version counts its writes (memory.py mutate and read, context.py assemble).
THEOREM AssembliesAreAtomic == AllSpec => AssemblyIsAtomic
  <1> DEFINE A ==
        /\ \A r \in Requests \ raced' : stage'[r] # stage[r] =>
             LET Own(read) == {mr \in read : mr[1] \in Contexts!MemoriesOf(r)}
                 taken == Own(Contexts!Live(records', asked[r].asOf))
             IN
             /\ stage'[r] = "rejected" => applied'[r] = 0
             /\ stage[r] = "applying" /\ stage'[r] = "done" =>
                   /\ Own(context[r]) \subseteq taken
                   /\ \A mr \in taken \ context[r] :
                         /\ Contexts!Cardinality(context[r]) = ReadLimit
                         /\ \A shown \in context[r] : Contexts!Before(shown, mr)
        /\ \A m \in Notes :
             LET old == records[m]  new == records'[m] IN
             new # old =>
                 IF old = None THEN new.version = 1
                 ELSE /\ new.owner = old.owner /\ new.field = old.field
                      /\ new.version = old.version + 1
  <1>1. ASSUME MemoryInv, [Contexts!Next]_memoryVars PROVE [A]_(Contexts!vars)
    <2> SUFFICES ASSUME Contexts!Next PROVE A
      BY <1>1 DEF memoryVars, Contexts!vars
    <2>1. AtomicStep
      BY <1>1, MemoryStep DEF Contexts!Next
    <2>2. \A r \in Requests : Contexts!MemoriesOf(r) = Touched(asked[r])
      BY <1>1, AskFacts
    <2>3. \A S : Contexts!Cardinality(S) = Cardinality(S)
      BY DEF Contexts!Cardinality, Cardinality
    <2>4. QED
      BY <2>1, <2>2, <2>3 DEF AtomicStep, AtomicFor, OwnOf, Shows, Follows
  <1>2. QED
    BY <1>1, MemoryInvariantHolds, MemoryMoves, PTL
       DEF AllSpec, AssemblyIsAtomic, Contexts!AssemblyIsAtomic

-----------------------------------------------------------------------------
(* Plans and their revision.                                               *)

\* PlanRevision brings its own copies of the operators of PlanGraph.
LEMMA PlansMin == ASSUME NEW S PROVE Plans!Min(S) = Min(S) /\ Plans!Max(S) = Max(S)
  BY DEF Plans!Min, Min, Plans!Max, Max

LEMMA PlansCount == ASSUME NEW S PROVE Plans!Cardinality(S) = Cardinality(S)
  BY DEF Plans!Cardinality, Cardinality

LEMMA PlansTopology ==
    ASSUME NEW p
    PROVE  Plans!Topology(p) = Topology(p) /\ (Plans!Cyclic(p) <=> Cyclic(p))
  BY DEF Plans!Topology, Topology, Plans!Cyclic, Cyclic, Plans!Ready, Ready, Plans!ToSet, ToSet,
         Plans!Min, Min, Plans!Cardinality, Cardinality

LEMMA PlansDownstream ==
    ASSUME NEW p, NEW S, NEW stop
    PROVE  Plans!Downstream(p, S, stop) = Downstream(p, S, stop)
  BY DEF Plans!Downstream, Downstream, Plans!Cardinality, Cardinality

LEMMA PlansDepths ==
    ASSUME NEW p
    PROVE  Plans!Depths(p) = Depths(p)
  BY DEF Plans!Depths, Depths, Plans!Max, Max

LEMMA PlansValid ==
    ASSUME NEW p
    PROVE  Plans!ValidDag(p) <=> ValidDag(p)
  <1>1. /\ Plans!Edges(p) = Edges(p) /\ Plans!Roots(p) = Roots(p)
        /\ \A d : Plans!Layer(p, d) = Layer(p, d)
    BY PlansDepths DEF Plans!Edges, Edges, Plans!Roots, Roots, Plans!Layer, Layer, Plans!Ids, Ids
  <1>2. QED
    BY <1>1, PlansCount, PlansTopology, PlansDepths, PlansDownstream DEF Plans!ValidDag, ValidDag

LEMMA PlansRevision ==
    ASSUME NEW p, NEW done, NEW failed
    PROVE  /\ Plans!Remaining(p, done) = Remaining(p, done)
           /\ Plans!NextStep(p, done) = NextStep(p, done)
           /\ Plans!PartialReplan(p, failed, done) = PartialReplan(p, failed, done)
           /\ Plans!Replannable(p, failed, done) <=> Replannable(p, failed, done)
  <1>1. Plans!Remaining(p, done) = Remaining(p, done)
    BY PlansTopology DEF Plans!Remaining, Remaining,
                          Plans!ToSet, ToSet
  <1>2. Plans!NextStep(p, done) = NextStep(p, done)
    <2> DEFINE first(order) == order[Min({i \in DOMAIN order : order[i] \notin done})]
    <2>1. \A order : order[Plans!Min({i \in DOMAIN order : order[i] \notin done})] = first(order)
      BY PlansMin
    <2>2. Plans!NextStep(p, done) = [order \in Seq(Ids) |-> first(order)][Topology(p)]
      BY <2>1, PlansTopology DEF Plans!NextStep, Plans!Ids, Ids
    <2>3. QED
      BY <2>2 DEF NextStep
  <1>3. \A s : /\ Plans!NewId(p, failed, done, s) = NewId(p, failed, done, s)
               /\ Plans!Origin(s) = Origin(s)
               /\ s \in Plans!Steps <=> s \in Steps
    BY PlansDownstream DEF Plans!NewId, NewId, Plans!Replaced, Replaced, Plans!Renamed, Renamed,
                           Plans!Origin, Origin, Plans!Steps, Steps
  <1>4. Plans!PartialReplan(p, failed, done) = PartialReplan(p, failed, done)
    BY <1>3 DEF Plans!PartialReplan, PartialReplan
  <1>5. QED
    BY <1>1, <1>2, <1>4 DEF Plans!Replannable, Replannable

\* A plan revised keeps every step, verified ones under their ids, and what each
\* depends on; steps under new ids are depended on by such steps only.
Revised(p, q) ==
    /\ p \in [Steps -> SUBSET Steps] /\ ValidDag(q)
    /\ {Origin(t) : t \in DOMAIN q} = Steps
    /\ \A s \in Steps : (\E d \in p[s] : d \notin DOMAIN q) => s \notin DOMAIN q
    /\ \A t \in DOMAIN q : {Origin(d) : d \in q[t]} = p[Origin(t)]

PlanInv ==
    /\ Closed(plan) /\ verified \subseteq DOMAIN plan
    /\ \A s \in verified : plan[s] \subseteq verified
    /\ parent = <<>> => plan \in [Steps -> SUBSET Steps]
    /\ parent # <<>> => Revised(parent, plan)

LEMMA PlanStart == Plans!Init => PlanInv
  <1> SUFFICES ASSUME Plans!Init PROVE PlanInv
    OBVIOUS
  <1>1. plan \in [Steps -> SUBSET Steps] /\ verified = {} /\ parent = <<>>
    BY DEF Plans!Init, Plans!Steps, Steps
  <1>2. Closed(plan)
    BY <1>1, IdFacts DEF Closed
  <1>3. QED
    BY <1>1, <1>2 DEF PlanInv

LEMMA VerifyOK == PlanInv /\ Plans!Verify => PlanInv'
  <1> SUFFICES ASSUME PlanInv, Plans!Verify PROVE PlanInv'
    OBVIOUS
  <1> DEFINE next == NextStep(plan, verified)
  <1>1. Remaining(plan, verified) # {} /\ verified' = verified \cup {next} /\ UNCHANGED <<plan, parent>>
    BY PlansRevision DEF Plans!Verify, Plans!Unfinished
  <1>2. next \in DOMAIN plan /\ plan[next] \subseteq verified
    BY <1>1, NextIsReady DEF PlanInv
  <1> HIDE DEF next
  <1>3. QED
    BY <1>1, <1>2 DEF PlanInv

LEMMA ReviseOK == PlanInv /\ Plans!Revise => PlanInv'
  <1> SUFFICES ASSUME PlanInv, Plans!Revise PROVE PlanInv'
    OBVIOUS
  <1> DEFINE failed == NextStep(plan, verified)
             copy == PartialReplan(plan, failed, verified)
             replaced == Replaced(plan, failed, verified)
             h == [s \in Steps |-> NewId(plan, failed, verified, s)]
  <1>1. /\ ValidDag(plan) /\ Remaining(plan, verified) # {} /\ parent = <<>>
        /\ plan' = copy /\ parent' = plan /\ UNCHANGED verified
    BY PlansRevision, PlansValid DEF Plans!Revise, Plans!Unfinished
  <1>2. /\ plan \in [Steps -> SUBSET Steps] /\ Closed(plan) /\ verified \in SUBSET Steps
        /\ \A s \in verified : plan[s] \subseteq verified
    BY <1>1 DEF PlanInv
  <1>3. failed \in Steps \ verified
    BY <1>1, <1>2, NextIsReady
  <1> HIDE DEF failed
  <1>4. /\ failed \in replaced /\ replaced \subseteq Steps \ verified
        /\ \A s \in Steps : plan[s] \cap replaced # {} => s \in replaced
    BY <1>2, <1>3, ReplacedFacts
  <1>5. /\ Copy(plan, copy, h)
        /\ \A s \in Steps : Origin(h[s]) = s
        /\ DOMAIN copy \cap Steps = Steps \ replaced
        /\ \A s \in Steps \ replaced : s \in DOMAIN copy /\ copy[s] = plan[s]
    BY <1>2, <1>3, RevisionCopies
  <1> HIDE DEF copy, replaced, h
  <1>6. Closed(copy) /\ ValidDag(copy)
    BY <1>1, <1>2, <1>5, CopyClosed, CopyValid
  <1>7. /\ \A t \in DOMAIN copy : \E s \in Steps : t = h[s]
        /\ \A s \in Steps : h[s] \in DOMAIN copy /\ copy[h[s]] = {h[d] : d \in plan[s]}
                            /\ plan[s] \subseteq Steps
    <2>1. /\ \A t \in DOMAIN copy : \E s \in DOMAIN plan : t = h[s]
          /\ \A s \in DOMAIN plan : h[s] \in DOMAIN copy /\ copy[h[s]] = Image(h, plan[s])
      BY <1>2, <1>5, ImageFacts
    <2>2. QED
      BY <1>2, <2>1 DEF Image
  <1>8. {Origin(t) : t \in DOMAIN copy} = Steps
    BY <1>5, <1>7
  <1>9. \A t \in DOMAIN copy : {Origin(d) : d \in copy[t]} = plan[Origin(t)]
    BY <1>5, <1>7
  <1>10. \A s \in Steps : (\E d \in plan[s] : d \notin DOMAIN copy) => s \notin DOMAIN copy
    <2> TAKE s \in Steps
    <2> SUFFICES ASSUME NEW d \in plan[s], d \notin DOMAIN copy PROVE s \notin DOMAIN copy
      OBVIOUS
    <2>1. d \in Steps
      BY <1>7
    <2>2. d \in replaced
      BY <1>5, <2>1
    <2>3. s \in replaced
      BY <1>4, <2>2
    <2>4. QED
      BY <1>5, <2>3
  <1>11. Revised(plan, copy)
    BY <1>2, <1>6, <1>8, <1>9, <1>10 DEF Revised
  <1>12. verified \subseteq DOMAIN copy /\ \A s \in verified : copy[s] \subseteq verified
    BY <1>2, <1>4, <1>5
  <1>13. plan # <<>>
    <2>1. 1 \in Steps
      BY IdFacts DEF Steps
    <2>2. 1 \in DOMAIN plan /\ DOMAIN <<>> = {}
      BY <1>2, <2>1
    <2>3. QED
      BY <2>2
  <1>14. QED
    BY <1>1, <1>6, <1>11, <1>12, <1>13 DEF PlanInv

LEMMA PlanStep == PlanInv /\ [Plans!Next]_planVars => PlanInv'
  <1> SUFFICES ASSUME PlanInv, [Plans!Next]_planVars PROVE PlanInv'
    OBVIOUS
  <1>1. CASE Plans!Next
    BY <1>1, VerifyOK, ReviseOK DEF Plans!Next
  <1>2. CASE UNCHANGED planVars
    BY <1>2 DEF planVars, PlanInv
  <1>3. QED
    BY <1>1, <1>2

LEMMA PlanMoves == [AllNext]_allVars => [Plans!Next]_planVars
  BY DEF AllNext, allVars, planVars

\* The steps of a plan depend on steps of it, verified ones on verified ones, and a
\* revised plan is what Revised says of it.
THEOREM PlanInvariantHolds == AllSpec => []PlanInv
  <1>1. AllInit => PlanInv
    BY PlanStart DEF AllInit
  <1>2. PlanInv /\ [AllNext]_allVars => PlanInv'
    BY PlanStep, PlanMoves
  <1>3. QED
    BY <1>1, <1>2, PTL DEF AllSpec

\* The loop over the ready steps emits all of them exactly when the plan has no
\* cycle, each once and after those it depends on, first plan or revised (dag.py).
THEOREM TopologyAlwaysDecides == AllSpec => []TopologyDecidesCycles
  <1>1. PlanInv => TopologyDecidesCycles
    <2> SUFFICES ASSUME PlanInv PROVE Plans!TopologyDecidesCycles
      BY DEF TopologyDecidesCycles
    <2> DEFINE order == Topology(plan)
               place(s) == CHOOSE i \in DOMAIN order : order[i] = s
    <2>1. Closed(plan)
      BY DEF PlanInv
    <2>2. ~Plans!Cyclic(plan) <=> Plans!Acyclic(plan)
      BY <2>1, TopologyIsComplete, PlansTopology DEF Plans!Acyclic, NoCycle
    <2>3. IsInjective(order) /\ \A i \in DOMAIN order : \A d \in plan[order[i]] : place(d) < i
      BY <2>1, TopologyIsOrder
    <2>4. Plans!IsInjective(order)
      BY <2>3 DEF Plans!IsInjective, IsInjective
    <2>5. Plans!Topology(plan) = order
      BY PlansTopology
    <2> HIDE DEF order
    <2>6. QED
      BY <2>2, <2>3, <2>4, <2>5 DEF Plans!TopologyDecidesCycles
  <1>2. QED
    BY <1>1, PlanInvariantHolds, PTL

\* A revision leaves verified steps under their ids, renames the failed step and all
\* that depend on it, leaves nothing that waits for an id that is gone, and is a valid
\* plan: partial_replan never raises for it (replan.py).
THEOREM RevisionAlwaysReplacesSubgraph == AllSpec => []RevisionReplacesSubgraph
  <1>1. PlanInv => RevisionReplacesSubgraph
    <2> SUFFICES ASSUME PlanInv, parent # <<>> PROVE Plans!RevisionReplacesSubgraph
      BY DEF RevisionReplacesSubgraph, Plans!RevisionReplacesSubgraph
    <2>1. Revised(parent, plan) /\ verified \subseteq DOMAIN plan
      BY DEF PlanInv
    <2>2. Plans!ValidDag(plan)
      BY <2>1, PlansValid DEF Revised
    <2>3. Plans!Steps = Steps /\ \A s : Plans!Origin(s) = Origin(s)
      BY DEF Plans!Steps, Steps, Plans!Origin, Origin
    <2>4. QED
      BY <2>1, <2>2, <2>3 DEF Plans!RevisionReplacesSubgraph, Revised
  <1>2. QED
    BY <1>1, PlanInvariantHolds, PTL

-----------------------------------------------------------------------------
(* Types of all components.                                                *)

LEMMA AuditTypes == AuditInv => Audit!TypeOK
  <1> SUFFICES ASSUME AuditInv PROVE Audit!TypeOK
    OBVIOUS
  <1>1. LogOK /\ HeadOK /\ LengthOK
    BY DEF AuditInv
  <1>2. MaxEvents \in Nat /\ Len(written) \in Nat /\ Len(log) \in Nat
    BY <1>1, Bounds, LenProperties DEF HeadOK, Chain, LogOK
  <1>3. /\ \A i \in 1..Len(log) : log[i].sequence \in 1..MaxEvents
        /\ DOMAIN log = 1..Len(log)
    BY <1>1, LenProperties DEF LogOK
  <1>4. Len(log) <= MaxEvents /\ Len(written) <= MaxEvents
    BY <1>1, <1>2 DEF HeadOK, LengthOK
  <1>5. head.sequence \in 0..MaxEvents
    <2>1. CASE head.sequence = Len(written)
      BY <1>2, <1>4, <2>1
    <2>2. CASE /\ head.sequence = Len(written) - 1
               /\ \E i \in 1..Len(log) : log[i].sequence = Len(written)
      BY <1>2, <1>3, <1>4, <2>2
    <2>3. QED
      BY <1>1, <2>1, <2>2 DEF HeadOK
  <1>6. ASSUME NEW s \in Sessions
        PROVE  /\ work[s].op \in {"none", "write", "verify", "list"}
               /\ work[s].pc \in {"idle", "append", "record"} \cup Audit!Reading
               /\ work[s].verdict \in Audit!Verdicts \cup {"none"}
               /\ work[s].new # <<>> => owner = s
    BY DEF AuditInv, SessionOK, Columns, WriterOK
  <1>7. QED
    BY <1>3, <1>4, <1>5, <1>6 DEF AuditInv, Audit!TypeOK

LEMMA PlanningTypes == RunInv => Runs!TypeOK
  <1> SUFFICES ASSUME RunInv PROVE Runs!TypeOK
    OBVIOUS
  <1>1. RunTyped
    BY DEF RunInv
  <1>2. ASSUME NEW i \in DOMAIN results PROVE results[i].step \in Runs!Steps
    <2>1. results[i] \in Rows
      BY <1>1 DEF RunTyped
    <2>2. QED
      BY <2>1 DEF Rows
  <1>3. runPc \in {"start", "ready", "step", "match", "verify", "final", "ended"} \cup Runs!Waits
    BY <1>1 DEF RunTyped, Busy, OnStep, Runs!Waits
  <1>4. QED
    BY <1>1, <1>2, <1>3 DEF RunTyped, Outcomes, Runs!TypeOK

LEMMA PlanTypes == PlanInv => Plans!TypeOK
  <1> SUFFICES ASSUME PlanInv PROVE Plans!TypeOK
    OBVIOUS
  <1>1. /\ DOMAIN plan \subseteq Ids /\ \A s \in DOMAIN plan : plan[s] \subseteq Ids
        /\ verified \subseteq Ids
    BY DEF PlanInv, Closed
  <1>2. parent = <<>> \/ DOMAIN parent = Steps
    BY DEF PlanInv, Revised
  <1>3. QED
    BY <1>1, <1>2 DEF Plans!TypeOK, Plans!Ids, Ids, Plans!Steps, Steps

\* Whatever component runs, its state keeps its types: rows, buckets, sessions,
\* counters and plans have the values the code gives them.
THEOREM AllTypesHold == AllSpec => []AllTypeOK
  <1> DEFINE Named == part \in {"agent", "admission", "audit", "identity", "plan", "planning",
                                "memory"}
  <1>1. AllInit => Named
    BY PartsAssumption DEF AllInit
  <1>2. Named /\ [AllNext]_allVars => Named'
    BY DEF AllNext, allVars
  <1>3. Named /\ AgentInv /\ AdmissionInv /\ AuditInv /\ IdentityInv /\ PlanInv /\ RunInv
          /\ MemoryInv => AllTypeOK
    BY AgentTypes, AuditTypes, PlanTypes, PlanningTypes, MemoryTypes
    DEF AllTypeOK, AdmissionInv, IdentityInv
  <1>4. QED
    BY <1>1, <1>2, <1>3, AgentInvariantHolds, AdmissionInvariantHolds, AuditInvariantHolds,
       IdentityInvariantHolds, PlanInvariantHolds, RunInvariantHolds, MemoryInvariantHolds, PTL
    DEF AllSpec
=============================================================================
