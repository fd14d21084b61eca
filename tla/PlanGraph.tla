------------------------------ MODULE PlanGraph ------------------------------
(***************************************************************************)
(* The plan of a run: a DAG of steps, its validation with the order the    *)
(* steps are executed in (planning_agent/dag.py), and the one partial      *)
(* revision a run may have (planning_agent/replan.py).                     *)
(*                                                                         *)
(* A plan is a function from its step ids to the sets of ids they depend   *)
(* on.  Ids are integers in the order of the strings they stand for: the   *)
(* planner's ids "s.." are 1..N, and "r2_" \o id, which sorts before every *)
(* "s..", is id - N.  The plan's hash is the plan itself.                  *)
(***************************************************************************)
EXTENDS Integers, FiniteSets, SequencesExt

CONSTANTS
    N,          \* number of steps
    MaxEdges,   \* MAX_EDGES
    MaxDeps,    \* MAX_DEPENDENCIES
    MaxDepth,   \* MAX_DEPTH
    MaxWidth    \* MAX_WIDTH

ASSUME PlanAssumption ==
    /\ N \in Nat \ {0}
    /\ {MaxEdges, MaxDeps, MaxDepth, MaxWidth} \subseteq Nat

Steps == 1 .. N
Ids == 1 - N .. N

\* The step an id was made from: renaming keeps the operation.
Origin(id) == IF id \in Steps THEN id ELSE id + N
Renamed(id) == id - N

-----------------------------------------------------------------------------
(* validate_dag *)

Roots(plan) == {s \in DOMAIN plan : plan[s] = {}}
Edges(plan) == {e \in (DOMAIN plan) \X Ids : e[2] \in plan[e[1]]}

\* Mutation: a step is ready once one of its dependencies is, not all.
ReadyTooSoon(plan, emitted) ==
    {s \in DOMAIN plan \ emitted : plan[s] = {} \/ plan[s] \cap emitted # {}}

Ready(plan, emitted) == {s \in DOMAIN plan \ emitted : plan[s] \subseteq emitted}

\* The loop over the sorted list of ready steps: the smallest id goes first.
Topology(plan) ==
    LET order[k \in 0 .. Cardinality(DOMAIN plan)] ==
            IF k = 0 THEN <<>>
            ELSE LET ready == Ready(plan, ToSet(order[k - 1]))
                 IN  IF ready = {} THEN order[k - 1]
                     ELSE Append(order[k - 1], Min(ready))
    IN  order[Cardinality(DOMAIN plan)]

Cyclic(plan) == Len(Topology(plan)) # Cardinality(DOMAIN plan)

Depths(plan) ==
    LET depth[s \in DOMAIN plan] ==
            IF plan[s] = {} THEN 1 ELSE 1 + Max({depth[d] : d \in plan[s]})
    IN  depth

Layer(plan, d) == {s \in DOMAIN plan : Depths(plan)[s] = d}

\* Everything reachable from S through dependents, S included; a step of
\* "stop" is neither entered nor passed.
Downstream(plan, S, stop) ==
    LET reach[k \in 0 .. Cardinality(DOMAIN plan)] ==
            IF k = 0 THEN S \ stop
            ELSE reach[k - 1]
                 \cup {s \in DOMAIN plan \ stop : plan[s] \cap reach[k - 1] # {}}
    IN  reach[Cardinality(DOMAIN plan)]

\* No reason code applies.  Duplicate ids, pages and actions of an operation
\* and the size of the JSON are not part of the graph.
ValidDag(plan) ==
    /\ Cardinality(Edges(plan)) <= MaxEdges
    /\ \A s \in DOMAIN plan :
          /\ Cardinality(plan[s]) <= MaxDeps
          /\ s \notin plan[s]
          /\ plan[s] \subseteq DOMAIN plan
    /\ Cardinality(Roots(plan)) = 1
    /\ ~Cyclic(plan)
    /\ \A s \in DOMAIN plan :
          /\ Depths(plan)[s] <= MaxDepth
          /\ Cardinality(Layer(plan, Depths(plan)[s])) <= MaxWidth
    /\ Downstream(plan, Roots(plan), {}) = DOMAIN plan

-----------------------------------------------------------------------------
(* The workflow's choice of a step *)

Remaining(p, done) == ToSet(Topology(p)) \ done

\* The first of the order that is not in completed.
NextStep(p, done) ==
    LET first[order \in Seq(Ids)] == order[Min({i \in DOMAIN order : order[i] \notin done})]
    IN  first[Topology(p)]

-----------------------------------------------------------------------------
(* partial_replan *)

Replannable(plan, failed, completed) == failed \in DOMAIN plan \ completed

\* Mutation: dependents of the failed step keep their ids.
ReplacedAlone(plan, failed, completed) == {failed}

Replaced(plan, failed, completed) == Downstream(plan, {failed}, completed)

NewId(plan, failed, completed, s) ==
    IF s \in Replaced(plan, failed, completed) THEN Renamed(s) ELSE s

\* Replaced steps are renamed and so are their dependencies on one another;
\* every other step is kept as it is.
PartialReplan(plan, failed, completed) ==
    LET new(s) == NewId(plan, failed, completed, s)
    IN  [t \in {new(s) : s \in DOMAIN plan} |->
            IF t \in Steps THEN plan[t] ELSE {new(d) : d \in plan[Origin(t)]}]
=============================================================================
