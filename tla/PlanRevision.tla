---------------------------- MODULE PlanRevision -----------------------------
(***************************************************************************)
(* Every plan of N steps taken through the life the recovery workflow      *)
(* gives it: validated, its steps verified in the order of the topology,   *)
(* and once, at any point, revised from the step at hand.                  *)
(***************************************************************************)
EXTENDS PlanGraph

VARIABLES
    plan,       \* state.dag
    verified,   \* completed step ids, the same in workflow and coordinator
    parent      \* the plan of revision 1 once it was revised, else <<>>

vars == <<plan, verified, parent>>

Init ==
    /\ plan \in [Steps -> SUBSET Steps]
    /\ verified = {}
    /\ parent = <<>>

Unfinished == ValidDag(plan) /\ Remaining(plan, verified) # {}

Verify ==
    /\ Unfinished
    /\ verified' = verified \cup {NextStep(plan, verified)}
    /\ UNCHANGED <<plan, parent>>

Revise ==
    /\ Unfinished
    /\ parent = <<>>
    /\ Replannable(plan, NextStep(plan, verified), verified)
    /\ plan' = PartialReplan(plan, NextStep(plan, verified), verified)
    /\ parent' = plan
    /\ UNCHANGED verified

Next == Verify \/ Revise

Spec == Init /\ [][Next]_vars

-----------------------------------------------------------------------------
(* Properties *)

TypeOK ==
    /\ DOMAIN plan \subseteq Ids
    /\ \A s \in DOMAIN plan : plan[s] \subseteq Ids
    /\ verified \subseteq Ids
    /\ parent = <<>> \/ DOMAIN parent = Steps

\* Reference definition: in every set of steps of an acyclic plan some step
\* depends on no step of the set.
Acyclic(p) ==
    \A S \in SUBSET DOMAIN p : S # {} => \E s \in S : p[s] \cap S = {}

\* dag.py 91-101: the sorted-ready loop emits every step exactly when the
\* dependencies have no cycle, each once and after all it depends on.
TopologyDecidesCycles ==
    LET order == Topology(plan)
        place(s) == CHOOSE i \in DOMAIN order : order[i] = s
    IN  /\ ~Cyclic(plan) <=> Acyclic(plan)
        /\ IsInjective(order)
        /\ \A i \in DOMAIN order : \A d \in plan[order[i]] : place(d) < i

\* replan.py 17-46: a revision keeps verified steps under their ids, gives
\* the failed step and everything that depends on it a new one, and leaves
\* nothing behind that waits for an id that no longer exists.  It is valid
\* again, so "partial replan violated the frozen W7 DAG contract" is never raised.
RevisionReplacesSubgraph ==
    parent # <<>> =>
        /\ ValidDag(plan)
        /\ LET failed == {s \in Steps : s \notin DOMAIN plan}
           IN
            /\ {Origin(t) : t \in DOMAIN plan} = Steps
            /\ verified \cap Steps \subseteq DOMAIN plan
            /\ \A s \in Steps : parent[s] \cap failed # {} => s \in failed
            /\ \A t \in DOMAIN plan : {Origin(d) : d \in plan[t]} = parent[Origin(t)]
=============================================================================
