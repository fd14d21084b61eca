--------------------------- MODULE MCComponents ----------------------------
(***************************************************************************)
(* Small instances of the components, and initial states that leave the    *)
(* components that do not move in one state each.                          *)
(***************************************************************************)
EXTENDS Components, TLC

CONSTANTS
    ticket, inspect, wipe,
    alpha, beta, ada, eve, ma, me, m1, m2

\* Admission: a second has one tick, and most buckets hold one request.
MCLevel == [b \in Bodies |-> CASE b = ticket -> "L2" [] b = inspect -> "L0" [] OTHER -> "L4"]
MCRate == [c \in {"submit", "read", "mutate"} |-> [s \in {"actor", "organization"} |-> 1]]
MCBurst == [c \in {"submit", "read", "mutate"} |-> [s \in {"actor", "organization"} |->
                IF c = "submit" /\ s = "organization" THEN 2 ELSE 1]]
MCTraffic ==
    {[actors |-> Actors, classes |-> {"submit", "mutate"}, bodies |-> {ticket, inspect}],
     [actors |-> Actors, classes |-> {"submit"}, bodies |-> {inspect, wipe}],
     [actors |-> Actors, classes |-> {"read"}, bodies |-> {}]}

\* Identity: two organizations, each with a user, a membership and a memory.
MCHome == [x \in Orgs \cup Users \cup Memberships \cup Memories |->
               IF x \in {alpha, ada, ma, m1} THEN alpha ELSE beta]
MCMember == [m \in Memberships |-> IF m = ma THEN ada ELSE eve]
MCFirstRows == [x \in {alpha, beta, ada, eve, ma, me, m2} |->
                    CASE x = ma -> "organization_admin" [] x = me -> "operator" [] OTHER -> "p"]

\* PlanningRun: a diamond, with a budget that suffices and one short of each limit.
MCPlan == <<{}, {1}, {1}, {2, 3}>>
MCOrder == <<1, 2, 3, 4>>
MCInstructions == <<2, 1, 2, 1>>
Ample == [c \in {"actions", "matches", "rejections", "verifiers", "executed", "doms"} |-> 9]
MCBudgets ==
    {Ample, [Ample EXCEPT !.actions = 3], [Ample EXCEPT !.matches = 3],
     [Ample EXCEPT !.rejections = 0], [Ample EXCEPT !.verifiers = 2],
     [Ample EXCEPT !.executed = 2], [Ample EXCEPT !.doms = 3]}

\* ContextMemory: batches that write, delete and rename memories, in either order.
Writes(m) == {[action |-> "upsert", memory |-> m, field |-> f, expires |-> 3] : f \in Fields}
Mutation == Writes(1) \cup {[action |-> "upsert", memory |-> 2, field |-> 1, expires |-> 2]}
              \cup {[action |-> "delete", memory |-> m, field |-> None, expires |-> None] : m \in Notes}
MCBatches == {<<>>} \cup (Mutation \X Mutation)

-----------------------------------------------------------------------------
MCInit ==
    /\ part \in Parts
    /\ Init /\ (part # "agent" => kind = "dom" /\ maxPixels = 1)
    /\ Admissions!Init /\ (part # "admission" => traffic.classes = {"read"})
    /\ Audit!Init /\ Identities!Init
    /\ IF part = "plan" THEN Plans!Init
       ELSE plan = [s \in Steps |-> {}] /\ verified = {} /\ parent = <<>>
    /\ Runs!Init /\ (part # "planning" => budget = Ample /\ scenario = "finish_immediately")
    /\ IF part = "memory"
       THEN Contexts!Init /\ asked[1].task = "w3" /\ asked[1].asOf = 1 /\ asked[1].enabled
       ELSE /\ asked = [r \in {1, 2} |-> [task |-> "w3", batch |-> <<>>, asOf |-> 1, enabled |-> TRUE]]
            /\ Contexts!Init

MCSpec == MCInit /\ [][AllNext]_allVars

Symmetry == Permutations(Sessions) \cup Permutations(Actors)
=============================================================================
