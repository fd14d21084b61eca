---------------------------- MODULE Components -----------------------------
(***************************************************************************)
(* The components that share no state with another one in the model, side  *)
(* by side: a behaviour is a behaviour of one of them, chosen by part,     *)
(* while the others stay in their initial states.                          *)
(***************************************************************************)
EXTENDS AgentLoop, PlanGraph, Sequences

CONSTANTS
    Parts,                                                   \* the components of an instance
    Sessions, Actors, Org,                                   \* of Admission and AuditChain,
    Keys, Bodies, Level, Rate, Burst, MicroToken, Capacity, MaxClock, Traffic,
    Payloads, Limit, MaxEvents,
    Orgs, Users, Memberships, Memories, Home, Member,        \* of Identity,
    FirstRows, Values, Claims, Kids, FirstKids, MaxFetches, MaxWrites,
    Plan, Order, Instructions, Budgets, Scenarios,           \* of PlanningRun,
    Requests, Tasks, Notes, Fields, ReadLimit,
    Batches, Times, Never                                    \* of ContextMemory

ASSUME PartsAssumption ==
    Parts \subseteq {"agent", "admission", "audit", "identity", "plan", "planning", "memory"}

ASSUME ControlAssumption ==
    /\ None \notin Sessions
    /\ MaxEvents \in Nat /\ Limit \in Nat
    /\ MicroToken \in Nat \ {0} /\ Capacity \in Nat /\ MaxClock \in Nat /\ Org \notin Actors
    /\ \A c \in {"submit", "read", "mutate"}, s \in {"actor", "organization"} :
          Rate[c][s] \in Nat /\ Burst[c][s] \in Nat
    /\ \A t \in Traffic : /\ t.actors \subseteq Actors /\ t.bodies \subseteq Bodies
                          /\ t.classes \subseteq {"submit", "read", "mutate"}
    /\ None \notin [body : Bodies, run : Nat] \cup [tokens : Nat, last : Nat]

\* A plan of several steps, in an order that holds each of them once, with
\* instructions for all; a planner makes no other.
ASSUME PlanningAssumption ==
    /\ Order \in Seq(DOMAIN Plan) /\ Len(Order) > 1
    /\ \A s \in DOMAIN Plan : \E i \in 1..Len(Order) : Order[i] = s
    /\ \A i, j \in 1..Len(Order) : Order[i] = Order[j] => i = j
    /\ Instructions \in [DOMAIN Plan -> Nat \ {0}]
    /\ Budgets \subseteq
          [{"actions", "matches", "rejections", "verifiers", "executed", "doms"} -> Nat]

\* Rows belong to organizations, an organization to itself; tokens claim roles.
ASSUME IdentityAssumption ==
    LET rows == Orgs \cup Users \cup Memberships \cup Memories
        roles == {"organization_admin", "operator", "auditor"} IN
    /\ Home \in [rows -> Orgs] /\ \A o \in Orgs : Home[o] = o
    /\ Member \in [Memberships -> Users]
    /\ DOMAIN FirstRows \subseteq rows
    /\ \A x \in DOMAIN FirstRows : FirstRows[x] \in roles \cup Values
    /\ Claims \subseteq roles /\ FirstKids \subseteq Kids
    /\ MaxFetches \in Nat /\ MaxWrites \in Nat

\* A batch is a sequence of upserts, with a field and an expiry, and of deletions;
\* records are read in the order of their fields and memory ids.
ASSUME ContextAssumption ==
    /\ Batches \subseteq
          Seq([action : {"upsert"}, memory : Notes, field : Fields, expires : Times \cup {Never}]
              \cup [action : {"delete"}, memory : Notes, field : {None}, expires : {None}])
    /\ IsFiniteSet(Notes) /\ Notes \subseteq Nat /\ Fields \subseteq Nat /\ ReadLimit \in Nat

VARIABLES
    part,
    admClock, bucket, runs, idem, ready, call, served, late, traffic,
    log, head, owner, work, written, damage,
    row, memver, published, jwks, request, accepted, wins, writes,
    plan, verified, parent,
    budget, scenario, runPc, used, states, at, left, ok, results, runSession, status, good, runLost,
    records, asked, stage, context, applied, raced

admissionVars == <<admClock, bucket, runs, idem, ready, call, served, late, traffic>>
auditVars == <<log, head, owner, work, written, damage>>
identityVars == <<row, memver, published, jwks, request, accepted, wins, writes>>
planVars == <<plan, verified, parent>>
planningVars ==
    <<budget, scenario, runPc, used, states, at, left, ok, results, runSession, status, good,
      runLost>>
memoryVars == <<records, asked, stage, context, applied, raced>>

Admissions == INSTANCE Admission WITH clock <- admClock
Audit == INSTANCE AuditChain WITH Free <- None
Identities == INSTANCE Identity
Plans == INSTANCE PlanRevision
Runs == INSTANCE PlanningRun WITH pc <- runPc, session <- runSession, lost <- runLost
Contexts == INSTANCE ContextMemory WITH
    Memories <- Notes, Absent <- None, request <- asked, phase <- stage

-----------------------------------------------------------------------------
AllInit ==
    /\ part \in Parts
    /\ Init /\ Admissions!Init /\ Audit!Init /\ Identities!Init
    /\ Plans!Init /\ Runs!Init /\ Contexts!Init

AllNext ==
    /\ UNCHANGED part
    /\ \/ /\ part = "agent" /\ Next
          /\ UNCHANGED <<admissionVars, auditVars, identityVars,
                      planVars, planningVars, memoryVars>>
       \/ /\ part = "admission" /\ Admissions!Next
          /\ UNCHANGED <<vars, auditVars, identityVars,
                      planVars, planningVars, memoryVars>>
       \/ /\ part = "audit" /\ Audit!Next
          /\ UNCHANGED <<vars, admissionVars, identityVars,
                      planVars, planningVars, memoryVars>>
       \/ /\ part = "identity" /\ Identities!Next
          /\ UNCHANGED <<vars, admissionVars, auditVars,
                      planVars, planningVars, memoryVars>>
       \/ /\ part = "plan" /\ Plans!Next
          /\ UNCHANGED <<vars, admissionVars, auditVars,
                      identityVars, planningVars, memoryVars>>
       \/ /\ part = "planning" /\ Runs!Next
          /\ UNCHANGED <<vars, admissionVars, auditVars,
                      identityVars, planVars, memoryVars>>
       \/ /\ part = "memory" /\ Contexts!Next
          /\ UNCHANGED <<vars, admissionVars, auditVars,
                      identityVars, planVars, planningVars>>

allVars ==
    <<part, vars, admissionVars, auditVars, identityVars, planVars, planningVars, memoryVars>>

AllSpec == AllInit /\ [][AllNext]_allVars

-----------------------------------------------------------------------------
(* The properties of each component, of the behaviours that are its own.   *)

\* Types of all components.
AllTypeOK ==
    CASE part = "agent" -> TypeOK
      [] part = "admission" -> Admissions!TypeOK
      [] part = "audit" -> Audit!TypeOK
      [] part = "identity" -> Identities!TypeOK
      [] part = "plan" -> Plans!TypeOK
      [] part = "planning" -> Runs!TypeOK
      [] part = "memory" -> Contexts!TypeOK

\* An idempotency key of an actor stands for one run, and answers name no other.
OneRunPerKey == part = "admission" => Admissions!OneRunPerKey

\* Buckets that meet their requests in order hold their rate.
RateHeldInOrder == part = "admission" => Admissions!RateHeldInOrder

\* A chain that verifies is the chain that was written.
ValidIsWhatWasWritten == part = "audit" => Audit!ValidIsWhatWasWritten

\* The chain is unbroken, and a read in two statements covers the head it has read.
ReadCoversHead == part = "audit" => Audit!ReadCoversHead

\* Every change moves a version, and one ETag lets one write through.
VersionsNameStates == Identities!VersionsNameStates

\* Only active actors of an organization change its rows.
WritesAreAuthorized == Identities!WritesAreAuthorized

\* The topology of a plan finds its cycles.
TopologyDecidesCycles == part = "plan" => Plans!TopologyDecidesCycles

\* A revision renames the failed step and what depends on it, and nothing else.
RevisionReplacesSubgraph == part = "plan" => Plans!RevisionReplacesSubgraph

\* A planning run that finishes has carried its whole plan through.
FinishedMeansDone == part = "planning" => Runs!FinishedMeansDone

\* No agent and no executor leaves a browser behind unless a call was lost.
NoBrowserLeft ==
    /\ part = "agent" => NoSessionLeft
    /\ part = "planning" => Runs!RunLeavesNoSession

\* Neither sends anything to the worker on the credit of an exceeded limit.
BudgetsHold ==
    /\ part = "agent" => NothingBeyondBudget
    /\ part = "planning" => Runs!LedgerHolds

\* An assembly that no other one races is atomic.
AssemblyIsAtomic == Contexts!AssemblyIsAtomic
=============================================================================
