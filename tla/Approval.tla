------------------------------ MODULE Approval ------------------------------
(***************************************************************************)
(* Approval of risky actions: the rows of w11_approval_requests,           *)
(* w11_approval_decisions, w11_approval_authorities and                    *)
(* w11_approval_grants, the process-memory vault that hands the credential *)
(* of a grant to its executor, and the handlers that write them, run by    *)
(* concurrent database sessions.                                           *)
(*                                                                         *)
(* One action is one statement of a transaction at READ COMMITTED: a plain *)
(* SELECT reads what is committed and takes no lock; UPDATE and FOR UPDATE *)
(* wait for the row lock and evaluate their WHERE once they have it; an    *)
(* attribute set through the ORM is written at the next flush, over        *)
(* whatever the row holds then.  A session's writes appear when it         *)
(* commits.  PostgreSQL aborts a session of a cycle of waiting sessions.   *)
(*                                                                         *)
(* Abstractions.  A request has at most one grant (uq_w11_grant_request),  *)
(* so grants and credentials are indexed by request.  An approval set hash *)
(* is the set it covers.  A request of Bound belongs to a production run:  *)
(* its grant is claimed through claim_production_run.  Authorities are the *)
(* pairs of a user and a role; disabling one is final, so its version is   *)
(* its status.  Audit rows are not kept, but the lock on the head of the   *)
(* organization's chain, which every handler takes with its first event.   *)
(***************************************************************************)
EXTENDS Integers, FiniteSets

CONSTANTS
    Requests,        \* execution gates that may ask for approval
    Bound,           \* those made for a production run
    Action,          \* the action type of a request
    Requester,       \* who asks for it, and will execute it
    Authorities,     \* [user, role] rows of w11_approval_authorities
    Sessions,        \* database sessions of the Control API process
    VaultCapacity,   \* capacity of TrustedGrantVault
    RequestTTL,      \* REQUEST_TTL, in ticks of the clock
    GrantTTL,        \* GRANT_TTL
    MaxClock,        \* bound: how far the clock runs
    MaxRestarts,     \* bound: restarts of the Control API process
    NoRequest, NoAuthority, Free   \* null values

Roles == {"manager", "security"}

ASSUME ApprovalAssumption ==
    /\ IsFiniteSet(Requests) /\ NoRequest \notin Requests /\ Bound \subseteq Requests
    /\ \A a \in Authorities : a.role \in Roles
    /\ NoAuthority \notin Authorities /\ Free \notin Sessions
    /\ VaultCapacity \in 1..256
    /\ RequestTTL \in Nat \ {0} /\ GrantTTL \in Nat \ {0}
    /\ MaxClock \in Nat /\ MaxRestarts \in Nat

-----------------------------------------------------------------------------
(* Trusted classification of actions.                                      *)

Automatic == {"inspect_employee", "inspect_task", "create_draft", "generate_plan"}
Managed == {"create_ticket", "create_account", "assign_asset", "create_mailbox",
            "transfer_employee", "close_ticket", "release_asset"}
Privileged == {"grant_admin_privilege", "revoke_account", "disable_employee",
               "disable_mailbox", "transfer_file_ownership"}

\* evaluate_risk: an unknown action is L4, an account for an organization
\* administrator is privileged.
RiskLevel(action, forAdmin) ==
    IF action \in Automatic THEN "automatic"
    ELSE IF action \in Privileged \/ (action = "create_account" /\ forAdmin) THEN "L3"
    ELSE IF action \in Managed THEN "L2"
    ELSE "L4"

RequiredRoles(level) ==
    CASE level = "L2" -> {"manager"}
      [] level = "L3" -> {"manager", "security"}
      [] OTHER -> {}

-----------------------------------------------------------------------------
VARIABLES
    req,        \* request row: status, version, level, expires
    decisions,  \* decision rows of a request: auth, value
    grant,      \* grant row: status, version, expires, set
    authority,  \* status of an authority row
    run,        \* status of the production run of a request in Bound
    vault,      \* requests whose grant has its credential in the vault
    admin,      \* _risk_facts: the target of create_account administers the organization
    clock,      \* the time datetime.now(UTC) returns
    lock,       \* row locks: the session that holds one, or Free
    tx,         \* what each session is executing, and what it has read
    restarts    \* restarts so far

rows == <<req, decisions, grant, authority, run>>
env == <<admin, clock, restarts>>
vars == <<rows, vault, env, lock, tx>>

RequestStatus == {"none", "pending", "approved", "rejected", "cancelled", "expired",
                  "invalidated", "claimed", "consumed"}
GrantStatus == {"none", "issued", "claimed", "consumed", "revoked", "failed"}
RunStatus == {"waiting_approval", "queued", "cancelled"}

RequestRow == [status : RequestStatus, version : Nat, expires : Nat,
               level : {"none", "L2", "L3"}]
DecisionRow == [auth : Authorities, value : {"approved", "rejected"}]
Bindings == Authorities \X {"active", "disabled"}
GrantRow == [status : GrantStatus, version : Nat, expires : Nat, set : SUBSET Bindings]

Locks == {<<"request", r>> : r \in Requests} \cup {<<"grant", r>> : r \in Requests}
         \cup {<<"run", r>> : r \in Bound}
         \cup {<<"authority", a>> : a \in Authorities}
         \cup {<<"head", "org">>, <<"partition", "org">>}

Users == {a.user : a \in Authorities} \cup {Requester}
Ops == {"none", "decide", "close", "disable", "claim", "complete", "cancel"}
Steps == {"idle", "cas", "expire", "authorize", "append", "commit", "discard",
          "grants", "lock", "read", "verify", "flush", "admit", "run", "request",
          "grant"}

TxState == [op : Ops, pc : Steps, r : Requests \cup {NoRequest}, user : Users,
            auth : Authorities \cup {NoAuthority}, now : Nat,
            ver : Nat,                    \* expected version, then version read
            rver : Nat,                   \* version of the request row read
            yes : BOOLEAN,                \* the handler's yes-or-no input
            set : SUBSET Bindings,        \* approval set read or computed
            todo : SUBSET Requests,       \* grants it still has to lock or revoke
            held : SUBSET Requests,       \* grants it has locked
            dirty : SUBSET (Requests \X Nat)]   \* requests to invalidate, as read

Idle == [op |-> "none", pc |-> "idle", r |-> NoRequest, user |-> Requester,
         auth |-> NoAuthority, now |-> 0, ver |-> 0, rver |-> 0, yes |-> FALSE,
         set |-> {}, todo |-> {}, held |-> {}, dirty |-> {}]

TypeOK ==
    /\ req \in [Requests -> RequestRow] /\ grant \in [Requests -> GrantRow]
    /\ decisions \in [Requests -> SUBSET DecisionRow]
    /\ authority \in [Authorities -> {"active", "disabled"}]
    /\ run \in [Bound -> RunStatus]
    /\ vault \subseteq Requests /\ Cardinality(vault) <= VaultCapacity
    /\ admin \in BOOLEAN /\ clock \in 0..MaxClock /\ restarts \in 0..MaxRestarts
    /\ lock \in [Locks -> Sessions \cup {Free}]
    /\ tx \in [Sessions -> TxState]

Init ==
    /\ req = [r \in Requests |-> [status |-> "none", version |-> 0, expires |-> 0,
                                  level |-> "none"]]
    /\ decisions = [r \in Requests |-> {}]
    /\ grant = [r \in Requests |-> [status |-> "none", version |-> 0, expires |-> 0,
                                    set |-> {}]]
    /\ authority = [a \in Authorities |-> "active"]
    /\ run = [r \in Bound |-> "waiting_approval"]
    /\ vault = {} /\ admin \in BOOLEAN /\ clock = 0 /\ restarts = 0
    /\ lock = [l \in Locks |-> Free]
    /\ tx = [s \in Sessions |-> Idle]

-----------------------------------------------------------------------------
(* Sessions, row locks and the deadlock detector of the database.          *)

At(s, op, pc) == tx[s].op = op /\ tx[s].pc = pc

\* The row locks the next statement of s waits for.
Needs(s) ==
    LET r == tx[s].r IN
    CASE At(s, "disable", "cas") -> {<<"authority", tx[s].auth>>}
      [] tx[s].op \in {"decide", "close"} /\ tx[s].pc = "cas" -> {<<"request", r>>}
      [] tx[s].op \in {"claim", "complete"} /\ tx[s].pc = "cas" -> {<<"grant", r>>}
      [] tx[s].pc \in {"flush", "request"} -> {<<"request", r>>}
      [] tx[s].pc \in {"lock", "grant"} -> {<<"grant", r>>}
      [] tx[s].pc \in {"append", "expire"} -> {<<"head", "org">>}
      [] tx[s].pc = "admit" -> {<<"partition", "org">>}
      [] tx[s].pc = "run" -> {<<"run", r>>}
      [] At(s, "close", "commit") -> {<<"grant", g>> : g \in tx[s].todo}
      [] tx[s].op \in {"disable", "cancel"} /\ tx[s].pc = "commit" -> {<<"head", "org">>}
      [] OTHER -> {}

Ready(s) == \A l \in Needs(s) : lock[l] \in {Free, s}

\* Take the locks the statement waited for and go on at pc; commit or roll back.
Go(s, pc) ==
    /\ Ready(s)
    /\ lock' = [l \in Locks |-> IF l \in Needs(s) THEN s ELSE lock[l]]
    /\ tx' = [tx EXCEPT ![s].pc = pc]
Note(s, state) ==
    /\ Ready(s)
    /\ lock' = [l \in Locks |-> IF l \in Needs(s) THEN s ELSE lock[l]]
    /\ tx' = [tx EXCEPT ![s] = state]
Release(s) == lock' = [l \in Locks |-> IF lock[l] = s THEN Free ELSE lock[l]]
End(s) == Ready(s) /\ Release(s) /\ tx' = [tx EXCEPT ![s] = Idle]
ThenDiscard(s) == Ready(s) /\ Release(s) /\ tx' = [tx EXCEPT ![s].pc = "discard"]

\* These routes are async functions without an await: the event loop runs them
\* one at a time.  The production routes run in threads.
OnLoop(t) == \/ t.op \in {"decide", "close", "disable"}
             \/ t.op = "claim" /\ t.r \notin Bound

Begin(s, state) ==
    /\ tx[s] = Idle /\ tx' = [tx EXCEPT ![s] = state]
    /\ OnLoop(state) => \A t \in Sessions : ~OnLoop(tx[t])
    /\ UNCHANGED lock

Blockers(s) == {lock[l] : l \in Needs(s)} \ {Free, s}

\* Sessions that only wait for each other.
Deadlocked(C) ==
    /\ \A s \in C : Blockers(s) \cap C # {}
    /\ \A s \in C : \E t \in C : s \in Blockers(t)

\* The detector aborts one of them; its handler rolls back, and the claim of
\* a production run keeps its credential.
DeadlockAbort(s) ==
    /\ \E C \in SUBSET Sessions : s \in C /\ Deadlocked(C)
    /\ Release(s) /\ tx' = [tx EXCEPT ![s] = Idle]
    /\ UNCHANGED <<rows, vault, env>>

-----------------------------------------------------------------------------
(* The execution gate.                                                     *)

\* L0/L1 run at once and L4 is denied: only L2/L3 leave a row.
Gate(r) ==
    LET level == RiskLevel(Action[r], admin) IN
    /\ req[r].status = "none" /\ level \in {"L2", "L3"}
    /\ req' = [req EXCEPT ![r] = [status |-> "pending", version |-> 1, level |-> level,
                                  expires |-> clock + RequestTTL]]
    /\ UNCHANGED <<decisions, grant, authority, run, vault, env, lock, tx>>

-----------------------------------------------------------------------------
(* decide_request.                                                         *)

Decided(r) == {d.auth.role : d \in decisions[r]}
Approved(r) == {d \in decisions[r] : d.value = "approved"}

\* _current_actor_authorities, over the roles still to decide.
Eligible(s) ==
    LET r == tx[s].r IN
    {a \in Authorities : /\ a.user = tx[s].user /\ authority[a] = "active"
                         /\ a.role \in RequiredRoles(req[r].level) \ Decided(r)}

\* The client sends the version of the request it last read.
DecideStart(s, r, u, yes) ==
    /\ req[r].status = "pending"
    /\ Begin(s, [Idle EXCEPT !.op = "decide", !.pc = "cas", !.r = r, !.user = u,
                             !.yes = yes, !.now = clock, !.ver = req[r].version])
    /\ UNCHANGED <<rows, vault, env>>

DecideCas(s) ==
    LET row == req[tx[s].r] IN
    /\ At(s, "decide", "cas")
    /\ IF row.version # tx[s].ver \/ row.status # "pending" THEN End(s)
       ELSE IF row.expires <= tx[s].now THEN Go(s, "expire")
       ELSE IF tx[s].user = Requester THEN End(s)
       ELSE Go(s, "authorize")
    /\ UNCHANGED <<rows, vault, env>>

DecideExpire(s) ==
    /\ At(s, "decide", "expire")
    /\ req' = [req EXCEPT ![tx[s].r].status = "expired", ![tx[s].r].version = @ + 1]
    /\ End(s)
    /\ UNCHANGED <<decisions, grant, authority, run, vault, env>>

DecideAuthorize(s) ==
    /\ At(s, "decide", "authorize")
    /\ IF \/ \E d \in decisions[tx[s].r] : d.auth.user = tx[s].user
          \/ Cardinality(Eligible(s)) # 1
       THEN End(s)
       ELSE \E a \in Eligible(s) : Note(s, [tx[s] EXCEPT !.pc = "append", !.auth = a])
    /\ UNCHANGED <<rows, vault, env>>

\* Whether the decision completes the approval of its request.
Completes(s) ==
    LET r == tx[s].r IN
    /\ tx[s].yes
    /\ {d.auth.role : d \in Approved(r)} \cup {tx[s].auth.role}
           = RequiredRoles(req[r].level)

\* _approval_set_hash: the deciding authority is the row read by
\* DecideAuthorize, the others are read now.
SetHash(s) ==
    {<<d.auth, authority[d.auth]>> : d \in Approved(tx[s].r)}
        \cup {<<tx[s].auth, "active">>}

\* TrustedGrantVault.put raises when it is full.
RoomForEver(r) == r \notin vault
RoomFor(r) == r \notin vault /\ Cardinality(vault) < VaultCapacity

\* The credential is put in the vault before the grant is committed.
DecideAppend(s) ==
    LET r == tx[s].r IN
    /\ At(s, "decide", "append")
    /\ IF ~Completes(s)
       THEN Go(s, "commit") /\ UNCHANGED vault
       ELSE IF ~RoomFor(r) THEN End(s) /\ UNCHANGED vault
       ELSE /\ Note(s, [tx[s] EXCEPT !.pc = "commit", !.set = SetHash(s)])
            /\ vault' = vault \cup {r}
    /\ UNCHANGED <<rows, env>>

Earlier(m, n) == IF m <= n THEN m ELSE n

DecideCommit(s) ==
    LET r == tx[s].r
        value == IF tx[s].yes THEN "approved" ELSE "rejected"
    IN
    /\ At(s, "decide", "commit")
    /\ decisions' = [decisions EXCEPT ![r] =
                        @ \cup {[auth |-> tx[s].auth, value |-> value]}]
    /\ req' = [req EXCEPT ![r].version = @ + 1,
                          ![r].status = IF ~tx[s].yes THEN "rejected"
                                        ELSE IF Completes(s) THEN "approved" ELSE @]
    /\ grant' = IF Completes(s)
                THEN [grant EXCEPT ![r] =
                         [status |-> "issued", version |-> 1, set |-> tx[s].set,
                          expires |-> Earlier(req[r].expires, tx[s].now + GrantTTL)]]
                ELSE grant
    /\ End(s)
    /\ UNCHANGED <<authority, run, vault, env>>

\* The commit fails: roll back and take the credential back.
DecideCommitFails(s) ==
    /\ At(s, "decide", "commit")
    /\ vault' = IF Completes(s) THEN vault \ {tx[s].r} ELSE vault
    /\ End(s)
    /\ UNCHANGED <<rows, env>>

-----------------------------------------------------------------------------
(* close_request: cancelled by its requester or an administrator, or       *)
(* invalidated.                                                            *)

CloseStart(s, r, invalidate) ==
    /\ req[r].status \in {"pending", "approved"}
    /\ Begin(s, [Idle EXCEPT !.op = "close", !.pc = "cas", !.r = r,
                             !.yes = invalidate, !.ver = req[r].version])
    /\ UNCHANGED <<rows, vault, env>>

CloseCas(s) ==
    LET row == req[tx[s].r] IN
    /\ At(s, "close", "cas")
    /\ IF row.version = tx[s].ver /\ row.status \in {"pending", "approved"}
       THEN Go(s, "append") ELSE End(s)
    /\ UNCHANGED <<rows, vault, env>>

CloseAppend(s) ==
    /\ At(s, "close", "append") /\ Go(s, "grants")
    /\ UNCHANGED <<rows, vault, env>>

\* A plain SELECT: the grants are locked when they are written, at commit.
CloseGrants(s) ==
    LET r == tx[s].r IN
    /\ At(s, "close", "grants")
    /\ Note(s, [tx[s] EXCEPT !.pc = "commit", !.ver = grant[r].version,
                             !.todo = {g \in {r} : grant[g].status = "issued"}])
    /\ UNCHANGED <<rows, vault, env>>

\* Mutant of CloseCommit: the grant is left as it is.
CloseCommitKeepingGrant(s) ==
    /\ At(s, "close", "commit")
    /\ req' = [req EXCEPT ![tx[s].r].version = @ + 1,
                  ![tx[s].r].status = IF tx[s].yes THEN "invalidated" ELSE "cancelled"]
    /\ End(s)
    /\ UNCHANGED <<decisions, grant, authority, run, vault, env>>

CloseCommit(s) ==
    LET r == tx[s].r IN
    /\ At(s, "close", "commit")
    /\ req' = [req EXCEPT ![r].version = @ + 1,
                          ![r].status = IF tx[s].yes THEN "invalidated" ELSE "cancelled"]
    /\ grant' = IF r \in tx[s].todo
                THEN [grant EXCEPT ![r].status = "revoked", ![r].version = tx[s].ver + 1]
                ELSE grant
    /\ IF r \in tx[s].todo THEN ThenDiscard(s) ELSE End(s)
    /\ UNCHANGED <<decisions, authority, run, vault, env>>

-----------------------------------------------------------------------------
(* disable_authority.                                                      *)

DisableStart(s, a) ==
    /\ authority[a] = "active"
    /\ Begin(s, [Idle EXCEPT !.op = "disable", !.pc = "cas", !.auth = a])
    /\ UNCHANGED <<rows, vault, env>>

\* The grants that rest on a decision of the authority.
Affected(a) == {r \in Requests : /\ grant[r].status = "issued"
                                 /\ \E d \in decisions[r] : d.auth = a}

\* The row of the authority is locked, not yet committed; the grants are then
\* locked one after another.
DisableCas(s) ==
    LET a == tx[s].auth IN
    /\ At(s, "disable", "cas")
    /\ IF authority[a] = "disabled" THEN End(s)
       ELSE Go(s, "grants")
    /\ UNCHANGED <<rows, vault, env>>

DisableSelect(s) ==
    /\ At(s, "disable", "grants")
    /\ IF Affected(tx[s].auth) = {} THEN Go(s, "commit")
       ELSE \E r \in Affected(tx[s].auth) :
                Note(s, [tx[s] EXCEPT !.pc = "lock", !.r = r,
                                      !.todo = Affected(tx[s].auth) \ {r}])
    /\ UNCHANGED <<rows, vault, env>>

\* Go on with the request of one more grant of `left`, or commit.
NextGrant(s, state, left) ==
    IF left = {} THEN Note(s, [state EXCEPT !.pc = "commit"])
    ELSE \E r \in left : Note(s, [state EXCEPT !.pc = "read", !.r = r, !.todo = left \ {r}])

DisableLock(s) ==
    LET held == tx[s].held \cup {g \in {tx[s].r} : grant[g].status = "issued"}
        state == [tx[s] EXCEPT !.held = held]
    IN
    /\ At(s, "disable", "lock")
    /\ IF tx[s].todo # {}
       THEN \E r \in tx[s].todo : Note(s, [state EXCEPT !.r = r, !.todo = @ \ {r}])
       ELSE NextGrant(s, state, held)
    /\ UNCHANGED <<rows, vault, env>>

DisableRead(s) ==
    LET r == tx[s].r IN
    /\ At(s, "disable", "read")
    /\ IF req[r].status = "approved"
       THEN Note(s, [tx[s] EXCEPT !.pc = "flush", !.dirty = @ \cup {<<r, req[r].version>>}])
       ELSE NextGrant(s, tx[s], tx[s].todo)
    /\ UNCHANGED <<rows, vault, env>>

DisableFlush(s) ==
    /\ At(s, "disable", "flush") /\ Go(s, "append")
    /\ UNCHANGED <<rows, vault, env>>

DisableAppend(s) ==
    /\ At(s, "disable", "append") /\ NextGrant(s, tx[s], tx[s].todo)
    /\ UNCHANGED <<rows, vault, env>>

Invalidated(s) ==
    [r \in Requests |->
        IF \E n \in {d[2] : d \in tx[s].dirty} : <<r, n>> \in tx[s].dirty
        THEN [req[r] EXCEPT !.status = "invalidated",
                            !.version = (CHOOSE d \in tx[s].dirty : d[1] = r)[2] + 1]
        ELSE req[r]]

DisableCommit(s) ==
    /\ At(s, "disable", "commit")
    /\ authority' = [authority EXCEPT ![tx[s].auth] = "disabled"]
    /\ grant' = [r \in Requests |->
                    IF r \in tx[s].held
                    THEN [grant[r] EXCEPT !.status = "revoked", !.version = @ + 1]
                    ELSE grant[r]]
    /\ req' = Invalidated(s)
    /\ IF tx[s].held # {} THEN ThenDiscard(s) ELSE End(s)
    /\ UNCHANGED <<decisions, run, vault, env>>

-----------------------------------------------------------------------------
(* claim_grant, from its route or through claim_production_run.            *)

ClaimStart(s, r, yes) ==
    /\ grant[r].status # "none"
    /\ r \in Bound => run[r] = "waiting_approval"
    /\ Begin(s, [Idle EXCEPT !.op = "claim", !.r = r, !.yes = yes, !.now = clock,
                             !.pc = IF r \in Bound THEN "admit" ELSE "read"])
    /\ UNCHANGED <<rows, vault, env>>

\* _lock_capacity, with room left: the partitions stay locked.
ClaimAdmit(s) ==
    /\ At(s, "claim", "admit") /\ Go(s, "read")
    /\ UNCHANGED <<rows, vault, env>>

\* The request, the grant and the credential, and what they are compared with.
ClaimRead(s) ==
    LET r == tx[s].r
        fits == /\ tx[s].yes
                /\ req[r].status = "approved" /\ grant[r].status = "issued"
                /\ req[r].expires > tx[s].now /\ grant[r].expires > tx[s].now
                /\ RiskLevel(Action[r], admin) = req[r].level
    IN
    /\ At(s, "claim", "read")
    /\ IF r \notin vault THEN ThenDiscard(s)
       ELSE Note(s, [tx[s] EXCEPT !.pc = "verify", !.yes = fits, !.set = grant[r].set,
                                  !.ver = grant[r].version, !.rver = req[r].version])
    /\ UNCHANGED <<rows, vault, env>>

\* _active_approval_set: every decision rests on an authority active now.
ActiveApprovals(r) ==
    LET users == {d.auth.user : d \in Approved(r)} IN
    /\ {d.auth.role : d \in Approved(r)} = RequiredRoles(req[r].level)
    /\ Cardinality(users) = Cardinality(Approved(r))
    /\ \A d \in Approved(r) : authority[d.auth] = "active"

\* Mutant of ClaimVerify: the approvals are trusted as the grant binds them.
ClaimVerifyTrusting(s) ==
    /\ At(s, "claim", "verify")
    /\ IF tx[s].yes THEN Go(s, "cas") ELSE ThenDiscard(s)
    /\ UNCHANGED <<rows, vault, env>>

ClaimVerify(s) ==
    LET r == tx[s].r IN
    /\ At(s, "claim", "verify")
    /\ IF /\ tx[s].yes /\ ActiveApprovals(r)
          /\ tx[s].set = {<<d.auth, authority[d.auth]>> : d \in Approved(r)}
       THEN Go(s, "cas") ELSE ThenDiscard(s)
    /\ UNCHANGED <<rows, vault, env>>

\* Mutant of ClaimCas: the grant is written without its status and version in
\* the WHERE.
ClaimCasBlind(s) ==
    /\ At(s, "claim", "cas") /\ Go(s, "flush")
    /\ UNCHANGED <<rows, vault, env>>

ClaimCas(s) ==
    LET row == grant[tx[s].r] IN
    /\ At(s, "claim", "cas")
    /\ IF row.status = "issued" /\ row.version = tx[s].ver /\ row.expires > tx[s].now
       THEN Go(s, "flush") ELSE ThenDiscard(s)
    /\ UNCHANGED <<rows, vault, env>>

ClaimFlush(s) ==
    /\ At(s, "claim", "flush") /\ Go(s, "append")
    /\ UNCHANGED <<rows, vault, env>>

ClaimAppend(s) ==
    /\ At(s, "claim", "append")
    /\ Go(s, IF tx[s].r \in Bound THEN "run" ELSE "commit")
    /\ UNCHANGED <<rows, vault, env>>

\* on_claim: a run that no longer waits makes the claim roll back.
ClaimRun(s) ==
    /\ At(s, "claim", "run")
    /\ IF run[tx[s].r] = "waiting_approval" THEN Go(s, "commit") ELSE End(s)
    /\ UNCHANGED <<rows, vault, env>>

ClaimCommit(s) ==
    LET r == tx[s].r IN
    /\ At(s, "claim", "commit")
    /\ grant' = [grant EXCEPT ![r].status = "claimed", ![r].version = @ + 1]
    /\ req' = [req EXCEPT ![r].status = "claimed", ![r].version = tx[s].rver + 1]
    /\ run' = IF r \in Bound THEN [run EXCEPT ![r] = "queued"] ELSE run
    /\ ThenDiscard(s)
    /\ UNCHANGED <<decisions, authority, vault, env>>

-----------------------------------------------------------------------------
(* complete_execution_claim, of a claim made from its route.               *)

CompleteStart(s, r) ==
    /\ r \notin Bound /\ grant[r].status = "claimed"
    /\ Begin(s, [Idle EXCEPT !.op = "complete", !.pc = "cas", !.r = r])
    /\ UNCHANGED <<rows, vault, env>>

CompleteCas(s) ==
    /\ At(s, "complete", "cas")
    /\ IF grant[tx[s].r].status = "claimed" THEN Go(s, "read") ELSE End(s)
    /\ UNCHANGED <<rows, vault, env>>

CompleteRead(s) ==
    /\ At(s, "complete", "read")
    /\ IF req[tx[s].r].status = "claimed"
       THEN Note(s, [tx[s] EXCEPT !.pc = "flush", !.rver = req[tx[s].r].version])
       ELSE End(s)
    /\ UNCHANGED <<rows, vault, env>>

CompleteFlush(s) ==
    /\ At(s, "complete", "flush") /\ Go(s, "append")
    /\ UNCHANGED <<rows, vault, env>>

CompleteAppend(s) ==
    /\ At(s, "complete", "append") /\ Go(s, "commit")
    /\ UNCHANGED <<rows, vault, env>>

CompleteCommit(s) ==
    LET r == tx[s].r IN
    /\ At(s, "complete", "commit")
    /\ grant' = [grant EXCEPT ![r].status = "consumed", ![r].version = @ + 1]
    /\ req' = [req EXCEPT ![r].status = "consumed", ![r].version = tx[s].rver + 1]
    /\ End(s)
    /\ UNCHANGED <<decisions, authority, run, vault, env>>

-----------------------------------------------------------------------------
(* cancel_production_run, of a run that waits for approval or is queued.   *)

CancelStart(s, r) ==
    /\ r \in Bound /\ run[r] # "cancelled" /\ req[r].status # "none"
    /\ Begin(s, [Idle EXCEPT !.op = "cancel", !.r = r, !.yes = (run[r] = "queued"),
                             !.pc = IF run[r] = "queued" THEN "admit" ELSE "run"])
    /\ UNCHANGED <<rows, vault, env>>

CancelPartition(s) ==
    /\ At(s, "cancel", "admit") /\ Go(s, "run")
    /\ UNCHANGED <<rows, vault, env>>

\* The run row, in the status and version the client read.
CancelRun(s) ==
    /\ At(s, "cancel", "run")
    /\ IF run[tx[s].r] = (IF tx[s].yes THEN "queued" ELSE "waiting_approval")
       THEN Go(s, "request") ELSE End(s)
    /\ UNCHANGED <<rows, vault, env>>

Cancellable == {"pending", "approved", "claimed"}

\* The grant row is locked next, if there is one.
AfterRequest(s) == IF grant[tx[s].r].status = "none" THEN "commit" ELSE "grant"

CancelRequest(s) ==
    /\ At(s, "cancel", "request")
    /\ Go(s, IF req[tx[s].r].status \in Cancellable THEN "append" ELSE AfterRequest(s))
    /\ UNCHANGED <<rows, vault, env>>

CancelAppend(s) ==
    /\ At(s, "cancel", "append") /\ Go(s, AfterRequest(s))
    /\ UNCHANGED <<rows, vault, env>>

CancelGrant(s) ==
    /\ At(s, "cancel", "grant")
    /\ Note(s, [tx[s] EXCEPT !.pc = "commit",
                             !.held = {g \in {tx[s].r} :
                                          grant[g].status \in {"issued", "claimed"}}])
    /\ UNCHANGED <<rows, vault, env>>

CancelCommit(s) ==
    LET r == tx[s].r IN
    /\ At(s, "cancel", "commit")
    /\ run' = [run EXCEPT ![r] = "cancelled"]
    /\ req' = IF req[r].status \in Cancellable
              THEN [req EXCEPT ![r].status = "cancelled", ![r].version = @ + 1]
              ELSE req
    /\ grant' = IF r \in tx[s].held
                THEN [grant EXCEPT ![r].version = @ + 1,
                         ![r].status = IF @ = "claimed" THEN "failed" ELSE "revoked"]
                ELSE grant
    /\ IF tx[s].held # {} THEN ThenDiscard(s) ELSE End(s)
    /\ UNCHANGED <<decisions, authority, vault, env>>

-----------------------------------------------------------------------------
\* Mutant of Discarded: a cancelled run leaves the credential in the vault.
DiscardedByOwner(s) ==
    CASE tx[s].op = "claim" -> {tx[s].r}
      [] tx[s].op = "close" -> tx[s].todo
      [] OTHER -> {}

\* After its commit or rollback, a handler removes the credentials.
Discarded(s) ==
    CASE tx[s].op = "claim" -> {tx[s].r}
      [] tx[s].op = "close" -> tx[s].todo
      [] OTHER -> tx[s].held

Discard(s) ==
    /\ tx[s].pc = "discard"
    /\ vault' = vault \ Discarded(s)
    /\ tx' = [tx EXCEPT ![s] = Idle]
    /\ UNCHANGED <<rows, env, lock>>

\* The process is restarted: the database rolls open transactions back and
\* the vault starts empty.
Restart ==
    /\ restarts < MaxRestarts /\ restarts' = restarts + 1
    /\ vault' = {}
    /\ tx' = [s \in Sessions |-> Idle]
    /\ lock' = [l \in Locks |-> Free]
    /\ UNCHANGED <<rows, admin, clock>>

Tick ==
    /\ clock < MaxClock /\ clock' = clock + 1
    /\ UNCHANGED <<rows, vault, admin, restarts, lock, tx>>

\* The membership of the target changes its role, which concerns create_account only.
ChangeRole ==
    /\ \E r \in Requests : Action[r] = "create_account"
    /\ admin' = ~admin
    /\ UNCHANGED <<rows, vault, clock, restarts, lock, tx>>

Start(s) ==
    \/ \E r \in Requests :
        \/ \E u \in Users, yes \in BOOLEAN : DecideStart(s, r, u, yes)
        \/ \E yes \in BOOLEAN : CloseStart(s, r, yes) \/ ClaimStart(s, r, yes)
        \/ CompleteStart(s, r) \/ CancelStart(s, r)
    \/ \E a \in Authorities : DisableStart(s, a)

Step(s) ==
    \/ DecideCas(s) \/ DecideExpire(s) \/ DecideAuthorize(s) \/ DecideAppend(s)
    \/ DecideCommit(s) \/ DecideCommitFails(s)
    \/ CloseCas(s) \/ CloseAppend(s) \/ CloseGrants(s) \/ CloseCommit(s)
    \/ DisableCas(s) \/ DisableSelect(s) \/ DisableLock(s) \/ DisableRead(s)
    \/ DisableFlush(s) \/ DisableAppend(s) \/ DisableCommit(s)
    \/ ClaimAdmit(s) \/ ClaimRead(s) \/ ClaimVerify(s) \/ ClaimCas(s) \/ ClaimFlush(s)
    \/ ClaimAppend(s) \/ ClaimRun(s) \/ ClaimCommit(s)
    \/ CompleteCas(s) \/ CompleteRead(s) \/ CompleteFlush(s) \/ CompleteAppend(s)
    \/ CompleteCommit(s)
    \/ CancelPartition(s) \/ CancelRun(s) \/ CancelRequest(s) \/ CancelAppend(s)
    \/ CancelGrant(s) \/ CancelCommit(s)
    \/ Discard(s) \/ DeadlockAbort(s)

Next ==
    \/ \E r \in Requests : Gate(r)
    \/ \E s \in Sessions : Start(s) \/ Step(s)
    \/ Restart \/ Tick \/ ChangeRole

Spec == Init /\ [][Next]_vars

-----------------------------------------------------------------------------
\* The request, its grant and its production run tell the same story whenever
\* they are committed, although each handler locks them in an order of its own
\* and claim_grant and disable_authority write the request as they read it
\* before they had its lock (approval.py 1100, 293).  And they agree with the
\* authorities: a manager's approval is worth nothing once the manager is disabled,
\* the grants that rest on it are revoked with it ("disable revokes unclaimed
\* grants").  Of requests one manager decides; see the README for L3.
Agree(r) ==
    /\ req[r].status \in {"none", "pending", "rejected", "expired"}
           => grant[r].status = "none"
    /\ req[r].status = "approved" <=> grant[r].status = "issued"
    /\ req[r].status = "claimed" <=> grant[r].status = "claimed"
    /\ req[r].status = "consumed" <=> grant[r].status = "consumed"
    /\ r \in Bound => (run[r] = "queued" <=> req[r].status = "claimed")
    /\ grant[r].status = "issued" /\ req[r].level = "L2"
           => \A d \in decisions[r] : authority[d.auth] = "active"

RowsAgree == \A r \in Requests : Agree(r)

\* No credential outlives the grant it belongs to: when no handler is at work,
\* what the vault of 64 entries holds can still be claimed or revoked
\* (approval.py 88).
VaultHoldsIssuedOnly ==
    (\A s \in Sessions : tx[s] = Idle)
        => \A r \in vault : grant[r].status = "issued"

\* Versions count commits: no handler overwrites what another one committed
\* since it read the row ("every successful mutation exactly +1").  So a grant is
\* claimed once, a claimed one is consumed or fails, never revoked, and what was
\* revoked, failed or consumed stays so, as does a closed request (approval.py 1079).
Counted(r) ==
    /\ req'[r] # req[r] => req'[r].version = req[r].version + 1
    /\ grant'[r] # grant[r] => grant'[r].version = grant[r].version + 1
    /\ grant[r].status = "claimed"
           => grant'[r].status \in {"claimed", "consumed", "failed"}
    /\ grant[r].status \in {"revoked", "failed", "consumed"} => grant'[r] = grant[r]
    /\ req[r].status \in {"rejected", "expired", "cancelled", "invalidated", "consumed"}
           => req'[r] = req[r]

NoLostUpdate == [][\A r \in Requests : Counted(r)]_vars

\* When a claim commits, the required roles have approved it, each a different
\* user and none the requester, and every one of these authorities is still
\* active, whoever disabled one in the meantime (approval.py 637, 1027).
Rests(r) ==
    grant[r].status = "issued" /\ grant'[r].status = "claimed"
        => /\ ActiveApprovals(r)
           /\ \A d \in Approved(r) : d.auth.user # Requester

ClaimRestsOnActiveApprovals == [][\A r \in Requests : Rests(r)]_vars
=============================================================================
