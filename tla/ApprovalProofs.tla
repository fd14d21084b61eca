--------------------------- MODULE ApprovalProofs ---------------------------
(***************************************************************************)
(* The safety properties of Approval, proved for every set of requests,    *)
(* authorities and sessions.  The inductive invariant says of each row what *)
(* the handlers rely on, and of each session what it knows about the rows  *)
(* from the locks it holds and from what it has read before it had them.   *)
(***************************************************************************)
EXTENDS Approval, FiniteSetTheorems, TLAPS

RequestHeld(s, r) == lock[<<"request", r>>] = s
GrantHeld(s, r) == lock[<<"grant", r>>] = s

-----------------------------------------------------------------------------
(* What is true of the committed rows of a request.                        *)

\* A grant is issued in version 1, by the commit that approves the request,
\* and nobody decides a request of his own.
Rows(r) ==
    /\ Agree(r)
    /\ req[r].status = "none" => req[r].version = 0
    /\ grant[r].status = "none" => grant[r].version = 0
    /\ grant[r].status = "issued" => grant[r].version = 1
    /\ req[r].status = "none" => decisions[r] = {}
    /\ req[r].status = "pending" /\ req[r].level = "L2" => decisions[r] = {}
    /\ \A d \in decisions[r] : d.auth.user # Requester

-----------------------------------------------------------------------------
(* What a session knows, by the step of its handler.                       *)

Deciding(s) ==
    LET r == tx[s].r  a == tx[s].auth  pc == tx[s].pc IN
    tx[s].op = "decide" =>
        /\ r \in Requests /\ pc \in {"cas", "expire", "authorize", "append", "commit"}
        /\ pc # "cas" => RequestHeld(s, r) /\ req[r].status = "pending"
        /\ pc \in {"authorize", "append", "commit"} => tx[s].user # Requester
        /\ pc \in {"append", "commit"} =>
               /\ a \in Authorities /\ a.user = tx[s].user /\ authority[a] = "active"
               /\ a.role \in RequiredRoles(req[r].level) \ Decided(r)

\* The grant it will revoke is issued exactly if the request is approved.
Closing(s) ==
    LET r == tx[s].r  pc == tx[s].pc IN
    tx[s].op = "close" /\ pc # "discard" =>
        /\ r \in Requests /\ pc \in {"cas", "append", "grants", "commit"}
        /\ pc # "cas" => RequestHeld(s, r) /\ req[r].status \in {"pending", "approved"}
        /\ pc = "commit" => /\ tx[s].todo = {g \in {r} : req[g].status = "approved"}
                            /\ r \in tx[s].todo => tx[s].ver = 1

\* disable_authority sees every grant that rests on the authority: those it has
\* locked and those it still has to lock.  It writes the request of each grant
\* it has locked, in the version it has read.
Dirtied(s) == {d[1] : d \in tx[s].dirty}

ToLock(s) == IF tx[s].pc = "lock" THEN tx[s].todo \cup {tx[s].r} ELSE {}

Disabling(s) ==
    LET r == tx[s].r  held == tx[s].held  pc == tx[s].pc IN
    tx[s].op = "disable" /\ pc # "discard" =>
        /\ tx[s].auth \in Authorities
        /\ pc \in {"cas", "grants", "lock", "read", "flush", "append", "commit"}
        /\ pc \in {"cas", "grants"} => held = {}
        /\ pc \in {"cas", "grants", "lock"} => tx[s].dirty = {}
        /\ pc \in {"lock", "read", "flush"} => r \in Requests
        /\ pc \notin {"cas", "grants"} => Affected(tx[s].auth) \subseteq held \cup ToLock(s)
        /\ \A g \in held : GrantHeld(s, g) /\ grant[g].status = "issued"
        /\ \A d \in tx[s].dirty :
               /\ d[1] \in held /\ d[2] = req[d[1]].version
               /\ RequestHeld(s, d[1]) \/ (pc = "flush" /\ d[1] = r)
        /\ pc = "read" => held = {r} \cup tx[s].todo \cup Dirtied(s)
        /\ pc \in {"flush", "append"} => held = tx[s].todo \cup Dirtied(s)
        /\ pc = "commit" => held = Dirtied(s)

\* claim_grant reads before it locks: what it has read is still so if the grant
\* is still issued.
Claiming(s) ==
    LET r == tx[s].r  pc == tx[s].pc IN
    tx[s].op = "claim" /\ pc # "discard" =>
        /\ r \in Requests
        /\ pc \in {"admit", "read", "verify", "cas", "flush", "append", "run", "commit"}
        /\ pc \in {"verify", "cas"} /\ tx[s].yes =>
               /\ grant[r].status # "none"
               /\ grant[r].status = "issued" => req[r].version = tx[s].rver
        /\ pc = "cas" => /\ tx[s].yes
                         /\ grant[r].status = "issued" => ActiveApprovals(r)
        /\ pc \in {"flush", "append", "run", "commit"} =>
               /\ GrantHeld(s, r) /\ grant[r].status = "issued"
               /\ req[r].version = tx[s].rver /\ ActiveApprovals(r)
        /\ pc \in {"append", "run", "commit"} => RequestHeld(s, r)
        /\ pc = "run" => r \in Bound

Completing(s) ==
    LET r == tx[s].r  pc == tx[s].pc IN
    tx[s].op = "complete" =>
        /\ r \in Requests \ Bound /\ pc \in {"cas", "read", "flush", "append", "commit"}
        /\ pc # "cas" => GrantHeld(s, r) /\ grant[r].status = "claimed"
        /\ pc \in {"flush", "append", "commit"} => req[r].version = tx[s].rver
        /\ pc \in {"append", "commit"} => RequestHeld(s, r)

Cancelling(s) ==
    LET r == tx[s].r  pc == tx[s].pc IN
    tx[s].op = "cancel" /\ pc # "discard" =>
        /\ r \in Bound /\ pc \in {"admit", "run", "request", "append", "grant", "commit"}
        /\ pc \in {"append", "grant", "commit"} => RequestHeld(s, r)
        /\ pc = "grant" => grant[r].status # "none"
        /\ pc # "commit" => tx[s].held = {}
        /\ pc = "commit" =>
               /\ grant[r].status # "none" => GrantHeld(s, r)
               /\ tx[s].held = {g \in {r} : grant[g].status \in {"issued", "claimed"}}

\* tx[s] is one of the states of a handler.
Working(s) ==
    /\ tx[s].op = "none" => tx[s] = Idle
    /\ tx[s].pc = "discard" => tx[s].op \in {"close", "disable", "claim", "cancel"}

Session(s) ==
    /\ Deciding(s) /\ Closing(s) /\ Disabling(s) /\ Claiming(s) /\ Completing(s)
    /\ Cancelling(s) /\ Working(s)

\* One handler of the event loop at a time.
OneOnLoop == \A s, t \in Sessions : OnLoop(tx[s]) /\ OnLoop(tx[t]) => s = t

\* A credential in the vault belongs to an issued grant, or a handler is about
\* to issue the grant or to remove the credential.
Issuing(s, r) == At(s, "decide", "commit") /\ tx[s].r = r /\ Completes(s)
Removing(s, r) == tx[s].pc = "discard" /\ r \in Discarded(s)
Owned(r) == \/ grant[r].status = "issued"
            \/ \E s \in Sessions : Issuing(s, r) \/ Removing(s, r)

ApprovalInv ==
    /\ TypeOK
    /\ \A r \in Requests : Rows(r)
    /\ \A s \in Sessions : Session(s)
    /\ OneOnLoop
    /\ \A r \in vault : Owned(r)

-----------------------------------------------------------------------------
(* Row locks.                                                              *)

\* A step of another session leaves t its locks.
Kept(t) == tx'[t] = tx[t] /\ \A l \in Locks : lock[l] = t => lock'[l] = t

\* A session turns from one handler to another only when it is idle.
SameHandler(s, state) == /\ state.op = tx[s].op
                         /\ state.op = "claim" => state.r = tx[s].r

LEMMA LockNames ==
    ASSUME NEW r \in Requests
    PROVE  <<"request", r>> \in Locks /\ <<"grant", r>> \in Locks
  BY DEF Locks

LEMMA TakesLocks ==
    ASSUME TypeOK, NEW s \in Sessions, NEW state \in TxState, Note(s, state)
    PROVE  /\ tx' \in [Sessions -> TxState] /\ lock' \in [Locks -> Sessions \cup {Free}]
           /\ tx'[s] = state
           /\ \A l \in Locks : l \in Needs(s) \/ lock[l] = s => lock'[l] = s
           /\ \A t \in Sessions \ {s} : Kept(t)
  <1>1. tx \in [Sessions -> TxState] /\ lock \in [Locks -> Sessions \cup {Free}]
    BY DEF TypeOK
  <1>2. /\ \A l \in Needs(s) : lock[l] \in {Free, s}
        /\ lock' = [l \in Locks |-> IF l \in Needs(s) THEN s ELSE lock[l]]
        /\ tx' = [tx EXCEPT ![s] = state]
    BY DEF Note, Ready
  <1>3. \A t \in Sessions \ {s} : Kept(t)
    BY <1>1, <1>2, ApprovalAssumption DEF Kept
  <1>4. QED
    BY <1>1, <1>2, <1>3

LEMMA GoesOn ==
    ASSUME TypeOK, NEW s \in Sessions, NEW pc \in Steps, Go(s, pc)
    PROVE  LET state == [tx[s] EXCEPT !.pc = pc] IN
           state \in TxState /\ Note(s, state) /\ SameHandler(s, state)
  <1>1. tx \in [Sessions -> TxState]
    BY DEF TypeOK
  <1>2. [tx[s] EXCEPT !.pc = pc] \in TxState
    BY <1>1 DEF TxState
  <1>3. SameHandler(s, [tx[s] EXCEPT !.pc = pc])
    BY <1>1 DEF TxState, SameHandler
  <1>4. QED
    BY <1>1, <1>2, <1>3 DEF Go, Note

LEMMA LeavesLocks ==
    ASSUME TypeOK, NEW s \in Sessions, NEW state \in TxState,
           Release(s), tx' = [tx EXCEPT ![s] = state]
    PROVE  /\ tx' \in [Sessions -> TxState] /\ lock' \in [Locks -> Sessions \cup {Free}]
           /\ tx'[s] = state /\ \A t \in Sessions \ {s} : Kept(t)
  <1>1. tx \in [Sessions -> TxState] /\ lock \in [Locks -> Sessions \cup {Free}]
    BY DEF TypeOK
  <1>2. QED
    BY <1>1 DEF Release, Kept

LEMMA IdleTyped == Idle \in TxState
  BY DEF Idle, TxState, Users, Ops, Steps

LEMMA DiscardTyped ==
    ASSUME TypeOK, NEW s \in Sessions
    PROVE  [tx[s] EXCEPT !.pc = "discard"] \in TxState
  BY DEF TypeOK, TxState, Steps

\* The locks each statement waits for.
LEMMA NeedsOf ==
    ASSUME NEW s \in Sessions
    PROVE  LET r == tx[s].r  op == tx[s].op  pc == tx[s].pc IN
           /\ op \in {"decide", "close"} /\ pc = "cas" => Needs(s) = {<<"request", r>>}
           /\ op \in {"claim", "complete"} /\ pc = "cas" => Needs(s) = {<<"grant", r>>}
           /\ pc \in {"flush", "request"} => Needs(s) = {<<"request", r>>}
           /\ pc \in {"lock", "grant"} => Needs(s) = {<<"grant", r>>}
           /\ op = "close" /\ pc = "commit" => Needs(s) = {<<"grant", g>> : g \in tx[s].todo}
           /\ op = "decide" /\ pc = "commit" => Needs(s) = {}
           /\ pc \in {"discard", "idle"} => Needs(s) = {}
  BY DEF Needs, At

-----------------------------------------------------------------------------
(* The knowledge of a session survives the steps of the others.            *)

\* What a step of another session leaves to t: the rows it has locked, and of
\* the requests it has only read, those whose grant is still issued.
Relies(t) ==
    /\ \A r \in Requests :
        /\ RequestHeld(t, r) /\ req[r].status # "none"
               => req'[r] = req[r] /\ decisions'[r] = decisions[r]
        /\ RequestHeld(t, r) /\ grant[r].status = "none" => grant'[r] = grant[r]
        /\ GrantHeld(t, r) /\ grant[r].status # "none"
               => /\ req'[r] = req[r] /\ decisions'[r] = decisions[r]
                  /\ grant'[r] = grant[r]
        /\ grant[r].status # "none" => grant'[r].status # "none"
        /\ grant[r].status # "none" /\ grant'[r].status = "issued"
               => /\ req'[r] = req[r] /\ decisions'[r] = decisions[r]
                  /\ grant'[r] = grant[r]
                  /\ \A d \in decisions[r] :
                         authority[d.auth] = "active" => authority'[d.auth] = "active"
    /\ tx[t].op \in {"decide", "disable"}
           => /\ authority' = authority
              /\ \A r \in Requests : grant'[r].status = "issued" => grant[r].status = "issued"

LEMMA LocksKept ==
    ASSUME NEW t, Kept(t)
    PROVE  \A r \in Requests : /\ RequestHeld(t, r) => RequestHeld(t, r)'
                               /\ GrantHeld(t, r) => GrantHeld(t, r)'
  BY LockNames DEF Kept, RequestHeld, GrantHeld

\* Active approvals stay active while the grant is issued.
LEMMA ApprovalsStayActive ==
    ASSUME NEW r \in Requests, req'[r] = req[r], decisions'[r] = decisions[r],
           \A d \in decisions[r] :
               authority[d.auth] = "active" => authority'[d.auth] = "active",
           ActiveApprovals(r)
    PROVE  ActiveApprovals(r)'
  <1>1. Approved(r)' = Approved(r) /\ Approved(r) \subseteq decisions[r]
    BY DEF Approved
  <1>2. QED
    BY <1>1 DEF ActiveApprovals

LEMMA DecidingKept ==
    ASSUME NEW t \in Sessions, Kept(t), Relies(t), Deciding(t)
    PROVE  Deciding(t)'
  <1> SUFFICES ASSUME tx[t].op = "decide" PROVE Deciding(t)'
    BY DEF Kept, Deciding
  <1>1. tx'[t] = tx[t]
    BY DEF Kept
  <1>2. CASE tx[t].pc = "cas"
    BY <1>1, <1>2 DEF Deciding
  <1>3. CASE tx[t].pc # "cas"
    <2> DEFINE r == tx[t].r
    <2>1. r \in Requests /\ RequestHeld(t, r) /\ req[r].status = "pending"
      BY <1>3 DEF Deciding
    <2>2. req'[r] = req[r] /\ decisions'[r] = decisions[r] /\ authority' = authority
      BY <2>1 DEF Relies
    <2>3. Decided(r)' = Decided(r)
      BY <1>1, <2>2 DEF Decided
    <2>4. RequestHeld(t, r)'
      BY <1>1, <2>1, LocksKept
    <2>5. QED
      BY <1>1, <2>1, <2>2, <2>3, <2>4 DEF Deciding
  <1>4. QED
    BY <1>2, <1>3

LEMMA ClosingKept ==
    ASSUME NEW t \in Sessions, Kept(t), Relies(t), Closing(t)
    PROVE  Closing(t)'
  <1> SUFFICES ASSUME tx[t].op = "close", tx[t].pc # "discard" PROVE Closing(t)'
    BY DEF Kept, Closing
  <1>1. tx'[t] = tx[t]
    BY DEF Kept
  <1>2. CASE tx[t].pc = "cas"
    BY <1>1, <1>2 DEF Closing
  <1>3. CASE tx[t].pc # "cas"
    <2> DEFINE r == tx[t].r
    <2>1. r \in Requests /\ RequestHeld(t, r) /\ req[r].status \in {"pending", "approved"}
      BY <1>3 DEF Closing
    <2>2. req'[r] = req[r]
      BY <2>1 DEF Relies
    <2>3. RequestHeld(t, r)'
      BY <1>1, <2>1, LocksKept
    <2>4. QED
      BY <1>1, <2>1, <2>2, <2>3 DEF Closing
  <1>4. QED
    BY <1>2, <1>3

LEMMA DisablingKept ==
    ASSUME NEW t \in Sessions, Kept(t), Relies(t), Disabling(t), tx[t] \in TxState
    PROVE  Disabling(t)'
  <1> SUFFICES ASSUME tx[t].op = "disable", tx[t].pc # "discard" PROVE Disabling(t)'
    BY DEF Kept, Disabling
  <1>1. tx'[t] = tx[t] /\ Dirtied(t)' = Dirtied(t) /\ ToLock(t)' = ToLock(t)
    BY DEF Kept, Dirtied, ToLock
  <1>2. tx[t].held \subseteq Requests /\ tx[t].dirty \subseteq Requests \X Nat
    BY DEF TxState
  <1>3. \A g \in tx[t].held : /\ GrantHeld(t, g)' /\ grant'[g].status = "issued"
                              /\ req'[g] = req[g]
    BY <1>2, LocksKept DEF Disabling, Relies
  <1>4. \A d \in tx[t].dirty :
            /\ d[1] \in tx[t].held /\ d[2] = req'[d[1]].version
            /\ RequestHeld(t, d[1])' \/ (tx[t].pc = "flush" /\ d[1] = tx[t].r)
    BY <1>2, <1>3, LocksKept DEF Disabling
  <1>5. Affected(tx[t].auth)' \subseteq Affected(tx[t].auth)
    <2> SUFFICES ASSUME NEW r \in Affected(tx[t].auth)' PROVE r \in Affected(tx[t].auth)
      OBVIOUS
    <2>1. r \in Requests /\ grant'[r].status = "issued" /\ \E d \in decisions'[r] : d.auth = tx[t].auth
      BY <1>1 DEF Affected
    <2>2. grant[r].status = "issued"
      BY <2>1 DEF Relies
    <2>3. decisions'[r] = decisions[r]
      BY <2>1, <2>2 DEF Relies
    <2>4. QED
      BY <2>1, <2>2, <2>3 DEF Affected
  <1>6. QED
    BY <1>1, <1>3, <1>4, <1>5 DEF Disabling

LEMMA ClaimingKept ==
    ASSUME NEW t \in Sessions, Kept(t), Relies(t), Claiming(t)
    PROVE  Claiming(t)'
  <1> SUFFICES ASSUME tx[t].op = "claim", tx[t].pc # "discard" PROVE Claiming(t)'
    BY DEF Kept, Claiming
  <1> DEFINE r == tx[t].r
  <1>1. tx'[t] = tx[t] /\ r \in Requests
    BY DEF Kept, Claiming
  <1>2. CASE tx[t].pc \in {"admit", "read"}
    BY <1>1, <1>2 DEF Claiming
  <1>3. CASE tx[t].pc \in {"verify", "cas"}
    <2>1. CASE ~tx[t].yes
      BY <1>1, <1>3, <2>1 DEF Claiming
    <2>2. CASE tx[t].yes
      <3>1. grant[r].status # "none" /\ grant'[r].status # "none"
        BY <1>1, <1>3, <2>2 DEF Claiming, Relies
      <3>2. CASE grant'[r].status # "issued"
        BY <1>1, <1>3, <2>2, <3>1, <3>2 DEF Claiming
      <3>3. CASE grant'[r].status = "issued"
        <4>1. req'[r] = req[r] /\ grant[r].status = "issued"
          BY <1>1, <3>1, <3>3 DEF Relies
        <4>2. tx[t].pc = "cas" => ActiveApprovals(r)'
          BY <1>1, <3>1, <3>3, <4>1, ApprovalsStayActive DEF Relies, Claiming
        <4>3. QED
          BY <1>1, <1>3, <2>2, <3>1, <4>1, <4>2 DEF Claiming
      <3>4. QED
        BY <3>2, <3>3
    <2>3. QED
      BY <2>1, <2>2
  <1>4. CASE tx[t].pc \in {"flush", "append", "run", "commit"}
    <2>1. GrantHeld(t, r) /\ grant[r].status = "issued" /\ ActiveApprovals(r)
      BY <1>4 DEF Claiming
    <2>2. grant'[r] = grant[r] /\ req'[r] = req[r] /\ GrantHeld(t, r)'
      BY <1>1, <2>1, LocksKept DEF Relies
    <2>3. ActiveApprovals(r)'
      BY <1>1, <2>1, <2>2, ApprovalsStayActive DEF Relies
    <2>4. RequestHeld(t, r) => RequestHeld(t, r)'
      BY <1>1, LocksKept
    <2>5. QED
      BY <1>1, <1>4, <2>1, <2>2, <2>3, <2>4 DEF Claiming
  <1>5. QED
    BY <1>2, <1>3, <1>4 DEF Claiming

LEMMA CompletingKept ==
    ASSUME NEW t \in Sessions, Kept(t), Relies(t), Completing(t)
    PROVE  Completing(t)'
  <1> SUFFICES ASSUME tx[t].op = "complete" PROVE Completing(t)'
    BY DEF Kept, Completing
  <1> DEFINE r == tx[t].r
  <1>1. tx'[t] = tx[t] /\ r \in Requests
    BY DEF Kept, Completing
  <1>2. GrantHeld(t, r) /\ grant[r].status = "claimed"
            => grant'[r] = grant[r] /\ req'[r] = req[r]
    BY <1>1 DEF Relies
  <1>3. QED
    BY <1>1, <1>2, LocksKept DEF Completing

LEMMA CancellingKept ==
    ASSUME NEW t \in Sessions, Kept(t), Relies(t), Cancelling(t)
    PROVE  Cancelling(t)'
  <1> SUFFICES ASSUME tx[t].op = "cancel", tx[t].pc # "discard" PROVE Cancelling(t)'
    BY DEF Kept, Cancelling
  <1> DEFINE r == tx[t].r
  <1>1. tx'[t] = tx[t] /\ r \in Requests
    BY ApprovalAssumption DEF Kept, Cancelling
  <1>2. RequestHeld(t, r) /\ grant[r].status = "none" => grant'[r] = grant[r]
    BY <1>1 DEF Relies
  <1>3. GrantHeld(t, r) /\ grant[r].status # "none" => grant'[r] = grant[r]
    BY <1>1 DEF Relies
  <1>4. grant[r].status # "none" => grant'[r].status # "none"
    BY <1>1 DEF Relies
  <1>5. QED
    BY <1>1, <1>2, <1>3, <1>4, LocksKept DEF Cancelling

LEMMA SessionKept ==
    ASSUME NEW t \in Sessions, Kept(t), Relies(t), Session(t), tx[t] \in TxState
    PROVE  Session(t)'
  <1>1. Working(t)'
    BY DEF Session, Working, Kept
  <1>2. QED
    BY <1>1, DecidingKept, ClosingKept, DisablingKept, ClaimingKept, CompletingKept,
       CancellingKept DEF Session

-----------------------------------------------------------------------------
(* What a step of a session has to show.                                   *)

\* Only s moves, it takes free locks or lets its own go, and it knows what its
\* next step relies on.
Acts(s) ==
    /\ tx' \in [Sessions -> TxState] /\ lock' \in [Locks -> Sessions \cup {Free}]
    /\ \A t \in Sessions \ {s} : Kept(t)
    /\ OnLoop(tx'[s]) => OnLoop(tx[s]) \/ \A t \in Sessions : ~OnLoop(tx[t])
    /\ Session(s)'

Written(r) == req'[r] # req[r] \/ decisions'[r] # decisions[r] \/ grant'[r] # grant[r]

\* A commit of s writes requests it has locked and, with a request, its grant;
\* a grant is issued once, by decide_request, and whoever disables an authority
\* leaves no grant issued that rests on it.
Writes(s) ==
    /\ \A r \in Requests :
        /\ req'[r] # req[r] \/ decisions'[r] # decisions[r] => RequestHeld(s, r)
        /\ grant[r].status = "none" /\ grant'[r] # grant[r]
               => RequestHeld(s, r) /\ tx[s].op = "decide"
        /\ grant[r].status # "none" /\ Written(r)
               => /\ lock[<<"grant", r>>] \in {Free, s}
                  /\ grant'[r].status \notin {"none", "issued"}
        /\ grant[r].status # "none" /\ grant'[r].status = "issued"
               => \A d \in decisions[r] :
                      authority[d.auth] = "active" => authority'[d.auth] = "active"
    /\ authority' # authority => tx[s].op = "disable"

RowsTyped ==
    /\ req \in [Requests -> RequestRow] /\ grant \in [Requests -> GrantRow]
    /\ decisions \in [Requests -> SUBSET DecisionRow]
    /\ authority \in [Authorities -> {"active", "disabled"}]
    /\ run \in [Bound -> RunStatus]
VaultTyped == vault \subseteq Requests /\ Cardinality(vault) <= VaultCapacity
EnvTyped == admin \in BOOLEAN /\ clock \in 0..MaxClock /\ restarts \in 0..MaxRestarts

\* What every step owes the rows: the invariant, and what a step may never do.
RowsSafe == /\ RowsTyped'
            /\ \A r \in Requests : Rows(r)' /\ Counted(r) /\ Rests(r)

StepSafe == ApprovalInv' /\ \A r \in Requests : Counted(r) /\ Rests(r)

LEMMA WritesRelied ==
    ASSUME NEW s \in Sessions, Writes(s), NEW t \in Sessions \ {s}, OneOnLoop
    PROVE  Relies(t)
  <1>1. Free # t /\ s # t
    BY ApprovalAssumption
  <1>2. ASSUME NEW r \in Requests
        PROVE  /\ RequestHeld(t, r) => /\ req'[r] = req[r] /\ decisions'[r] = decisions[r]
                                       /\ grant[r].status = "none" => grant'[r] = grant[r]
               /\ GrantHeld(t, r) /\ grant[r].status # "none"
                      => /\ req'[r] = req[r] /\ decisions'[r] = decisions[r]
                         /\ grant'[r] = grant[r]
    BY <1>1 DEF Writes, Written, RequestHeld, GrantHeld
  <1>3. ASSUME NEW r \in Requests
        PROVE  /\ grant[r].status # "none" => grant'[r].status # "none"
               /\ grant[r].status # "none" /\ grant'[r].status = "issued"
                  => /\ req'[r] = req[r] /\ decisions'[r] = decisions[r]
                     /\ grant'[r] = grant[r]
                     /\ \A d \in decisions[r] :
                            authority[d.auth] = "active" => authority'[d.auth] = "active"
    BY DEF Writes, Written
  <1>4. ASSUME tx[t].op \in {"decide", "disable"}
        PROVE  /\ authority' = authority
               /\ \A r \in Requests : grant'[r].status = "issued" => grant[r].status = "issued"
    <2>1. tx[s].op \notin {"decide", "disable"}
      BY <1>1, <1>4 DEF OneOnLoop, OnLoop
    <2>2. authority' = authority
      BY <2>1 DEF Writes
    <2>3. ASSUME NEW r \in Requests, grant'[r].status = "issued" PROVE grant[r].status = "issued"
      BY <2>1, <2>3 DEF Writes, Written
    <2>4. QED
      BY <2>2, <2>3
  <1>5. QED
    BY <1>2, <1>3, <1>4 DEF Relies

LEMMA OneOnLoopKept ==
    ASSUME NEW s \in Sessions, Acts(s), OneOnLoop
    PROVE  OneOnLoop'
  <1>1. \A t \in Sessions \ {s} : OnLoop(tx'[t]) => OnLoop(tx[t])
    BY DEF Acts, Kept
  <1>2. OnLoop(tx'[s]) => OnLoop(tx[s]) \/ \A t \in Sessions : ~OnLoop(tx[t])
    BY DEF Acts
  <1>3. QED
    BY <1>1, <1>2 DEF OneOnLoop

LEMMA StepKeeps ==
    ASSUME ApprovalInv, NEW s \in Sessions, Acts(s), Writes(s), RowsSafe, EnvTyped',
           VaultTyped', \A r \in vault' : Owned(r)'
    PROVE  StepSafe
  <1>1. TypeOK'
    BY DEF RowsSafe, RowsTyped, Acts, EnvTyped, VaultTyped, TypeOK
  <1>2. OneOnLoop'
    BY OneOnLoopKept DEF ApprovalInv
  <1>3. ASSUME NEW t \in Sessions PROVE Session(t)'
    <2>1. CASE t = s
      BY <2>1 DEF Acts
    <2>2. CASE t # s
      <3>1. Kept(t) /\ Relies(t)
        BY <2>2, WritesRelied DEF Acts, ApprovalInv
      <3>2. Session(t) /\ tx[t] \in TxState
        BY DEF ApprovalInv, TypeOK
      <3>3. QED
        BY <3>1, <3>2, SessionKept
    <2>3. QED
      BY <2>1, <2>2
  <1>4. QED
    BY <1>1, <1>2, <1>3 DEF StepSafe, ApprovalInv, RowsSafe

\* What the vault holds stays owned.
LEMMA OwnedKept ==
    ASSUME ApprovalInv, NEW s \in Sessions, Acts(s), Writes(s),
           NEW r \in Requests, Owned(r), ~Removing(s, r),
           Issuing(s, r) => grant'[r].status = "issued",
           grant[r].status = "issued" => grant'[r].status = "issued" \/ Removing(s, r)'
    PROVE  Owned(r)'
  <1>1. CASE grant[r].status = "issued" \/ Issuing(s, r)
    BY <1>1 DEF Owned
  <1>2. CASE \E t \in Sessions \ {s} : Issuing(t, r) \/ Removing(t, r)
    <2>1. PICK t \in Sessions \ {s} : Issuing(t, r) \/ Removing(t, r)
      BY <1>2
    <2>2. tx'[t] = tx[t]
      BY DEF Acts, Kept
    <2>3. Removing(t, r) => Removing(t, r)'
      BY <2>2 DEF Removing, Discarded
    <2>4. CASE Issuing(t, r)
      <3>1. RequestHeld(t, r) /\ req[r].status # "none"
        BY <2>4 DEF Issuing, At, ApprovalInv, Session, Deciding
      <3>2. req'[r] = req[r] /\ decisions'[r] = decisions[r]
        BY <3>1, WritesRelied DEF Relies, ApprovalInv
      <3>3. Issuing(t, r)'
        BY <2>2, <2>4, <3>2 DEF Issuing, At, Completes, Approved
      <3>4. QED
        BY <3>3 DEF Owned
    <2>5. QED
      BY <2>1, <2>3, <2>4 DEF Owned
  <1>3. QED
    BY <1>1, <1>2 DEF Owned

\* A step that reads: no row changes.
LEMMA ReadRows ==
    ASSUME ApprovalInv, NEW s \in Sessions, UNCHANGED rows
    PROVE  Writes(s) /\ RowsSafe
  <1>1. Writes(s)
    BY DEF rows, Writes, Written
  <1>2. RowsTyped'
    BY DEF rows, ApprovalInv, TypeOK, RowsTyped
  <1>3. ASSUME NEW r \in Requests PROVE Rows(r)'
    <2>1. Rows(r)
      BY DEF ApprovalInv
    <2>2. QED
      BY <2>1 DEF rows, Rows, Agree
  <1>4. ASSUME NEW r \in Requests PROVE Counted(r) /\ Rests(r)
    BY DEF rows, Counted, Rests
  <1>5. QED
    BY <1>1, <1>2, <1>3, <1>4 DEF RowsSafe

LEMMA ReadSafe ==
    ASSUME ApprovalInv, NEW s \in Sessions, Acts(s), UNCHANGED <<rows, vault, env>>,
           tx[s].pc # "discard", ~At(s, "decide", "commit")
    PROVE  StepSafe
  <1>1. Writes(s) /\ RowsSafe
    BY ReadRows
  <1>2. VaultTyped' /\ EnvTyped'
    BY DEF ApprovalInv, TypeOK, VaultTyped, EnvTyped, env
  <1>3. ASSUME NEW r \in vault' PROVE Owned(r)'
    <2>1. r \in Requests /\ Owned(r) /\ ~Removing(s, r) /\ ~Issuing(s, r)
      BY DEF ApprovalInv, TypeOK, Removing, Issuing
    <2>2. grant'[r] = grant[r]
      BY DEF rows
    <2>3. QED
      BY <1>1, <2>1, <2>2, OwnedKept
  <1>4. QED
    BY <1>1, <1>2, <1>3, StepKeeps

-----------------------------------------------------------------------------
(* How a handler goes on.                                                  *)

\* The rows s has locked once its statement has its locks.
LEMMA Taken ==
    ASSUME TypeOK, NEW s \in Sessions, NEW state \in TxState, Note(s, state)
    PROVE  /\ tx'[s] = state
           /\ \A r \in Requests :
                 /\ <<"request", r>> \in Needs(s) \/ RequestHeld(s, r)
                        => lock'[<<"request", r>>] = s
                 /\ <<"grant", r>> \in Needs(s) \/ GrantHeld(s, r)
                        => lock'[<<"grant", r>>] = s
  BY TakesLocks, LockNames DEF RequestHeld, GrantHeld

LEMMA NoteActs ==
    ASSUME TypeOK, NEW s \in Sessions, NEW state \in TxState, Note(s, state),
           SameHandler(s, state), state.pc # "discard",
           \/ state.op = "decide" /\ Deciding(s)'
           \/ state.op = "close" /\ Closing(s)'
           \/ state.op = "disable" /\ Disabling(s)'
           \/ state.op = "claim" /\ Claiming(s)'
           \/ state.op = "complete" /\ Completing(s)'
           \/ state.op = "cancel" /\ Cancelling(s)'
    PROVE  Acts(s)
  <1>1. tx'[s] = state
    BY Taken
  <1>2. Session(s)'
    BY <1>1 DEF Session, Deciding, Closing, Disabling, Claiming, Completing, Cancelling,
                Working
  <1>3. OnLoop(tx'[s]) => OnLoop(tx[s])
    BY <1>1 DEF OnLoop, SameHandler
  <1>4. QED
    BY <1>2, <1>3, TakesLocks DEF Acts

LEMMA IdleSession ==
    ASSUME NEW s, tx'[s] = Idle
    PROVE  Session(s)'
  BY DEF Session, Deciding, Closing, Disabling, Claiming, Completing, Cancelling,
         Working, Idle

LEMMA EndActs ==
    ASSUME TypeOK, NEW s \in Sessions, Release(s), tx' = [tx EXCEPT ![s] = Idle]
    PROVE  Acts(s)
  <1>1. tx'[s] = Idle
    BY IdleTyped, LeavesLocks
  <1>2. ~OnLoop(tx'[s])
    BY <1>1 DEF OnLoop, Idle
  <1>3. QED
    BY <1>1, <1>2, IdleTyped, IdleSession, LeavesLocks DEF Acts

LEMMA DiscardActs ==
    ASSUME TypeOK, NEW s \in Sessions, ThenDiscard(s),
           tx[s].op \in {"close", "disable", "claim", "cancel"}
    PROVE  /\ Acts(s) /\ tx'[s] = [tx[s] EXCEPT !.pc = "discard"]
           /\ \A r \in Requests : r \in Discarded(s) => Removing(s, r)'
  <1> DEFINE state == [tx[s] EXCEPT !.pc = "discard"]
  <1>1. tx \in [Sessions -> TxState] /\ state \in TxState
    BY DiscardTyped DEF TypeOK
  <1>2. tx' = [tx EXCEPT ![s] = state] /\ Release(s)
    BY <1>1 DEF ThenDiscard
  <1>3. tx'[s] = state
    BY <1>1, <1>2
  <1>4. /\ state.op = tx[s].op /\ state.r = tx[s].r /\ state.todo = tx[s].todo
        /\ state.held = tx[s].held /\ state.pc = "discard"
    BY <1>1 DEF TxState
  <1>5. Session(s)'
    BY <1>3, <1>4 DEF Session, Deciding, Closing, Disabling, Claiming, Completing,
                      Cancelling, Working
  <1>6. OnLoop(tx'[s]) => OnLoop(tx[s])
    BY <1>3, <1>4 DEF OnLoop
  <1>7. Discarded(s)' = Discarded(s)
    BY <1>3, <1>4 DEF Discarded
  <1>8. QED
    BY <1>1, <1>2, <1>3, <1>4, <1>5, <1>6, <1>7, LeavesLocks DEF Acts, Removing

-----------------------------------------------------------------------------
(* A commit of one request.                                                *)

LEMMA RowTypes ==
    ASSUME TypeOK, NEW r \in Requests
    PROVE  /\ req[r] \in RequestRow /\ grant[r] \in GrantRow
           /\ decisions[r] \in SUBSET DecisionRow
           /\ req[r].version \in Nat /\ grant[r].version \in Nat
           /\ req[r].status \in RequestStatus /\ grant[r].status \in GrantStatus
           /\ req[r].level \in {"none", "L2", "L3"}
           /\ r \in Bound => run[r] \in RunStatus
  <1>1. req[r] \in RequestRow /\ grant[r] \in GrantRow /\ decisions[r] \in SUBSET DecisionRow
    BY DEF TypeOK
  <1>2. r \in Bound => run[r] \in RunStatus
    BY DEF TypeOK
  <1>3. QED
    BY <1>1, <1>2 DEF RequestRow, GrantRow

LEMMA StatusNames ==
    /\ "approved" \in RequestStatus /\ "rejected" \in RequestStatus
    /\ "cancelled" \in RequestStatus /\ "expired" \in RequestStatus
    /\ "invalidated" \in RequestStatus /\ "claimed" \in RequestStatus
    /\ "consumed" \in RequestStatus /\ "issued" \in GrantStatus
    /\ "claimed" \in GrantStatus /\ "consumed" \in GrantStatus
    /\ "revoked" \in GrantStatus /\ "failed" \in GrantStatus
  BY DEF RequestStatus, GrantStatus

OnlyRow(r) ==
    /\ authority' = authority
    /\ \A q \in Requests \ {r} :
          /\ req'[q] = req[q] /\ grant'[q] = grant[q] /\ decisions'[q] = decisions[q]
          /\ q \in Bound => run'[q] = run[q]

LEMMA SameRow ==
    ASSUME NEW q \in Requests, Rows(q), req'[q] = req[q], grant'[q] = grant[q],
           decisions'[q] = decisions[q], q \in Bound => run'[q] = run[q],
           authority' = authority \/ grant[q].status # "issued"
    PROVE  Rows(q)' /\ Counted(q) /\ Rests(q)
  <1>1. Agree(q)'
    BY DEF Rows, Agree
  <1>2. Rows(q)'
    BY <1>1 DEF Rows
  <1>3. QED
    BY <1>2 DEF Counted, Rests

LEMMA OneRowSafe ==
    ASSUME ApprovalInv, NEW s \in Sessions, NEW r \in Requests, Acts(s), RequestHeld(s, r),
           UNCHANGED <<vault, env>>, OnlyRow(r), RowsTyped', tx[s].pc # "discard",
           Rows(r)', Counted(r), Rests(r),
           grant[r].status = "none" /\ grant'[r] # grant[r] => tx[s].op = "decide",
           grant[r].status # "none" => /\ lock[<<"grant", r>>] \in {Free, s}
                                       /\ grant'[r].status \notin {"none", "issued"},
           grant[r].status = "issued" => Removing(s, r)',
           At(s, "decide", "commit")
               => tx[s].r = r /\ (Completes(s) => grant'[r].status = "issued")
    PROVE  StepSafe
  <1>1. Writes(s)
    BY DEF Writes, Written, OnlyRow
  <1>2. RowsSafe
    <2>1. ASSUME NEW q \in Requests \ {r} PROVE Rows(q)' /\ Counted(q) /\ Rests(q)
      BY SameRow DEF OnlyRow, ApprovalInv
    <2>2. QED
      BY <2>1 DEF RowsSafe
  <1>3. EnvTyped' /\ VaultTyped'
    BY DEF ApprovalInv, TypeOK, EnvTyped, VaultTyped, env
  <1>4. ASSUME NEW q \in vault' PROVE Owned(q)'
    <2>1. q \in Requests /\ Owned(q) /\ ~Removing(s, q)
      BY DEF ApprovalInv, TypeOK, Removing
    <2>2. /\ Issuing(s, q) => grant'[q].status = "issued"
          /\ grant[q].status = "issued" => grant'[q].status = "issued" \/ Removing(s, q)'
      <3>1. CASE q = r
        BY <3>1 DEF Issuing
      <3>2. CASE q # r
        BY <2>1, <3>2 DEF Issuing, OnlyRow
      <3>3. QED
        BY <3>1, <3>2
    <2>3. QED
      BY <1>1, <2>1, <2>2, OwnedKept
  <1>5. QED
    BY <1>1, <1>2, <1>3, <1>4, StepKeeps

-----------------------------------------------------------------------------
(* decide_request.                                                         *)

LEMMA DecideCasSafe ==
    ASSUME ApprovalInv, NEW s \in Sessions, DecideCas(s)
    PROVE  StepSafe
  <1> DEFINE r == tx[s].r
  <1>1. /\ TypeOK /\ Deciding(s) /\ tx[s].op = "decide" /\ tx[s].pc = "cas"
        /\ r \in Requests /\ tx[s] \in TxState
    BY DEF ApprovalInv, Session, Deciding, DecideCas, At, TypeOK
  <1>2. ASSUME NEW pc \in {"expire", "authorize"}, Go(s, pc), req[r].status = "pending",
               pc = "authorize" => tx[s].user # Requester, UNCHANGED rows
        PROVE  Acts(s)
    <2> DEFINE state == [tx[s] EXCEPT !.pc = pc]
    <2>1. state \in TxState /\ Note(s, state) /\ SameHandler(s, state)
      BY <1>1, <1>2, GoesOn DEF Steps
    <2>2. tx'[s] = state /\ lock'[<<"request", r>>] = s
      BY <1>1, <2>1, Taken, NeedsOf
    <2>3. state.op = "decide" /\ state.pc = pc /\ state.r = r /\ state.user = tx[s].user
      BY <1>1 DEF TxState
    <2>4. Deciding(s)'
      BY <1>1, <1>2, <2>2, <2>3 DEF Deciding, RequestHeld, rows
    <2>5. QED
      BY <1>1, <1>2, <2>1, <2>3, <2>4, NoteActs
  <1>3. Acts(s)
    <2>1. CASE End(s)
      BY <1>1, <2>1, EndActs DEF End
    <2>2. CASE ~End(s)
      BY <1>1, <1>2, <2>2 DEF DecideCas
    <2>3. QED
      BY <2>1, <2>2
  <1>4. QED
    BY <1>1, <1>3, ReadSafe DEF DecideCas, At

LEMMA DecideAuthorizeSafe ==
    ASSUME ApprovalInv, NEW s \in Sessions, DecideAuthorize(s)
    PROVE  StepSafe
  <1> DEFINE r == tx[s].r
  <1>1. /\ TypeOK /\ Deciding(s) /\ tx[s].op = "decide" /\ tx[s].pc = "authorize"
        /\ r \in Requests /\ tx[s] \in TxState /\ UNCHANGED rows
    BY DEF ApprovalInv, Session, Deciding, DecideAuthorize, At, TypeOK
  <1>2. Acts(s)
    <2>1. CASE End(s)
      BY <1>1, <2>1, EndActs DEF End
    <2>2. CASE ~End(s)
      <3>1. PICK a \in Eligible(s) : Note(s, [tx[s] EXCEPT !.pc = "append", !.auth = a])
        BY <2>2 DEF DecideAuthorize
      <3> DEFINE state == [tx[s] EXCEPT !.pc = "append", !.auth = a]
      <3>2. /\ a \in Authorities /\ a.user = tx[s].user /\ authority[a] = "active"
            /\ a.role \in RequiredRoles(req[r].level) \ Decided(r)
        BY DEF Eligible
      <3>3. state \in TxState
        BY <1>1, <3>2 DEF TxState, Steps
      <3>4. /\ state.op = "decide" /\ state.pc = "append" /\ state.r = r
            /\ state.user = tx[s].user /\ state.auth = a
        BY <1>1 DEF TxState
      <3>5. tx'[s] = state /\ lock'[<<"request", r>>] = s
        BY <1>1, <3>1, <3>3, Taken DEF Deciding
      <3>6. Deciding(s)'
        BY <1>1, <3>2, <3>4, <3>5 DEF Deciding, Decided, RequestHeld, rows
      <3>7. QED
        BY <1>1, <3>1, <3>3, <3>4, <3>6, NoteActs DEF SameHandler
    <2>3. QED
      BY <2>1, <2>2
  <1>3. QED
    BY <1>1, <1>2, ReadSafe DEF DecideAuthorize, At

LEMMA VaultShrinks ==
    ASSUME VaultTyped, vault' \subseteq vault
    PROVE  VaultTyped'
  <1>1. IsFiniteSet(vault)
    BY FS_Subset, ApprovalAssumption DEF VaultTyped
  <1>2. /\ Cardinality(vault') <= Cardinality(vault)
        /\ Cardinality(vault) \in Nat /\ Cardinality(vault') \in Nat
    BY <1>1, FS_Subset, FS_CardinalityType
  <1>3. VaultCapacity \in Nat
    BY ApprovalAssumption
  <1>4. QED
    BY <1>2, <1>3 DEF VaultTyped

LEMMA DecideAppendSafe ==
    ASSUME ApprovalInv, NEW s \in Sessions, DecideAppend(s)
    PROVE  StepSafe
  <1> DEFINE r == tx[s].r
  <1>1. /\ TypeOK /\ Deciding(s) /\ tx[s].op = "decide" /\ tx[s].pc = "append"
        /\ r \in Requests /\ tx[s] \in TxState /\ UNCHANGED <<rows, env>>
    BY DEF ApprovalInv, Session, Deciding, DecideAppend, At, TypeOK
  <1>2. ASSUME NEW state \in TxState, Note(s, state), state.op = "decide",
               state.pc = "commit", state.r = r, state.user = tx[s].user,
               state.auth = tx[s].auth
        PROVE  Acts(s)
    <2>1. tx'[s] = state /\ lock'[<<"request", r>>] = s
      BY <1>1, <1>2, Taken DEF Deciding
    <2>2. Deciding(s)'
      BY <1>1, <1>2, <2>1 DEF Deciding, Decided, RequestHeld, rows
    <2>3. QED
      BY <1>1, <1>2, <2>2, NoteActs DEF SameHandler
  <1>3. CASE Go(s, "commit") /\ UNCHANGED vault
    <2> DEFINE state == [tx[s] EXCEPT !.pc = "commit"]
    <2>1. state \in TxState /\ Note(s, state)
      BY <1>1, <1>3, GoesOn DEF Steps
    <2>2. /\ state.op = "decide" /\ state.pc = "commit" /\ state.r = r
          /\ state.user = tx[s].user /\ state.auth = tx[s].auth
      BY <1>1 DEF TxState
    <2>3. QED
      BY <1>1, <1>2, <1>3, <2>1, <2>2, ReadSafe DEF At
  <1>4. CASE End(s) /\ UNCHANGED vault
    BY <1>1, <1>4, EndActs, ReadSafe DEF End, At
  <1>5. CASE /\ Completes(s) /\ RoomFor(r) /\ vault' = vault \cup {r}
             /\ Note(s, [tx[s] EXCEPT !.pc = "commit", !.set = SetHash(s)])
    <2> DEFINE state == [tx[s] EXCEPT !.pc = "commit", !.set = SetHash(s)]
    <2>1. SetHash(s) \in SUBSET Bindings
      <3>1. decisions[r] \subseteq DecisionRow /\ authority \in [Authorities -> {"active", "disabled"}]
        BY <1>1 DEF TypeOK
      <3>2. tx[s].auth \in Authorities
        BY <1>1 DEF Deciding
      <3>3. QED
        BY <3>1, <3>2 DEF SetHash, Approved, DecisionRow, Bindings
    <2>2. state \in TxState
      BY <1>1, <2>1 DEF TxState, Steps
    <2>3. /\ state.op = "decide" /\ state.pc = "commit" /\ state.r = r
          /\ state.user = tx[s].user /\ state.auth = tx[s].auth /\ state.yes = tx[s].yes
      BY <1>1 DEF TxState
    <2>4. Acts(s)
      BY <1>2, <1>5, <2>2, <2>3
    <2>5. Writes(s) /\ RowsSafe
      BY <1>1, ReadRows
    <2>6. EnvTyped'
      BY <1>1 DEF TypeOK, EnvTyped, env
    <2>7. VaultTyped'
      <3>1. IsFiniteSet(vault) /\ r \notin vault /\ Cardinality(vault) < VaultCapacity
        BY <1>1, <1>5, FS_Subset, ApprovalAssumption DEF TypeOK, RoomFor
      <3>2. Cardinality(vault \cup {r}) = Cardinality(vault) + 1 /\ Cardinality(vault) \in Nat
        BY <3>1, FS_AddElement, FS_CardinalityType
      <3>3. vault \cup {r} \subseteq Requests
        BY <1>1 DEF TypeOK
      <3>4. VaultCapacity \in Nat
        BY ApprovalAssumption
      <3>5. QED
        BY <1>5, <3>1, <3>2, <3>3, <3>4 DEF VaultTyped
    <2>8. ASSUME NEW q \in vault' PROVE Owned(q)'
      <3>1. CASE q = r
        <4>1. tx'[s] = state
          BY <1>1, <1>5, <2>2, Taken
        <4>2. Issuing(s, q)'
          BY <1>1, <1>5, <2>3, <3>1, <4>1 DEF Issuing, At, Completes, Approved, rows
        <4>3. QED
          BY <4>2 DEF Owned
      <3>2. CASE q # r
        <4>1. q \in Requests /\ Owned(q) /\ ~Removing(s, q) /\ ~Issuing(s, q)
          BY <1>1, <1>5, <3>2 DEF ApprovalInv, TypeOK, Removing, Issuing, At
        <4>2. grant'[q] = grant[q]
          BY <1>1 DEF rows
        <4>3. QED
          BY <2>4, <2>5, <4>1, <4>2, OwnedKept
      <3>3. QED
        BY <3>1, <3>2
    <2>9. QED
      BY <2>4, <2>5, <2>6, <2>7, <2>8, StepKeeps
  <1>6. QED
    BY <1>3, <1>4, <1>5 DEF DecideAppend

LEMMA DecideCommitFailsSafe ==
    ASSUME ApprovalInv, NEW s \in Sessions, DecideCommitFails(s)
    PROVE  StepSafe
  <1>1. /\ TypeOK /\ tx[s].op = "decide" /\ tx[s].pc = "commit"
        /\ UNCHANGED <<rows, env>> /\ End(s) /\ vault' \subseteq vault
    BY DEF ApprovalInv, DecideCommitFails, At
  <1>2. Acts(s) /\ Writes(s) /\ RowsSafe
    BY <1>1, EndActs, ReadRows DEF End
  <1>3. EnvTyped' /\ VaultTyped'
    BY <1>1, VaultShrinks DEF TypeOK, EnvTyped, VaultTyped, env
  <1>4. ASSUME NEW q \in vault' PROVE Owned(q)'
    <2>1. q \in Requests /\ Owned(q) /\ ~Removing(s, q) /\ grant'[q] = grant[q]
      BY <1>1 DEF ApprovalInv, TypeOK, Removing, rows
    <2>2. ~Issuing(s, q)
      BY DEF DecideCommitFails, Issuing
    <2>3. QED
      BY <1>2, <2>1, <2>2, OwnedKept
  <1>5. QED
    BY <1>2, <1>3, <1>4, StepKeeps

LEMMA DecideExpireSafe ==
    ASSUME ApprovalInv, NEW s \in Sessions, DecideExpire(s), NEW r, r = tx[s].r
    PROVE  StepSafe
  <1>1. /\ TypeOK /\ Deciding(s) /\ tx[s].op = "decide" /\ tx[s].pc = "expire"
        /\ r \in Requests /\ Rows(r) /\ RequestHeld(s, r) /\ req[r].status = "pending"
    BY DEF ApprovalInv, Session, Deciding, DecideExpire, At
  <1>2. /\ UNCHANGED <<decisions, grant, authority, run, vault, env>> /\ Acts(s)
        /\ req' = [req EXCEPT ![r] = [req[r] EXCEPT !.status = "expired",
                                                    !.version = req[r].version + 1]]
    BY <1>1, EndActs DEF DecideExpire, End
  <1>3. /\ req[r] \in RequestRow /\ req \in [Requests -> RequestRow]
        /\ req[r].version \in Nat /\ grant[r].status = "none"
    BY <1>1, RowTypes DEF TypeOK, Rows, Agree
  <1>4. req'[r] = [req[r] EXCEPT !.status = "expired", !.version = req[r].version + 1]
    BY <1>1, <1>2, <1>3
  <1>5. /\ req'[r].status = "expired" /\ req'[r].version = req[r].version + 1
        /\ req'[r].level = req[r].level /\ req'[r] \in RequestRow
    <2>1. "expired" \in RequestStatus /\ req[r].version + 1 \in Nat
      BY <1>3, StatusNames
    <2>2. QED
      BY <1>3, <1>4, <2>1 DEF RequestRow
  <1>6. OnlyRow(r) /\ RowsTyped'
    BY <1>1, <1>2, <1>3, <1>5 DEF TypeOK, RowsTyped, OnlyRow
  <1>7. Rows(r)'
    BY <1>1, <1>2, <1>3, <1>5 DEF Rows, Agree
  <1>8. Counted(r) /\ Rests(r)
    BY <1>1, <1>2, <1>3, <1>5 DEF Counted, Rests
  <1>9. QED
    BY <1>1, <1>2, <1>3, <1>6, <1>7, <1>8, OneRowSafe DEF At

\* The roles a pending request of a level still waits for.
LEMMA LevelRoles ==
    /\ RequiredRoles("L2") = {"manager"} /\ RequiredRoles("L3") = {"manager", "security"}
    /\ RequiredRoles("none") = {}
  BY DEF RequiredRoles

LEMMA DecideCommitSafe ==
    ASSUME ApprovalInv, NEW s \in Sessions, DecideCommit(s), NEW r, r = tx[s].r
    PROVE  StepSafe
  <1> DEFINE a == tx[s].auth
             yes == tx[s].yes
             d == [auth |-> a, value |-> IF yes THEN "approved" ELSE "rejected"]
             status == IF ~yes THEN "rejected"
                       ELSE IF Completes(s) THEN "approved" ELSE req[r].status
             expires == Earlier(req[r].expires, tx[s].now + GrantTTL)
             issued == [status |-> "issued", version |-> 1, set |-> tx[s].set,
                        expires |-> expires]
  <1>1. /\ TypeOK /\ Deciding(s) /\ tx[s].op = "decide" /\ tx[s].pc = "commit"
        /\ r \in Requests /\ Rows(r) /\ RequestHeld(s, r) /\ req[r].status = "pending"
        /\ tx[s] \in TxState /\ grant[r].status = "none"
    BY DEF ApprovalInv, Session, Deciding, DecideCommit, At, TypeOK, Rows, Agree
  <1>2. /\ a \in Authorities /\ authority[a] = "active" /\ a.user # Requester
        /\ a.role \in RequiredRoles(req[r].level) \ Decided(r)
    BY <1>1 DEF Deciding
  <1>3. /\ UNCHANGED <<authority, run, vault, env>> /\ Acts(s)
        /\ req' = [req EXCEPT ![r] = [req[r] EXCEPT !.status = status,
                                                    !.version = req[r].version + 1]]
        /\ decisions' = [decisions EXCEPT ![r] = decisions[r] \cup {d}]
        /\ grant' = IF Completes(s) THEN [grant EXCEPT ![r] = issued] ELSE grant
    BY <1>1, EndActs DEF DecideCommit, End
  <1>4. /\ req[r] \in RequestRow /\ req \in [Requests -> RequestRow]
        /\ req[r].version \in Nat /\ grant \in [Requests -> GrantRow]
        /\ decisions \in [Requests -> SUBSET DecisionRow]
        /\ req[r].level \in {"none", "L2", "L3"}
    BY <1>1, RowTypes DEF TypeOK
  <1>5. status \in RequestStatus
    BY <1>1, StatusNames DEF RequestStatus
  <1>6. req'[r] = [req[r] EXCEPT !.status = status, !.version = req[r].version + 1]
    BY <1>1, <1>3, <1>4
  <1>7. /\ req'[r].status = status /\ req'[r].version = req[r].version + 1
        /\ req'[r].level = req[r].level /\ req'[r] \in RequestRow
    <2> HIDE DEF status
    <2>1. req[r].version + 1 \in Nat
      BY <1>4
    <2>2. QED
      BY <1>4, <1>5, <1>6, <2>1 DEF RequestRow
  <1>8. decisions'[r] = decisions[r] \cup {d} /\ d \in DecisionRow
    BY <1>1, <1>2, <1>3, <1>4 DEF DecisionRow
  <1>9. issued \in GrantRow
    <2>1. expires \in Nat /\ tx[s].set \in SUBSET Bindings
      BY <1>1, <1>4, ApprovalAssumption DEF Earlier, RequestRow, TxState
    <2>2. QED
      BY <2>1, StatusNames DEF GrantRow
  <1>10. grant'[r] = IF Completes(s) THEN issued ELSE grant[r]
    BY <1>1, <1>3, <1>4
  <1>11. OnlyRow(r) /\ RowsTyped'
    BY <1>1, <1>3, <1>4, <1>7, <1>8, <1>9 DEF TypeOK, RowsTyped, OnlyRow
  <1>12. Completes(s) => yes
    BY DEF Completes
  <1>13. req[r].level = "L2" => decisions[r] = {} /\ (yes => Completes(s))
    <2> SUFFICES ASSUME req[r].level = "L2" PROVE decisions[r] = {} /\ (yes => Completes(s))
      OBVIOUS
    <2>1. decisions[r] = {} /\ a.role = "manager"
      BY <1>1, <1>2, LevelRoles DEF Rows
    <2>2. QED
      BY <1>1, <2>1, LevelRoles DEF Completes, Approved
  <1>14. Rows(r)'
    <2>1. Agree(r)'
      <3>1. CASE Completes(s)
        <4>1. status = "approved" /\ grant'[r].status = "issued"
          BY <1>10, <1>12, <3>1
        <4>2. req[r].level = "L2" => \A e \in decisions'[r] : authority'[e.auth] = "active"
          BY <1>2, <1>3, <1>8, <1>13
        <4>3. QED
          BY <1>1, <1>3, <1>7, <4>1, <4>2 DEF Rows, Agree
      <3>2. CASE ~Completes(s)
        <4>1. status \in {"pending", "rejected"} /\ grant'[r] = grant[r]
          BY <1>1, <1>10, <3>2
        <4>2. QED
          BY <1>1, <1>3, <1>7, <4>1 DEF Rows, Agree
      <3>3. QED
        BY <3>1, <3>2
    <2>2. grant'[r].status # "none" => grant'[r].version = 1
      BY <1>1, <1>10
    <2>3. grant'[r].status = "none" => grant'[r].version = 0
      BY <1>1, <1>10 DEF Rows
    <2>4. req'[r].status # "none" /\ ~(req'[r].status = "pending" /\ req'[r].level = "L2")
      BY <1>1, <1>7, <1>13
    <2>5. \A e \in decisions'[r] : e.auth.user # Requester
      BY <1>1, <1>2, <1>8 DEF Rows
    <2>6. QED
      BY <2>1, <2>2, <2>3, <2>4, <2>5 DEF Rows
  <1>15. Counted(r) /\ Rests(r)
    <2>1. grant'[r] # grant[r] => grant'[r].version = grant[r].version + 1
      BY <1>1, <1>10 DEF Rows
    <2>2. QED
      BY <1>1, <1>7, <2>1 DEF Counted, Rests
  <1>16. Completes(s) => grant'[r].status = "issued"
    BY <1>10
  <1>17. QED
    BY <1>1, <1>3, <1>11, <1>14, <1>15, <1>16, OneRowSafe

-----------------------------------------------------------------------------
(* close_request.                                                          *)

\* A step that goes on in the same request.
LEMMA CloseGoes ==
    ASSUME ApprovalInv, NEW s \in Sessions, tx[s].op = "close", NEW r, r = tx[s].r,
           NEW pc \in {"append", "grants"}, Go(s, pc), UNCHANGED rows, r \in Requests,
           RequestHeld(s, r) \/ tx[s].pc = "cas", req[r].status \in {"pending", "approved"}
    PROVE  Acts(s)
  <1> DEFINE state == [tx[s] EXCEPT !.pc = pc]
  <1>1. TypeOK /\ tx[s] \in TxState
    BY DEF ApprovalInv, TypeOK
  <1>2. state \in TxState /\ Note(s, state) /\ SameHandler(s, state)
    BY <1>1, GoesOn DEF Steps
  <1>3. state.op = "close" /\ state.pc = pc /\ state.r = r
    BY <1>1 DEF TxState
  <1>4. tx'[s] = state /\ lock'[<<"request", r>>] = s
    BY <1>1, <1>2, Taken, NeedsOf
  <1>5. Closing(s)'
    BY <1>3, <1>4 DEF Closing, RequestHeld, rows
  <1>6. QED
    BY <1>1, <1>2, <1>3, <1>5, NoteActs

LEMMA CloseCasSafe ==
    ASSUME ApprovalInv, NEW s \in Sessions, CloseCas(s), NEW r, r = tx[s].r
    PROVE  StepSafe
  <1>1. TypeOK /\ tx[s].op = "close" /\ tx[s].pc = "cas" /\ r \in Requests /\ UNCHANGED rows
    BY DEF ApprovalInv, Session, Closing, CloseCas, At
  <1>2. Acts(s)
    BY <1>1, CloseGoes, EndActs DEF CloseCas, End
  <1>3. QED
    BY <1>1, <1>2, ReadSafe DEF CloseCas, At

LEMMA CloseAppendSafe ==
    ASSUME ApprovalInv, NEW s \in Sessions, CloseAppend(s), NEW r, r = tx[s].r
    PROVE  StepSafe
  <1>1. /\ TypeOK /\ tx[s].op = "close" /\ tx[s].pc = "append" /\ r \in Requests
        /\ RequestHeld(s, r) /\ req[r].status \in {"pending", "approved"}
        /\ UNCHANGED <<rows, vault, env>> /\ Go(s, "grants")
    BY DEF ApprovalInv, Session, Closing, CloseAppend, At
  <1>2. QED
    BY <1>1, CloseGoes, ReadSafe DEF At

LEMMA CloseGrantsSafe ==
    ASSUME ApprovalInv, NEW s \in Sessions, CloseGrants(s), NEW r, r = tx[s].r
    PROVE  StepSafe
  <1> DEFINE todo == {g \in {r} : grant[g].status = "issued"}
             state == [tx[s] EXCEPT !.pc = "commit", !.ver = grant[r].version,
                                    !.todo = todo]
  <1>1. /\ TypeOK /\ tx[s].op = "close" /\ tx[s].pc = "grants" /\ r \in Requests
        /\ RequestHeld(s, r) /\ req[r].status \in {"pending", "approved"}
        /\ UNCHANGED <<rows, vault, env>> /\ Rows(r) /\ tx[s] \in TxState
        /\ Note(s, state)
    BY DEF ApprovalInv, Session, Closing, CloseGrants, At, TypeOK
  <1>2. state \in TxState
    <2>1. grant[r].version \in Nat /\ todo \in SUBSET Requests
      BY <1>1, RowTypes
    <2>2. QED
      BY <1>1, <2>1 DEF TxState, Steps
  <1>3. /\ state.op = "close" /\ state.pc = "commit" /\ state.r = r
        /\ state.ver = grant[r].version /\ state.todo = todo
    BY <1>1 DEF TxState
  <1>4. tx'[s] = state /\ lock'[<<"request", r>>] = s
    BY <1>1, <1>2, Taken
  <1>5. todo = {g \in {r} : req[g].status = "approved"}
    BY <1>1 DEF Rows, Agree
  <1>6. r \in todo => grant[r].version = 1
    BY <1>1 DEF Rows
  <1>7. Closing(s)'
    BY <1>1, <1>3, <1>4, <1>5, <1>6 DEF Closing, RequestHeld, rows
  <1>8. QED
    BY <1>1, <1>2, <1>3, <1>7, NoteActs, ReadSafe DEF At, SameHandler

LEMMA CloseCommitSafe ==
    ASSUME ApprovalInv, NEW s \in Sessions, CloseCommit(s), NEW r, r = tx[s].r
    PROVE  StepSafe
  <1> DEFINE status == IF tx[s].yes THEN "invalidated" ELSE "cancelled"
             revoked == [grant[r] EXCEPT !.status = "revoked", !.version = 2]
             rest == r \in tx[s].todo
  <1>1. /\ TypeOK /\ Closing(s) /\ tx[s].op = "close" /\ tx[s].pc = "commit"
        /\ r \in Requests /\ Rows(r) /\ RequestHeld(s, r)
        /\ req[r].status \in {"pending", "approved"}
    BY DEF ApprovalInv, Session, Closing, CloseCommit, At
  <1>2. /\ rest <=> grant[r].status = "issued"
        /\ ~rest => grant[r].status = "none"
        /\ rest => tx[s].ver = 1 /\ grant[r].version = 1
    BY <1>1 DEF Closing, Rows, Agree
  <1>3. /\ UNCHANGED <<decisions, authority, run, vault, env>>
        /\ req' = [req EXCEPT ![r] = [req[r] EXCEPT !.status = status,
                                                    !.version = req[r].version + 1]]
        /\ grant' = IF rest THEN [grant EXCEPT ![r] = revoked] ELSE grant
    <2>1. rest => tx[s].ver + 1 = 2
      BY <1>2
    <2>2. QED
      BY <2>1 DEF CloseCommit
  <1>4. Acts(s) /\ (rest => Removing(s, r)')
    <2>1. rest => r \in Discarded(s)
      BY <1>1 DEF Discarded
    <2>2. QED
      BY <1>1, <2>1, EndActs, DiscardActs DEF CloseCommit, End
  <1>5. rest => lock[<<"grant", r>>] \in {Free, s}
    <2>1. rest => <<"grant", r>> \in Needs(s)
      BY <1>1, NeedsOf
    <2>2. Ready(s)
      BY DEF CloseCommit, End, ThenDiscard
    <2>3. QED
      BY <2>1, <2>2 DEF Ready
  <1>6. /\ req[r] \in RequestRow /\ req \in [Requests -> RequestRow]
        /\ req[r].version \in Nat /\ req[r].version + 1 \in Nat
        /\ grant \in [Requests -> GrantRow] /\ grant[r] \in GrantRow
    BY <1>1, RowTypes DEF TypeOK
  <1>7. req'[r] = [req[r] EXCEPT !.status = status, !.version = req[r].version + 1]
    BY <1>1, <1>3, <1>6
  <1>8. status \in RequestStatus /\ status \in {"invalidated", "cancelled"}
    BY StatusNames
  <1>9. /\ req'[r].status = status /\ req'[r].version = req[r].version + 1
        /\ req'[r].level = req[r].level /\ req'[r] \in RequestRow
    <2> HIDE DEF status
    <2>1. QED
      BY <1>6, <1>7, <1>8 DEF RequestRow
  <1>10. rest => /\ grant'[r] = revoked /\ revoked \in GrantRow
                 /\ revoked.status = "revoked" /\ revoked.version = 2
    <2> SUFFICES ASSUME rest PROVE /\ grant'[r] = revoked /\ revoked \in GrantRow
                                   /\ revoked.status = "revoked" /\ revoked.version = 2
      OBVIOUS
    <2>1. "revoked" \in GrantStatus
      BY StatusNames
    <2>2. grant'[r] = revoked
      BY <1>1, <1>3, <1>6
    <2>3. QED
      BY <1>6, <2>1, <2>2 DEF GrantRow
  <1>11. ~rest => grant'[r] = grant[r]
    BY <1>3
  <1>12. OnlyRow(r) /\ RowsTyped'
    <2> HIDE DEF status, revoked, rest
    <2>1. req' \in [Requests -> RequestRow] /\ \A q \in Requests \ {r} : req'[q] = req[q]
      BY <1>3, <1>6, <1>7, <1>9
    <2>2. grant' \in [Requests -> GrantRow] /\ \A q \in Requests \ {r} : grant'[q] = grant[q]
      BY <1>3, <1>6, <1>10
    <2>3. QED
      BY <1>1, <1>3, <2>1, <2>2 DEF TypeOK, RowsTyped, OnlyRow
  <1>13. Rows(r)'
    <2> HIDE DEF status, revoked
    <2>1. Agree(r)'
      BY <1>1, <1>2, <1>3, <1>8, <1>9, <1>10, <1>11 DEF Rows, Agree
    <2>2. QED
      BY <1>1, <1>2, <1>3, <1>8, <1>9, <1>10, <1>11, <2>1 DEF Rows
  <1>14. Counted(r) /\ Rests(r)
    <2> HIDE DEF status, revoked
    <2>1. QED
      BY <1>1, <1>2, <1>8, <1>9, <1>10, <1>11 DEF Counted, Rests
  <1>15. QED
    BY <1>1, <1>2, <1>3, <1>4, <1>5, <1>10, <1>11, <1>12, <1>13, <1>14, OneRowSafe DEF At

-----------------------------------------------------------------------------
(* disable_authority.                                                      *)

\* What it has locked and read stays so in its next step.
LEMMA DisablingGoesOn ==
    ASSUME ApprovalInv, NEW s \in Sessions, tx[s].op = "disable", tx[s].pc # "discard",
           NEW state \in TxState, Note(s, state), UNCHANGED rows
    PROVE  /\ tx'[s] = state
           /\ \A g \in tx[s].held : /\ g \in Requests /\ GrantHeld(s, g)'
                                    /\ grant'[g].status = "issued"
                                    /\ req'[g].status = "approved"
           /\ \A d \in tx[s].dirty : /\ d[1] \in tx[s].held /\ d[2] = req'[d[1]].version
                                     /\ RequestHeld(s, d[1]) => RequestHeld(s, d[1])'
           /\ \A a : Affected(a)' = Affected(a)
           /\ \A r \in Requests : /\ <<"grant", r>> \in Needs(s) => GrantHeld(s, r)'
                                  /\ <<"request", r>> \in Needs(s) => RequestHeld(s, r)'
  <1>1. TypeOK /\ tx[s] \in TxState /\ Disabling(s)
    BY DEF ApprovalInv, TypeOK, Session
  <1>2. tx[s].held \subseteq Requests /\ tx[s].dirty \subseteq Requests \X Nat
    BY <1>1 DEF TxState
  <1>3. /\ tx'[s] = state
        /\ \A r \in Requests : /\ <<"grant", r>> \in Needs(s) \/ GrantHeld(s, r)
                                      => GrantHeld(s, r)'
                               /\ <<"request", r>> \in Needs(s) \/ RequestHeld(s, r)
                                      => RequestHeld(s, r)'
    BY <1>1, Taken DEF GrantHeld, RequestHeld
  <1>4. \A g \in tx[s].held : GrantHeld(s, g) /\ grant[g].status = "issued"
    BY <1>1 DEF Disabling
  <1>5. \A g \in tx[s].held : req[g].status = "approved"
    BY <1>2, <1>4 DEF ApprovalInv, Rows, Agree
  <1>6. \A d \in tx[s].dirty : /\ d[1] \in tx[s].held /\ d[2] = req[d[1]].version
                               /\ d[1] \in Requests
    BY <1>1, <1>2 DEF Disabling
  <1>7. \A a : Affected(a)' = Affected(a)
    BY DEF Affected, rows
  <1>8. req' = req /\ grant' = grant
    BY DEF rows
  <1>9. QED
    BY <1>2, <1>3, <1>4, <1>5, <1>6, <1>7, <1>8

LEMMA DisableCasSafe ==
    ASSUME ApprovalInv, NEW s \in Sessions, DisableCas(s)
    PROVE  StepSafe
  <1>1. /\ TypeOK /\ Disabling(s) /\ tx[s].op = "disable" /\ tx[s].pc = "cas"
        /\ tx[s] \in TxState /\ UNCHANGED <<rows, vault, env>>
    BY DEF ApprovalInv, Session, DisableCas, At, TypeOK
  <1>2. CASE End(s)
    BY <1>1, <1>2, EndActs, ReadSafe DEF End, At
  <1>3. CASE Go(s, "grants")
    <2> DEFINE state == [tx[s] EXCEPT !.pc = "grants"]
    <2>1. state \in TxState /\ Note(s, state) /\ SameHandler(s, state)
      BY <1>1, <1>3, GoesOn DEF Steps
    <2>2. /\ state.op = "disable" /\ state.pc = "grants" /\ state.auth = tx[s].auth
          /\ state.held = tx[s].held /\ state.dirty = tx[s].dirty
      BY <1>1 DEF TxState
    <2>3. tx'[s] = state
      BY <1>1, <2>1, DisablingGoesOn
    <2>4. Disabling(s)'
      BY <1>1, <2>2, <2>3 DEF Disabling
    <2>5. QED
      BY <1>1, <2>1, <2>2, <2>4, NoteActs, ReadSafe DEF At
  <1>4. QED
    BY <1>2, <1>3 DEF DisableCas

LEMMA DisableSelectSafe ==
    ASSUME ApprovalInv, NEW s \in Sessions, DisableSelect(s), NEW a, a = tx[s].auth,
           NEW affected, affected = Affected(a)
    PROVE  StepSafe
  <1>1. /\ TypeOK /\ Disabling(s) /\ tx[s].op = "disable" /\ tx[s].pc = "grants"
        /\ tx[s] \in TxState /\ UNCHANGED <<rows, vault, env>>
        /\ tx[s].held = {} /\ tx[s].dirty = {} /\ a \in Authorities
    BY DEF ApprovalInv, Session, DisableSelect, At, TypeOK, Disabling
  <1>2. affected \subseteq Requests
    BY DEF Affected
  <1>3. CASE affected = {}
    <2> DEFINE state == [tx[s] EXCEPT !.pc = "commit"]
    <2>1. state \in TxState /\ Note(s, state) /\ SameHandler(s, state)
      BY <1>1, <1>3, GoesOn DEF Steps, DisableSelect
    <2>2. /\ state.op = "disable" /\ state.pc = "commit" /\ state.auth = a
          /\ state.held = {} /\ state.dirty = {}
      BY <1>1 DEF TxState
    <2>3. tx'[s] = state /\ Affected(a)' = {}
      BY <1>1, <1>3, <2>1, DisablingGoesOn
    <2>4. Disabling(s)'
      BY <1>1, <2>2, <2>3 DEF Disabling, Dirtied, ToLock
    <2>5. QED
      BY <1>1, <2>1, <2>2, <2>4, NoteActs, ReadSafe DEF At
  <1>4. CASE affected # {}
    <2>1. PICK r \in affected : Note(s, [tx[s] EXCEPT !.pc = "lock", !.r = r,
                                                      !.todo = affected \ {r}])
      BY <1>4 DEF DisableSelect
    <2> DEFINE state == [tx[s] EXCEPT !.pc = "lock", !.r = r, !.todo = affected \ {r}]
    <2>2. state \in TxState
      BY <1>1, <1>2, <2>1 DEF TxState, Steps
    <2>3. /\ state.op = "disable" /\ state.pc = "lock" /\ state.auth = a
          /\ state.held = {} /\ state.dirty = {} /\ state.r = r
          /\ state.todo = affected \ {r}
      BY <1>1 DEF TxState
    <2>4. tx'[s] = state /\ Affected(a)' = affected
      BY <1>1, <2>1, <2>2, <2>3, DisablingGoesOn
    <2>5. Disabling(s)'
      BY <1>1, <1>2, <2>3, <2>4 DEF Disabling, ToLock
    <2>6. QED
      BY <1>1, <2>1, <2>2, <2>3, <2>5, NoteActs, ReadSafe DEF At, SameHandler
  <1>5. QED
    BY <1>3, <1>4

LEMMA NextGrantActs ==
    ASSUME ApprovalInv, NEW s \in Sessions, tx[s].op = "disable", tx[s].pc # "discard",
           NEW a \in Authorities, NEW held \in SUBSET Requests, NEW left \in SUBSET Requests,
           NEW state \in TxState, state.op = "disable", state.auth = a, state.held = held,
           state.dirty = tx[s].dirty, NextGrant(s, state, left), UNCHANGED rows,
           \A g \in held : /\ GrantHeld(s, g) \/ <<"grant", g>> \in Needs(s)
                           /\ grant[g].status = "issued",
           \A d \in tx[s].dirty : RequestHeld(s, d[1]),
           Affected(a) \subseteq held, tx[s].held \subseteq held,
           held = left \cup Dirtied(s)
    PROVE  Acts(s)
  <1>1. TypeOK /\ tx[s] \in TxState
    BY DEF ApprovalInv, TypeOK
  <1>2. ASSUME NEW next \in TxState, Note(s, next), next.op = "disable", next.auth = a,
               next.held = held, next.dirty = tx[s].dirty,
               \/ next.pc = "commit" /\ left = {}
               \/ next.pc = "read" /\ next.r \in left /\ next.todo = left \ {next.r}
        PROVE  Acts(s)
    <2>1. /\ tx'[s] = next /\ Affected(a)' \subseteq held
          /\ \A d \in tx[s].dirty : /\ d[1] \in held /\ d[2] = req'[d[1]].version
                                    /\ RequestHeld(s, d[1])'
      BY <1>2, DisablingGoesOn
    <2>2. \A g \in held : GrantHeld(s, g)' /\ grant'[g].status = "issued"
      <3>1. \A g \in held : GrantHeld(s, g) => GrantHeld(s, g)'
        BY <1>1, <1>2, Taken DEF GrantHeld
      <3>2. \A g \in held : <<"grant", g>> \in Needs(s) => GrantHeld(s, g)'
        BY <1>2, DisablingGoesOn
      <3>3. QED
        BY <3>1, <3>2 DEF rows
    <2>3. Dirtied(s)' = Dirtied(s) /\ ToLock(s)' = {}
      BY <1>2, <2>1 DEF Dirtied, ToLock
    <2>4. Disabling(s)'
      BY <1>2, <2>1, <2>2, <2>3 DEF Disabling
    <2>5. QED
      BY <1>1, <1>2, <2>4, NoteActs DEF SameHandler
  <1>3. CASE left = {}
    <2> DEFINE next == [state EXCEPT !.pc = "commit"]
    <2>1. Note(s, next) /\ next \in TxState
      BY <1>3 DEF NextGrant, TxState, Steps
    <2>2. /\ next.op = "disable" /\ next.auth = a /\ next.held = held
          /\ next.dirty = tx[s].dirty /\ next.pc = "commit"
      BY DEF TxState
    <2>3. QED
      BY <1>2, <1>3, <2>1, <2>2
  <1>4. CASE left # {}
    <2>1. PICK r \in left : Note(s, [state EXCEPT !.pc = "read", !.r = r, !.todo = left \ {r}])
      BY <1>4 DEF NextGrant
    <2> DEFINE next == [state EXCEPT !.pc = "read", !.r = r, !.todo = left \ {r}]
    <2>2. next \in TxState
      BY <2>1 DEF TxState, Steps
    <2>3. /\ next.op = "disable" /\ next.auth = a /\ next.held = held /\ next.r = r
          /\ next.dirty = tx[s].dirty /\ next.pc = "read" /\ next.todo = left \ {r}
      BY DEF TxState
    <2>4. QED
      BY <1>2, <2>1, <2>2, <2>3
  <1>5. QED
    BY <1>3, <1>4

LEMMA DisableLockSafe ==
    ASSUME ApprovalInv, NEW s \in Sessions, DisableLock(s), NEW a, a = tx[s].auth,
           NEW r, r = tx[s].r
    PROVE  StepSafe
  <1> DEFINE held == tx[s].held \cup {g \in {r} : grant[g].status = "issued"}
             state == [tx[s] EXCEPT !.held = held]
  <1>1. /\ TypeOK /\ Disabling(s) /\ tx[s].op = "disable" /\ tx[s].pc = "lock"
        /\ tx[s] \in TxState /\ UNCHANGED <<rows, vault, env>> /\ tx[s].dirty = {}
        /\ a \in Authorities /\ r \in Requests /\ tx[s].todo \in SUBSET Requests
        /\ tx[s].held \in SUBSET Requests
        /\ Affected(a) \subseteq tx[s].held \cup tx[s].todo \cup {r}
        /\ \A g \in tx[s].held : GrantHeld(s, g) /\ grant[g].status = "issued"
    BY DEF ApprovalInv, Session, DisableLock, At, TypeOK, Disabling, ToLock, TxState
  <1>2. held \in SUBSET Requests /\ state \in TxState
    BY <1>1 DEF TxState
  <1>3. /\ state.op = "disable" /\ state.auth = a /\ state.held = held /\ state.pc = "lock"
        /\ state.dirty = {}
    BY <1>1 DEF TxState
  <1>4. \A g \in held : /\ GrantHeld(s, g) \/ <<"grant", g>> \in Needs(s)
                        /\ grant[g].status = "issued"
    BY <1>1, NeedsOf
  <1>5. Affected(a) \subseteq held \cup tx[s].todo
    BY <1>1 DEF Affected
  <1>6. CASE tx[s].todo # {}
    <2>1. PICK q \in tx[s].todo :
              Note(s, [state EXCEPT !.r = q, !.todo = state.todo \ {q}])
      BY <1>6 DEF DisableLock
    <2> DEFINE next == [state EXCEPT !.r = q, !.todo = state.todo \ {q}]
    <2>2. state.todo = tx[s].todo
      BY <1>1 DEF TxState
    <2>3. next \in TxState
      BY <1>1, <1>2, <2>1, <2>2 DEF TxState
    <2>4. /\ next.op = "disable" /\ next.auth = a /\ next.held = held /\ next.r = q
          /\ next.dirty = {} /\ next.pc = "lock" /\ next.todo = tx[s].todo \ {q}
      BY <1>2, <1>3, <2>2 DEF TxState
    <2>5. tx'[s] = next /\ Affected(a)' = Affected(a)
      BY <1>1, <2>1, <2>3, DisablingGoesOn
    <2>6. \A g \in held : GrantHeld(s, g)' /\ grant'[g].status = "issued"
      <3>1. \A g \in held : GrantHeld(s, g) => GrantHeld(s, g)'
        BY <1>1, <1>2, <2>1, <2>3, Taken DEF GrantHeld
      <3>2. \A g \in held : <<"grant", g>> \in Needs(s) => GrantHeld(s, g)'
        BY <1>1, <1>2, <2>1, <2>3, DisablingGoesOn
      <3>3. QED
        BY <1>1, <1>4, <3>1, <3>2 DEF rows
    <2>7. Disabling(s)'
      BY <1>1, <1>5, <2>1, <2>4, <2>5, <2>6 DEF Disabling, ToLock
    <2>8. QED
      BY <1>1, <2>1, <2>3, <2>4, <2>7, NoteActs, ReadSafe DEF At, SameHandler
  <1>7. CASE tx[s].todo = {}
    <2>1. NextGrant(s, state, held)
      BY <1>7 DEF DisableLock
    <2>2. held = held \cup Dirtied(s)
      BY <1>1 DEF Dirtied
    <2> HIDE DEF state, held
    <2>3. Affected(a) \subseteq held
      BY <1>5, <1>7
    <2>4. tx[s].held \subseteq held
      BY DEF held
    <2>5. Acts(s)
      BY <1>1, <1>2, <1>3, <1>4, <2>1, <2>2, <2>3, <2>4, NextGrantActs
    <2>6. QED
      BY <1>1, <2>5, ReadSafe DEF At
  <1>8. QED
    BY <1>6, <1>7

LEMMA DisableReadSafe ==
    ASSUME ApprovalInv, NEW s \in Sessions, DisableRead(s), NEW a, a = tx[s].auth,
           NEW r, r = tx[s].r
    PROVE  StepSafe
  <1> DEFINE dirty == tx[s].dirty \cup {<<r, req[r].version>>}
             state == [tx[s] EXCEPT !.pc = "flush", !.dirty = dirty]
  <1>1. /\ TypeOK /\ Disabling(s) /\ tx[s].op = "disable" /\ tx[s].pc = "read"
        /\ tx[s] \in TxState /\ UNCHANGED <<rows, vault, env>>
        /\ a \in Authorities /\ r \in Requests /\ tx[s].todo \in SUBSET Requests
        /\ tx[s].dirty \in SUBSET (Requests \X Nat)
        /\ Affected(a) \subseteq tx[s].held
        /\ tx[s].held = {r} \cup tx[s].todo \cup Dirtied(s)
        /\ grant[r].status = "issued"
        /\ \A d \in tx[s].dirty : RequestHeld(s, d[1])
    BY DEF ApprovalInv, Session, DisableRead, At, TypeOK, Disabling, ToLock, TxState
  <1>2. req[r].status = "approved" /\ req[r].version \in Nat
    BY <1>1, RowTypes DEF ApprovalInv, Rows, Agree
  <1>3. state \in TxState /\ Note(s, state)
    <2>1. Note(s, state)
      BY <1>2 DEF DisableRead
    <2>2. dirty \in SUBSET (Requests \X Nat)
      BY <1>1, <1>2
    <2> HIDE DEF dirty
    <2>3. state \in TxState
      BY <1>1, <2>2 DEF TxState, Steps
    <2>4. QED
      BY <2>1, <2>3
  <1>4. /\ state.op = "disable" /\ state.auth = a /\ state.held = tx[s].held
        /\ state.r = r /\ state.pc = "flush" /\ state.dirty = dirty
        /\ state.todo = tx[s].todo
    BY <1>1 DEF TxState
  <1>5. /\ tx'[s] = state /\ Affected(a)' = Affected(a)
        /\ \A g \in tx[s].held : GrantHeld(s, g)' /\ grant'[g].status = "issued"
        /\ \A d \in tx[s].dirty : /\ d[1] \in tx[s].held /\ d[2] = req'[d[1]].version
                                  /\ RequestHeld(s, d[1])'
    BY <1>1, <1>3, DisablingGoesOn
  <1>6. \A d \in dirty : /\ d[1] \in tx[s].held /\ d[2] = req'[d[1]].version
                         /\ RequestHeld(s, d[1])' \/ d[1] = r
    BY <1>1, <1>5 DEF rows
  <1>7. Dirtied(s)' = Dirtied(s) \cup {r}
    <2>1. tx'[s].dirty = dirty
      BY <1>4, <1>5
    <2>2. {d[1] : d \in dirty} = {d[1] : d \in tx[s].dirty} \cup {r}
      <3> DEFINE e == <<r, req[r].version>>
      <3>1. e[1] = r /\ dirty = tx[s].dirty \cup {e}
        OBVIOUS
      <3> HIDE DEF e, dirty
      <3>2. QED
        BY <3>1
    <2>3. QED
      BY <2>1, <2>2 DEF Dirtied
  <1>8. Disabling(s)'
    BY <1>1, <1>4, <1>5, <1>6, <1>7 DEF Disabling, ToLock
  <1>9. QED
    BY <1>1, <1>3, <1>4, <1>8, NoteActs, ReadSafe DEF At, SameHandler

LEMMA DisableFlushSafe ==
    ASSUME ApprovalInv, NEW s \in Sessions, DisableFlush(s), NEW a, a = tx[s].auth,
           NEW r, r = tx[s].r
    PROVE  StepSafe
  <1> DEFINE state == [tx[s] EXCEPT !.pc = "append"]
  <1>1. /\ TypeOK /\ Disabling(s) /\ tx[s].op = "disable" /\ tx[s].pc = "flush"
        /\ tx[s] \in TxState /\ UNCHANGED <<rows, vault, env>>
        /\ a \in Authorities /\ r \in Requests
        /\ Affected(a) \subseteq tx[s].held /\ tx[s].held = tx[s].todo \cup Dirtied(s)
        /\ \A d \in tx[s].dirty : RequestHeld(s, d[1]) \/ d[1] = r
    BY DEF ApprovalInv, Session, DisableFlush, At, TypeOK, Disabling, ToLock
  <1>2. state \in TxState /\ Note(s, state) /\ SameHandler(s, state)
    BY <1>1, GoesOn DEF Steps, DisableFlush
  <1>3. /\ state.op = "disable" /\ state.auth = a /\ state.held = tx[s].held
        /\ state.pc = "append" /\ state.dirty = tx[s].dirty /\ state.todo = tx[s].todo
    BY <1>1 DEF TxState
  <1>4. /\ tx'[s] = state /\ Affected(a)' = Affected(a) /\ RequestHeld(s, r)'
        /\ \A g \in tx[s].held : GrantHeld(s, g)' /\ grant'[g].status = "issued"
        /\ \A d \in tx[s].dirty : /\ d[1] \in tx[s].held /\ d[2] = req'[d[1]].version
                                  /\ RequestHeld(s, d[1]) => RequestHeld(s, d[1])'
    BY <1>1, <1>2, NeedsOf, DisablingGoesOn
  <1>5. \A d \in tx[s].dirty : RequestHeld(s, d[1])'
    BY <1>1, <1>4
  <1>6. Dirtied(s)' = Dirtied(s)
    BY <1>3, <1>4 DEF Dirtied
  <1>7. Disabling(s)'
    BY <1>1, <1>3, <1>4, <1>5, <1>6 DEF Disabling, ToLock
  <1>8. QED
    BY <1>1, <1>2, <1>3, <1>7, NoteActs, ReadSafe DEF At

LEMMA DisableAppendSafe ==
    ASSUME ApprovalInv, NEW s \in Sessions, DisableAppend(s), NEW a, a = tx[s].auth
    PROVE  StepSafe
  <1>1. /\ TypeOK /\ tx[s].op = "disable" /\ tx[s].pc = "append"
        /\ tx[s] \in TxState /\ UNCHANGED <<rows, vault, env>>
        /\ a \in Authorities /\ tx[s].todo \in SUBSET Requests
        /\ tx[s].held \in SUBSET Requests
        /\ Affected(a) \subseteq tx[s].held /\ tx[s].held = tx[s].todo \cup Dirtied(s)
        /\ \A d \in tx[s].dirty : RequestHeld(s, d[1])
        /\ \A g \in tx[s].held : GrantHeld(s, g) /\ grant[g].status = "issued"
        /\ NextGrant(s, tx[s], tx[s].todo)
    BY DEF ApprovalInv, Session, DisableAppend, At, TypeOK, Disabling, ToLock, TxState
  <1>2. Acts(s)
    BY <1>1, NextGrantActs
  <1>3. QED
    BY <1>1, <1>2, ReadSafe DEF At

LEMMA DisableCommitSafe ==
    ASSUME ApprovalInv, NEW s \in Sessions, DisableCommit(s), NEW a, a = tx[s].auth,
           NEW held, held = tx[s].held
    PROVE  StepSafe
  <1>1. /\ TypeOK /\ Disabling(s) /\ tx[s].op = "disable" /\ tx[s].pc = "commit"
        /\ tx[s] \in TxState /\ UNCHANGED <<decisions, run, vault, env>>
        /\ a \in Authorities /\ held \in SUBSET Requests
        /\ tx[s].dirty \in SUBSET (Requests \X Nat)
        /\ Affected(a) \subseteq held /\ held = Dirtied(s)
        /\ \A g \in held : GrantHeld(s, g) /\ grant[g].status = "issued"
        /\ \A d \in tx[s].dirty : RequestHeld(s, d[1]) /\ d[2] = req[d[1]].version
    BY DEF ApprovalInv, Session, DisableCommit, At, TypeOK, Disabling, ToLock, TxState
  <1>2. Acts(s) /\ \A r \in held : Removing(s, r)'
    <2>1. held = {} => Acts(s)
      BY <1>1, EndActs DEF DisableCommit, End
    <2>2. held # {} => Acts(s) /\ \A r \in Requests : r \in Discarded(s) => Removing(s, r)'
      BY <1>1, DiscardActs DEF DisableCommit
    <2>3. Discarded(s) = held
      BY <1>1 DEF Discarded
    <2>4. QED
      BY <1>1, <2>1, <2>2, <2>3
  <1>3. ASSUME NEW r \in held
        PROVE  /\ r \in Requests /\ RequestHeld(s, r) /\ GrantHeld(s, r)
               /\ grant[r].status = "issued" /\ grant[r].version = 1
               /\ req[r].status = "approved" /\ Rows(r)
               /\ \E n \in {d[2] : d \in tx[s].dirty} : <<r, n>> \in tx[s].dirty
               /\ (CHOOSE d \in tx[s].dirty : d[1] = r)[2] = req[r].version
    <2>1. PICK e \in tx[s].dirty : e[1] = r
      BY <1>1, <1>3 DEF Dirtied
    <2>2. e = <<r, e[2]>>
      BY <1>1, <2>1
    <2>3. \E n \in {d[2] : d \in tx[s].dirty} : <<r, n>> \in tx[s].dirty
      BY <2>2
    <2>4. (CHOOSE d \in tx[s].dirty : d[1] = r) \in tx[s].dirty
          /\ (CHOOSE d \in tx[s].dirty : d[1] = r)[1] = r
      BY <2>1
    <2>5. r \in Requests /\ RequestHeld(s, r) /\ GrantHeld(s, r) /\ grant[r].status = "issued"
      BY <1>1, <1>3, <2>1
    <2>6. Rows(r) /\ req[r].status = "approved" /\ grant[r].version = 1
      BY <2>5 DEF ApprovalInv, Rows, Agree
    <2>7. (CHOOSE d \in tx[s].dirty : d[1] = r)[2] = req[r].version
      BY <1>1, <2>4
    <2>8. QED
      BY <2>3, <2>5, <2>6, <2>7
  <1>4. /\ authority' = [authority EXCEPT ![a] = "disabled"]
        /\ grant' = [r \in Requests |->
                       IF r \in held THEN [grant[r] EXCEPT !.status = "revoked",
                                                           !.version = grant[r].version + 1]
                       ELSE grant[r]]
        /\ req' = Invalidated(s)
    BY DEF DisableCommit
  <1>5. ASSUME NEW r \in Requests \ held
        PROVE  req'[r] = req[r] /\ grant'[r] = grant[r]
    <2>1. \A n : <<r, n>> \notin tx[s].dirty
      BY <1>1 DEF Dirtied
    <2>2. QED
      BY <1>4, <2>1 DEF Invalidated
  <1>6. ASSUME NEW r \in held
        PROVE  /\ req'[r] = [req[r] EXCEPT !.status = "invalidated",
                                           !.version = req[r].version + 1]
               /\ grant'[r] = [grant[r] EXCEPT !.status = "revoked", !.version = 2]
    <2>1. req'[r] = [req[r] EXCEPT !.status = "invalidated",
                          !.version = (CHOOSE d \in tx[s].dirty : d[1] = r)[2] + 1]
      BY <1>3, <1>4 DEF Invalidated
    <2>2. grant'[r] = [grant[r] EXCEPT !.status = "revoked", !.version = grant[r].version + 1]
      BY <1>3, <1>4
    <2>3. grant[r].version + 1 = 2
      BY <1>3
    <2>4. QED
      BY <1>3, <2>1, <2>2, <2>3
  <1>7. ASSUME NEW r \in held
        PROVE  /\ req'[r].status = "invalidated" /\ req'[r].version = req[r].version + 1
               /\ grant'[r].status = "revoked" /\ grant'[r].version = 2
               /\ req'[r] \in RequestRow /\ grant'[r] \in GrantRow
    <2>1. /\ req[r] \in RequestRow /\ grant[r] \in GrantRow /\ req[r].version + 1 \in Nat
          /\ "invalidated" \in RequestStatus /\ "revoked" \in GrantStatus
      BY <1>1, <1>3, RowTypes, StatusNames
    <2>2. /\ req'[r].status = "invalidated" /\ req'[r].version = req[r].version + 1
          /\ req'[r] \in RequestRow
      BY <1>6, <2>1 DEF RequestRow
    <2>3. grant'[r].status = "revoked" /\ grant'[r].version = 2 /\ grant'[r] \in GrantRow
      <3>1. grant'[r] = [grant[r] EXCEPT !.status = "revoked", !.version = 2]
        BY <1>6
      <3>2. grant[r] \in GrantRow /\ "revoked" \in GrantStatus
        BY <2>1
      <3>3. [grant[r] EXCEPT !.status = "revoked", !.version = 2] \in GrantRow
        BY <3>2 DEF GrantRow
      <3>4. grant'[r].status = "revoked" /\ grant'[r].version = 2
        BY <3>1, <3>2 DEF GrantRow
      <3>5. QED
        BY <3>1, <3>3, <3>4
    <2>4. QED
      BY <2>2, <2>3
  <1>8. RowsTyped'
    <2>1. \A r \in Requests : req'[r] \in RequestRow /\ grant'[r] \in GrantRow
      BY <1>1, <1>5, <1>7, RowTypes
    <2>2. req' = [r \in Requests |-> req'[r]] /\ grant' = [r \in Requests |-> grant'[r]]
      <3> DEFINE row(r) == IF \E n \in {d[2] : d \in tx[s].dirty} : <<r, n>> \in tx[s].dirty
                           THEN [req[r] EXCEPT !.status = "invalidated",
                                  !.version = (CHOOSE d \in tx[s].dirty : d[1] = r)[2] + 1]
                           ELSE req[r]
      <3>1. req' = [r \in Requests |-> row(r)]
        BY <1>4 DEF Invalidated
      <3> HIDE DEF row
      <3>2. req' = [r \in Requests |-> req'[r]]
        BY <3>1
      <3>3. QED
        BY <1>4, <3>2
    <2>3. req' \in [Requests -> RequestRow] /\ grant' \in [Requests -> GrantRow]
      BY <2>1, <2>2
    <2>4. authority' \in [Authorities -> {"active", "disabled"}]
      BY <1>1, <1>4 DEF TypeOK
    <2>5. QED
      BY <1>1, <2>3, <2>4 DEF RowsTyped, TypeOK
  <1>9. ASSUME NEW r \in Requests, grant'[r].status = "issued"
        PROVE  \A d \in decisions[r] :
                   authority[d.auth] = "active" => authority'[d.auth] = "active"
    <2>1. r \notin held
      BY <1>7, <1>9
    <2>2. grant[r].status = "issued"
      BY <1>5, <1>9, <2>1
    <2>3. \A d \in decisions[r] : d.auth # a
      BY <1>1, <2>1, <2>2 DEF Affected
    <2>4. \A d \in decisions[r] : d.auth \in Authorities
      BY <1>1, RowTypes DEF DecisionRow
    <2>5. QED
      BY <1>1, <1>4, <2>3, <2>4 DEF TypeOK
  <1>10. ASSUME NEW r \in Requests PROVE Rows(r)' /\ Counted(r) /\ Rests(r)
    <2>1. CASE r \in held
      <3>1. Rows(r)'
        BY <1>1, <1>3, <1>7, <2>1 DEF Rows, Agree
      <3>2. Counted(r) /\ Rests(r)
        BY <1>3, <1>7, <2>1 DEF Counted, Rests
      <3>3. QED
        BY <3>1, <3>2
    <2>2. CASE r \notin held
      <3>1. req'[r] = req[r] /\ grant'[r] = grant[r] /\ Rows(r) /\ UNCHANGED <<decisions, run>>
        BY <1>1, <1>5, <2>2 DEF ApprovalInv
      <3>2. Agree(r)'
        <4>1. grant'[r].status = "issued" /\ req'[r].level = "L2"
                  => \A d \in decisions'[r] : authority'[d.auth] = "active"
          BY <1>9, <3>1 DEF Rows, Agree
        <4>2. QED
          BY <3>1, <4>1 DEF Rows, Agree
      <3>3. Rows(r)'
        BY <3>1, <3>2 DEF Rows
      <3>4. QED
        BY <3>1, <3>3 DEF Counted, Rests
    <2>3. QED
      BY <2>1, <2>2
  <1>11. RowsSafe
    BY <1>8, <1>10 DEF RowsSafe
  <1>12. Writes(s)
    <2>1. ASSUME NEW r \in Requests, Written(r) PROVE r \in held
      BY <1>1, <1>5, <2>1 DEF Written
    <2>2. QED
      BY <1>1, <1>3, <1>7, <1>9, <2>1 DEF Writes, Written, GrantHeld
  <1>13. EnvTyped' /\ VaultTyped'
    BY <1>1 DEF TypeOK, EnvTyped, VaultTyped, env
  <1>14. ASSUME NEW q \in vault' PROVE Owned(q)'
    <2>1. q \in Requests /\ Owned(q) /\ ~Removing(s, q) /\ ~Issuing(s, q)
      BY <1>1 DEF ApprovalInv, TypeOK, Removing, Issuing, At
    <2>2. grant[q].status = "issued" => grant'[q].status = "issued" \/ Removing(s, q)'
      BY <1>2, <1>5, <2>1
    <2>3. QED
      BY <1>2, <1>12, <2>1, <2>2, OwnedKept
  <1>15. QED
    BY <1>2, <1>11, <1>12, <1>13, <1>14, StepKeeps

-----------------------------------------------------------------------------
(* claim_grant.                                                            *)

LEMMA ApprovalsRead ==
    ASSUME NEW r, UNCHANGED rows, ActiveApprovals(r)
    PROVE  ActiveApprovals(r)'
  BY DEF rows, ActiveApprovals, Approved

\* A step that goes on in the same request.
LEMMA ClaimGoes ==
    ASSUME ApprovalInv, NEW s \in Sessions, tx[s].op = "claim", tx[s].pc # "discard",
           NEW r, r = tx[s].r, NEW pc \in {"read", "cas", "flush", "append", "run", "commit"},
           Go(s, pc), UNCHANGED rows,
           pc = "cas" => /\ tx[s].yes /\ grant[r].status # "none"
                         /\ grant[r].status = "issued"
                                => req[r].version = tx[s].rver /\ ActiveApprovals(r),
           pc \in {"flush", "append", "run", "commit"}
               => /\ GrantHeld(s, r) \/ tx[s].pc = "cas"
                  /\ grant[r].status = "issued" /\ req[r].version = tx[s].rver
                  /\ ActiveApprovals(r),
           pc \in {"append", "run", "commit"} => RequestHeld(s, r) \/ tx[s].pc = "flush",
           pc = "run" => r \in Bound
    PROVE  Acts(s)
  <1> DEFINE state == [tx[s] EXCEPT !.pc = pc]
  <1>1. TypeOK /\ tx[s] \in TxState /\ r \in Requests
    BY DEF ApprovalInv, TypeOK, Session, Claiming
  <1>2. state \in TxState /\ Note(s, state) /\ SameHandler(s, state)
    BY <1>1, GoesOn DEF Steps
  <1>3. /\ state.op = "claim" /\ state.pc = pc /\ state.r = r /\ state.yes = tx[s].yes
        /\ state.rver = tx[s].rver
    BY <1>1 DEF TxState
  <1>4. /\ tx'[s] = state
        /\ pc \in {"flush", "append", "run", "commit"} => lock'[<<"grant", r>>] = s
        /\ pc \in {"append", "run", "commit"} => lock'[<<"request", r>>] = s
    BY <1>1, <1>2, Taken, NeedsOf
  <1>5. ActiveApprovals(r) => ActiveApprovals(r)'
    BY ApprovalsRead
  <1>6. Claiming(s)'
    <2>1. CASE pc = "read"
      BY <1>1, <1>3, <1>4, <2>1 DEF Claiming
    <2>2. CASE pc = "cas"
      BY <1>1, <1>3, <1>4, <1>5, <2>2 DEF Claiming, rows
    <2>3. CASE pc \in {"flush", "append", "run", "commit"}
      BY <1>1, <1>3, <1>4, <1>5, <2>3 DEF Claiming, GrantHeld, RequestHeld, rows
    <2>4. QED
      BY <2>1, <2>2, <2>3
  <1>7. QED
    BY <1>1, <1>2, <1>3, <1>6, NoteActs

LEMMA ClaimReadSafe ==
    ASSUME ApprovalInv, NEW s \in Sessions, ClaimRead(s), NEW r, r = tx[s].r
    PROVE  StepSafe
  <1> DEFINE fits == /\ tx[s].yes
                     /\ req[r].status = "approved" /\ grant[r].status = "issued"
                     /\ req[r].expires > tx[s].now /\ grant[r].expires > tx[s].now
                     /\ RiskLevel(Action[r], admin) = req[r].level
             state == [tx[s] EXCEPT !.pc = "verify", !.yes = fits, !.set = grant[r].set,
                                    !.ver = grant[r].version, !.rver = req[r].version]
  <1>1. /\ TypeOK /\ tx[s].op = "claim" /\ tx[s].pc = "read" /\ r \in Requests
        /\ tx[s] \in TxState /\ UNCHANGED <<rows, vault, env>>
    BY DEF ApprovalInv, Session, Claiming, ClaimRead, At, TypeOK
  <1>2. CASE ThenDiscard(s)
    BY <1>1, <1>2, DiscardActs, ReadSafe DEF At
  <1>3. CASE Note(s, state)
    <2>1. /\ grant[r].set \in SUBSET Bindings /\ grant[r].version \in Nat
          /\ req[r].version \in Nat /\ fits \in BOOLEAN
      BY <1>1, RowTypes DEF GrantRow
    <2>2. fits => grant[r].status = "issued"
      OBVIOUS
    <2> HIDE DEF fits
    <2>3. state \in TxState
      BY <1>1, <2>1 DEF TxState, Steps
    <2>4. /\ state.op = "claim" /\ state.pc = "verify" /\ state.r = r
          /\ state.yes = fits /\ state.rver = req[r].version
      BY <1>1, <2>1 DEF TxState
    <2>5. tx'[s] = state
      BY <1>1, <1>3, <2>3, Taken
    <2>6. Claiming(s)'
      BY <1>1, <2>2, <2>4, <2>5 DEF Claiming, rows
    <2>7. QED
      BY <1>1, <1>3, <2>3, <2>4, <2>6, NoteActs, ReadSafe DEF At, SameHandler
  <1>4. QED
    BY <1>2, <1>3 DEF ClaimRead

LEMMA ClaimStepsSafe ==
    ASSUME ApprovalInv, NEW s \in Sessions, NEW r, r = tx[s].r,
           \/ ClaimAdmit(s) \/ ClaimVerify(s) \/ ClaimCas(s) \/ ClaimFlush(s)
           \/ ClaimAppend(s) \/ ClaimRun(s)
    PROVE  StepSafe
  <1>1. /\ TypeOK /\ Claiming(s) /\ tx[s].op = "claim" /\ UNCHANGED <<rows, vault, env>>
        /\ tx[s].pc \in {"admit", "verify", "cas", "flush", "append", "run"}
        /\ r \in Requests
    BY DEF ApprovalInv, Session, Claiming, At, ClaimAdmit, ClaimVerify, ClaimCas,
           ClaimFlush, ClaimAppend, ClaimRun
  <1>2. CASE ClaimAdmit(s)
    BY <1>1, <1>2, ClaimGoes, ReadSafe DEF ClaimAdmit, At
  <1>3. CASE ClaimVerify(s)
    <2>1. CASE ThenDiscard(s)
      BY <1>1, <2>1, DiscardActs, ReadSafe DEF At
    <2>2. CASE tx[s].yes /\ ActiveApprovals(r) /\ Go(s, "cas")
      <3>1. grant[r].status # "none" /\ (grant[r].status = "issued" => req[r].version = tx[s].rver)
        BY <1>1, <1>3, <2>2 DEF Claiming, ClaimVerify, At
      <3>2. QED
        BY <1>1, <2>2, <3>1, ClaimGoes, ReadSafe DEF At
    <2>3. QED
      BY <1>3, <2>1, <2>2 DEF ClaimVerify
  <1>4. CASE ClaimCas(s)
    <2>1. CASE ThenDiscard(s)
      BY <1>1, <2>1, DiscardActs, ReadSafe DEF At
    <2>2. CASE grant[r].status = "issued" /\ Go(s, "flush")
      <3>1. tx[s].pc = "cas" /\ req[r].version = tx[s].rver /\ ActiveApprovals(r)
        BY <1>1, <1>4, <2>2 DEF Claiming, ClaimCas, At
      <3>2. QED
        BY <1>1, <2>2, <3>1, ClaimGoes, ReadSafe DEF At
    <2>3. QED
      BY <1>4, <2>1, <2>2 DEF ClaimCas
  <1>5. ASSUME tx[s].pc \in {"flush", "append", "run"}
        PROVE  /\ GrantHeld(s, r) /\ grant[r].status = "issued"
               /\ req[r].version = tx[s].rver /\ ActiveApprovals(r)
               /\ tx[s].pc # "flush" => RequestHeld(s, r)
    BY <1>1, <1>5 DEF Claiming
  <1>6. CASE ClaimFlush(s)
    BY <1>1, <1>5, <1>6, ClaimGoes, ReadSafe DEF ClaimFlush, At
  <1>7. CASE ClaimAppend(s)
    BY <1>1, <1>5, <1>7, ClaimGoes, ReadSafe DEF ClaimAppend, At
  <1>8. CASE ClaimRun(s)
    <2>1. CASE End(s)
      BY <1>1, <2>1, EndActs, ReadSafe DEF End, At
    <2>2. CASE Go(s, "commit")
      BY <1>1, <1>5, <1>8, <2>2, ClaimGoes, ReadSafe DEF ClaimRun, At
    <2>3. QED
      BY <1>8, <2>1, <2>2 DEF ClaimRun
  <1>9. QED
    BY <1>2, <1>3, <1>4, <1>6, <1>7, <1>8

LEMMA ClaimCommitSafe ==
    ASSUME ApprovalInv, NEW s \in Sessions, ClaimCommit(s), NEW r, r = tx[s].r
    PROVE  StepSafe
  <1>1. /\ TypeOK /\ tx[s].op = "claim" /\ tx[s].pc = "commit" /\ r \in Requests
        /\ GrantHeld(s, r) /\ RequestHeld(s, r) /\ grant[r].status = "issued"
        /\ req[r].version = tx[s].rver /\ ActiveApprovals(r) /\ Rows(r)
        /\ UNCHANGED <<decisions, authority, vault, env>>
    BY DEF ApprovalInv, Session, Claiming, ClaimCommit, At
  <1>2. /\ req[r].status = "approved" /\ grant[r].version = 1
        /\ req \in [Requests -> RequestRow] /\ grant \in [Requests -> GrantRow]
        /\ req[r] \in RequestRow /\ grant[r] \in GrantRow /\ req[r].version \in Nat
        /\ run \in [Bound -> RunStatus]
    BY <1>1, RowTypes DEF Rows, Agree, TypeOK
  <1>3. /\ req' = [req EXCEPT ![r] = [req[r] EXCEPT !.status = "claimed",
                                                    !.version = req[r].version + 1]]
        /\ grant' = [grant EXCEPT ![r] = [grant[r] EXCEPT !.status = "claimed",
                                                          !.version = 2]]
        /\ run' = IF r \in Bound THEN [run EXCEPT ![r] = "queued"] ELSE run
    <2>1. grant[r].version + 1 = 2 /\ tx[s].rver + 1 = req[r].version + 1
      BY <1>1, <1>2
    <2>2. QED
      BY <1>1, <1>2, <2>1 DEF ClaimCommit
  <1>4. Acts(s) /\ Removing(s, r)'
    <2>1. r \in Discarded(s)
      BY <1>1 DEF Discarded
    <2>2. QED
      BY <1>1, <2>1, DiscardActs DEF ClaimCommit
  <1>5. /\ req'[r].status = "claimed" /\ req'[r].version = req[r].version + 1
        /\ req'[r].level = req[r].level /\ req'[r] \in RequestRow
    <2>1. "claimed" \in RequestStatus /\ req[r].version + 1 \in Nat
      BY <1>2, StatusNames
    <2>2. req'[r] = [req[r] EXCEPT !.status = "claimed", !.version = req[r].version + 1]
      BY <1>1, <1>2, <1>3
    <2>3. QED
      BY <1>2, <2>1, <2>2 DEF RequestRow
  <1>6. grant'[r].status = "claimed" /\ grant'[r].version = 2 /\ grant'[r] \in GrantRow
    <2>1. "claimed" \in GrantStatus
      BY StatusNames
    <2>2. grant'[r] = [grant[r] EXCEPT !.status = "claimed", !.version = 2]
      BY <1>1, <1>2, <1>3
    <2>3. [grant[r] EXCEPT !.status = "claimed", !.version = 2] \in GrantRow
      BY <1>2, <2>1 DEF GrantRow
    <2>4. grant'[r].status = "claimed" /\ grant'[r].version = 2
      BY <1>2, <2>2 DEF GrantRow
    <2>5. QED
      BY <2>2, <2>3, <2>4
  <1>7. OnlyRow(r) /\ RowsTyped'
    <2>1. run' \in [Bound -> RunStatus] /\ \A q \in Bound \ {r} : run'[q] = run[q]
      BY <1>2, <1>3 DEF RunStatus
    <2>2. req' \in [Requests -> RequestRow] /\ \A q \in Requests \ {r} : req'[q] = req[q]
      BY <1>2, <1>3, <1>5
    <2>3. grant' \in [Requests -> GrantRow] /\ \A q \in Requests \ {r} : grant'[q] = grant[q]
      BY <1>2, <1>3, <1>6
    <2>4. QED
      BY <1>1, <2>1, <2>2, <2>3 DEF TypeOK, RowsTyped, OnlyRow
  <1>8. Rows(r)'
    <2>1. r \in Bound => run'[r] = "queued"
      BY <1>2, <1>3
    <2>2. Agree(r)'
      BY <1>5, <1>6, <2>1 DEF Agree
    <2>3. QED
      BY <1>1, <1>5, <1>6, <2>2 DEF Rows
  <1>9. Counted(r) /\ Rests(r)
    <2>1. \A d \in Approved(r) : d.auth.user # Requester
      BY <1>1 DEF Rows, Approved
    <2>2. Rests(r)
      BY <1>1, <2>1 DEF Rests
    <2>3. Counted(r)
      BY <1>1, <1>2, <1>5, <1>6 DEF Counted
    <2>4. QED
      BY <2>2, <2>3
  <1>10. lock[<<"grant", r>>] \in {Free, s}
    BY <1>1 DEF GrantHeld
  <1>11. QED
    BY <1>1, <1>4, <1>6, <1>7, <1>8, <1>9, <1>10, OneRowSafe DEF At

-----------------------------------------------------------------------------
(* complete_execution_claim.                                               *)

LEMMA CompleteStepsSafe ==
    ASSUME ApprovalInv, NEW s \in Sessions, NEW r, r = tx[s].r,
           CompleteCas(s) \/ CompleteRead(s) \/ CompleteFlush(s) \/ CompleteAppend(s)
    PROVE  StepSafe
  <1>1. /\ TypeOK /\ Completing(s) /\ tx[s].op = "complete" /\ UNCHANGED <<rows, vault, env>>
        /\ tx[s].pc \in {"cas", "read", "flush", "append"} /\ r \in Requests \ Bound
        /\ tx[s] \in TxState
    BY DEF ApprovalInv, Session, Completing, At, CompleteCas, CompleteRead, CompleteFlush,
           CompleteAppend, TypeOK
  <1>2. CASE End(s)
    BY <1>1, <1>2, EndActs, ReadSafe DEF End, At
  <1>3. ASSUME NEW pc \in {"read", "append", "commit"}, Go(s, pc), grant[r].status = "claimed",
               GrantHeld(s, r) \/ tx[s].pc = "cas",
               pc # "read" => /\ req[r].version = tx[s].rver
                              /\ RequestHeld(s, r) \/ tx[s].pc = "flush"
        PROVE  StepSafe
    <2> DEFINE state == [tx[s] EXCEPT !.pc = pc]
    <2>1. state \in TxState /\ Note(s, state) /\ SameHandler(s, state)
      BY <1>1, <1>3, GoesOn DEF Steps
    <2>2. state.op = "complete" /\ state.pc = pc /\ state.r = r /\ state.rver = tx[s].rver
      BY <1>1 DEF TxState
    <2>3. /\ tx'[s] = state /\ lock'[<<"grant", r>>] = s
          /\ pc # "read" => lock'[<<"request", r>>] = s
      BY <1>1, <1>3, <2>1, Taken, NeedsOf
    <2>4. Completing(s)'
      BY <1>1, <1>3, <2>2, <2>3 DEF Completing, GrantHeld, RequestHeld, rows
    <2>5. QED
      BY <1>1, <1>3, <2>1, <2>2, <2>4, NoteActs, ReadSafe DEF At
  <1>4. CASE CompleteCas(s)
    BY <1>1, <1>2, <1>3, <1>4 DEF CompleteCas, At
  <1>5. CASE CompleteRead(s) /\ ~End(s)
    <2> DEFINE state == [tx[s] EXCEPT !.pc = "flush", !.rver = req[r].version]
    <2>1. Note(s, state) /\ GrantHeld(s, r) /\ grant[r].status = "claimed"
      BY <1>1, <1>5 DEF CompleteRead, Completing, At
    <2>2. req[r].version \in Nat
      BY <1>1, RowTypes
    <2>3. state \in TxState
      BY <1>1, <2>2 DEF TxState, Steps
    <2>4. /\ state.op = "complete" /\ state.pc = "flush" /\ state.r = r
          /\ state.rver = req[r].version
      BY <1>1 DEF TxState
    <2>5. tx'[s] = state /\ lock'[<<"grant", r>>] = s
      BY <1>1, <2>1, <2>3, Taken
    <2>6. Completing(s)'
      BY <1>1, <2>1, <2>4, <2>5 DEF Completing, GrantHeld, rows
    <2>7. QED
      BY <1>1, <2>1, <2>3, <2>4, <2>6, NoteActs, ReadSafe DEF At, SameHandler
  <1>6. CASE CompleteFlush(s)
    BY <1>1, <1>3, <1>6 DEF CompleteFlush, Completing, At
  <1>7. CASE CompleteAppend(s)
    BY <1>1, <1>3, <1>7 DEF CompleteAppend, Completing, At
  <1>8. QED
    BY <1>2, <1>4, <1>5, <1>6, <1>7

LEMMA CompleteCommitSafe ==
    ASSUME ApprovalInv, NEW s \in Sessions, CompleteCommit(s), NEW r, r = tx[s].r
    PROVE  StepSafe
  <1>1. /\ TypeOK /\ tx[s].op = "complete" /\ tx[s].pc = "commit" /\ r \in Requests \ Bound
        /\ GrantHeld(s, r) /\ RequestHeld(s, r) /\ grant[r].status = "claimed"
        /\ req[r].version = tx[s].rver /\ Rows(r)
        /\ UNCHANGED <<decisions, authority, run, vault, env>>
    BY DEF ApprovalInv, Session, Completing, CompleteCommit, At
  <1>2. /\ req[r].status = "claimed" /\ grant[r].version + 1 \in Nat
        /\ req \in [Requests -> RequestRow] /\ grant \in [Requests -> GrantRow]
        /\ req[r] \in RequestRow /\ grant[r] \in GrantRow /\ req[r].version + 1 \in Nat
        /\ "consumed" \in RequestStatus /\ "consumed" \in GrantStatus
    BY <1>1, RowTypes, StatusNames DEF Rows, Agree, TypeOK
  <1>3. /\ req' = [req EXCEPT ![r] = [req[r] EXCEPT !.status = "consumed",
                                                    !.version = req[r].version + 1]]
        /\ grant' = [grant EXCEPT ![r] = [grant[r] EXCEPT !.status = "consumed",
                                                          !.version = grant[r].version + 1]]
        /\ Acts(s)
    BY <1>1, <1>2, EndActs DEF CompleteCommit, End
  <1>4. /\ req'[r].status = "consumed" /\ req'[r].version = req[r].version + 1
        /\ req'[r].level = req[r].level /\ req'[r] \in RequestRow
    <2>1. req'[r] = [req[r] EXCEPT !.status = "consumed", !.version = req[r].version + 1]
      BY <1>1, <1>2, <1>3
    <2>2. QED
      BY <1>2, <2>1 DEF RequestRow
  <1>5. /\ grant'[r].status = "consumed" /\ grant'[r].version = grant[r].version + 1
        /\ grant'[r] \in GrantRow
    <2> DEFINE row == [grant[r] EXCEPT !.status = "consumed",
                                       !.version = grant[r].version + 1]
    <2>1. grant'[r] = row
      BY <1>1, <1>2, <1>3
    <2>2. row \in GrantRow
      BY <1>2 DEF GrantRow
    <2>3. row.status = "consumed" /\ row.version = grant[r].version + 1
      BY <1>2 DEF GrantRow
    <2>4. QED
      BY <2>1, <2>2, <2>3
  <1>6. OnlyRow(r) /\ RowsTyped'
    <2>1. req' \in [Requests -> RequestRow] /\ \A q \in Requests \ {r} : req'[q] = req[q]
      BY <1>2, <1>3, <1>4
    <2>2. grant' \in [Requests -> GrantRow] /\ \A q \in Requests \ {r} : grant'[q] = grant[q]
      BY <1>2, <1>3, <1>5
    <2>3. QED
      BY <1>1, <2>1, <2>2 DEF TypeOK, RowsTyped, OnlyRow
  <1>7. Rows(r)'
    <2>1. Agree(r)'
      BY <1>1, <1>4, <1>5 DEF Agree
    <2>2. QED
      BY <1>1, <1>4, <1>5, <2>1 DEF Rows
  <1>8. Counted(r) /\ Rests(r)
    BY <1>1, <1>2, <1>4, <1>5 DEF Counted, Rests
  <1>9. lock[<<"grant", r>>] \in {Free, s}
    BY <1>1 DEF GrantHeld
  <1>10. QED
    BY <1>1, <1>3, <1>5, <1>6, <1>7, <1>8, <1>9, OneRowSafe DEF At

-----------------------------------------------------------------------------
(* cancel_production_run.                                                  *)

LEMMA CancelStepsSafe ==
    ASSUME ApprovalInv, NEW s \in Sessions, NEW r, r = tx[s].r,
           \/ CancelPartition(s) \/ CancelRun(s) \/ CancelRequest(s) \/ CancelAppend(s)
    PROVE  StepSafe
  <1>1. /\ TypeOK /\ Cancelling(s) /\ tx[s].op = "cancel" /\ UNCHANGED <<rows, vault, env>>
        /\ tx[s].pc \in {"admit", "run", "request", "append"} /\ r \in Bound
        /\ tx[s] \in TxState /\ tx[s].held = {} /\ r \in Requests
    BY ApprovalAssumption
       DEF ApprovalInv, Session, Cancelling, At, CancelPartition, CancelRun, CancelRequest,
           CancelAppend, TypeOK
  <1>2. CASE End(s)
    BY <1>1, <1>2, EndActs, ReadSafe DEF End, At
  <1>3. ASSUME NEW pc \in {"run", "request", "append", "grant", "commit"}, Go(s, pc),
               pc \in {"append", "grant", "commit"}
                   => RequestHeld(s, r) \/ tx[s].pc = "request",
               pc = "grant" => grant[r].status # "none",
               pc = "commit" => grant[r].status = "none"
        PROVE  StepSafe
    <2> DEFINE state == [tx[s] EXCEPT !.pc = pc]
    <2>1. state \in TxState /\ Note(s, state) /\ SameHandler(s, state)
      BY <1>1, <1>3, GoesOn DEF Steps
    <2>2. state.op = "cancel" /\ state.pc = pc /\ state.r = r /\ state.held = {}
      BY <1>1 DEF TxState
    <2>3. /\ tx'[s] = state
          /\ pc \in {"append", "grant", "commit"} => lock'[<<"request", r>>] = s
      BY <1>1, <1>3, <2>1, Taken, NeedsOf
    <2>4. Cancelling(s)'
      BY <1>1, <1>3, <2>2, <2>3 DEF Cancelling, RequestHeld, rows
    <2>5. QED
      BY <1>1, <1>3, <2>1, <2>2, <2>4, NoteActs, ReadSafe DEF At
  <1>4. CASE CancelPartition(s)
    BY <1>3, <1>4 DEF CancelPartition
  <1>5. CASE CancelRun(s)
    BY <1>2, <1>3, <1>5 DEF CancelRun
  <1>6. CASE CancelRequest(s)
    BY <1>3, <1>6 DEF CancelRequest, AfterRequest, At
  <1>7. CASE CancelAppend(s)
    <2>1. RequestHeld(s, r)
      BY <1>1, <1>7 DEF Cancelling, CancelAppend, At
    <2>2. QED
      BY <1>3, <1>7, <2>1 DEF CancelAppend, AfterRequest
  <1>8. QED
    BY <1>4, <1>5, <1>6, <1>7

LEMMA CancelGrantSafe ==
    ASSUME ApprovalInv, NEW s \in Sessions, CancelGrant(s), NEW r, r = tx[s].r
    PROVE  StepSafe
  <1> DEFINE held == {g \in {r} : grant[g].status \in {"issued", "claimed"}}
             state == [tx[s] EXCEPT !.pc = "commit", !.held = held]
  <1>1. /\ TypeOK /\ tx[s].op = "cancel" /\ UNCHANGED <<rows, vault, env>>
        /\ tx[s].pc = "grant" /\ r \in Bound /\ RequestHeld(s, r)
        /\ tx[s] \in TxState /\ r \in Requests /\ Note(s, state)
    BY ApprovalAssumption DEF ApprovalInv, Session, Cancelling, At, CancelGrant, TypeOK
  <1>2. held \in SUBSET Requests
    BY <1>1
  <1> HIDE DEF held
  <1>3. state \in TxState
    BY <1>1, <1>2 DEF TxState, Steps
  <1>4. state.op = "cancel" /\ state.pc = "commit" /\ state.r = r /\ state.held = held
    BY <1>1 DEF TxState
  <1>5. /\ tx'[s] = state /\ lock'[<<"request", r>>] = s /\ lock'[<<"grant", r>>] = s
    BY <1>1, <1>3, Taken, NeedsOf
  <1>6. Cancelling(s)'
    <2>1. held = {g \in {r} : grant'[g].status \in {"issued", "claimed"}}
      BY <1>1 DEF held, rows
    <2>2. QED
      BY <1>1, <1>4, <1>5, <2>1 DEF Cancelling, RequestHeld, GrantHeld
  <1>7. QED
    BY <1>1, <1>3, <1>4, <1>6, NoteActs, ReadSafe DEF At, SameHandler

LEMMA CancelCommitSafe ==
    ASSUME ApprovalInv, NEW s \in Sessions, CancelCommit(s), NEW r, r = tx[s].r
    PROVE  StepSafe
  <1> DEFINE open == req[r].status \in Cancellable
             held == r \in tx[s].held
             status == IF grant[r].status = "claimed" THEN "failed" ELSE "revoked"
             row == [req[r] EXCEPT !.status = "cancelled", !.version = req[r].version + 1]
             ended == [grant[r] EXCEPT !.status = status, !.version = grant[r].version + 1]
  <1>1. /\ TypeOK /\ tx[s].op = "cancel" /\ tx[s].pc = "commit" /\ r \in Bound
        /\ r \in Requests /\ RequestHeld(s, r) /\ Rows(r)
        /\ grant[r].status # "none" => GrantHeld(s, r)
        /\ tx[s].held = {g \in {r} : grant[g].status \in {"issued", "claimed"}}
        /\ UNCHANGED <<decisions, authority, vault, env>>
    BY ApprovalAssumption DEF ApprovalInv, Session, Cancelling, CancelCommit, At
  <1>2. /\ held <=> grant[r].status \in {"issued", "claimed"}
        /\ held <=> req[r].status \in {"approved", "claimed"}
        /\ req[r].status = "pending" => grant[r].status = "none"
        /\ open <=> held \/ req[r].status = "pending"
    BY <1>1 DEF Rows, Agree, Cancellable
  <1>3. /\ req \in [Requests -> RequestRow] /\ grant \in [Requests -> GrantRow]
        /\ run \in [Bound -> RunStatus] /\ req[r] \in RequestRow /\ grant[r] \in GrantRow
        /\ req[r].version \in Nat /\ grant[r].version \in Nat
        /\ req[r].version + 1 \in Nat /\ grant[r].version + 1 \in Nat
        /\ "cancelled" \in RequestStatus /\ status \in GrantStatus
    BY <1>1, RowTypes, StatusNames DEF TypeOK
  <1>4. /\ run' = [run EXCEPT ![r] = "cancelled"]
        /\ req' = IF open THEN [req EXCEPT ![r] = row] ELSE req
        /\ grant' = IF held THEN [grant EXCEPT ![r] = ended] ELSE grant
    BY <1>1, <1>3 DEF CancelCommit
  <1>5. Acts(s) /\ (held => Removing(s, r)')
    <2>1. tx[s].held = {} => Acts(s)
      BY <1>1, EndActs DEF CancelCommit, End
    <2>2. tx[s].held # {} => Acts(s) /\ (r \in Discarded(s) => Removing(s, r)')
      BY <1>1, DiscardActs DEF CancelCommit
    <2>3. Discarded(s) = tx[s].held
      BY <1>1 DEF Discarded
    <2>4. QED
      BY <1>1, <2>1, <2>2, <2>3
  <1>6. /\ row.status = "cancelled" /\ row.version = req[r].version + 1
        /\ row.level = req[r].level /\ row \in RequestRow
    BY <1>3 DEF RequestRow
  <1>7. ended.status = status /\ ended.version = grant[r].version + 1 /\ ended \in GrantRow
    <2> HIDE DEF status
    <2>1. ended \in GrantRow
      BY <1>3 DEF GrantRow
    <2>2. ended.status = status /\ ended.version = grant[r].version + 1
      BY <1>3 DEF GrantRow
    <2>3. QED
      BY <2>1, <2>2
  <1>8. /\ req'[r] = IF open THEN row ELSE req[r]
        /\ grant'[r] = IF held THEN ended ELSE grant[r]
        /\ run'[r] = "cancelled"
    <2> HIDE DEF open, held, row, ended
    <2>1. QED
      BY <1>1, <1>3, <1>4
  <1> HIDE DEF row, ended
  <1>9. OnlyRow(r) /\ RowsTyped'
    <2> HIDE DEF open, held
    <2>1. run' \in [Bound -> RunStatus] /\ \A q \in Bound \ {r} : run'[q] = run[q]
      BY <1>3, <1>4 DEF RunStatus
    <2>2. req' \in [Requests -> RequestRow] /\ \A q \in Requests \ {r} : req'[q] = req[q]
      BY <1>3, <1>4, <1>6
    <2>3. grant' \in [Requests -> GrantRow] /\ \A q \in Requests \ {r} : grant'[q] = grant[q]
      BY <1>3, <1>4, <1>7
    <2>4. QED
      BY <1>1, <2>1, <2>2, <2>3 DEF TypeOK, RowsTyped, OnlyRow
  <1>10. status \in {"failed", "revoked"} /\ (grant[r].status = "claimed" => status = "failed")
    OBVIOUS
  <1>11. Rows(r)'
    <2>1. CASE held
      <3>1. /\ req'[r].status = "cancelled" /\ req'[r].level = req[r].level
            /\ grant'[r].status \in {"failed", "revoked"}
        BY <1>2, <1>6, <1>7, <1>8, <1>10, <2>1
      <3>2. Agree(r)'
        BY <1>8, <3>1 DEF Agree
      <3>3. QED
        BY <1>1, <3>1, <3>2 DEF Rows
    <2>2. CASE ~held
      <3>1. grant'[r] = grant[r] /\ grant[r].status \notin {"issued", "claimed"}
        BY <1>2, <1>8, <2>2
      <3>2. CASE open
        <4>1. /\ req'[r].status = "cancelled" /\ req'[r].level = req[r].level
              /\ grant[r].status = "none"
          BY <1>2, <1>6, <1>8, <2>2, <3>2
        <4>2. Agree(r)'
          BY <1>8, <3>1, <4>1 DEF Agree
        <4>3. QED
          BY <1>1, <3>1, <4>1, <4>2 DEF Rows
      <3>3. CASE ~open
        <4>1. req'[r] = req[r] /\ req[r].status \notin {"approved", "claimed"}
          BY <1>2, <1>8, <2>2, <3>3
        <4>2. Agree(r)'
          BY <1>1, <1>8, <3>1, <4>1 DEF Agree, Rows
        <4>3. QED
          BY <1>1, <3>1, <4>1, <4>2 DEF Rows
      <3>4. QED
        BY <3>2, <3>3
    <2>3. QED
      BY <2>1, <2>2
  <1>12. Counted(r) /\ Rests(r)
    <2>1. req'[r] # req[r] => /\ req'[r].version = req[r].version + 1
                              /\ req[r].status \in {"pending", "approved", "claimed"}
      BY <1>2, <1>6, <1>8
    <2>2. grant'[r] # grant[r] => /\ grant'[r].version = grant[r].version + 1
                                  /\ grant[r].status \in {"issued", "claimed"}
      BY <1>2, <1>7, <1>8
    <2>3. grant[r].status = "claimed" => grant'[r].status = "failed"
      BY <1>2, <1>7, <1>8, <1>10
    <2>4. grant[r].status = "issued" => grant'[r].status # "claimed"
      BY <1>2, <1>7, <1>8, <1>10
    <2>5. QED
      BY <2>1, <2>2, <2>3, <2>4 DEF Counted, Rests
  <1>13. grant[r].status # "none" => /\ lock[<<"grant", r>>] \in {Free, s}
                                     /\ grant'[r].status \notin {"none", "issued"}
    BY <1>1, <1>2, <1>7, <1>8, <1>10 DEF GrantHeld
  <1>14. grant[r].status = "none" => grant'[r] = grant[r]
    BY <1>2, <1>8
  <1>15. grant[r].status = "issued" => Removing(s, r)'
    BY <1>2, <1>5
  <1>16. QED
    BY <1>1, <1>5, <1>9, <1>11, <1>12, <1>13, <1>14, <1>15, OneRowSafe DEF At

-----------------------------------------------------------------------------
(* Beginning a handler, discarding credentials, the deadlock detector.     *)

LEMMA BeginSafe ==
    ASSUME ApprovalInv, NEW s \in Sessions, NEW state \in TxState, Begin(s, state),
           UNCHANGED <<rows, vault, env>>, tx'[s] = state => Session(s)'
    PROVE  StepSafe
  <1>1. TypeOK /\ tx[s].op = "none" /\ tx[s].pc = "idle"
    BY DEF ApprovalInv, Begin, Idle
  <1>2. /\ tx \in [Sessions -> TxState] /\ tx' = [tx EXCEPT ![s] = state]
        /\ lock' = lock /\ lock \in [Locks -> Sessions \cup {Free}]
        /\ OnLoop(state) => \A t \in Sessions : ~OnLoop(tx[t])
    BY <1>1 DEF Begin, TypeOK
  <1>3. tx'[s] = state /\ tx' \in [Sessions -> TxState]
    BY <1>2
  <1>4. \A t \in Sessions \ {s} : Kept(t)
    BY <1>2 DEF Kept
  <1>5. Acts(s)
    BY <1>2, <1>3, <1>4 DEF Acts
  <1>6. QED
    BY <1>1, <1>5, ReadSafe DEF At

LEMMA StartSafe ==
    ASSUME ApprovalInv, NEW s \in Sessions, Start(s)
    PROVE  StepSafe
  <1>1. clock \in Nat /\ Bound \subseteq Requests /\ Requester \in Users
    BY ApprovalAssumption DEF ApprovalInv, TypeOK, Users
  <1>2. ASSUME NEW r \in Requests, NEW u \in Users, NEW yes \in BOOLEAN, DecideStart(s, r, u, yes)
        PROVE  StepSafe
    <2> DEFINE state == [Idle EXCEPT !.op = "decide", !.pc = "cas", !.r = r, !.user = u,
                                     !.yes = yes, !.now = clock, !.ver = req[r].version]
    <2>1. req[r].version \in Nat
      BY RowTypes DEF ApprovalInv
    <2>2. state \in TxState
      BY <1>1, <2>1 DEF Idle, TxState, Ops, Steps
    <2>3. tx'[s] = state => Session(s)'
      BY DEF Idle, Session, Deciding, Closing, Disabling, Claiming, Completing, Cancelling,
             Working
    <2>4. QED
      BY <1>2, <2>2, <2>3, BeginSafe DEF DecideStart
  <1>3. ASSUME NEW r \in Requests, NEW yes \in BOOLEAN, CloseStart(s, r, yes)
        PROVE  StepSafe
    <2> DEFINE state == [Idle EXCEPT !.op = "close", !.pc = "cas", !.r = r, !.yes = yes,
                                     !.ver = req[r].version]
    <2>1. req[r].version \in Nat
      BY RowTypes DEF ApprovalInv
    <2>2. state \in TxState
      BY <1>1, <2>1 DEF Idle, TxState, Ops, Steps
    <2>3. tx'[s] = state => Session(s)'
      BY DEF Idle, Session, Deciding, Closing, Disabling, Claiming, Completing, Cancelling,
             Working
    <2>4. QED
      BY <1>3, <2>2, <2>3, BeginSafe DEF CloseStart
  <1>4. ASSUME NEW r \in Requests, NEW yes \in BOOLEAN, ClaimStart(s, r, yes)
        PROVE  StepSafe
    <2> DEFINE pc == IF r \in Bound THEN "admit" ELSE "read"
               state == [Idle EXCEPT !.op = "claim", !.r = r, !.yes = yes, !.now = clock,
                                     !.pc = pc]
    <2>1. pc \in {"admit", "read"}
      OBVIOUS
    <2>2. Begin(s, state) /\ UNCHANGED <<rows, vault, env>>
      BY <1>4 DEF ClaimStart
    <2> HIDE DEF pc
    <2>3. state \in TxState
      BY <1>1, <2>1 DEF Idle, TxState, Ops, Steps
    <2>4. tx'[s] = state => Session(s)'
      BY <2>1 DEF Idle, Session, Deciding, Closing, Disabling, Claiming, Completing,
                  Cancelling, Working
    <2>5. QED
      BY <2>2, <2>3, <2>4, BeginSafe
  <1>5. ASSUME NEW r \in Requests, CompleteStart(s, r)
        PROVE  StepSafe
    <2> DEFINE state == [Idle EXCEPT !.op = "complete", !.pc = "cas", !.r = r]
    <2>1. state \in TxState
      BY <1>1 DEF Idle, TxState, Ops, Steps
    <2>2. tx'[s] = state => Session(s)'
      BY <1>5 DEF Idle, Session, Deciding, Closing, Disabling, Claiming, Completing,
                  Cancelling, Working, CompleteStart
    <2>3. QED
      BY <1>5, <2>1, <2>2, BeginSafe DEF CompleteStart
  <1>6. ASSUME NEW r \in Requests, CancelStart(s, r)
        PROVE  StepSafe
    <2> DEFINE pc == IF run[r] = "queued" THEN "admit" ELSE "run"
               yes == run[r] = "queued"
               state == [Idle EXCEPT !.op = "cancel", !.r = r, !.yes = yes, !.pc = pc]
    <2>1. pc \in {"admit", "run"} /\ yes \in BOOLEAN
      OBVIOUS
    <2>2. Begin(s, state) /\ UNCHANGED <<rows, vault, env>> /\ r \in Bound
      BY <1>6 DEF CancelStart
    <2> HIDE DEF pc, yes
    <2>3. state \in TxState
      BY <1>1, <2>1 DEF Idle, TxState, Ops, Steps
    <2>4. tx'[s] = state => Session(s)'
      BY <2>1, <2>2 DEF Idle, Session, Deciding, Closing, Disabling, Claiming, Completing,
                        Cancelling, Working
    <2>5. QED
      BY <2>2, <2>3, <2>4, BeginSafe
  <1>7. ASSUME NEW a \in Authorities, DisableStart(s, a)
        PROVE  StepSafe
    <2> DEFINE state == [Idle EXCEPT !.op = "disable", !.pc = "cas", !.auth = a]
    <2>1. state \in TxState
      BY <1>1 DEF Idle, TxState, Ops, Steps
    <2>2. tx'[s] = state => Session(s)'
      BY DEF Idle, Session, Deciding, Closing, Disabling, Claiming, Completing, Cancelling,
             Working
    <2>3. QED
      BY <1>7, <2>1, <2>2, BeginSafe DEF DisableStart
  <1>8. QED
    BY <1>2, <1>3, <1>4, <1>5, <1>6, <1>7 DEF Start

LEMMA DiscardSafe ==
    ASSUME ApprovalInv, NEW s \in Sessions, Discard(s)
    PROVE  StepSafe
  <1>1. /\ TypeOK /\ tx[s].pc = "discard" /\ vault' = vault \ Discarded(s)
        /\ tx' = [tx EXCEPT ![s] = Idle] /\ UNCHANGED <<rows, env, lock>>
    BY DEF ApprovalInv, Discard
  <1>2. /\ tx \in [Sessions -> TxState] /\ tx'[s] = Idle /\ tx' \in [Sessions -> TxState]
        /\ lock \in [Locks -> Sessions \cup {Free}]
    BY <1>1, IdleTyped DEF TypeOK
  <1>3. Acts(s)
    <2>1. \A t \in Sessions \ {s} : Kept(t)
      BY <1>1, <1>2 DEF Kept
    <2>2. ~OnLoop(tx'[s])
      BY <1>2 DEF OnLoop, Idle
    <2>3. QED
      BY <1>1, <1>2, <2>1, <2>2, IdleSession DEF Acts
  <1>4. Writes(s) /\ RowsSafe
    BY <1>1, ReadRows
  <1>5. EnvTyped' /\ VaultTyped'
    BY <1>1, VaultShrinks DEF TypeOK, EnvTyped, VaultTyped, env
  <1>6. ASSUME NEW q \in vault' PROVE Owned(q)'
    <2>1. /\ q \in Requests /\ Owned(q) /\ ~Removing(s, q) /\ ~Issuing(s, q)
          /\ grant'[q] = grant[q]
      BY <1>1 DEF ApprovalInv, TypeOK, Removing, Issuing, At, rows
    <2>2. QED
      BY <1>3, <1>4, <2>1, OwnedKept
  <1>7. QED
    BY <1>3, <1>4, <1>5, <1>6, StepKeeps

\* The detector aborts sessions that wait: none of them has a commit left.
LEMMA DeadlockAbortSafe ==
    ASSUME ApprovalInv, NEW s \in Sessions, DeadlockAbort(s)
    PROVE  StepSafe
  <1>1. Needs(s) # {}
    BY DEF DeadlockAbort, Deadlocked, Blockers
  <1>2. tx[s].pc # "discard" /\ ~At(s, "decide", "commit")
    BY <1>1, NeedsOf DEF At
  <1>3. Acts(s) /\ UNCHANGED <<rows, vault, env>>
    BY EndActs DEF DeadlockAbort, ApprovalInv
  <1>4. QED
    BY <1>2, <1>3, ReadSafe

-----------------------------------------------------------------------------
(* Steps that are no session's.                                            *)

LEMMA QuietSafe ==
    ASSUME ApprovalInv, UNCHANGED <<rows, vault, lock, tx>>, EnvTyped'
    PROVE  StepSafe
  <1>1. TypeOK'
    BY DEF ApprovalInv, TypeOK, EnvTyped, rows
  <1>2. ASSUME NEW r \in Requests PROVE Rows(r)' /\ Counted(r) /\ Rests(r)
    BY SameRow DEF ApprovalInv, rows
  <1>3. ASSUME NEW s \in Sessions PROVE Session(s)'
    <2>1. Kept(s) /\ Relies(s)
      BY DEF Kept, Relies, rows
    <2>2. QED
      BY <2>1, SessionKept DEF ApprovalInv, TypeOK
  <1>4. OneOnLoop'
    BY DEF ApprovalInv, OneOnLoop
  <1>5. ASSUME NEW r \in vault' PROVE Owned(r)'
    <2>1. Owned(r)
      BY DEF ApprovalInv
    <2>2. QED
      BY <2>1 DEF Owned, Issuing, Removing, At, Completes, Approved, Discarded, rows
  <1>6. QED
    BY <1>1, <1>2, <1>3, <1>4, <1>5 DEF ApprovalInv, StepSafe

LEMMA GateSafe ==
    ASSUME ApprovalInv, NEW r \in Requests, Gate(r)
    PROVE  StepSafe
  <1> DEFINE level == RiskLevel(Action[r], admin)
             row == [status |-> "pending", version |-> 1, level |-> level,
                     expires |-> clock + RequestTTL]
  <1>1. /\ TypeOK /\ req[r].status = "none" /\ level \in {"L2", "L3"} /\ Rows(r)
        /\ req' = [req EXCEPT ![r] = row]
        /\ UNCHANGED <<decisions, grant, authority, run, vault, env, lock, tx>>
        /\ req \in [Requests -> RequestRow] /\ tx \in [Sessions -> TxState]
    BY DEF ApprovalInv, Gate, TypeOK
  <1>2. row \in RequestRow
    <2>1. clock + RequestTTL \in Nat
      BY <1>1, ApprovalAssumption DEF TypeOK
    <2> HIDE DEF level
    <2>2. QED
      BY <1>1, <2>1 DEF RequestRow, RequestStatus
  <1>3. /\ req'[r].status = "pending" /\ req'[r].version = 1
        /\ \A q \in Requests \ {r} : req'[q] = req[q]
        /\ req' \in [Requests -> RequestRow]
    BY <1>1, <1>2
  <1>4. /\ req[r].version = 0 /\ grant[r].status = "none" /\ decisions[r] = {}
        /\ r \in Bound => run[r] # "queued"
    BY <1>1 DEF Rows, Agree
  <1>5. TypeOK'
    BY <1>1, <1>3 DEF TypeOK, env
  <1>6. ASSUME NEW q \in Requests PROVE Rows(q)' /\ Counted(q) /\ Rests(q)
    <2>1. CASE q # r
      BY <1>1, <1>3, <2>1, SameRow DEF ApprovalInv
    <2>2. CASE q = r
      <3>1. Agree(q)'
        BY <1>1, <1>3, <1>4, <2>2 DEF Agree
      <3>2. Rows(q)'
        BY <1>1, <1>3, <1>4, <2>2, <3>1 DEF Rows
      <3>3. Counted(q) /\ Rests(q)
        BY <1>1, <1>3, <1>4, <2>2 DEF Counted, Rests
      <3>4. QED
        BY <3>2, <3>3
    <2>3. QED
      BY <2>1, <2>2
  <1>7. ASSUME NEW s \in Sessions PROVE Session(s)'
    <2>1. Kept(s)
      BY <1>1 DEF Kept
    <2>2. Relies(s)
      BY <1>1, <1>3, <1>4 DEF Relies
    <2>3. QED
      BY <1>1, <2>1, <2>2, SessionKept DEF ApprovalInv
  <1>8. OneOnLoop'
    BY <1>1 DEF ApprovalInv, OneOnLoop
  <1>9. ASSUME NEW q \in vault' PROVE Owned(q)'
    <2>1. Owned(q)
      BY <1>1 DEF ApprovalInv
    <2>2. CASE grant[q].status = "issued"
      BY <1>1, <2>2 DEF Owned
    <2>3. ASSUME NEW s \in Sessions, Issuing(s, q) PROVE Issuing(s, q)'
      <3>1. q \in Requests /\ req[q].status = "pending"
        BY <2>3 DEF Issuing, At, ApprovalInv, Session, Deciding
      <3>2. req'[q] = req[q]
        BY <1>1, <1>3, <3>1
      <3>3. QED
        BY <1>1, <2>3, <3>2 DEF Issuing, At, Completes, Approved
    <2>4. ASSUME NEW s \in Sessions, Removing(s, q) PROVE Removing(s, q)'
      BY <1>1, <2>4 DEF Removing, Discarded
    <2>5. QED
      BY <2>1, <2>2, <2>3, <2>4 DEF Owned
  <1>10. QED
    BY <1>5, <1>6, <1>7, <1>8, <1>9 DEF ApprovalInv, StepSafe

LEMMA RestartSafe ==
    ASSUME ApprovalInv, Restart
    PROVE  StepSafe
  <1>1. /\ TypeOK /\ restarts' = restarts + 1 /\ restarts < MaxRestarts /\ vault' = {}
        /\ tx' = [s \in Sessions |-> Idle] /\ lock' = [l \in Locks |-> Free]
        /\ UNCHANGED <<rows, admin, clock>>
    BY DEF ApprovalInv, Restart
  <1>2. TypeOK'
    <2>1. Cardinality(vault') = 0
      BY <1>1, FS_EmptySet
    <2>2. vault' \subseteq Requests /\ Cardinality(vault') <= VaultCapacity
      BY <1>1, <2>1, ApprovalAssumption
    <2>3. restarts' \in 0..MaxRestarts
      BY <1>1, ApprovalAssumption DEF TypeOK
    <2>4. tx' \in [Sessions -> TxState] /\ lock' \in [Locks -> Sessions \cup {Free}]
      BY <1>1, IdleTyped
    <2>5. QED
      BY <1>1, <2>2, <2>3, <2>4 DEF TypeOK, rows
  <1>3. ASSUME NEW r \in Requests PROVE Rows(r)' /\ Counted(r) /\ Rests(r)
    BY <1>1, SameRow DEF ApprovalInv, rows
  <1>4. ASSUME NEW s \in Sessions PROVE Session(s)' /\ ~OnLoop(tx'[s])
    <2>1. tx'[s] = Idle
      BY <1>1
    <2>2. Session(s)'
      BY <2>1, IdleSession
    <2>3. ~OnLoop(tx'[s])
      BY <2>1 DEF OnLoop, Idle
    <2>4. QED
      BY <2>2, <2>3
  <1>5. OneOnLoop'
    BY <1>4 DEF OneOnLoop
  <1>6. QED
    BY <1>1, <1>2, <1>3, <1>4, <1>5 DEF ApprovalInv, StepSafe

-----------------------------------------------------------------------------
(* The theorems.                                                           *)

LEMMA InitSafe == Init => ApprovalInv
  <1> SUFFICES ASSUME Init PROVE ApprovalInv
    OBVIOUS
  <1>1. TypeOK
    <2>1. /\ req \in [Requests -> RequestRow] /\ grant \in [Requests -> GrantRow]
      BY DEF Init, RequestRow, RequestStatus, GrantRow, GrantStatus
    <2>2. vault \subseteq Requests /\ Cardinality(vault) <= VaultCapacity
      BY FS_EmptySet, ApprovalAssumption DEF Init
    <2>3. tx \in [Sessions -> TxState] /\ lock \in [Locks -> Sessions \cup {Free}]
      BY IdleTyped DEF Init
    <2>4. admin \in BOOLEAN /\ clock \in 0..MaxClock /\ restarts \in 0..MaxRestarts
      BY ApprovalAssumption DEF Init
    <2>5. QED
      BY <2>1, <2>2, <2>3, <2>4 DEF Init, TypeOK, RunStatus
  <1>2. ASSUME NEW r \in Requests PROVE Rows(r)
    BY DEF Init, Rows, Agree
  <1>3. ASSUME NEW s \in Sessions PROVE Session(s) /\ ~OnLoop(tx[s])
    BY DEF Init, OnLoop, Session, Deciding, Closing, Disabling, Claiming, Completing,
           Cancelling, Working, Idle
  <1>4. QED
    BY <1>1, <1>2, <1>3 DEF ApprovalInv, OneOnLoop, Init

LEMMA StepsSafe ==
    ASSUME ApprovalInv, NEW s \in Sessions, Step(s)
    PROVE  StepSafe
  <1>1. CASE \/ DecideCas(s) \/ DecideExpire(s) \/ DecideAuthorize(s) \/ DecideAppend(s)
             \/ DecideCommit(s) \/ DecideCommitFails(s)
    BY <1>1, DecideCasSafe, DecideExpireSafe, DecideAuthorizeSafe, DecideAppendSafe,
       DecideCommitSafe, DecideCommitFailsSafe
  <1>2. CASE CloseCas(s) \/ CloseAppend(s) \/ CloseGrants(s) \/ CloseCommit(s)
    BY <1>2, CloseCasSafe, CloseAppendSafe, CloseGrantsSafe, CloseCommitSafe
  <1>3. CASE \/ DisableCas(s) \/ DisableSelect(s) \/ DisableLock(s) \/ DisableRead(s)
             \/ DisableFlush(s) \/ DisableAppend(s) \/ DisableCommit(s)
    BY <1>3, DisableCasSafe, DisableSelectSafe, DisableLockSafe, DisableReadSafe,
       DisableFlushSafe, DisableAppendSafe, DisableCommitSafe
  <1>4. CASE \/ ClaimAdmit(s) \/ ClaimRead(s) \/ ClaimVerify(s) \/ ClaimCas(s)
             \/ ClaimFlush(s) \/ ClaimAppend(s) \/ ClaimRun(s) \/ ClaimCommit(s)
    BY <1>4, ClaimReadSafe, ClaimStepsSafe, ClaimCommitSafe
  <1>5. CASE \/ CompleteCas(s) \/ CompleteRead(s) \/ CompleteFlush(s) \/ CompleteAppend(s)
             \/ CompleteCommit(s)
    BY <1>5, CompleteStepsSafe, CompleteCommitSafe
  <1>6. CASE \/ CancelPartition(s) \/ CancelRun(s) \/ CancelRequest(s) \/ CancelAppend(s)
             \/ CancelGrant(s) \/ CancelCommit(s)
    BY <1>6, CancelStepsSafe, CancelGrantSafe, CancelCommitSafe
  <1>7. CASE Discard(s) \/ DeadlockAbort(s)
    BY <1>7, DiscardSafe, DeadlockAbortSafe
  <1>8. QED
    BY <1>1, <1>2, <1>3, <1>4, <1>5, <1>6, <1>7 DEF Step

LEMMA NextSafe == ApprovalInv /\ [Next]_vars => StepSafe
  <1> SUFFICES ASSUME ApprovalInv, [Next]_vars PROVE StepSafe
    OBVIOUS
  <1>1. CASE \E r \in Requests : Gate(r)
    BY <1>1, GateSafe
  <1>2. CASE \E s \in Sessions : Start(s) \/ Step(s)
    BY <1>2, StartSafe, StepsSafe
  <1>3. CASE Restart
    BY <1>3, RestartSafe
  <1>4. CASE Tick
    <2>1. EnvTyped'
      BY <1>4, ApprovalAssumption DEF Tick, EnvTyped, ApprovalInv, TypeOK
    <2>2. QED
      BY <1>4, <2>1, QuietSafe DEF Tick
  <1>5. CASE ChangeRole
    <2>1. EnvTyped'
      BY <1>5 DEF ChangeRole, EnvTyped, ApprovalInv, TypeOK
    <2>2. QED
      BY <1>5, <2>1, QuietSafe DEF ChangeRole
  <1>6. CASE UNCHANGED vars
    <2>1. EnvTyped'
      BY <1>6 DEF vars, env, EnvTyped, ApprovalInv, TypeOK
    <2>2. QED
      BY <1>6, <2>1, QuietSafe DEF vars
  <1>7. QED
    BY <1>1, <1>2, <1>3, <1>4, <1>5, <1>6 DEF Next

\* The handlers keep the rows, their knowledge of them and the vault consistent
\* through every interleaving of their statements (approval.py, whole file).
THEOREM ApprovalInvariant == Spec => []ApprovalInv
  <1>1. ApprovalInv /\ [Next]_vars => ApprovalInv'
    BY NextSafe DEF StepSafe
  <1>2. QED
    BY InitSafe, <1>1, PTL DEF Spec

\* Rows, sessions and vault keep their types, and the vault its capacity
\* (approval.py 88).
THEOREM ApprovalTypeCorrect == Spec => []TypeOK
  <1>1. ApprovalInv => TypeOK
    BY DEF ApprovalInv
  <1>2. QED
    BY ApprovalInvariant, <1>1, PTL

\* Request, grant, run and authorities agree whenever they are committed
\* (approval.py 293, 1100).
THEOREM RowsAgreeAlways == Spec => []RowsAgree
  <1>1. ApprovalInv => RowsAgree
    BY DEF ApprovalInv, Rows, RowsAgree
  <1>2. QED
    BY ApprovalInvariant, <1>1, PTL

\* With no handler at work the vault holds credentials of issued grants only
\* (approval.py 88).
THEOREM VaultHoldsNoOther == Spec => []VaultHoldsIssuedOnly
  <1>1. ApprovalInv => VaultHoldsIssuedOnly
    <2> SUFFICES ASSUME ApprovalInv, \A s \in Sessions : tx[s] = Idle, NEW r \in vault
                 PROVE  grant[r].status = "issued"
      BY DEF VaultHoldsIssuedOnly
    <2>1. \A s \in Sessions : ~Issuing(s, r) /\ ~Removing(s, r)
      BY DEF Issuing, Removing, At, Idle
    <2>2. QED
      BY <2>1 DEF ApprovalInv, Owned
  <1>2. QED
    BY ApprovalInvariant, <1>1, PTL

\* Every commit adds one to the version of what it writes, whatever was read
\* before the lock was there (approval.py 293, 1079).
THEOREM UpdatesNeverLost == Spec => NoLostUpdate
  <1>1. ApprovalInv /\ [Next]_vars => [\A r \in Requests : Counted(r)]_vars
    BY NextSafe DEF StepSafe
  <1>2. QED
    BY ApprovalInvariant, <1>1, PTL DEF Spec, NoLostUpdate

\* A claim that commits rests on approvals active at that moment, none of them
\* the requester's (approval.py 637, 1027).
THEOREM ClaimsRestOnApprovals == Spec => ClaimRestsOnActiveApprovals
  <1>1. ApprovalInv /\ [Next]_vars => [\A r \in Requests : Rests(r)]_vars
    BY NextSafe DEF StepSafe
  <1>2. QED
    BY ApprovalInvariant, <1>1, PTL DEF Spec, ClaimRestsOnActiveApprovals
=============================================================================
