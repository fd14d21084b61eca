----------------------------- MODULE Admission -----------------------------
(***************************************************************************)
(* Admission of production runs to the Control API: the persistent token   *)
(* buckets of actors and organizations, the idempotency records, and the   *)
(* capacity of the queue, used by requests that run in parallel threads.   *)
(*                                                                         *)
(* A request is received (its route reads the clock), a submission then    *)
(* looks its key up without a lock, and the rest of its transaction is one *)
(* step: consume_rate_limit locks the bucket rows first and they stay      *)
(* locked until the transaction ends, so that of the requests that touch a *)
(* common bucket each one starts after the one before has ended.  What it  *)
(* waits for is the distance between the clock it read and the clock now.  *)
(* A submission and a cancellation share no bucket, only the partition,    *)
(* which both lock before they count, and a run the cancellation locks and *)
(* compares again.                                                         *)
(*                                                                         *)
(* Abstractions.  One tick of the clock is one microsecond of which        *)
(* MicroToken make a second; the code has 1,000,000.  A run is made once   *)
(* for a key of an actor, or twice if nothing prevents it.                 *)
(***************************************************************************)
EXTENDS Integers, FiniteSets, FiniteSetsExt

CONSTANTS
    Actors, Org,     \* who holds buckets: users, and their organization
    Keys, Bodies,    \* idempotency keys, request bodies
    Level,           \* risk level of a body
    Sessions,        \* requests the API works on at the same time
    Rate, Burst,     \* policy of a route class and a scope
    MicroToken,      \* what one request costs, and the ticks of a second
    Capacity,        \* queue_organization_capacity
    MaxClock,        \* bound: how far the clock runs
    Traffic,         \* bound: the actors, route classes and bodies used together
    None             \* null value

VARIABLES
    clock,
    bucket,     \* rows of w12_rate_limit_buckets, None until first used
    runs,       \* rows of w12_production_runs
    idem,       \* rows of w12_idempotency_records, by actor and key
    ready,      \* ready_count of the organization's partition
    call,       \* what each session works on, and its answer
    served,     \* history: requests that got past a bucket's limit
    late,       \* history: buckets that met a request older than their last refill
    traffic     \* the actors, route classes and bodies of this behaviour

vars == <<clock, bucket, runs, idem, ready, call, served, late, traffic>>

Classes == {"submit", "read", "mutate"}
Holders == Actors \cup {Org}
Scope(h) == IF h = Org THEN "organization" ELSE "actor"

RunStatus == {"waiting_approval", "queued", "cancelled", "finished"}
RunRow == [id : Nat, actor : Actors, key : Keys, body : Bodies,
           status : RunStatus, version : Nat]
BucketRow == [tokens : Nat, last : Nat]
IdempotencyRecord == [body : Bodies, run : Nat]

\* An answer is kept when it is a run or an unhandled error.
Calls == [class : Classes, pc : {"idle", "lookup", "transact"},
          actor : Actors \cup {None}, key : Keys \cup {None}, body : Bodies \cup {None},
          now : Nat, run : Nat, version : Nat, answer : {"none", "run", "error"}]

Idle == [class |-> "submit", pc |-> "idle", actor |-> None, key |-> None, body |-> None,
         now |-> 0, run |-> 0, version |-> 0, answer |-> "none"]

TypeOK ==
    /\ clock \in 0..MaxClock /\ ready \in 0..Capacity /\ runs \subseteq RunRow
    /\ bucket \in [Classes -> [Holders -> BucketRow \cup {None}]]
    /\ idem \in [Actors -> [Keys -> IdempotencyRecord \cup {None}]]
    /\ call \in [Sessions -> Calls]
    /\ served \in [Classes -> [Holders -> Nat]]
    /\ late \in [Classes -> [Holders -> BOOLEAN]]
    /\ traffic \in Traffic

Init ==
    /\ clock = 0 /\ ready = 0 /\ runs = {}
    /\ bucket = [c \in Classes |-> [h \in Holders |-> None]]
    /\ idem = [a \in Actors |-> [k \in Keys |-> None]]
    /\ call = [s \in Sessions |-> Idle] /\ traffic \in Traffic
    /\ served = [c \in Classes |-> [h \in Holders |-> 0]]
    /\ late = [c \in Classes |-> [h \in Holders |-> FALSE]]

-----------------------------------------------------------------------------
(* Token buckets.                                                          *)

\* _ensure_bucket and _refill: the tokens a holder has when a request that read
\* the clock at now has locked the row, which is created full.
Refilled(c, h, now) ==
    LET full == Burst[c][Scope(h)] * MicroToken
        row == bucket[c][h] IN
    IF row = None THEN full
    ELSE Min({full, row.tokens + Max({0, now - row.last}) * Rate[c][Scope(h)]})

\* The buckets a request is charged to.
PayersNoOrg(a) == {a}
Payers(a) == {a, Org}

Affords(c, a, now) == \A h \in Payers(a) : Refilled(c, h, now) >= MicroToken

\* consume_rate_limit writes both rows, whether it charges them or refuses.
Settle(c, a, now, cost) ==
    /\ bucket' = [bucket EXCEPT ![c] =
            [h \in Holders |-> IF h \in Payers(a)
                               THEN [tokens |-> Refilled(c, h, now) - cost, last |-> now]
                               ELSE @[h]]]
    /\ late' = [late EXCEPT ![c] =
            [h \in Holders |-> \/ @[h]
                               \/ /\ h \in Payers(a) /\ bucket[c][h] # None
                                  /\ now < bucket[c][h].last]]
    /\ served' = IF cost = 0 THEN served
                 ELSE [served EXCEPT ![c][a] = @ + 1, ![c][Org] = @ + 1]

Charge(s) == Settle(call[s].class, call[s].actor, call[s].now, MicroToken)
Refuse(s) == Settle(call[s].class, call[s].actor, call[s].now, 0)
RollBack == UNCHANGED <<bucket, served, late>>

-----------------------------------------------------------------------------
(* Requests.                                                               *)

Answer(s, answer, run) ==
    call' = [call EXCEPT ![s].pc = "idle", ![s].now = 0, ![s].answer = answer,
                         ![s].run = run]
End(s) == call' = [call EXCEPT ![s] = Idle]

Receive(s, class, pc, a, k, b, run, version) ==
    /\ call[s].pc = "idle" /\ class \in traffic.classes
    /\ call' = [call EXCEPT ![s] =
            [class |-> class, pc |-> pc, actor |-> a, key |-> k, body |-> b,
             now |-> clock, run |-> run, version |-> version, answer |-> "none"]]
    /\ UNCHANGED <<clock, bucket, runs, idem, ready, served, late, traffic>>

\* post_production_run reads the clock before anything else.
Submit(s) ==
    \E a \in traffic.actors, k \in Keys, b \in traffic.bodies : Receive(s, "submit", "lookup", a, k, b, 0, 0)

ReadRun(s) == \E a \in traffic.actors : Receive(s, "read", "transact", a, None, None, 0, 0)

\* The ETag is of a run as it is, or there is no such run; it may go stale.
CancelRun(s) ==
    \E a \in traffic.actors :
        \/ runs = {} /\ Receive(s, "mutate", "transact", a, None, None, 0, 1)
        \/ \E r \in runs : Receive(s, "mutate", "transact", a, None, None, r.id, r.version)

\* _existing_idempotent_run, without a lock.
Known(s) == idem[call[s].actor][call[s].key]
SameBody(s) == Known(s).body = call[s].body

Lookup(s) ==
    /\ call[s].pc = "lookup"
    /\ \/ /\ Known(s) = None
          /\ call' = [call EXCEPT ![s].pc = "transact"]
       \/ /\ Known(s) # None /\ SameBody(s)
          /\ Answer(s, "run", Known(s).run)
       \/ /\ Known(s) # None /\ ~SameBody(s)
          /\ End(s)      \* 409
    /\ UNCHANGED <<clock, bucket, runs, idem, ready, served, late, traffic>>

Transacts(s, class) == call[s].pc = "transact" /\ call[s].class = class
Affordable(s) == Affords(call[s].class, call[s].actor, call[s].now)

\* An L4 action is refused before anything is charged.
Denied(s) == Level[call[s].body] = "L4"
Deny(s) ==
    /\ Transacts(s, "submit") /\ Denied(s)
    /\ End(s) /\ RollBack
    /\ UNCHANGED <<clock, runs, idem, ready, traffic>>

\* A refused request commits the refilled rows.
ExceedsRate(s) ==
    /\ call[s].pc = "transact" /\ ~Affordable(s)
    /\ call[s].class = "submit" => ~Denied(s)
    /\ End(s) /\ Refuse(s)
    /\ UNCHANGED <<clock, runs, idem, ready, traffic>>

Queues(s) == Level[call[s].body] \in {"L0", "L1"}
Full(s) == Queues(s) /\ ready >= Capacity
Submits(s) == Transacts(s, "submit") /\ ~Denied(s) /\ Affordable(s)

\* Backpressure commits the charge.
TurnAway(s) ==
    /\ Submits(s) /\ Full(s)
    /\ End(s) /\ Charge(s)
    /\ UNCHANGED <<clock, runs, idem, ready, traffic>>

\* uq_w12_idempotency_actor_key.
KeyFreeAlways(s) == TRUE
KeyFree(s) == Known(s) = None

Admit(s) ==
    LET id == Cardinality(runs) + 1 IN
    /\ Submits(s) /\ ~Full(s) /\ KeyFree(s)
    /\ runs' = runs \cup {[id |-> id, actor |-> call[s].actor, key |-> call[s].key,
                           body |-> call[s].body, version |-> 1,
                           status |-> IF Queues(s) THEN "queued" ELSE "waiting_approval"]}
    /\ idem' = [idem EXCEPT ![call[s].actor][call[s].key] =
                    [body |-> call[s].body, run |-> id]]
    /\ ready' = IF Queues(s) THEN ready + 1 ELSE ready
    /\ Answer(s, "run", id) /\ Charge(s) /\ UNCHANGED <<clock, traffic>>

\* The record of another request with the same key: the flush that inserts this
\* one's raises outside the try that would have looked for the winner.
Collide(s) ==
    /\ Submits(s) /\ ~Full(s) /\ ~KeyFree(s)
    /\ Answer(s, "error", 0) /\ RollBack
    /\ UNCHANGED <<clock, runs, idem, ready, traffic>>

\* get_production_run commits its charge whether or not there is a run.
Read(s) ==
    /\ Transacts(s, "read") /\ Affordable(s)
    /\ End(s) /\ Charge(s)
    /\ UNCHANGED <<clock, runs, idem, ready, traffic>>

\* cancel_production_run takes its charge back when it refuses.
RefuseCancel(s) ==
    /\ Transacts(s, "mutate") /\ Affordable(s)
    /\ \/ call[s].run = 0
       \/ \E r \in runs : /\ r.id = call[s].run
                          /\ \/ r.version # call[s].version
                             \/ r.status \in {"cancelled", "finished"}
    /\ End(s)
    /\ RollBack
    /\ UNCHANGED <<clock, runs, idem, ready, traffic>>

\* What a cancellation gives back to the queue.
FreedBy(r) == IF r.status = "queued" THEN 1 ELSE 0

Cancel(s) ==
    /\ Transacts(s, "mutate") /\ Affordable(s)
    /\ \E r \in runs :
          /\ r.id = call[s].run /\ r.version = call[s].version
          /\ r.status \in {"waiting_approval", "queued"}
          /\ runs' = (runs \ {r}) \cup {[r EXCEPT !.status = "cancelled", !.version = @ + 1]}
          /\ ready' = Max({0, ready - FreedBy(r)})
    /\ End(s) /\ Charge(s) /\ UNCHANGED <<clock, idem, traffic>>

\* The Workflow Worker runs a queued run to its end (module Dispatch).
Finish ==
    /\ \E r \in runs :
          /\ r.status = "queued"
          /\ runs' = (runs \ {r}) \cup {[r EXCEPT !.status = "finished", !.version = @ + 1]}
          /\ ready' = Max({0, ready - 1})
    /\ UNCHANGED <<clock, bucket, idem, call, served, late, traffic>>

Tick ==
    /\ clock < MaxClock /\ clock' = clock + 1
    /\ UNCHANGED <<bucket, runs, idem, ready, call, served, late, traffic>>

Next ==
    \/ Tick \/ Finish
    \/ \E s \in Sessions :
          \/ Submit(s) \/ ReadRun(s) \/ CancelRun(s) \/ Lookup(s)
          \/ Deny(s) \/ ExceedsRate(s) \/ TurnAway(s) \/ Admit(s) \/ Collide(s)
          \/ Read(s) \/ RefuseCancel(s) \/ Cancel(s)

Spec == Init /\ [][Next]_vars

-----------------------------------------------------------------------------
(* Properties.                                                             *)

\* However submissions of one key overlap, an actor's key stands for one run,
\* its record points to that run, and a submission is only ever answered with a run
\* its own actor made with the same key and the same body, whether it admitted the
\* run or found it.  What is refused or rolled back leaves no place taken.
OneRunPerKey ==
    /\ \A r, q \in runs : r.actor = q.actor /\ r.key = q.key => r = q
    /\ \A r \in runs : idem[r.actor][r.key] = [body |-> r.body, run |-> r.id]
    /\ \A s \in Sessions : call[s].answer = "run" =>
          \E r \in runs : /\ r.id = call[s].run /\ r.actor = call[s].actor
                          /\ r.key = call[s].key /\ r.body = call[s].body
    /\ ready = Cardinality({r \in runs : r.status = "queued"})

\* As long as the requests of a bucket come in the order in which they read the
\* clock, it lets through no more than its burst and what its rate has added since.
\* Out of order it may let through more, because last_refill_at moves back.
RateHeldInOrder ==
    \A c \in Classes, h \in Holders :
        ~late[c][h] =>
            served[c][h] * MicroToken
                <= Burst[c][Scope(h)] * MicroToken + Rate[c][Scope(h)] * clock

\* A submission whose key and body are those of an admitted run is answered with
\* it: "same body returns one run, mismatch is 409" (docs/threat-model.md).
SameBodyReturnsRun ==
    \A s \in Sessions : call[s].answer = "error" => ~SameBody(s)
=============================================================================
