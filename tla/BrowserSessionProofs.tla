------------------------ MODULE BrowserSessionProofs ------------------------
(***************************************************************************)
(* What a session of the Browser Worker promises, for any number of        *)
(* requests and any limits: who holds the lock, whose the binding is, that *)
(* references are fresh, and how many observations are made.               *)
(***************************************************************************)
EXTENDS BrowserSession, FiniteSetTheorems, TLAPS

Holding == {"admitted", "acting", "responding", "observing"}
Ending == {"closing", "releasing"}
Pcs == {"idle", "starting", "waiting", "armed"} \cup Holding \cup Ending
AllKinds == Kinds \cup {"open", "observe", "close", None}

Opens(t) == task[t].kind = "open"

-----------------------------------------------------------------------------
(* The inductive invariant.                                                *)

\* The types, with a count of observations that Counts bounds.
Counted == [closed : BOOLEAN, binding : Requests \cup {None}, refs : BOOLEAN,
            actions : 0..MaxActions, count : Nat]

Typed ==
    /\ mode \in Modes /\ session \in Counted
    /\ browser \in {"none", "open", "closed"} /\ registered \in BOOLEAN
    /\ lock \in Tasks \cup {None} /\ task \in [Tasks -> Task]
    /\ touched \in BOOLEAN /\ lost \in BOOLEAN
    /\ delayed \subseteq Requests
    /\ sent \subseteq [click : Requests, header : Requests \cup {None}]

\* Who holds the lock is in a handler behind it, and only who holds it is; the
\* task that starts the session closes what it opened without it.
LockHeld ==
    /\ \A t \in Tasks : lock = t => task[t].pc \in Holding \cup Ending
    /\ \A t \in Tasks : task[t].pc \in Holding => lock = t
    /\ \A t \in Tasks : task[t].pc \in Ending => lock = t \/ Opens(t)

\* While a session is started nothing else knows of it.
Alone(t) ==
    /\ task[t].pc \in {"starting"} \cup Ending
    /\ ~registered /\ lock = None /\ browser # "none"
    /\ ~session.refs /\ ~touched
    /\ \A u \in Tasks : u # t => task[u].pc = "idle"

OneStarts ==
    /\ \A t \in Tasks : At(t, "starting") => Opens(t) /\ ~session.closed
    /\ \A t \in Tasks : Opens(t) => Alone(t)
    /\ browser = "none" =>
          /\ \A t \in Tasks : At(t, "idle")
          /\ ~registered /\ ~session.closed /\ ~session.refs /\ ~touched

\* The expiry task does nothing but close the session.
ExpiryCloses ==
    /\ task[Expiry].pc \in {"idle", "armed", "waiting"} \cup Ending
    /\ ~Opens(Expiry)

\* The binding is that of the lock's holder, whose click is in progress.
Bound ==
    session.binding # None =>
        /\ lock = session.binding
        /\ task[session.binding].pc \in {"acting", "responding"}

\* In a session whose observations have a generation: who acts named the latest;
\* references built after the closing name what nobody who is left knows of; and
\* references older than what reached the page are with a task that drops them.
Fresh ==
    mode \in Graded =>
        /\ \A t \in Requests : task[t].pc \in {"acting", "responding"} => task[t].current
        /\ session.closed /\ session.refs =>
              /\ ~touched
              /\ \A t \in Requests :
                    \/ task[t].pc \in {"admitted", "acting", "responding"}
                    \/ task[t].pc = "waiting" /\ task[t].kind # "close"
                    => ~task[t].current
        /\ session.refs /\ touched =>
              lock # None /\ task[lock].pc \in {"responding", "observing", "closing"}

\* The requests that may still observe: one observation each once the session is
\* closed.  Before, the observation that exhausts the limit closes it.
Pending ==
    {t \in Requests : \/ task[t].pc \in Holding
                      \/ task[t].pc = "waiting" /\ task[t].kind # "close"}

Counts ==
    IF session.closed
    THEN session.count + Cardinality(Pending) <= MaxObservations + 1 + Cardinality(Requests)
    ELSE \/ session.count <= MaxObservations
         \/ session.count = MaxObservations + 1 /\ \E t \in Tasks : At(t, "closing")

SessionInv ==
    Typed /\ LockHeld /\ OneStarts /\ ExpiryCloses /\ Bound /\ Fresh /\ Counts

-----------------------------------------------------------------------------
(* Lemmas about the operators of the model.                                *)

LEMMA Moves ==
    ASSUME NEW s \in Task, NEW pc \in Pcs
    PROVE  /\ [s EXCEPT !.pc = pc] \in Task
           /\ [s EXCEPT !.pc = pc].pc = pc
           /\ [s EXCEPT !.pc = pc].kind = s.kind
           /\ [s EXCEPT !.pc = pc].current = s.current
BY DEF Task, Pcs, Holding, Ending

LEMMA Catches ==
    ASSUME NEW s \in Task, NEW b \in BOOLEAN
    PROVE  /\ [s EXCEPT !.caught = b] \in Task
           /\ [s EXCEPT !.caught = b].pc = s.pc
           /\ [s EXCEPT !.caught = b].kind = s.kind
           /\ [s EXCEPT !.caught = b].current = s.current
BY DEF Task

LEMMA Outdates ==
    ASSUME NEW s \in Task
    PROVE  /\ [s EXCEPT !.current = FALSE] \in Task
           /\ [s EXCEPT !.current = FALSE].pc = s.pc
           /\ [s EXCEPT !.current = FALSE].kind = s.kind
           /\ ~[s EXCEPT !.current = FALSE].current
BY DEF Task

\* The session d differs from s in its references and its count only.
SameLedger(d, s) == d.closed = s.closed /\ d.actions = s.actions /\ d.binding = s.binding

LEMMA Refers ==
    ASSUME NEW s \in Counted, NEW b \in BOOLEAN
    PROVE  /\ [s EXCEPT !.refs = b] \in Counted
           /\ SameLedger([s EXCEPT !.refs = b], s)
           /\ [s EXCEPT !.refs = b].refs = b
           /\ [s EXCEPT !.refs = b].count = s.count
BY DEF Counted, SameLedger

LEMMA CountsOne ==
    ASSUME NEW s \in Counted
    PROVE  /\ [s EXCEPT !.count = @ + 1] \in Counted
           /\ SameLedger([s EXCEPT !.count = @ + 1], s)
           /\ [s EXCEPT !.count = @ + 1].refs = s.refs
           /\ [s EXCEPT !.count = @ + 1].count = s.count + 1
BY DEF Counted, SameLedger

LEMMA Closes ==
    ASSUME NEW s \in Counted
    PROVE  /\ [s EXCEPT !.closed = TRUE, !.refs = FALSE] \in Counted
           /\ [s EXCEPT !.closed = TRUE, !.refs = FALSE].closed
           /\ ~[s EXCEPT !.closed = TRUE, !.refs = FALSE].refs
           /\ [s EXCEPT !.closed = TRUE, !.refs = FALSE].binding = s.binding
           /\ [s EXCEPT !.closed = TRUE, !.refs = FALSE].count = s.count
BY DEF Counted

LEMMA Binds ==
    ASSUME NEW s \in Counted, NEW b \in Requests \cup {None}
    PROVE  /\ [s EXCEPT !.binding = b] \in Counted
           /\ [s EXCEPT !.binding = b].closed = s.closed
           /\ [s EXCEPT !.binding = b].refs = s.refs
           /\ [s EXCEPT !.binding = b].binding = b
           /\ [s EXCEPT !.binding = b].count = s.count
BY DEF Counted

LEMMA Spends ==
    ASSUME NEW s \in Counted, NEW b \in Requests \cup {None},
           MaxActions \in Nat, s.actions < MaxActions
    PROVE  /\ [s EXCEPT !.actions = @ + 1, !.binding = b] \in Counted
           /\ [s EXCEPT !.actions = @ + 1, !.binding = b].closed = s.closed
           /\ [s EXCEPT !.actions = @ + 1, !.binding = b].refs = s.refs
           /\ [s EXCEPT !.actions = @ + 1, !.binding = b].binding = b
           /\ [s EXCEPT !.actions = @ + 1, !.binding = b].count = s.count
<1> DEFINE n == s.actions + 1
<1>1. n \in 0..MaxActions  BY DEF Counted
<1> HIDE DEF n
<1>2. /\ [s EXCEPT !.actions = n, !.binding = b] \in Counted
      /\ [s EXCEPT !.actions = n, !.binding = b].closed = s.closed
      /\ [s EXCEPT !.actions = n, !.binding = b].refs = s.refs
      /\ [s EXCEPT !.actions = n, !.binding = b].binding = b
      /\ [s EXCEPT !.actions = n, !.binding = b].count = s.count
  BY <1>1 DEF Counted
<1> QED  BY <1>2 DEF n

LEMMA Goes ==
    ASSUME Typed, NEW t \in Tasks, NEW pc \in Pcs, Goto(t, pc)
    PROVE  /\ task' \in [Tasks -> Task]
           /\ \A u \in Tasks : u # t => task'[u] = task[u]
           /\ task'[t].pc = pc
           /\ task'[t].kind = task[t].kind
           /\ task'[t].current = task[t].current
<1>1. task[t] \in Task /\ task \in [Tasks -> Task]  BY DEF Typed
<1>2. task' = [task EXCEPT ![t] = [task[t] EXCEPT !.pc = pc]]  BY DEF Goto
<1> DEFINE d == [task[t] EXCEPT !.pc = pc]
<1>3. /\ d \in Task /\ d.pc = pc /\ d.kind = task[t].kind
      /\ d.current = task[t].current
  BY <1>1, Moves
<1>4. task' = [task EXCEPT ![t] = d]  BY <1>2
<1> HIDE DEF d
<1> QED  BY <1>1, <1>3, <1>4

LEMMA IdleTask ==
    Idle \in Task /\ Idle.pc = "idle" /\ Idle.kind = None /\ Idle.current = FALSE
BY DEF Idle, Task

LEMMA Leaves ==
    ASSUME Typed, NEW t \in Tasks, Leave(t)
    PROVE  /\ task' \in [Tasks -> Task]
           /\ \A u \in Tasks : u # t => task'[u] = task[u]
           /\ task'[t] = Idle
           /\ lock' \in Tasks \cup {None}
           /\ lock' = IF lock = t THEN None ELSE lock
BY IdleTask, SMT DEF Typed, Leave

\* What an observation leaves in the session before it is built.
LEMMA Prepares ==
    ASSUME Typed
    PROVE  LET s == Prepared(session) IN
           /\ s \in Counted
           /\ s.closed = session.closed /\ s.binding = session.binding
           /\ s.actions = session.actions
           /\ mode \in Graded => ~s.refs /\ s.count = session.count + 1
           /\ mode \notin Graded => s = session
<1>1. session \in Counted  BY DEF Typed
<1> DEFINE i == [session EXCEPT !.refs = FALSE]
<1>2. /\ i \in Counted /\ SameLedger(i, session)
      /\ ~i.refs /\ i.count = session.count
  BY <1>1, Refers
<1>3. mode \in Graded => Prepared(session) = [i EXCEPT !.count = @ + 1]
  BY DEF Prepared, Invalidated
<1>4. mode \notin Graded => Prepared(session) = session  BY DEF Prepared
<1> HIDE DEF i
<1>5. /\ [i EXCEPT !.count = @ + 1] \in Counted
      /\ SameLedger([i EXCEPT !.count = @ + 1], i)
      /\ [i EXCEPT !.count = @ + 1].refs = i.refs
      /\ [i EXCEPT !.count = @ + 1].count = i.count + 1
  BY <1>2, CountsOne
<1> QED  BY <1>1, <1>2, <1>3, <1>4, <1>5 DEF SameLedger

LEMMA Builds ==
    ASSUME Typed, NEW t \in Tasks, Built(t, Prepared(session))
    PROVE  /\ session' \in Counted
           /\ session'.closed = session.closed /\ session'.binding = session.binding
           /\ session'.refs /\ ~touched'
           /\ mode \in Graded => session'.count = session.count + 1
           /\ mode \notin Graded => session'.count = session.count
           /\ task' \in [Tasks -> Task]
           /\ task'[t] = Idle
           /\ \A u \in Tasks : u # t =>
                 /\ task'[u].pc # task[u].pc => At(t, "starting") /\ task'[u].pc = "armed"
                 /\ u # Expiry =>
                    /\ task'[u].pc = task[u].pc /\ task'[u].kind = task[u].kind
                    /\ ~task'[u].current
                 /\ task'[u].kind \in {task[u].kind, None}
           /\ lock' \in Tasks \cup {None}
           /\ lock' = IF lock = t THEN None ELSE lock
PROOF
<1> DEFINE s == Prepared(session)
<1>1. /\ s \in Counted
      /\ s.closed = session.closed /\ s.binding = session.binding
      /\ mode \in Graded => s.count = session.count + 1
      /\ mode \notin Graded => s.count = session.count
  BY Prepares
<1>2. session' = [s EXCEPT !.refs = TRUE] /\ touched' = FALSE  BY DEF Built
<1> HIDE DEF s
<1>3. /\ session' \in Counted
      /\ session'.closed = session.closed /\ session'.binding = session.binding
      /\ session'.refs /\ ~touched'
      /\ mode \in Graded => session'.count = session.count + 1
      /\ mode \notin Graded => session'.count = session.count
  BY <1>1, <1>2, Refers DEF SameLedger
<1>4. Armed \in Task /\ Armed.pc = "armed" /\ Armed.kind = None  BY DEF Armed, Idle, Task
<1>5. \A u \in Tasks : /\ [task[u] EXCEPT !.current = FALSE] \in Task
                       /\ [task[u] EXCEPT !.current = FALSE].pc = task[u].pc
                       /\ [task[u] EXCEPT !.current = FALSE].kind = task[u].kind
                       /\ ~[task[u] EXCEPT !.current = FALSE].current
  BY Outdates DEF Typed
<1>6. task' = [u \in Tasks |->
            IF u = t THEN Idle
            ELSE IF u = Expiry /\ At(t, "starting") THEN Armed
            ELSE [task[u] EXCEPT !.current = FALSE]]
  BY DEF Built
<1>a. task'[t] = Idle  BY <1>6
<1>b. ASSUME NEW u \in Tasks, u # t, u = Expiry /\ At(t, "starting")
      PROVE  task'[u] = Armed
  BY <1>6, <1>b
<1>c. ASSUME NEW u \in Tasks, u # t, ~(u = Expiry /\ At(t, "starting"))
      PROVE  task'[u] = [task[u] EXCEPT !.current = FALSE]
  BY <1>6, <1>c
<1>7. task' \in [Tasks -> Task]
  <2>1. task' = [u \in Tasks |-> task'[u]]  BY <1>6
  <2>2. \A u \in Tasks : task'[u] \in Task  BY <1>4, <1>5, <1>a, <1>b, <1>c, IdleTask
  <2> QED  BY <2>1, <2>2
<1>8. /\ lock' \in Tasks \cup {None}
      /\ lock' = IF lock = t THEN None ELSE lock
  BY DEF Built, Typed
<1>9. ASSUME NEW u \in Tasks, u # t
      PROVE  /\ task'[u].pc # task[u].pc => At(t, "starting") /\ task'[u].pc = "armed"
             /\ u # Expiry =>
                    /\ task'[u].pc = task[u].pc /\ task'[u].kind = task[u].kind
                    /\ ~task'[u].current
             /\ task'[u].kind \in {task[u].kind, None}
  <2>1. CASE u = Expiry /\ At(t, "starting")
    BY <1>4, <1>b, <1>9, <2>1
  <2>2. CASE ~(u = Expiry /\ At(t, "starting"))
    BY <1>5, <1>c, <1>9, <2>2
  <2> QED  BY <2>1, <2>2
<1> QED  BY <1>3, <1>a, <1>7, <1>8, <1>9

LEMMA Unbuilds ==
    ASSUME Typed, Unbuilt(Prepared(session))
    PROVE  /\ session' \in Counted
           /\ session'.closed = session.closed /\ session'.binding = session.binding
           /\ mode \in Graded => ~session'.refs /\ session'.count = session.count + 1
           /\ mode \notin Graded => session'.count = session.count
           /\ session'.refs => session.refs
           /\ touched' = touched
<1> DEFINE s == Prepared(session)
<1>1. /\ s \in Counted
      /\ s.closed = session.closed /\ s.binding = session.binding
      /\ mode \in Graded => ~s.refs /\ s.count = session.count + 1
      /\ mode \notin Graded => s = session
  BY Prepares
<1>2. /\ session' = s \/ (mode = "vision" /\ session' = [s EXCEPT !.refs = FALSE])
      /\ touched' = touched
  BY DEF Unbuilt
<1> HIDE DEF s
<1>3. /\ [s EXCEPT !.refs = FALSE] \in Counted
      /\ SameLedger([s EXCEPT !.refs = FALSE], s)
      /\ ~[s EXCEPT !.refs = FALSE].refs
      /\ [s EXCEPT !.refs = FALSE].count = s.count
  BY <1>1, Refers
<1> QED  BY <1>1, <1>2, <1>3 DEF Graded, SameLedger

LEMMA Observes ==
    ASSUME Typed, NEW t \in Tasks, NEW ok \in BOOLEAN, Observe(t, ok)
    PROVE  /\ session' \in Counted
           /\ session'.closed = session.closed /\ session'.binding = None
           /\ session'.refs = session.refs /\ session'.count = session.count
           /\ task' \in [Tasks -> Task]
           /\ \A u \in Tasks : u # t => task'[u] = task[u]
           /\ task'[t].pc = "observing"
           /\ task'[t].kind = task[t].kind
           /\ task'[t].current = task[t].current
<1>1. session' = [session EXCEPT !.binding = None]  BY DEF Observe, Unbound
<1>2. task[t] \in Task /\ task \in [Tasks -> Task] /\ session \in Counted  BY DEF Typed
<1> DEFINE d == [task[t] EXCEPT !.pc = "observing"]
           e == [d EXCEPT !.caught = ok]
<1>3. "observing" \in Pcs  BY DEF Pcs, Holding
<1>4. /\ d \in Task /\ d.pc = "observing" /\ d.kind = task[t].kind
      /\ d.current = task[t].current
  BY <1>2, <1>3, Moves
<1>5. task' = [task EXCEPT ![t] = e]  BY DEF Observe
<1> HIDE DEF d
<1>7. e \in Task /\ e.pc = d.pc /\ e.kind = d.kind /\ e.current = d.current
  BY <1>4, Catches
<1> HIDE DEF e
<1>6. /\ session' \in Counted /\ session'.closed = session.closed
      /\ session'.binding = None /\ session'.refs = session.refs
      /\ session'.count = session.count
  BY <1>1, <1>2, Binds
<1> QED  BY <1>2, <1>4, <1>5, <1>6, <1>7
-----------------------------------------------------------------------------
(* Counting.                                                               *)

LEMMA PendingFinite ==
    /\ IsFiniteSet(Pending) /\ Cardinality(Pending) \in Nat
    /\ Cardinality(Requests) \in Nat /\ Cardinality(Pending) <= Cardinality(Requests)
<1>1. Pending \subseteq Requests /\ IsFiniteSet(Requests)  BY SessionAssumption DEF Pending
<1> QED  BY <1>1, FS_Subset, FS_CardinalityType

\* While the session is open, what is counted stays within the limit or a task is
\* about to close it; once it is closed, what is counted was pending.
LEMMA CountsKept ==
    ASSUME Typed, Counts, session' \in Counted, session'.closed = session.closed,
           session'.count = session.count,
           session.closed => Pending' \subseteq Pending,
           ~session.closed => \A t \in Tasks : At(t, "closing") => At(t, "closing")'
    PROVE  Counts'
<1>1. CASE session.closed
  <2>1. /\ IsFiniteSet(Pending) /\ Cardinality(Pending) \in Nat
        /\ Cardinality(Requests) \in Nat
    BY PendingFinite
  <2>2. Cardinality(Pending') <= Cardinality(Pending) /\ Cardinality(Pending') \in Nat
    BY <1>1, <2>1, FS_Subset, FS_CardinalityType
  <2>3. session.count \in Nat /\ MaxObservations \in Nat
    BY SessionAssumption DEF Typed, Counted
  <2>4. session.count + Cardinality(Pending) <= MaxObservations + 1 + Cardinality(Requests)
    BY <1>1 DEF Counts
  <2>5. session.count + Cardinality(Pending') <= MaxObservations + 1 + Cardinality(Requests)
    BY <2>1, <2>2, <2>3, <2>4
  <2> QED  BY <1>1, <2>5 DEF Counts
<1>2. CASE ~session.closed
  BY <1>2 DEF Counts
<1> QED  BY <1>1, <1>2

\* An observation is made by a request that has none left once the session is closed.
LEMMA CountsSpent ==
    ASSUME Typed, Counts, session' \in Counted, session'.closed = session.closed,
           mode \in Graded => session'.count = session.count + 1,
           mode \notin Graded => session'.count = session.count,
           NEW t \in Tasks,
           session.closed => Pending' \subseteq Pending,
           session.closed /\ mode \in Graded => t \in Pending /\ t \notin Pending',
           ~session.closed =>
                /\ \A u \in Tasks : ~At(u, "closing")
                /\ mode \in Graded =>
                     session'.count <= MaxObservations \/ \E u \in Tasks : At(u, "closing")'
    PROVE  Counts'
<1>0. session.count \in Nat /\ MaxObservations \in Nat
  BY SessionAssumption DEF Typed, Counted
<1>1. CASE session.closed
  <2>1. /\ IsFiniteSet(Pending) /\ Cardinality(Pending) \in Nat
        /\ Cardinality(Requests) \in Nat
    BY PendingFinite
  <2>2. session.count + Cardinality(Pending) <= MaxObservations + 1 + Cardinality(Requests)
    BY <1>1 DEF Counts
  <2>3. CASE mode \in Graded
    <3>1. Pending' \subseteq Pending \ {t} /\ t \in Pending  BY <1>1, <2>3
    <3>2. /\ IsFiniteSet(Pending \ {t})
          /\ Cardinality(Pending \ {t}) = Cardinality(Pending) - 1
      BY <2>1, <3>1, FS_RemoveElement
    <3>3. /\ Cardinality(Pending') <= Cardinality(Pending \ {t})
          /\ Cardinality(Pending') \in Nat
      BY <3>1, <3>2, FS_Subset, FS_CardinalityType
    <3>4. session'.count + Cardinality(Pending') <= MaxObservations + 1 + Cardinality(Requests)
      BY <1>0, <2>1, <2>2, <2>3, <3>2, <3>3
    <3> QED  BY <1>1, <3>4 DEF Counts
  <2>4. CASE mode \notin Graded
    <3>1. /\ Cardinality(Pending') <= Cardinality(Pending)
          /\ Cardinality(Pending') \in Nat
      BY <1>1, <2>1, FS_Subset, FS_CardinalityType
    <3>2. session'.count + Cardinality(Pending') <= MaxObservations + 1 + Cardinality(Requests)
      BY <1>0, <2>1, <2>2, <2>4, <3>1
    <3> QED  BY <1>1, <3>2 DEF Counts
  <2> QED  BY <2>3, <2>4
<1>2. CASE ~session.closed
  <2>1. session.count <= MaxObservations  BY <1>2 DEF Counts
  <2>2. \/ session'.count <= MaxObservations
        \/ session'.count = MaxObservations + 1 /\ \E u \in Tasks : At(u, "closing")'
    BY <1>0, <1>2, <2>1
  <2> QED  BY <1>2, <2>2 DEF Counts
<1> QED  BY <1>1, <1>2

\* The closing of the session leaves each request at most one observation.
LEMMA CountsClosed ==
    ASSUME Typed, Counts, ~session.closed, session' \in Counted, session'.closed,
           session'.count = session.count
    PROVE  Counts'
<1>1. session.count <= MaxObservations + 1 /\ session.count \in Nat /\ MaxObservations \in Nat
  BY SessionAssumption DEF Counts, Typed, Counted
<1>2. Pending' \subseteq Requests /\ IsFiniteSet(Requests)  BY SessionAssumption DEF Pending
<1>3. /\ Cardinality(Pending') <= Cardinality(Requests) /\ Cardinality(Pending') \in Nat
      /\ Cardinality(Requests) \in Nat
  BY <1>2, FS_Subset, FS_CardinalityType
<1>4. session'.count + Cardinality(Pending') <= MaxObservations + 1 + Cardinality(Requests)
  BY <1>1, <1>3
<1> QED  BY <1>4 DEF Counts

\* The limit that the type states.
LEMMA CountBounded ==
    ASSUME Typed, Counts
    PROVE  session.count \in 0..(MaxObservations + 1 + Cardinality(Requests))
<1>1. /\ Cardinality(Pending) \in Nat /\ Cardinality(Requests) \in Nat
      /\ session.count \in Nat /\ MaxObservations \in Nat
  BY PendingFinite, SessionAssumption DEF Typed, Counted
<1>2. session.count <= MaxObservations + 1 + Cardinality(Requests)
  BY <1>1 DEF Counts
<1> QED  BY <1>1, <1>2
-----------------------------------------------------------------------------
(* Who is at work.                                                         *)

Resting == {"idle", "armed", "waiting"}

\* Beside the holder of the lock nobody is past it, and nobody starts a session.
LEMMA HolderAlone ==
    ASSUME SessionInv, NEW t \in Tasks, lock = t
    PROVE  /\ browser # "none" /\ t # None
           /\ task[t].pc \in Holding \cup Ending
           /\ \A u \in Tasks : ~Opens(u)
           /\ \A u \in Tasks : u # t => task[u].pc \in Resting
           /\ session.binding \in {None, t}
<1>1. t # None  BY SessionAssumption DEF Tasks
<1>2. task[t].pc \in Holding \cup Ending  BY DEF SessionInv, LockHeld
<1>3. \A u \in Tasks : ~Opens(u)  BY <1>1 DEF SessionInv, OneStarts, Alone
<1>4. \A u \in Tasks : task[u].pc \in Pcs
  BY DEF SessionInv, Typed, Task, Pcs, Holding, Ending
<1>5. \A u \in Tasks : u # t => task[u].pc \in Resting
  BY <1>3, <1>4 DEF SessionInv, LockHeld, OneStarts, At, Pcs, Holding, Ending, Resting
<1>6. browser # "none"
  BY <1>2, SMT DEF SessionInv, OneStarts, At, Holding, Ending
<1>7. session.binding \in {None, t}  BY DEF SessionInv, Bound
<1> QED  BY <1>1, <1>2, <1>3, <1>5, <1>6, <1>7

\* What a step of the holder of the lock may do.
HolderKeeps(t) ==
    /\ browser' # "none"
    /\ \A u \in Tasks : u # t => task'[u].pc \in Resting
    /\ \A u \in Tasks : task'[u].kind # "open"
    /\ \/ lock' = t /\ task'[t].pc \in Holding \cup Ending
       \/ lock' = None /\ task'[t].pc = "idle"
    /\ t = Expiry => task'[t].pc \notin Holding
    /\ session'.binding # None =>
          session'.binding = t /\ lock' = t /\ task'[t].pc \in {"acting", "responding"}

LEMMA HolderStep ==
    ASSUME NEW t \in Tasks, t # None, HolderKeeps(t)
    PROVE  LockHeld' /\ OneStarts' /\ ExpiryCloses' /\ Bound'
<1>1. LockHeld'
  BY SessionAssumption DEF HolderKeeps, LockHeld, Holding, Ending, Resting, Tasks
<1>2. OneStarts'
  BY DEF HolderKeeps, OneStarts, Opens, At, Holding, Ending, Resting
<1>3. ExpiryCloses'
  BY SessionAssumption DEF HolderKeeps, ExpiryCloses, Opens, Holding, Ending, Resting, Tasks
<1>4. Bound'  BY DEF HolderKeeps, Bound
<1> QED  BY <1>1, <1>2, <1>3, <1>4

\* Beside a task that starts a session there is no other.
LEMMA OpenerAlone ==
    ASSUME SessionInv, NEW t \in Tasks, Opens(t)
    PROVE  /\ Alone(t) /\ t # Expiry /\ t \in Requests
           /\ session.binding = None
           /\ \A u \in Tasks : u # t => ~Opens(u)
<1>1. Alone(t) /\ t # Expiry /\ t \in Requests
  BY DEF SessionInv, OneStarts, ExpiryCloses, Tasks
<1>2. \A u \in Tasks : u # t => ~Opens(u)
  BY <1>1, SMT DEF SessionInv, OneStarts, Alone, Ending
<1>3. session.binding = None
  <2>1. session.binding # None => lock # None  BY DEF SessionInv, Bound
  <2> QED  BY <1>1, <2>1 DEF Alone
<1> QED  BY <1>1, <1>2, <1>3

OpenerKeeps(t) ==
    /\ browser' # "none" /\ lock' = None /\ session'.binding = None
    /\ \A u \in Tasks : u # t => task'[u].kind # "open"
    /\ \/ /\ task'[t] = Idle
          /\ \A u \in Tasks : u # t => task'[u].pc \in {"idle", "armed"}
       \/ /\ task'[t].kind = "open" /\ task'[t].pc \in {"starting"} \cup Ending
          /\ ~registered' /\ ~session'.refs /\ ~touched'
          /\ task'[t].pc = "starting" => ~session'.closed
          /\ \A u \in Tasks : u # t => task'[u].pc = "idle"

LEMMA OpenerStep ==
    ASSUME NEW t \in Requests, OpenerKeeps(t)
    PROVE  LockHeld' /\ OneStarts' /\ ExpiryCloses' /\ Bound'
<1>1. None \notin Tasks /\ t \in Tasks /\ t # Expiry /\ Expiry \in Tasks /\ None # "open"
  BY SessionAssumption DEF Tasks
<1>2. LockHeld'
  BY <1>1, IdleTask DEF OpenerKeeps, LockHeld, Opens, Holding, Ending
<1>3. OneStarts'
  BY <1>1, IdleTask DEF OpenerKeeps, OneStarts, Alone, Opens, At, Ending
<1>4. ExpiryCloses'
  BY <1>1 DEF OpenerKeeps, ExpiryCloses, Opens, Ending
<1>5. Bound'  BY DEF OpenerKeeps, Bound
<1> QED  BY <1>2, <1>3, <1>4, <1>5
-----------------------------------------------------------------------------
(* The steps of the holder of the lock.                                    *)

LEMMA AcquireKeeps ==
    ASSUME SessionInv, NEW t \in Tasks, Acquire(t)
    PROVE  SessionInv'
<1> DEFINE pc == IF t = Expiry \/ task[t].kind = "close" THEN "closing"
                 ELSE IF task[t].kind = "observe" THEN "observing"
                 ELSE "admitted"
<1>1. Typed /\ LockHeld /\ OneStarts /\ ExpiryCloses /\ Bound /\ Fresh /\ Counts
  BY DEF SessionInv
<1>2. /\ Goto(t, pc) /\ lock = None /\ lock' = t /\ task[t].pc = "waiting"
      /\ UNCHANGED <<mode, session, browser, registered, touched, delayed, sent, lost>>
  BY DEF Acquire, LockFree, At
<1>3. /\ pc \in {"closing", "observing", "admitted"}
      /\ t = Expiry \/ task[t].kind = "close" => pc = "closing"
  OBVIOUS
<1>4. pc \in Pcs /\ t # None  BY <1>3, SessionAssumption DEF Pcs, Holding, Ending, Tasks
<1> HIDE DEF pc
<1>5. /\ task' \in [Tasks -> Task]
      /\ \A u \in Tasks : u # t => task'[u] = task[u]
      /\ task'[t].pc = pc /\ task'[t].kind = task[t].kind
      /\ task'[t].current = task[t].current
  BY <1>1, <1>2, <1>4, Goes
<1>6. Typed'  BY <1>1, <1>2, <1>5 DEF Typed
<1>7. session.binding = None  BY <1>1, <1>2 DEF Bound
<1>8. /\ \A u \in Tasks : ~Opens(u)
      /\ \A u \in Tasks : task[u].pc \in Resting
      /\ browser # "none"
  <2>1. \A u \in Tasks : ~Opens(u)
    BY <1>1, <1>2, SMT DEF OneStarts, Alone, Opens, Ending
  <2>2. \A u \in Tasks : task[u].pc \in Pcs
    BY <1>1 DEF Typed, Task, Pcs, Holding, Ending
  <2>3. \A u \in Tasks : task[u].pc \in Resting
    BY <1>1, <1>2, <2>1, <2>2, SessionAssumption
    DEF LockHeld, OneStarts, At, Pcs, Holding, Ending, Resting, Tasks
  <2> QED  BY <1>1, <1>2, <2>1, <2>3, SMT DEF OneStarts, At
<1>9. HolderKeeps(t)
  BY <1>2, <1>3, <1>5, <1>7, <1>8 DEF HolderKeeps, Opens, Holding, Ending
<1>10. LockHeld' /\ OneStarts' /\ ExpiryCloses' /\ Bound'  BY <1>4, <1>9, HolderStep
<1>11. Fresh'
  BY <1>1, <1>2, <1>3, <1>4, <1>5, <1>8, SMT DEF Fresh, Resting, Tasks
<1>12. Counts'
  <2>1. Pending' \subseteq Pending
    BY <1>2, <1>3, <1>5, SMT DEF Pending, Holding, Tasks
  <2>2. \A u \in Tasks : At(u, "closing") => At(u, "closing")'
    BY <1>2, <1>5 DEF At
  <2> QED  BY <1>1, <1>2, <1>6, <2>1, <2>2, CountsKept DEF Typed
<1> QED  BY <1>6, <1>10, <1>11, <1>12 DEF SessionInv
LEMMA ExhaustKeeps ==
    ASSUME SessionInv, NEW t \in Tasks, Exhaust(t)
    PROVE  SessionInv'
<1>1. Typed /\ LockHeld /\ OneStarts /\ ExpiryCloses /\ Bound /\ Fresh /\ Counts
  BY DEF SessionInv
<1>2. /\ Goto(t, "closing") /\ task[t].pc = "admitted"
      /\ UNCHANGED <<mode, session, browser, registered, lock, touched, delayed, sent, lost>>
  BY DEF Exhaust, At
<1>3. lock = t  BY <1>1, <1>2 DEF LockHeld, Holding
<1>4. "closing" \in Pcs  BY DEF Pcs, Ending
<1>5. /\ task' \in [Tasks -> Task]
      /\ \A u \in Tasks : u # t => task'[u] = task[u]
      /\ task'[t].pc = "closing" /\ task'[t].kind = task[t].kind
      /\ task'[t].current = task[t].current
  BY <1>1, <1>2, <1>4, Goes
<1>6. Typed'  BY <1>1, <1>2, <1>5 DEF Typed
<1>7. /\ browser # "none" /\ t # None /\ \A u \in Tasks : ~Opens(u)
      /\ \A u \in Tasks : u # t => task[u].pc \in Resting
      /\ session.binding \in {None, t}
  BY <1>3, HolderAlone
<1>8. session.binding = None  BY <1>1, <1>2, <1>7, SMT DEF Bound
<1>9. HolderKeeps(t)
  BY <1>2, <1>3, <1>5, <1>7, <1>8 DEF HolderKeeps, Opens, Holding, Ending
<1>10. LockHeld' /\ OneStarts' /\ ExpiryCloses' /\ Bound'  BY <1>7, <1>9, HolderStep
<1>11. Fresh'
  BY <1>1, <1>2, <1>3, <1>5, <1>7, SMT DEF Fresh, Resting, Tasks
<1>12. Counts'
  <2>1. Pending' \subseteq Pending
    BY <1>2, <1>5, SMT DEF Pending, Holding, Tasks
  <2>2. \A u \in Tasks : At(u, "closing") => At(u, "closing")'
    BY <1>2, <1>5 DEF At
  <2> QED  BY <1>1, <1>2, <1>6, <2>1, <2>2, CountsKept DEF Typed
<1> QED  BY <1>6, <1>10, <1>11, <1>12 DEF SessionInv

LEMMA AdmitKeeps ==
    ASSUME SessionInv, NEW t \in Tasks, Admit(t)
    PROVE  SessionInv'
<1>1. Typed /\ LockHeld /\ OneStarts /\ ExpiryCloses /\ Bound /\ Fresh /\ Counts
  BY DEF SessionInv
<1> DEFINE binds == Current(t) /\ task[t].kind = "mutation" /\ Resolves(t)
           next == IF ~Current(t) THEN "observing"
                   ELSE IF task[t].kind = "end" THEN "closing"
                   ELSE IF NamesElement(t) /\ ~Resolves(t) THEN "observing"
                   ELSE "acting"
           binding == IF binds THEN t ELSE session.binding
           caught == mode \in Graded /\ Current(t) /\ next = "observing"
           moved == [task[t] EXCEPT !.pc = next]
           done == [moved EXCEPT !.caught = caught]
<1>2. /\ task[t].pc = "admitted" /\ session.actions < MaxActions
      /\ session' = [session EXCEPT !.actions = @ + 1, !.binding = binding]
      /\ task' = [task EXCEPT ![t] = done]
      /\ UNCHANGED <<mode, browser, registered, lock, touched, delayed, sent, lost>>
  BY <1>1 DEF Admit, At, HasBudget, Typed
<1>3. lock = t  BY <1>1, <1>2 DEF LockHeld, Holding
<1>4. t # Expiry /\ t \in Requests
  BY <1>1, <1>2 DEF ExpiryCloses, Ending, Tasks
<1>5. /\ next \in {"observing", "closing", "acting"}
      /\ next \in Pcs /\ next \in Holding \cup Ending
      /\ next = "acting" => Current(t)
      /\ binds => next = "acting"
      /\ caught \in BOOLEAN
  BY DEF Pcs, Holding, Ending, NamesElement
<1>6. binding \in Requests \cup {None}
  BY <1>1, <1>4 DEF Typed, Counted
<1>7. /\ moved \in Task /\ moved.pc = next /\ moved.kind = task[t].kind
      /\ moved.current = task[t].current
  <2> HIDE DEF next
  <2>1. task[t] \in Task  BY <1>1 DEF Typed
  <2> QED  BY <1>5, <2>1, Moves
<1>8. /\ done \in Task /\ done.pc = next /\ done.kind = task[t].kind
      /\ done.current = task[t].current
  <2> HIDE DEF moved, caught
  <2> QED  BY <1>5, <1>7, Catches
<1>9. /\ session' \in Counted /\ session'.closed = session.closed
      /\ session'.refs = session.refs /\ session'.binding = binding
      /\ session'.count = session.count
  <2> HIDE DEF binding
  <2>1. session \in Counted /\ MaxActions \in Nat  BY <1>1, SessionAssumption DEF Typed
  <2> QED  BY <1>2, <1>6, <2>1, Spends
<1>10. (binding = t /\ next = "acting") \/ binding = session.binding
  BY <1>5
<1> HIDE DEF done, next, binding, caught, binds
<1>11. /\ task' \in [Tasks -> Task]
       /\ \A u \in Tasks : u # t => task'[u] = task[u]
       /\ task'[t].pc = next /\ task'[t].kind = task[t].kind
       /\ task'[t].current = task[t].current
  BY <1>1, <1>2, <1>8 DEF Typed
<1>12. Typed'  BY <1>1, <1>2, <1>9, <1>11 DEF Typed
<1>13. /\ browser # "none" /\ t # None /\ \A u \in Tasks : ~Opens(u)
       /\ \A u \in Tasks : u # t => task[u].pc \in Resting
       /\ session.binding \in {None, t}
  BY <1>3, HolderAlone
<1>14. session.binding = None  BY <1>1, <1>2, <1>13, SMT DEF Bound
<1>15. HolderKeeps(t)
  BY <1>2, <1>3, <1>4, <1>5, <1>9, <1>10, <1>11, <1>13, <1>14 DEF HolderKeeps, Opens
<1>16. LockHeld' /\ OneStarts' /\ ExpiryCloses' /\ Bound'  BY <1>13, <1>15, HolderStep
<1>17. Fresh'
  <2>1. mode \in Graded /\ next = "acting" => task[t].current  BY <1>5 DEF Current
  <2> QED
    BY <1>1, <1>2, <1>3, <1>5, <1>9, <1>11, <1>13, <2>1, SMT DEF Fresh, Resting, Tasks
<1>18. Counts'
  <2>1. Pending' \subseteq Pending
    BY <1>2, <1>5, <1>11, SMT DEF Pending, Holding, Tasks
  <2>2. \A u \in Tasks : At(u, "closing") => At(u, "closing")'
    BY <1>2, <1>11 DEF At
  <2> QED  BY <1>1, <1>2, <1>9, <2>1, <2>2, CountsKept
<1> QED  BY <1>12, <1>16, <1>17, <1>18 DEF SessionInv
\* A request leaves the page, which it may have reached, for the observation.
LEMMA ObserveKeeps ==
    ASSUME SessionInv, NEW t \in Tasks, NEW ok \in BOOLEAN, Observe(t, ok),
           task[t].pc \in {"acting", "responding"}, touched' \in {touched, TRUE},
           delayed' \subseteq Requests,
           UNCHANGED <<mode, browser, registered, lock, sent, lost>>
    PROVE  SessionInv'
<1>1. Typed /\ LockHeld /\ OneStarts /\ ExpiryCloses /\ Bound /\ Fresh /\ Counts
  BY DEF SessionInv
<1>2. lock = t  BY <1>1 DEF LockHeld, Holding
<1>3. t # Expiry /\ t \in Requests  BY <1>1 DEF ExpiryCloses, Ending, Tasks
<1>4. /\ session' \in Counted
      /\ session'.closed = session.closed /\ session'.binding = None
      /\ session'.refs = session.refs /\ session'.count = session.count
      /\ task' \in [Tasks -> Task]
      /\ \A u \in Tasks : u # t => task'[u] = task[u]
      /\ task'[t].pc = "observing" /\ task'[t].kind = task[t].kind
      /\ task'[t].current = task[t].current
  BY <1>1, Observes
<1>5. Typed'  BY <1>1, <1>4 DEF Typed
<1>6. /\ browser # "none" /\ t # None /\ \A u \in Tasks : ~Opens(u)
      /\ \A u \in Tasks : u # t => task[u].pc \in Resting
  BY <1>2, HolderAlone
<1>7. HolderKeeps(t)
  BY <1>2, <1>3, <1>4, <1>6 DEF HolderKeeps, Opens, Holding
<1>8. LockHeld' /\ OneStarts' /\ ExpiryCloses' /\ Bound'  BY <1>6, <1>7, HolderStep
<1>9. Fresh'
  <2>1. mode \in Graded => ~(session.closed /\ session.refs)
    BY <1>1, <1>3, SMT DEF Fresh
  <2>2. \A u \in Requests : task'[u].pc \notin {"acting", "responding"}
    BY <1>4, <1>6, SMT DEF Resting, Tasks
  <2> QED  BY <1>2, <1>4, <1>6, <2>1, <2>2 DEF Fresh
<1>10. Counts'
  <2>1. Pending' \subseteq Pending
    BY <1>4, SMT DEF Pending, Holding, Tasks
  <2>2. \A u \in Tasks : At(u, "closing") => At(u, "closing")'
    BY <1>4 DEF At
  <2> QED  BY <1>1, <1>4, <2>1, <2>2, CountsKept
<1> QED  BY <1>5, <1>8, <1>9, <1>10 DEF SessionInv

LEMMA ActKeeps ==
    ASSUME SessionInv, NEW t \in Tasks, Act(t)
    PROVE  SessionInv'
<1>1. Typed /\ LockHeld /\ OneStarts /\ ExpiryCloses /\ Bound /\ Fresh /\ Counts
  BY DEF SessionInv
<1>2. /\ task[t].pc = "acting" /\ touched' = TRUE
      /\ UNCHANGED <<mode, browser, registered, lock, sent, lost>>
  BY DEF Act, At
<1>3. t # Expiry /\ t \in Requests  BY <1>1, <1>2 DEF ExpiryCloses, Ending, Tasks
<1>4. CASE task[t].kind # "mutation"
  <2>1. Observe(t, TRUE) /\ delayed' = delayed  BY <1>4 DEF Act
  <2> QED  BY <1>1, <1>2, <2>1, ObserveKeeps DEF Typed
<1>5. CASE task[t].kind = "mutation"
  <2>1. Goto(t, "responding") /\ delayed' = delayed \cup {t} /\ session' = session
    BY <1>5 DEF Act
  <2>2. "responding" \in Pcs  BY DEF Pcs, Holding
  <2>3. /\ task' \in [Tasks -> Task]
        /\ \A u \in Tasks : u # t => task'[u] = task[u]
        /\ task'[t].pc = "responding" /\ task'[t].kind = task[t].kind
        /\ task'[t].current = task[t].current
    BY <1>1, <2>1, <2>2, Goes
  <2>4. Typed'  BY <1>1, <1>2, <1>3, <2>1, <2>3 DEF Typed
  <2>5. lock = t  BY <1>1, <1>2 DEF LockHeld, Holding
  <2>6. /\ browser # "none" /\ t # None /\ \A u \in Tasks : ~Opens(u)
        /\ \A u \in Tasks : u # t => task[u].pc \in Resting
        /\ session.binding \in {None, t}
    BY <2>5, HolderAlone
  <2>7. HolderKeeps(t)
    BY <1>2, <1>3, <2>1, <2>3, <2>5, <2>6 DEF HolderKeeps, Opens, Holding
  <2>8. LockHeld' /\ OneStarts' /\ ExpiryCloses' /\ Bound'  BY <2>6, <2>7, HolderStep
  <2>9. Fresh'
    <3>1. mode \in Graded => task[t].current /\ ~(session.closed /\ session.refs)
      BY <1>1, <1>2, <1>3, SMT DEF Fresh
    <3>2. \A u \in Requests : task'[u].pc \in {"acting", "responding"} => u = t
      BY <2>3, <2>6, SMT DEF Resting, Tasks
    <3> QED  BY <1>2, <2>1, <2>3, <2>5, <2>6, <3>1, <3>2 DEF Fresh
  <2>10. Counts'
    <3>1. Pending' \subseteq Pending
      BY <1>2, <2>3, SMT DEF Pending, Holding, Tasks
    <3>2. \A u \in Tasks : At(u, "closing") => At(u, "closing")'
      BY <1>2, <2>3 DEF At
    <3> QED  BY <1>1, <2>1, <2>4, <3>1, <3>2, CountsKept DEF Typed
  <2> QED  BY <2>4, <2>8, <2>9, <2>10 DEF SessionInv
<1> QED  BY <1>4, <1>5

LEMMA DispatchEnds ==
    ASSUME SessionInv, NEW t \in Tasks, ActFails(t) \/ Respond(t) \/ RespondTimesOut(t)
    PROVE  SessionInv'
<1>1. /\ task[t].pc \in {"acting", "responding"} /\ touched' \in {touched, TRUE}
      /\ \E ok \in BOOLEAN : Observe(t, ok)
      /\ UNCHANGED <<mode, browser, registered, lock, delayed, sent, lost>>
  BY DEF ActFails, Respond, RespondTimesOut, At
<1>2. delayed' \subseteq Requests  BY <1>1 DEF SessionInv, Typed
<1> QED  BY <1>1, <1>2, ObserveKeeps
-----------------------------------------------------------------------------
(* Observations.                                                           *)

\* The observation is built, for the task that starts the session or that asks.
LEMMA BuiltFresh ==
    ASSUME Typed, NEW t \in Tasks, Built(t, Prepared(session)), mode' = mode,
           \A u \in Requests : u # t => task[u].pc \notin {"acting", "responding"}
    PROVE  Fresh'
<1>1. /\ session'.refs /\ ~touched' /\ task'[t] = Idle
      /\ \A u \in Tasks : u # t /\ u # Expiry =>
            task'[u].pc = task[u].pc /\ ~task'[u].current
  BY Builds
<1>2. Expiry \notin Requests /\ Requests \subseteq Tasks  BY SessionAssumption DEF Tasks
<1>3. \A u \in Requests : task'[u].pc \notin {"acting", "responding"}
  BY <1>1, <1>2, IdleTask
<1>4. \A u \in Requests : u # t => ~task'[u].current  BY <1>1, <1>2
<1> QED  BY <1>1, <1>3, <1>4, IdleTask DEF Fresh

\* Nor is it built beyond the limit.
LEMMA BuiltWithin ==
    ASSUME Typed, CanBuild(Prepared(session)), mode \in Graded,
           session'.count = session.count + 1
    PROVE  session'.count <= MaxObservations
<1>1. Prepared(session).count = session.count + 1  BY Prepares
<1>2. ~(Prepared(session).count > MaxObservations)  BY DEF CanBuild, Spent
<1>3. session.count \in Nat /\ MaxObservations \in Nat
  BY SessionAssumption DEF Typed, Counted
<1> QED  BY <1>1, <1>2, <1>3

LEMMA AnswerKeeps ==
    ASSUME SessionInv, NEW t \in Tasks, Answer(t)
    PROVE  SessionInv'
<1>1. Typed /\ LockHeld /\ OneStarts /\ ExpiryCloses /\ Bound /\ Fresh /\ Counts
  BY DEF SessionInv
<1>2. /\ task[t].pc = "observing" /\ CanBuild(Prepared(session))
      /\ Built(t, Prepared(session))
      /\ UNCHANGED <<mode, browser, registered, delayed, sent, lost>>
  BY DEF Answer, At
<1>3. lock = t  BY <1>1, <1>2 DEF LockHeld, Holding
<1>4. t # Expiry /\ t \in Requests  BY <1>1, <1>2 DEF ExpiryCloses, Ending, Tasks
<1>5. /\ session' \in Counted
      /\ session'.closed = session.closed /\ session'.binding = session.binding
      /\ session'.refs /\ ~touched'
      /\ mode \in Graded => session'.count = session.count + 1
      /\ mode \notin Graded => session'.count = session.count
      /\ task' \in [Tasks -> Task] /\ task'[t] = Idle
      /\ \A u \in Tasks : u # t =>
            /\ task'[u].pc = task[u].pc
            /\ task'[u].kind \in {task[u].kind, None}
      /\ lock' = None
  BY <1>1, <1>2, <1>3, Builds DEF At
<1>6. touched' = FALSE  BY <1>2 DEF Built
<1>7. Typed'  BY <1>1, <1>2, <1>5, <1>6 DEF Typed
<1>8. /\ browser # "none" /\ t # None /\ \A u \in Tasks : ~Opens(u)
      /\ \A u \in Tasks : u # t => task[u].pc \in Resting
      /\ session.binding \in {None, t}
  BY <1>3, HolderAlone
<1>9. session.binding = None  BY <1>1, <1>2, <1>8, SMT DEF Bound
<1>10. None # "open"  BY SessionAssumption
<1>11. HolderKeeps(t)
  BY <1>2, <1>4, <1>5, <1>8, <1>9, <1>10, IdleTask DEF HolderKeeps, Opens, Holding
<1>12. LockHeld' /\ OneStarts' /\ ExpiryCloses' /\ Bound'  BY <1>8, <1>11, HolderStep
<1>13. \A u \in Requests : u # t => task[u].pc \notin {"acting", "responding"}
  BY <1>8 DEF Resting, Tasks
<1>14. Fresh'  BY <1>1, <1>2, <1>13, BuiltFresh
<1>15. Counts'
  <2>1. \A u \in Requests : u # t =>
            task'[u].pc = task[u].pc /\ task'[u].kind = task[u].kind
    BY <1>1, <1>2, Builds, SessionAssumption DEF Tasks
  <2>2. Pending' \subseteq Pending
    BY <1>5, <2>1, IdleTask DEF Pending, Holding
  <2>3. t \notin Pending' /\ t \in Pending
    BY <1>2, <1>4, <1>5, IdleTask DEF Pending, Holding
  <2>4. \A u \in Tasks : ~At(u, "closing")
    BY <1>2, <1>8 DEF At, Resting
  <2>5. mode \in Graded => session'.count <= MaxObservations
    BY <1>1, <1>2, <1>5, BuiltWithin
  <2> QED  BY <1>1, <1>5, <2>2, <2>3, <2>4, <2>5, CountsSpent
<1> QED  BY <1>7, <1>12, <1>14, <1>15 DEF SessionInv
LEMMA AnswerFailsKeeps ==
    ASSUME SessionInv, NEW t \in Tasks, AnswerFails(t)
    PROVE  SessionInv'
<1>1. Typed /\ LockHeld /\ OneStarts /\ ExpiryCloses /\ Bound /\ Fresh /\ Counts
  BY DEF SessionInv
<1>2. /\ task[t].pc = "observing" /\ Unbuilt(Prepared(session))
      /\ UNCHANGED <<mode, browser, registered, delayed, sent, lost>>
  BY DEF AnswerFails, At
<1>3. lock = t  BY <1>1, <1>2 DEF LockHeld, Holding
<1>4. t # Expiry /\ t \in Requests  BY <1>1, <1>2 DEF ExpiryCloses, Ending, Tasks
<1>5. /\ session' \in Counted
      /\ session'.closed = session.closed /\ session'.binding = session.binding
      /\ mode \in Graded => ~session'.refs /\ session'.count = session.count + 1
      /\ mode \notin Graded => session'.count = session.count
      /\ touched' = touched
  BY <1>1, <1>2, Unbuilds
<1>6. /\ browser # "none" /\ t # None /\ \A u \in Tasks : ~Opens(u)
      /\ \A u \in Tasks : u # t => task[u].pc \in Resting
      /\ session.binding \in {None, t}
  BY <1>3, HolderAlone
<1>7. session.binding = None  BY <1>1, <1>2, <1>6, SMT DEF Bound
<1>8. None # "open"  BY SessionAssumption
<1> DEFINE freed == [task[t] EXCEPT !.caught = FALSE]
<1>9. /\ task' \in [Tasks -> Task]
      /\ \A u \in Tasks : u # t => task'[u] = task[u]
      /\ lock' \in Tasks \cup {None}
      /\ \/ lock' = t /\ task'[t].pc = "closing" /\ task'[t].kind = task[t].kind
         \/ /\ lock' = t /\ task'[t].pc = "observing" /\ task'[t].kind = task[t].kind
            /\ mode \notin Graded
         \/ /\ lock' = None /\ task'[t].pc = "idle" /\ task'[t].kind = None
            /\ ~Spent(session')
  <2>1. CASE Goto(t, "closing") /\ UNCHANGED lock
    <3>1. "closing" \in Pcs  BY DEF Pcs, Ending
    <3> QED  BY <1>1, <1>3, <2>1, <3>1, Goes DEF Typed
  <2>2. CASE mode \notin Graded /\ task' = [task EXCEPT ![t] = freed] /\ UNCHANGED lock
    <3>1. task[t] \in Task /\ task \in [Tasks -> Task]  BY <1>1 DEF Typed
    <3>2. freed \in Task /\ freed.pc = "observing" /\ freed.kind = task[t].kind
      BY <1>2, <3>1, Catches
    <3> HIDE DEF freed
    <3> QED  BY <1>1, <1>3, <2>2, <3>1, <3>2 DEF Typed
  <2>3. CASE Leave(t) /\ ~Spent(session')
    BY <1>1, <1>3, <2>3, Leaves, IdleTask
  <2> QED  BY <1>1, <2>1, <2>2, <2>3 DEF AnswerFails, Typed
<1>10. Typed'  BY <1>1, <1>2, <1>5, <1>9 DEF Typed
<1>11. HolderKeeps(t)
  BY <1>2, <1>3, <1>4, <1>5, <1>6, <1>7, <1>8, <1>9
  DEF HolderKeeps, Opens, Holding, Ending
<1>12. LockHeld' /\ OneStarts' /\ ExpiryCloses' /\ Bound'  BY <1>6, <1>11, HolderStep
<1>13. Fresh'
  <2>1. \A u \in Requests : task'[u].pc \notin {"acting", "responding"}
    BY <1>6, <1>9, SMT DEF Resting, Tasks
  <2> QED  BY <1>2, <1>5, <2>1 DEF Fresh
<1>14. Counts'
  <2>1. Pending' \subseteq Pending
    BY <1>2, <1>4, <1>9, SMT DEF Pending, Holding, Tasks
  <2>2. t \in Pending /\ (mode \in Graded => t \notin Pending')
    BY <1>2, <1>4, <1>9, SMT DEF Pending, Holding
  <2>3. \A u \in Tasks : ~At(u, "closing")
    BY <1>2, <1>6 DEF At, Resting
  <2>4. mode \in Graded =>
            session'.count <= MaxObservations \/ \E u \in Tasks : At(u, "closing")'
    <3>1. session'.count \in Nat /\ MaxObservations \in Nat
      BY <1>5, SessionAssumption DEF Counted
    <3>2. mode \in Graded /\ ~Spent(session') => session'.count <= MaxObservations
      BY <3>1 DEF Spent
    <3> QED  BY <1>9, <3>2 DEF At
  <2> QED  BY <1>1, <1>5, <2>1, <2>2, <2>3, <2>4, CountsSpent
<1> QED  BY <1>10, <1>12, <1>13, <1>14 DEF SessionInv

-----------------------------------------------------------------------------
(* Closing: by the holder of the lock, or by the task that opened.         *)

LEMMA CloseKeeps ==
    ASSUME SessionInv, NEW t \in Tasks, Close(t)
    PROVE  SessionInv'
<1>1. Typed /\ LockHeld /\ OneStarts /\ ExpiryCloses /\ Bound /\ Fresh /\ Counts
  BY DEF SessionInv
<1> DEFINE unarmed == [task EXCEPT ![Expiry] = Idle]
           gone == [unarmed[t] EXCEPT !.pc = "releasing"]
<1>2. /\ task[t].pc = "closing" /\ ~session.closed
      /\ session' = [session EXCEPT !.closed = TRUE, !.refs = FALSE]
      /\ task' = [unarmed EXCEPT ![t] = gone]
      /\ UNCHANGED <<mode, browser, registered, lock, touched, delayed, sent, lost>>
  BY DEF Close, At
<1>3. /\ session' \in Counted /\ session'.closed /\ ~session'.refs
      /\ session'.binding = session.binding /\ session'.count = session.count
  BY <1>1, <1>2, Closes DEF Typed
<1>4. /\ unarmed \in [Tasks -> Task]
      /\ \A u \in Tasks : unarmed[u] = IF u = Expiry THEN Idle ELSE task[u]
  BY <1>1, IdleTask DEF Typed
<1>5. /\ gone \in Task /\ gone.pc = "releasing" /\ gone.kind = unarmed[t].kind
  <2>1. "releasing" \in Pcs /\ unarmed[t] \in Task  BY <1>4 DEF Pcs, Ending
  <2> HIDE DEF unarmed
  <2> QED  BY <2>1, Moves
<1> HIDE DEF gone, unarmed
<1>6. /\ task' \in [Tasks -> Task] /\ task'[t].pc = "releasing"
      /\ task'[t].kind \in {task[t].kind, None}
      /\ t # Expiry => task'[t].kind = task[t].kind
      /\ \A u \in Tasks : u # t => task'[u] = IF u = Expiry THEN Idle ELSE task[u]
  BY <1>2, <1>4, <1>5, IdleTask
<1>7. Typed'  BY <1>1, <1>2, <1>3, <1>6 DEF Typed
<1>8. None # "open"  BY SessionAssumption
<1>9. Counts'  BY <1>1, <1>2, <1>3, CountsClosed
<1>10. CASE lock = t
  <2>1. /\ browser # "none" /\ t # None /\ \A u \in Tasks : ~Opens(u)
        /\ \A u \in Tasks : u # t => task[u].pc \in Resting
        /\ session.binding \in {None, t}
    BY <1>10, HolderAlone
  <2>2. session.binding = None  BY <1>1, <1>2, <2>1, SMT DEF Bound
  <2>3. HolderKeeps(t)
    BY <1>2, <1>3, <1>6, <1>8, <1>10, <2>1, <2>2, IdleTask
    DEF HolderKeeps, Opens, Holding, Ending, Resting
  <2>4. LockHeld' /\ OneStarts' /\ ExpiryCloses' /\ Bound'  BY <2>1, <2>3, HolderStep
  <2>5. \A u \in Requests : task'[u].pc \notin {"acting", "responding"}
    BY <1>6, <2>1, IdleTask DEF Resting, Tasks
  <2>6. Fresh'  BY <1>3, <2>5 DEF Fresh
  <2> QED  BY <1>7, <1>9, <2>4, <2>6 DEF SessionInv
<1>11. CASE Opens(t)
  <2>1. /\ Alone(t) /\ t # Expiry /\ t \in Requests /\ session.binding = None
    BY <1>11, OpenerAlone
  <2>2. OpenerKeeps(t)
    BY <1>2, <1>3, <1>6, <1>8, <1>11, <2>1, IdleTask, OpenerAlone
    DEF OpenerKeeps, Alone, Opens, Ending
  <2>3. LockHeld' /\ OneStarts' /\ ExpiryCloses' /\ Bound'  BY <2>1, <2>2, OpenerStep
  <2>4. \A u \in Requests : task'[u].pc \notin {"acting", "responding"}
    BY <1>6, <2>1, IdleTask DEF Alone, Tasks
  <2>5. Fresh'  BY <1>3, <2>4 DEF Fresh
  <2> QED  BY <1>7, <1>9, <2>3, <2>5 DEF SessionInv
<1> QED  BY <1>1, <1>2, <1>10, <1>11 DEF LockHeld, Ending
\* A task leaves its handler, and the lock if it holds it.
LEMMA LeaveKeeps ==
    ASSUME SessionInv, NEW t \in Tasks, Leave(t),
           task[t].pc \notin {"idle", "armed"},
           task[t].pc = "closing" => session.closed,
           session' \in Counted, session'.closed = session.closed,
           session'.refs = session.refs, session'.count = session.count,
           session'.binding = IF session.binding = t THEN None ELSE session.binding,
           browser' \in {browser, "closed"}, registered' \in {registered, FALSE},
           touched' \in {touched, TRUE}, lost' \in BOOLEAN, delayed' \subseteq Requests,
           lock # t => touched' = touched,
           mode \in Graded /\ lock = t => ~(session.refs /\ touched'),
           UNCHANGED <<mode, sent>>
    PROVE  SessionInv'
<1>1. Typed /\ LockHeld /\ OneStarts /\ ExpiryCloses /\ Bound /\ Fresh /\ Counts
  BY DEF SessionInv
<1>2. /\ task' \in [Tasks -> Task]
      /\ \A u \in Tasks : u # t => task'[u] = task[u]
      /\ task'[t] = Idle /\ lock' \in Tasks \cup {None}
      /\ lock' = IF lock = t THEN None ELSE lock
  BY <1>1, Leaves
<1>3. None # "open" /\ None \notin Tasks  BY SessionAssumption DEF Tasks
<1>4. browser # "none"  BY <1>1, SMT DEF OneStarts, At
<1>5. Typed'
  BY <1>1, <1>2, <1>4 DEF Typed
<1>6. Counts'
  <2>1. Pending' \subseteq Pending
    BY <1>2, IdleTask, SMT DEF Pending, Holding, Tasks
  <2>2. ~session.closed => \A u \in Tasks : At(u, "closing") => At(u, "closing")'
    BY <1>2 DEF At
  <2> QED  BY <1>1, <2>1, <2>2, CountsKept
<1>7. mode \in Graded /\ session.closed /\ session.refs => touched' = touched
  BY <1>1, <1>2 DEF Fresh, Typed
<1>8. CASE lock = t
  <2>1. /\ t # None /\ \A u \in Tasks : ~Opens(u)
        /\ \A u \in Tasks : u # t => task[u].pc \in Resting
        /\ session.binding \in {None, t}
    BY <1>8, HolderAlone
  <2>2. HolderKeeps(t)
    BY <1>2, <1>3, <1>4, <1>8, <2>1, IdleTask DEF HolderKeeps, Opens, Holding
  <2>3. LockHeld' /\ OneStarts' /\ ExpiryCloses' /\ Bound'  BY <2>1, <2>2, HolderStep
  <2>4. Fresh'
    <3>1. \A u \in Requests : task'[u].pc \notin {"acting", "responding"}
      BY <1>2, <2>1, IdleTask, SMT DEF Resting, Tasks
    <3>2. \A u \in Requests : task'[u] = task[u] \/ task'[u] = Idle
      BY <1>2 DEF Tasks
    <3> QED  BY <1>1, <1>7, <1>8, <3>1, <3>2, IdleTask DEF Fresh
  <2> QED  BY <1>5, <1>6, <2>3, <2>4 DEF SessionInv
<1>9. CASE Opens(t)
  <2>1. /\ Alone(t) /\ t # Expiry /\ t \in Requests /\ session.binding = None
        /\ \A u \in Tasks : u # t => ~Opens(u)
    BY <1>9, OpenerAlone
  <2>2. OpenerKeeps(t)
    BY <1>2, <1>3, <1>4, <2>1, IdleTask DEF OpenerKeeps, Alone, Opens
  <2>3. LockHeld' /\ OneStarts' /\ ExpiryCloses' /\ Bound'  BY <2>1, <2>2, OpenerStep
  <2>4. Fresh'
    <3>1. \A u \in Requests : task'[u].pc \notin {"acting", "responding"}
      BY <1>2, <2>1, IdleTask DEF Alone, Tasks
    <3>2. ~session'.refs  BY <2>1 DEF Alone
    <3> QED  BY <3>1, <3>2 DEF Fresh
  <2> QED  BY <1>5, <1>6, <2>3, <2>4 DEF SessionInv
<1>10. CASE lock # t /\ ~Opens(t)
  <2>1. task[t].pc = "waiting"
    BY <1>1, <1>10 DEF LockHeld, OneStarts, Typed, Task, At, Holding, Ending
  <2>2. lock' = lock /\ touched' = touched /\ session'.binding = session.binding
    BY <1>1, <1>2, <1>10 DEF Bound
  <2>3. LockHeld'
    BY <1>1, <1>2, <1>3, <1>10, <2>2, IdleTask DEF LockHeld, Opens, Holding, Ending
  <2>4. \A u \in Tasks : ~Opens(u)
    <3>1. \A u \in Tasks : Opens(u) /\ u # t => task[t].pc = "idle"
      BY <1>1 DEF OneStarts, Alone
    <3> QED  BY <1>10, <2>1, <3>1
  <2>5. OneStarts'
    <3>1. \A u \in Tasks : ~Opens(u)'
      BY <1>2, <1>3, <2>4, IdleTask DEF Opens
    <3>2. \A u \in Tasks : ~At(u, "starting")'
      BY <1>1, <1>2, <2>4, IdleTask DEF OneStarts, At
    <3>3. browser' # "none"  BY <1>4
    <3> QED  BY <3>1, <3>2, <3>3 DEF OneStarts
  <2>6. ExpiryCloses'
    BY <1>1, <1>2, <1>3, IdleTask DEF ExpiryCloses, Opens, Tasks
  <2>7. Bound'
    BY <1>1, <1>2, <1>3, <1>10, <2>2 DEF Bound, Typed
  <2>8. Fresh'
    <3>1. \A u \in Requests : task'[u] = task[u] \/ task'[u] = Idle
      BY <1>2 DEF Tasks
    <3>2. lock # None => task'[lock] = task[lock]  BY <1>1, <1>2, <1>10 DEF Typed
    <3> QED  BY <1>1, <2>2, <3>1, <3>2, IdleTask DEF Fresh
  <2> QED  BY <1>5, <1>6, <2>3, <2>5, <2>6, <2>7, <2>8 DEF SessionInv
<1> QED  BY <1>8, <1>9, <1>10

LEMMA CloseAgainKeeps ==
    ASSUME SessionInv, NEW t \in Tasks, CloseAgain(t)
    PROVE  SessionInv'
<1>1. Typed /\ LockHeld /\ Bound /\ Fresh  BY DEF SessionInv
<1>2. /\ task[t].pc = "closing" /\ session.closed /\ Leave(t)
      /\ UNCHANGED <<mode, session, browser, registered, touched, delayed, sent, lost>>
  BY DEF CloseAgain, At
<1>3. session.binding # t
  BY <1>1, <1>2, SessionAssumption DEF Bound, Tasks
<1>4. mode \in Graded /\ lock = t => ~(session.refs /\ touched)  BY <1>1, <1>2 DEF Fresh
<1> QED  BY <1>1, <1>2, <1>3, <1>4, LeaveKeeps DEF Typed

LEMMA ReleaseKeeps ==
    ASSUME SessionInv, NEW t \in Tasks, Release(t)
    PROVE  SessionInv'
<1>1. Typed /\ LockHeld /\ Bound /\ Fresh  BY DEF SessionInv
<1>2. /\ task[t].pc = "releasing" /\ Leave(t)
      /\ browser' = "closed" /\ registered' = FALSE /\ delayed' = {}
      /\ UNCHANGED <<mode, session, touched, sent, lost>>
  BY DEF Release, At
<1>3. session.binding # t
  BY <1>1, <1>2, SessionAssumption DEF Bound, Tasks
<1>4. mode \in Graded /\ lock = t => ~(session.refs /\ touched)  BY <1>1, <1>2 DEF Fresh
<1>5. delayed' \subseteq Requests  BY <1>2
<1> QED  BY <1>1, <1>2, <1>3, <1>4, <1>5, LeaveKeeps DEF Typed
-----------------------------------------------------------------------------
(* Starting, receiving and cancelling.                                     *)

LEMMA OpenKeeps ==
    ASSUME SessionInv, NEW t \in Requests, Open(t)
    PROVE  SessionInv'
<1>1. Typed /\ LockHeld /\ OneStarts /\ ExpiryCloses /\ Bound /\ Fresh /\ Counts
  BY DEF SessionInv
<1> DEFINE new == [Idle EXCEPT !.pc = "starting", !.kind = "open"]
<1>2. /\ browser = "none" /\ browser' = "open" /\ task' = [task EXCEPT ![t] = new]
      /\ UNCHANGED <<mode, session, registered, lock, touched, delayed, sent, lost>>
  BY DEF Open
<1>3. new \in Task /\ new.pc = "starting" /\ new.kind = "open"  BY DEF Idle, Task
<1> HIDE DEF new
<1>4. t \in Tasks /\ None \notin Tasks /\ None # "open"
  BY SessionAssumption DEF Tasks
<1>5. /\ task' \in [Tasks -> Task] /\ task'[t].pc = "starting" /\ task'[t].kind = "open"
      /\ \A u \in Tasks : u # t => task'[u] = task[u]
  BY <1>1, <1>2, <1>3, <1>4 DEF Typed
<1>6. /\ \A u \in Tasks : task[u].pc = "idle"
      /\ ~registered /\ ~session.closed /\ ~session.refs /\ ~touched
  BY <1>1, <1>2 DEF OneStarts, At
<1>7. /\ \A u \in Tasks : ~Opens(u)
      /\ lock = None /\ session.binding = None
  BY <1>1, <1>4, <1>6 DEF OneStarts, Alone, LockHeld, Bound, Typed, Holding, Ending
<1>8. Typed'  BY <1>1, <1>2, <1>5 DEF Typed
<1>9. OpenerKeeps(t)
  BY <1>2, <1>5, <1>6, <1>7 DEF OpenerKeeps, Opens
<1>10. LockHeld' /\ OneStarts' /\ ExpiryCloses' /\ Bound'  BY <1>9, OpenerStep
<1>11. Fresh'
  <2>1. \A u \in Requests : task'[u].pc \notin {"acting", "responding"}
    BY <1>5, <1>6 DEF Tasks
  <2> QED  BY <1>2, <1>6, <2>1 DEF Fresh
<1>12. Counts'
  <2>1. Pending' \subseteq Pending
    BY <1>5, SMT DEF Pending, Holding, Tasks
  <2>2. \A u \in Tasks : ~At(u, "closing")  BY <1>6 DEF At
  <2> QED  BY <1>1, <1>2, <2>1, <2>2, CountsKept DEF Typed
<1> QED  BY <1>8, <1>10, <1>11, <1>12 DEF SessionInv

LEMMA StartKeeps ==
    ASSUME SessionInv, NEW t \in Tasks, Start(t)
    PROVE  SessionInv'
<1>1. Typed /\ LockHeld /\ OneStarts /\ ExpiryCloses /\ Bound /\ Fresh /\ Counts
  BY DEF SessionInv
<1>2. /\ task[t].pc = "starting" /\ CanBuild(Prepared(session))
      /\ Built(t, Prepared(session)) /\ registered' = TRUE
      /\ UNCHANGED <<mode, browser, delayed, sent, lost>>
  BY DEF Start, At
<1>3. Opens(t)  BY <1>1, <1>2 DEF OneStarts, At
<1>4. /\ Alone(t) /\ t # Expiry /\ t \in Requests /\ session.binding = None
      /\ \A u \in Tasks : u # t => ~Opens(u)
  BY <1>3, OpenerAlone
<1>5. /\ session' \in Counted
      /\ session'.closed = session.closed /\ session'.binding = session.binding
      /\ mode \in Graded => session'.count = session.count + 1
      /\ mode \notin Graded => session'.count = session.count
      /\ task' \in [Tasks -> Task] /\ task'[t] = Idle
      /\ \A u \in Tasks : u # t =>
            /\ task'[u].pc \in {"idle", "armed"}
            /\ task'[u].kind \in {task[u].kind, None}
      /\ \A u \in Tasks : u # t /\ u # Expiry => task'[u].pc = "idle"
      /\ lock' = None
  BY <1>1, <1>2, <1>4, Builds DEF At, Alone
<1>6. touched' = FALSE  BY <1>2 DEF Built
<1>7. Typed'  BY <1>1, <1>2, <1>5, <1>6 DEF Typed
<1>8. None # "open"  BY SessionAssumption
<1>9. OpenerKeeps(t)
  BY <1>2, <1>4, <1>5, <1>8 DEF OpenerKeeps, Alone, Opens
<1>10. LockHeld' /\ OneStarts' /\ ExpiryCloses' /\ Bound'  BY <1>4, <1>9, OpenerStep
<1>11. Fresh'
  <2>1. \A u \in Requests : u # t => task[u].pc \notin {"acting", "responding"}
    BY <1>4 DEF Alone, Tasks
  <2> QED  BY <1>1, <1>2, <2>1, BuiltFresh
<1>12. Counts'
  <2>1. ~session.closed  BY <1>1, <1>2 DEF OneStarts, At
  <2>2. \A u \in Tasks : ~At(u, "closing")
    BY <1>2, <1>4 DEF At, Alone
  <2>3. mode \in Graded => session'.count <= MaxObservations
    BY <1>1, <1>2, <1>5, BuiltWithin
  <2> QED  BY <1>1, <1>4, <1>5, <2>1, <2>2, <2>3, CountsSpent DEF Tasks
<1> QED  BY <1>7, <1>10, <1>11, <1>12 DEF SessionInv
LEMMA StartFailsKeeps ==
    ASSUME SessionInv, NEW t \in Tasks, StartFails(t)
    PROVE  SessionInv'
<1>1. Typed /\ LockHeld /\ OneStarts /\ ExpiryCloses /\ Bound /\ Fresh /\ Counts
  BY DEF SessionInv
<1>2. /\ task[t].pc = "starting" /\ Unbuilt(Prepared(session)) /\ Goto(t, "closing")
      /\ UNCHANGED <<mode, browser, registered, lock, delayed, sent, lost>>
  BY DEF StartFails, At
<1>3. Opens(t) /\ ~session.closed  BY <1>1, <1>2 DEF OneStarts, At
<1>4. /\ Alone(t) /\ t # Expiry /\ t \in Requests /\ session.binding = None
      /\ \A u \in Tasks : u # t => ~Opens(u)
  BY <1>3, OpenerAlone
<1>5. /\ session' \in Counted
      /\ session'.closed = session.closed /\ session'.binding = session.binding
      /\ mode \in Graded => session'.count = session.count + 1
      /\ mode \notin Graded => session'.count = session.count
      /\ session'.refs => session.refs
      /\ touched' = touched
  BY <1>1, <1>2, Unbuilds
<1>6. "closing" \in Pcs  BY DEF Pcs, Ending
<1>7. /\ task' \in [Tasks -> Task] /\ task'[t].pc = "closing"
      /\ task'[t].kind = task[t].kind
      /\ \A u \in Tasks : u # t => task'[u] = task[u]
  BY <1>1, <1>2, <1>6, Goes
<1>8. Typed'  BY <1>1, <1>2, <1>5, <1>7 DEF Typed
<1>9. OpenerKeeps(t)
  BY <1>2, <1>3, <1>4, <1>5, <1>7 DEF OpenerKeeps, Alone, Opens, Ending
<1>10. LockHeld' /\ OneStarts' /\ ExpiryCloses' /\ Bound'  BY <1>4, <1>9, OpenerStep
<1>11. Fresh'
  <2>1. \A u \in Requests : task'[u].pc \notin {"acting", "responding"}
    BY <1>4, <1>7 DEF Alone, Tasks
  <2>2. ~session'.refs  BY <1>4, <1>5 DEF Alone
  <2> QED  BY <2>1, <2>2 DEF Fresh
<1>12. Counts'
  <2>1. \A u \in Tasks : ~At(u, "closing")
    BY <1>2, <1>4 DEF At, Alone
  <2>2. \E u \in Tasks : At(u, "closing")'  BY <1>7 DEF At
  <2> QED  BY <1>1, <1>3, <1>5, <2>1, <2>2, CountsSpent
<1> QED  BY <1>8, <1>10, <1>11, <1>12 DEF SessionInv

\* Outside the lock, a task is received, or goes.
LEMMA RestKeeps ==
    ASSUME SessionInv, NEW t \in Tasks, browser # "none", \A u \in Tasks : ~Opens(u),
           task' \in [Tasks -> Task], \A u \in Tasks : u # t => task'[u] = task[u],
           task[t].pc \in Resting, task'[t].pc \in Resting, task'[t].kind # "open",
           t \in Requests /\ session.closed => task'[t].kind = "close",
           UNCHANGED <<mode, session, browser, registered, lock, touched, delayed, sent, lost>>
    PROVE  SessionInv'
<1>1. Typed /\ LockHeld /\ OneStarts /\ ExpiryCloses /\ Bound /\ Fresh /\ Counts
  BY DEF SessionInv
<1>2. None \notin Tasks  BY SessionAssumption DEF Tasks
<1>3. Typed'  BY <1>1 DEF Typed
<1>4. LockHeld'  BY <1>1 DEF LockHeld, Opens, Holding, Ending, Resting
<1>5. OneStarts'  BY <1>1 DEF OneStarts, Opens, At, Resting
<1>6. ExpiryCloses'
  <2>1. Expiry \in Tasks  BY DEF Tasks
  <2>2. task'[Expiry] = task[Expiry] \/ Expiry = t  BY <2>1
  <2> QED  BY <1>1, <2>1, <2>2 DEF ExpiryCloses, Opens, Resting
<1>7. Bound'  BY <1>1, <1>2 DEF Bound, Resting, Typed
<1>8. Fresh'
  <2>1. lock # None => task'[lock] = task[lock]
    BY <1>1 DEF LockHeld, Typed, Holding, Ending, Resting
  <2>2. \A u \in Requests : u # t => task'[u] = task[u]  BY DEF Tasks
  <2> QED  BY <1>1, <2>1, <2>2 DEF Fresh, Resting
<1>9. Counts'
  <2>1. session.closed => Pending' \subseteq Pending
    BY SMT DEF Pending, Holding, Resting, Tasks
  <2>2. \A u \in Tasks : At(u, "closing") => At(u, "closing")'
    BY DEF At, Resting
  <2> QED  BY <1>1, <1>3, <2>1, <2>2, CountsKept DEF Typed
<1> QED  BY <1>3, <1>4, <1>5, <1>6, <1>7, <1>8, <1>9 DEF SessionInv

LEMMA ReceiveKeeps ==
    ASSUME SessionInv, NEW t \in Requests, Receive(t)
    PROVE  SessionInv'
<1>1. Typed /\ OneStarts  BY DEF SessionInv
<1>2. PICK kind \in Kinds \cup {"observe", "close"}, current \in BOOLEAN :
          /\ kind # "close" => ~session.closed
          /\ task' = [task EXCEPT ![t] = [Idle EXCEPT !.pc = "waiting", !.kind = kind,
                                                      !.current = current]]
  BY DEF Receive
<1>3. /\ task[t].pc = "idle" /\ registered
      /\ UNCHANGED <<mode, session, browser, registered, lock, touched, delayed, sent, lost>>
  BY DEF Receive, At
<1> DEFINE new == [Idle EXCEPT !.pc = "waiting", !.kind = kind, !.current = current]
<1>4. new \in Task /\ new.pc = "waiting" /\ new.kind = kind
  BY DEF Idle, Task
<1>5. task' = [task EXCEPT ![t] = new]  BY <1>2
<1> HIDE DEF new
<1>6. /\ task' \in [Tasks -> Task] /\ task'[t] = new /\ t \in Tasks
      /\ \A u \in Tasks : u # t => task'[u] = task[u]
  BY <1>1, <1>4, <1>5 DEF Typed, Tasks
<1>7. browser # "none" /\ \A u \in Tasks : ~Opens(u)
  BY <1>1, <1>3 DEF OneStarts, Alone
<1>8. kind # "open"  BY DEF Kinds
<1> QED  BY <1>2, <1>3, <1>4, <1>6, <1>7, <1>8, RestKeeps DEF Resting

LEMMA ElapseKeeps ==
    ASSUME SessionInv, Elapse
    PROVE  SessionInv'
<1>1. Typed /\ OneStarts /\ ExpiryCloses  BY DEF SessionInv
<1>2. Expiry \in Tasks /\ Expiry \notin Requests  BY SessionAssumption DEF Tasks
<1>3. PICK pc \in {"waiting", "idle"} : Goto(Expiry, pc)  BY DEF Elapse
<1>4. /\ task[Expiry].pc = "armed"
      /\ UNCHANGED <<mode, session, browser, registered, lock, touched, delayed, sent, lost>>
  BY DEF Elapse, At
<1>5. pc \in Pcs /\ pc \in Resting  BY DEF Pcs, Resting
<1>6. /\ task' \in [Tasks -> Task]
      /\ \A u \in Tasks : u # Expiry => task'[u] = task[u]
      /\ task'[Expiry].pc = pc /\ task'[Expiry].kind = task[Expiry].kind
  BY <1>1, <1>2, <1>3, <1>5, Goes
<1>7. browser # "none" /\ \A u \in Tasks : ~Opens(u)
  BY <1>1, <1>2, <1>4, SMT DEF OneStarts, Alone, At, ExpiryCloses
<1> QED  BY <1>1, <1>2, <1>4, <1>5, <1>6, <1>7, RestKeeps DEF ExpiryCloses, Opens, Resting

LEMMA RequestMutationKeeps ==
    ASSUME SessionInv, NEW t \in Requests, RequestMutation(t)
    PROVE  SessionInv'
<1>1. /\ delayed' = delayed \ {t}
      /\ sent' = sent \cup {[click |-> t, header |-> session.binding]}
      /\ UNCHANGED <<mode, session, browser, registered, lock, task, touched, lost>>
  BY DEF RequestMutation
<1>2. session.binding \in Requests \cup {None}  BY DEF SessionInv, Typed, Counted
<1>3. Typed'  BY <1>1, <1>2 DEF SessionInv, Typed
<1>4. LockHeld' /\ OneStarts' /\ ExpiryCloses' /\ Bound'
  BY <1>1 DEF SessionInv, LockHeld, OneStarts, Alone, ExpiryCloses, Bound, Opens, At
<1>5. Fresh' /\ Counts'
  BY <1>1 DEF SessionInv, Fresh, Counts, Pending, At
<1> QED  BY <1>3, <1>4, <1>5 DEF SessionInv
LEMMA CancelKeeps ==
    ASSUME SessionInv, NEW t \in Requests, Cancel(t)
    PROVE  SessionInv'
<1>1. Typed /\ LockHeld /\ OneStarts /\ ExpiryCloses /\ Bound /\ Fresh /\ Counts
  BY DEF SessionInv
<1>2. /\ task[t].pc \in {"starting", "waiting", "acting", "responding", "observing",
                         "releasing"}
      /\ session' = IF session.binding = t THEN Unbound ELSE session
      /\ touched' = touched \/ (At(t, "acting") /\ touched' = TRUE)
      /\ UNCHANGED <<mode, browser, registered, delayed, sent>>
  BY DEF Cancel
<1>3. t \in Tasks /\ None \notin Tasks /\ t # Expiry  BY SessionAssumption DEF Tasks
<1>4. /\ session' \in Counted /\ session'.closed = session.closed
      /\ session'.refs = session.refs /\ session'.count = session.count
      /\ session'.binding = IF session.binding = t THEN None ELSE session.binding
  BY <1>1, <1>2, Binds DEF Typed, Unbound
<1>5. touched' \in {touched, TRUE} /\ (lock # t => touched' = touched)
  BY <1>1, <1>2, <1>3 DEF LockHeld, At, Holding
<1>6. CASE Leave(t) /\ ~(mode \in Graded /\ task[t].pc \notin {"waiting", "releasing"})
  <2>1. lost' \in BOOLEAN
    BY <1>1, <1>6 DEF Cancel, ClosesOnCancel, Typed, Loses, At
  <2>2. mode \in Graded /\ lock = t => ~(session.refs /\ touched')
    BY <1>1, <1>2, <1>6 DEF Fresh, LockHeld, At, Holding, Ending, Typed
  <2>3. delayed' \subseteq Requests  BY <1>1, <1>2 DEF Typed
  <2>4. task[t].pc \notin {"idle", "armed", "closing"}  BY <1>2
  <2> HIDE DEF Cancel
  <2> QED  BY <1>2, <1>3, <1>4, <1>5, <1>6, <2>1, <2>2, <2>3, <2>4, LeaveKeeps
<1>7. CASE /\ Goto(t, "closing") /\ UNCHANGED <<lock, lost>>
           /\ task[t].pc \in {"starting", "acting", "responding", "observing"}
  <2>1. "closing" \in Pcs  BY DEF Pcs, Ending
  <2>2. /\ task' \in [Tasks -> Task] /\ task'[t].pc = "closing"
        /\ task'[t].kind = task[t].kind
        /\ \A u \in Tasks : u # t => task'[u] = task[u]
    BY <1>1, <1>3, <1>7, <2>1, Goes
  <2>3. Typed'  BY <1>1, <1>2, <1>4, <1>5, <1>7, <2>2 DEF Typed
  <2>4. Counts'
    <3>1. Pending' \subseteq Pending
      BY <2>2, SMT DEF Pending, Holding, Tasks
    <3>2. \A u \in Tasks : At(u, "closing") => At(u, "closing")'
      BY <2>2 DEF At
    <3> QED  BY <1>1, <1>4, <3>1, <3>2, CountsKept
  <2>5. CASE lock = t
    <3>1. /\ browser # "none" /\ \A u \in Tasks : ~Opens(u)
          /\ \A u \in Tasks : u # t => task[u].pc \in Resting
          /\ session.binding \in {None, t}
      BY <1>3, <2>5, HolderAlone
    <3>2. HolderKeeps(t)
      BY <1>2, <1>3, <1>4, <1>7, <2>2, <2>5, <3>1 DEF HolderKeeps, Opens, Ending
    <3>3. LockHeld' /\ OneStarts' /\ ExpiryCloses' /\ Bound'
      BY <1>3, <3>2, HolderStep
    <3>4. Fresh'
      <4>1. \A u \in Requests : task'[u].pc \notin {"acting", "responding"}
        BY <2>2, <3>1, SMT DEF Resting, Tasks
      <4>2. mode \in Graded /\ session.closed /\ session.refs => ~touched'
        BY <1>1, <1>2 DEF Fresh, At
      <4>3. \A u \in Requests : u # t => task'[u] = task[u]  BY <2>2 DEF Tasks
      <4> QED  BY <1>1, <1>2, <1>3, <1>4, <1>7, <2>2, <2>5, <4>1, <4>2, <4>3 DEF Fresh
    <3> QED  BY <2>3, <2>4, <3>3, <3>4 DEF SessionInv
  <2>6. CASE lock # t
    <3>1. task[t].pc = "starting"  BY <1>1, <1>3, <1>7, <2>6 DEF LockHeld, Holding
    <3>2. Opens(t)  BY <1>1, <1>3, <3>1 DEF OneStarts, At
    <3>3. /\ Alone(t) /\ session.binding = None
          /\ \A u \in Tasks : u # t => ~Opens(u)
      BY <1>3, <3>2, OpenerAlone
    <3>4. OpenerKeeps(t)
      BY <1>2, <1>4, <1>5, <1>7, <2>2, <2>6, <3>2, <3>3
      DEF OpenerKeeps, Alone, Opens, Ending
    <3>5. LockHeld' /\ OneStarts' /\ ExpiryCloses' /\ Bound'  BY <3>4, OpenerStep
    <3>6. Fresh'
      <4>1. \A u \in Requests : task'[u].pc \notin {"acting", "responding"}
        BY <2>2, <3>3 DEF Alone, Tasks
      <4>2. ~session'.refs  BY <1>4, <3>3 DEF Alone
      <4> QED  BY <4>1, <4>2 DEF Fresh
    <3> QED  BY <2>3, <2>4, <3>5, <3>6 DEF SessionInv
  <2> QED  BY <2>5, <2>6
<1> QED  BY <1>2, <1>6, <1>7 DEF Cancel, ClosesOnCancel

-----------------------------------------------------------------------------
(* The theorems.                                                           *)

LEMMA StepKeeps ==
    ASSUME SessionInv, NEW t \in Tasks, Step(t)
    PROVE  SessionInv'
<1>1. CASE Acquire(t)  BY <1>1, AcquireKeeps
<1>2. CASE Exhaust(t)  BY <1>2, ExhaustKeeps
<1>3. CASE Admit(t)  BY <1>3, AdmitKeeps
<1>4. CASE Act(t)  BY <1>4, ActKeeps
<1>5. CASE ActFails(t) \/ Respond(t) \/ RespondTimesOut(t)  BY <1>5, DispatchEnds
<1>6. CASE Answer(t)  BY <1>6, AnswerKeeps
<1>7. CASE AnswerFails(t)  BY <1>7, AnswerFailsKeeps
<1>8. CASE Start(t)  BY <1>8, StartKeeps
<1>9. CASE StartFails(t)  BY <1>9, StartFailsKeeps
<1>10. CASE Close(t)  BY <1>10, CloseKeeps
<1>11. CASE CloseAgain(t)  BY <1>11, CloseAgainKeeps
<1>12. CASE Release(t)  BY <1>12, ReleaseKeeps
<1> QED
  BY <1>1, <1>2, <1>3, <1>4, <1>5, <1>6, <1>7, <1>8, <1>9, <1>10, <1>11, <1>12 DEF Step

LEMMA NextKeeps == SessionInv /\ [Next]_vars => SessionInv'
<1> SUFFICES ASSUME SessionInv, [Next]_vars  PROVE SessionInv'  OBVIOUS
<1>1. CASE Elapse  BY <1>1, ElapseKeeps
<1>2. ASSUME NEW t \in Requests, Open(t)  PROVE SessionInv'  BY <1>2, OpenKeeps
<1>3. ASSUME NEW t \in Requests, Receive(t)  PROVE SessionInv'  BY <1>3, ReceiveKeeps
<1>4. ASSUME NEW t \in Requests, RequestMutation(t)  PROVE SessionInv'
  BY <1>4, RequestMutationKeeps
<1>5. ASSUME NEW t \in Requests, Cancel(t)  PROVE SessionInv'  BY <1>5, CancelKeeps
<1>6. ASSUME NEW t \in Tasks, Step(t)  PROVE SessionInv'  BY <1>6, StepKeeps
<1>7. CASE UNCHANGED vars
  <2>1. Typed' /\ LockHeld' /\ ExpiryCloses' /\ Bound'
    BY <1>7 DEF vars, SessionInv, Typed, LockHeld, ExpiryCloses, Bound, Opens
  <2>2. OneStarts'  BY <1>7 DEF vars, SessionInv, OneStarts, Alone, Opens, At
  <2>3. Fresh' /\ Counts'  BY <1>7 DEF vars, SessionInv, Fresh, Counts, Pending, At
  <2> QED  BY <2>1, <2>2, <2>3 DEF SessionInv
<1> QED  BY <1>1, <1>2, <1>3, <1>4, <1>5, <1>6, <1>7 DEF Next

LEMMA InitHolds == Init => SessionInv
<1> SUFFICES ASSUME Init  PROVE SessionInv  OBVIOUS
<1>1. /\ \A t \in Tasks : task[t] = Idle
      /\ task \in [Tasks -> Task]
  BY IdleTask DEF Init
<1>2. /\ mode \in Modes /\ browser = "none" /\ registered = FALSE /\ lock = None
      /\ touched = FALSE /\ delayed = {} /\ sent = {} /\ lost = FALSE
      /\ session = [closed |-> FALSE, binding |-> None, refs |-> FALSE,
                    actions |-> 0, count |-> 0]
  BY DEF Init
<1>3. session \in Counted /\ ~session.closed /\ session.binding = None /\ ~session.refs
      /\ session.count = 0
  <2>1. 0 \in 0..MaxActions  BY SessionAssumption
  <2> QED  BY <1>2, <2>1 DEF Counted
<1>4. None \notin Tasks /\ None # "open" /\ Expiry \in Tasks
  BY SessionAssumption DEF Tasks
<1>5. Typed  BY <1>1, <1>2, <1>3 DEF Typed
<1>6. LockHeld  BY <1>1, <1>2, <1>4, IdleTask DEF LockHeld, Holding, Ending
<1>7. OneStarts  BY <1>1, <1>2, <1>3, <1>4, IdleTask DEF OneStarts, Opens, At
<1>8. ExpiryCloses  BY <1>1, <1>4, IdleTask DEF ExpiryCloses, Opens
<1>9. Bound  BY <1>3 DEF Bound
<1>10. Fresh  BY <1>1, <1>3, IdleTask DEF Fresh, Tasks
<1>11. Counts  BY <1>3, SessionAssumption DEF Counts
<1> QED  BY <1>5, <1>6, <1>7, <1>8, <1>9, <1>10, <1>11 DEF SessionInv

\* Whichever requests of a session wait, raise or are cancelled, the holder of its
\* lock, its binding, its references and its counts agree (session.lock,
\* _invalidate_hybrid_references, _refresh_hybrid_observation).
THEOREM SessionInvariant == Spec => []SessionInv
BY InitHolds, NextKeeps, PTL DEF Spec

\* The states of a session are those the code has names for, and it makes at most
\* one observation more than max_hybrid_observations for each of its requests, and
\* one for the action that exhausts the limit (_refresh_hybrid_observation).
THEOREM BrowserTypeCorrect == Spec => []TypeOK
<1>1. SessionInv => TypeOK
  <2> SUFFICES ASSUME SessionInv  PROVE TypeOK  OBVIOUS
  <2>1. Typed /\ Counts  BY DEF SessionInv
  <2>2. session.count \in 0..(MaxObservations + 1 + Cardinality(Requests))
    BY <2>1, CountBounded
  <2>3. session \in Session
    <3>1. session \in Counted  BY <2>1 DEF Typed
    <3> QED  BY <2>2, <3>1 DEF Session, Counted
  <2> QED  BY <2>1, <2>3 DEF Typed, TypeOK
<1> QED  BY <1>1, SessionInvariant, PTL

\* Nothing but _close_session closes a session.
LEMMA OnlyCloseCloses ==
    ASSUME SessionInv, [Next]_vars, session'.closed # session.closed
    PROVE  \E t \in Tasks : Close(t)
<1>1. Typed  BY DEF SessionInv
<1>2. CASE Elapse  BY <1>2 DEF Elapse
<1>3. ASSUME NEW t \in Requests, Open(t) \/ Receive(t) \/ RequestMutation(t)  PROVE FALSE
  BY <1>3 DEF Open, Receive, RequestMutation
<1>4. ASSUME NEW t \in Requests, Cancel(t)  PROVE FALSE
  <2>1. session \in Counted /\ None \in Requests \cup {None}  BY <1>1 DEF Typed
  <2>2. session' = Unbound \/ session' = session  BY <1>4 DEF Cancel
  <2>3. [session EXCEPT !.binding = None].closed = session.closed  BY <2>1, Binds
  <2>4. Unbound.closed = session.closed  BY <2>3 DEF Unbound
  <2> QED  BY <2>2, <2>4
<1>5. ASSUME NEW t \in Tasks, Step(t), ~Close(t)  PROVE FALSE
  <2>1. CASE \/ Acquire(t) \/ Exhaust(t) \/ CloseAgain(t) \/ Release(t)
    BY <2>1 DEF Acquire, Exhaust, CloseAgain, Release
  <2>2. CASE Admit(t)
    <3> DEFINE binding == IF Current(t) /\ task[t].kind = "mutation" /\ Resolves(t)
                          THEN t ELSE session.binding
    <3>1. /\ session' = [session EXCEPT !.actions = @ + 1, !.binding = binding]
          /\ session.actions < MaxActions /\ task[t].pc = "admitted"
      BY <2>2 DEF Admit, HasBudget, At
    <3>2. t \in Requests  BY <3>1 DEF SessionInv, ExpiryCloses, Ending, Tasks
    <3>3. binding \in Requests \cup {None} /\ session \in Counted /\ MaxActions \in Nat
      BY <1>1, <3>2, SessionAssumption DEF Typed, Counted
    <3> HIDE DEF binding
    <3> QED  BY <3>1, <3>3, Spends
  <2>3. CASE \E ok \in BOOLEAN : Observe(t, ok)
    BY <1>1, <2>3, Observes
  <2>4. CASE session' = session  BY <2>4
  <2>5. CASE Built(t, Prepared(session))  BY <1>1, <2>5, Builds
  <2>6. CASE Unbuilt(Prepared(session))  BY <1>1, <2>6, Unbuilds
  <2>7. Act(t) \/ ActFails(t) \/ Respond(t) \/ RespondTimesOut(t) =>
            session' = session \/ \E ok \in BOOLEAN : Observe(t, ok)
    BY DEF Act, ActFails, Respond, RespondTimesOut
  <2>8. Answer(t) \/ Start(t) => Built(t, Prepared(session))  BY DEF Answer, Start
  <2>9. AnswerFails(t) \/ StartFails(t) => Unbuilt(Prepared(session))
    BY DEF AnswerFails, StartFails
  <2> QED  BY <1>5, <2>1, <2>2, <2>3, <2>4, <2>5, <2>6, <2>7, <2>8, <2>9 DEF Step
<1>6. CASE UNCHANGED vars  BY <1>6 DEF vars
<1> QED  BY <1>2, <1>3, <1>4, <1>5, <1>6 DEF Next

\* While a request acts on the page or observes it nothing else begins to close the
\* session, and the binding is that of the click in progress, for any number of
\* requests (session.lock, _close_session, session.binding).
THEOREM ActionAlwaysOwnsSession == Spec => ActionOwnsSession
<1> DEFINE Owns ==
      /\ session'.closed # session.closed =>
            \A t \in Requests : task[t].pc \notin {"acting", "responding", "observing"}
      /\ session'.binding # None =>
            /\ lock' = session'.binding
            /\ task'[session'.binding].pc \in {"acting", "responding"}
<1>1. SessionInv /\ SessionInv' /\ [Next]_vars => [Owns]_vars
  <2> SUFFICES ASSUME SessionInv, SessionInv', [Next]_vars  PROVE Owns  OBVIOUS
  <2>1. ASSUME session'.closed # session.closed, NEW t \in Requests,
               task[t].pc \in {"acting", "responding", "observing"}
        PROVE  FALSE
    <3>1. PICK u \in Tasks : Close(u)  BY <2>1, OnlyCloseCloses
    <3>2. task[u].pc = "closing"  BY <3>1 DEF Close, At
    <3>3. t \in Tasks /\ lock = t
      BY <2>1 DEF SessionInv, LockHeld, Holding, Tasks
    <3>4. u # t /\ task[u].pc \in Resting  BY <2>1, <3>2, <3>3, HolderAlone
    <3> QED  BY <3>2, <3>4 DEF Resting
  <2>2. Bound'  BY DEF SessionInv
  <2> QED  BY <2>1, <2>2 DEF Bound
<1> QED  BY <1>1, SessionInvariant, PTL DEF Spec, ActionOwnsSession

\* A request that is admitted reaches the page through Admit only.
LEMMA OnlyAdmitActs ==
    ASSUME SessionInv, [Next]_vars, NEW t \in Requests,
           task[t].pc = "admitted", task'[t].pc = "acting"
    PROVE  Admit(t)
<1>1. Typed /\ t \in Tasks /\ t # Expiry  BY SessionAssumption DEF SessionInv, Tasks
<1>2. lock = t  BY <1>1 DEF SessionInv, LockHeld, Holding
<1>3. /\ browser # "none" /\ t # None
      /\ \A u \in Tasks : u # t => task[u].pc \in Resting
  BY <1>1, <1>2, HolderAlone
<1>4. ASSUME NEW u \in Tasks, u # t, Goto(u, "waiting") \/ Goto(u, "idle")
                                     \/ Goto(u, "closing") \/ Leave(u)
      PROVE  FALSE
  BY <1>1, <1>4 DEF Goto, Leave, Typed
<1>5. CASE Elapse  BY <1>1, <1>4, <1>5 DEF Elapse, Tasks
<1>6. ASSUME NEW u \in Requests, Open(u)  PROVE FALSE  BY <1>3, <1>6 DEF Open
<1>7. ASSUME NEW u \in Requests, Receive(u)  PROVE FALSE
  <2>1. u # t /\ task'[t] = task[t]  BY <1>1, <1>7 DEF Receive, At, Typed
  <2> QED  BY <2>1
<1>8. ASSUME NEW u \in Requests, RequestMutation(u)  PROVE FALSE
  BY <1>8 DEF RequestMutation
<1>9. ASSUME NEW u \in Requests, Cancel(u)  PROVE FALSE
  <2>1. u # t /\ u \in Tasks  BY <1>9 DEF Cancel, Tasks
  <2> QED  BY <1>4, <1>9, <2>1 DEF Cancel
<1>10. ASSUME NEW u \in Tasks, Step(u), ~Admit(t)  PROVE FALSE
  <2>1. CASE u # t
    <3>1. task[u].pc \in Resting /\ lock # None  BY <1>2, <1>3, <2>1
    <3> QED
      BY <1>10, <3>1 DEF Step, Acquire, LockFree, Exhaust, Admit, Act, ActFails, Respond,
         RespondTimesOut, Answer, AnswerFails, Start, StartFails, Close, CloseAgain, Release,
         At, Resting
  <2>2. CASE u = t
    <3>1. Exhaust(t)
      BY <1>10, <2>2 DEF Step, Acquire, Act, ActFails, Respond, RespondTimesOut, Answer,
         AnswerFails, Start, StartFails, Close, CloseAgain, Release, At
    <3> QED  BY <1>1, <3>1 DEF Exhaust, Goto, Typed
  <2> QED  BY <2>1, <2>2
<1>11. CASE UNCHANGED vars  BY <1>11 DEF vars
<1> QED  BY <1>5, <1>6, <1>7, <1>8, <1>9, <1>10, <1>11 DEF Next

\* In a hybrid or recovery session an element action never reaches the page through
\* references that are older than what reached it, for any number of requests
\* (_invalidate_hybrid_references before each observation).
THEOREM ReferencesAlwaysFresh == Spec => HybridReferencesAreFresh
<1> DEFINE Holds == \A t \in Requests : mode \in Graded => ~ActsOnStale(t)
<1>1. SessionInv /\ [Next]_vars => [Holds]_vars
  <2> SUFFICES ASSUME SessionInv, [Next]_vars, NEW t \in Requests, mode \in Graded,
                      ActsOnStale(t)
               PROVE  FALSE
    OBVIOUS
  <2>1. /\ task[t].pc = "admitted" /\ task'[t].pc = "acting"
        /\ NamesElement(t) /\ touched
    BY DEF ActsOnStale, At
  <2>2. Admit(t)  BY <2>1, OnlyAdmitActs
  <2>3. t \in Tasks /\ Typed  BY DEF SessionInv, Tasks
  <2>4. ~Resolves(t) => task'[t].pc \in {"observing", "closing"}
    <3> DEFINE next == IF ~Current(t) THEN "observing"
                       ELSE IF task[t].kind = "end" THEN "closing"
                       ELSE IF NamesElement(t) /\ ~Resolves(t) THEN "observing"
                       ELSE "acting"
               moved == [task[t] EXCEPT !.pc = next]
               caught == mode \in Graded /\ Current(t) /\ next = "observing"
               done == [moved EXCEPT !.caught = caught]
    <3>1. task' = [task EXCEPT ![t] = done]  BY <2>2, <2>3 DEF Admit, Typed
    <3>2. ~Resolves(t) => next \in {"observing", "closing"}  BY <2>1
    <3>3. next \in Pcs /\ caught \in BOOLEAN  BY DEF Pcs, Holding, Ending
    <3>4. moved \in Task /\ moved.pc = next
      <4> HIDE DEF next
      <4>1. task[t] \in Task  BY <2>3 DEF Typed
      <4> QED  BY <3>3, <4>1, Moves
    <3>5. done.pc = next
      <4> HIDE DEF moved, caught
      <4> QED  BY <3>3, <3>4, Catches
    <3> HIDE DEF done, next
    <3> QED  BY <2>3, <3>1, <3>2, <3>5 DEF Typed
  <2>5. session.refs  BY <2>1, <2>4 DEF Resolves
  <2>6. lock = t  BY <2>1, <2>3 DEF SessionInv, LockHeld, Holding
  <2>7. task[lock].pc \in {"responding", "observing", "closing"}
    BY <2>1, <2>5 DEF SessionInv, Fresh
  <2> QED  BY <2>1, <2>6, <2>7
<1> QED  BY <1>1, SessionInvariant, PTL DEF Spec, HybridReferencesAreFresh

=============================================================================
