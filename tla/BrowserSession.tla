--------------------------- MODULE BrowserSession ---------------------------
(***************************************************************************)
(* A session of the Browser Worker: one isolated browser, driven by        *)
(* requests that wait for its lock, closed by them, by a close request or  *)
(* by its expiry task, and observed after every action.                    *)
(*                                                                         *)
(* A coroutine runs from one await to the next in one step.  Where it      *)
(* waits (for the lock, the page, an observation, the closing of the       *)
(* browser) other requests run, and its own task may be cancelled.         *)
(*                                                                         *)
(* Abstractions.  An action is "element" (click, fill, select, read,       *)
(* scroll), "mutation" (a recovery click with idempotency metadata),       *)
(* "page" (navigate, wait) or "end" (finish, fail).  Of the observation it *)
(* names, by nonce, screenshot or generation, a request keeps whether that *)
(* is the latest one that was built.  Sessions share nothing, so there is  *)
(* one; its mode is any of the four.                                       *)
(***************************************************************************)
EXTENDS Integers, FiniteSets

CONSTANTS
    Modes,             \* of the session: a subset of AllModes
    Requests,          \* requests worked on at the same time
    Expiry,            \* the expiry task
    MaxActions,        \* max_actions
    MaxObservations,   \* max_hybrid_observations
    Cancellable,       \* fault: whether tasks are cancelled
    None               \* null value

AllModes == {"dom", "vision", "hybrid", "recovery"}
Kinds == {"element", "mutation", "page", "end"}

ASSUME SessionAssumption ==
    /\ Modes \subseteq AllModes /\ IsFiniteSet(Requests) /\ Expiry \notin Requests
    /\ None \notin Requests \cup {Expiry} \cup Kinds \cup {"open", "observe", "close"}
    /\ MaxActions \in Nat \ {0} /\ MaxObservations \in Nat \ {0}
    /\ Cancellable \in BOOLEAN

VARIABLES
    mode,        \* BrowserSession.mode
    session,     \* the fields of BrowserSession that change
    browser,     \* the handles: "none", "open", "closed"
    registered,  \* whether the session is in _sessions
    lock,        \* holder of session.lock
    task,        \* what each request and the expiry task are at
    touched,     \* history: an action has reached the page since the references
                 \* of the session were built
    delayed,     \* page: clicks whose mutation the page has yet to request
    sent,        \* history: mutation requests of the page, with their header
    lost         \* history: a task was cancelled where nothing closes the browser

vars == <<mode, session, browser, registered, lock, task, touched,
          delayed, sent, lost>>

Tasks == Requests \cup {Expiry}
Graded == {"hybrid", "recovery"}       \* modes with a generation per observation

Idle == [pc |-> "idle", kind |-> None, current |-> FALSE, caught |-> FALSE]

Task == [pc : {"idle", "starting", "waiting", "admitted", "acting", "responding",
               "observing", "closing", "releasing", "armed"},
         kind : Kinds \cup {"open", "observe", "close", None},
         current : BOOLEAN,       \* the observation it names is the latest
         caught : BOOLEAN]        \* an exception of the observation is caught

Session == [closed : BOOLEAN, binding : Requests \cup {None},
            refs : BOOLEAN,       \* it holds the references of the latest observation
            actions : 0..MaxActions, count : 0..MaxObservations + 1 + Cardinality(Requests)]

TypeOK ==
    /\ mode \in Modes /\ session \in Session
    /\ browser \in {"none", "open", "closed"} /\ registered \in BOOLEAN
    /\ lock \in Tasks \cup {None} /\ task \in [Tasks -> Task]
    /\ touched \in BOOLEAN /\ lost \in BOOLEAN
    /\ delayed \subseteq Requests
    /\ sent \subseteq [click : Requests, header : Requests \cup {None}]

Init ==
    /\ mode \in Modes
    /\ session = [closed |-> FALSE, binding |-> None, refs |-> FALSE, actions |-> 0, count |-> 0]
    /\ browser = "none" /\ registered = FALSE /\ lock = None
    /\ task = [t \in Tasks |-> Idle]
    /\ touched = FALSE /\ delayed = {} /\ sent = {} /\ lost = FALSE

At(t, pc) == task[t].pc = pc
Goto(t, pc) == task' = [task EXCEPT ![t].pc = pc]

\* Leaving the handler, and with it the lock if it is held.
Leave(t) == task' = [task EXCEPT ![t] = Idle] /\ lock' = IF lock = t THEN None ELSE lock

-----------------------------------------------------------------------------
(* Observations.                                                           *)

\* _invalidate_hybrid_references
InvalidatedNot(s) == s
Invalidated(s) == [s EXCEPT !.refs = FALSE]

\* What an observation leaves in the session before it is built: a hybrid one is
\* counted and the references are gone, a vision one forgets them after its
\* preflight, a DOM one keeps them.
Prepared(s) ==
    IF mode \in Graded THEN [Invalidated(s) EXCEPT !.count = @ + 1] ELSE s

\* max_hybrid_observations
Spent(s) == mode \in Graded /\ s.count > MaxObservations

\* The expiry task, which _register_session starts.
ArmedNot == Idle
Armed == [Idle EXCEPT !.pc = "armed"]

\* The observation is built for a task that then leaves: the session holds its
\* references, and what other requests name is out of date.
Built(t, s) ==
    /\ session' = [s EXCEPT !.refs = TRUE] /\ touched' = FALSE
    /\ task' = [u \in Tasks |->
            IF u = t THEN Idle
            ELSE IF u = Expiry /\ At(t, "starting") THEN Armed
            ELSE [task[u] EXCEPT !.current = FALSE]]
    /\ lock' = IF lock = t THEN None ELSE lock

\* It is not: Playwright raised, or the security guard stopped at its content.
Unbuilt(s) ==
    /\ \/ session' = s
       \/ mode = "vision" /\ session' = [s EXCEPT !.refs = FALSE]
    /\ UNCHANGED touched

\* A page that is closed cannot be observed.
CanBuild(s) == browser = "open" /\ ~Spent(s)

-----------------------------------------------------------------------------
(* Starting a session.                                                     *)

\* _open_session, which closes what it opened when it fails or is cancelled.
Open(t) ==
    /\ At(t, "idle") /\ browser = "none"
    /\ browser' = "open"
    /\ task' = [task EXCEPT ![t] = [Idle EXCEPT !.pc = "starting", !.kind = "open"]]
    /\ UNCHANGED <<mode, session, registered, lock, touched, delayed, sent, lost>>

\* The first observation and _register_session, with the expiry task.
Start(t) ==
    LET s == Prepared(session) IN
    /\ At(t, "starting") /\ CanBuild(s) /\ Built(t, s)
    /\ registered' = TRUE
    /\ UNCHANGED <<mode, browser, delayed, sent, lost>>

StartFails(t) ==
    /\ At(t, "starting") /\ Unbuilt(Prepared(session)) /\ Goto(t, "closing")
    /\ UNCHANGED <<mode, browser, registered, lock, delayed, sent, lost>>

-----------------------------------------------------------------------------
(* Requests for a session: _require_session or the look-up of a close,     *)
(* then the lock, which nothing looks at the session behind.               *)

Receive(t) ==
    /\ At(t, "idle") /\ registered
    /\ \E kind \in Kinds \cup {"observe", "close"}, current \in BOOLEAN :
          /\ kind # "close" => ~session.closed
          /\ kind = "observe" => mode \in Graded
          /\ kind = "mutation" => mode = "recovery" /\ t \notin delayed \cup {m.click : m \in sent}
          /\ kind \in {"observe", "close"} => current
          /\ task' = [task EXCEPT ![t] = [Idle EXCEPT !.pc = "waiting", !.kind = kind,
                                                      !.current = current]]
    /\ UNCHANGED <<mode, session, browser, registered, lock, touched, delayed, sent, lost>>

\* _expire_session wakes, and ends when the session is closed already.
Elapse ==
    /\ At(Expiry, "armed")
    /\ Goto(Expiry, IF registered /\ ~session.closed THEN "waiting" ELSE "idle")
    /\ UNCHANGED <<mode, session, browser, registered, lock, touched, delayed, sent, lost>>

LockFreeAlways == TRUE
LockFree == lock = None

Acquire(t) ==
    /\ At(t, "waiting") /\ LockFree
    /\ lock' = t
    /\ Goto(t, IF t = Expiry \/ task[t].kind = "close" THEN "closing"
               ELSE IF task[t].kind = "observe" THEN "observing"
               ELSE "admitted")
    /\ UNCHANGED <<mode, session, browser, registered, touched, delayed, sent, lost>>

-----------------------------------------------------------------------------
(* Actions.                                                                *)

\* The generation of the envelope, and the observation of an element action.
Current(t) == mode \in Graded => task[t].current
NamesElement(t) == task[t].kind \in {"element", "mutation"}
Resolves(t) == task[t].current /\ session.refs

\* A limit is exhausted: the count of actions, or time, navigations and waits,
\* which may be at any request.
Exhaust(t) ==
    /\ At(t, "admitted")
    /\ Goto(t, "closing")
    /\ UNCHANGED <<mode, session, browser, registered, lock, touched, delayed, sent, lost>>

HasBudgetOneMore == session.actions <= MaxActions
HasBudget == session.actions < MaxActions

Admit(t) ==
    /\ At(t, "admitted") /\ HasBudget
    /\ session' = [session EXCEPT !.actions = @ + 1,
           !.binding = IF Current(t) /\ task[t].kind = "mutation" /\ Resolves(t)
                       THEN t ELSE @]
    /\ LET next == IF ~Current(t) THEN "observing"
                   ELSE IF task[t].kind = "end" THEN "closing"
                   ELSE IF NamesElement(t) /\ ~Resolves(t) THEN "observing"
                   ELSE "acting"
       IN task' = [task EXCEPT ![t].pc = next,
                       ![t].caught = mode \in Graded /\ Current(t) /\ next = "observing"]
    /\ UNCHANGED <<mode, browser, registered, lock, touched, delayed, sent, lost>>

\* Leaving the dispatch for the observation: the finally of a mutation, then the
\* observation of a success inside the try, or that of a failure outside it.
Unbound == [session EXCEPT !.binding = None]
Observe(t, ok) ==
    /\ session' = Unbound
    /\ task' = [task EXCEPT ![t].pc = "observing", ![t].caught = ok]

\* The action reaches the page; a mutation waits for the response.
Act(t) ==
    /\ At(t, "acting") /\ browser = "open"
    /\ touched' = TRUE
    /\ IF task[t].kind = "mutation"
       THEN Goto(t, "responding") /\ delayed' = delayed \cup {t} /\ UNCHANGED session
       ELSE Observe(t, TRUE) /\ UNCHANGED delayed
    /\ UNCHANGED <<mode, browser, registered, lock, sent, lost>>

\* Playwright times out or raises, before the page is reached or after it.
ActFails(t) ==
    /\ At(t, "acting")
    /\ \/ UNCHANGED touched
       \/ browser = "open" /\ touched' = TRUE
    /\ Observe(t, FALSE)
    /\ UNCHANGED <<mode, browser, registered, lock, delayed, sent, lost>>

\* guard_request: a mutation of the page gets the binding of the session.
RequestMutation(t) ==
    /\ t \in delayed /\ browser = "open"
    /\ delayed' = delayed \ {t}
    /\ sent' = sent \cup {[click |-> t, header |-> session.binding]}
    /\ UNCHANGED <<mode, session, browser, registered, lock, task, touched, lost>>

\* expect_response: a response to the mutation, which may be a refusal, or the timeout.
Respond(t) ==
    /\ At(t, "responding") /\ t \notin delayed
    /\ \E ok \in BOOLEAN : Observe(t, ok)
    /\ UNCHANGED <<mode, browser, registered, lock, touched, delayed, sent, lost>>

RespondTimesOut(t) ==
    /\ At(t, "responding")
    /\ Observe(t, FALSE)
    /\ UNCHANGED <<mode, browser, registered, lock, touched, delayed, sent, lost>>

\* The observation that answers an action or an observation request.
Answer(t) ==
    LET s == Prepared(session) IN
    /\ At(t, "observing") /\ CanBuild(s) /\ Built(t, s)
    /\ UNCHANGED <<mode, browser, registered, delayed, sent, lost>>

\* It raises.  A hybrid session is closed; so is any by a stop inside the try, and
\* a vision one by a capture that fails.  A DOM or vision success becomes a failure
\* with a second observation.  What is raised there, and a stop outside the try of
\* a hybrid action, leaves the handler and the session as it is.
AnswerFails(t) ==
    /\ At(t, "observing") /\ Unbuilt(Prepared(session))
    /\ \/ /\ mode \in Graded \/ task[t].caught \/ mode = "vision"
          /\ Goto(t, "closing")
          /\ UNCHANGED lock
       \/ /\ mode \notin Graded /\ task[t].caught
          /\ task' = [task EXCEPT ![t].caught = FALSE]
          /\ UNCHANGED lock
       \/ /\ ~task[t].caught /\ task[t].kind # "observe" /\ ~Spent(session')
          /\ Leave(t)
    /\ UNCHANGED <<mode, browser, registered, delayed, sent, lost>>

-----------------------------------------------------------------------------
(* Closing and cancellation.                                               *)

\* _close_session up to its first await.  It cancels the expiry task, unless it
\* runs in it.
Close(t) ==
    /\ At(t, "closing") /\ ~session.closed
    /\ session' = [session EXCEPT !.closed = TRUE, !.refs = FALSE]
    /\ task' = [task EXCEPT ![Expiry] = Idle, ![t].pc = "releasing"]
    /\ UNCHANGED <<mode, browser, registered, lock, touched, delayed, sent, lost>>

\* Closed already: the handler ends as if it had closed the session.
CloseAgain(t) ==
    /\ At(t, "closing") /\ session.closed
    /\ Leave(t)
    /\ UNCHANGED <<mode, session, browser, registered, touched, delayed, sent, lost>>

\* _close_handles and the removal from _sessions.
Release(t) ==
    /\ At(t, "releasing")
    /\ browser' = "closed" /\ registered' = FALSE
    /\ delayed' = {}
    /\ Leave(t)
    /\ UNCHANGED <<mode, session, touched, sent, lost>>

\* The modes whose handlers close the session when they are cancelled.
ClosesOnCancel == Graded

\* A closing or a start that nothing finishes or undoes.
Loses(t) == At(t, "releasing") \/ (At(t, "starting") /\ mode \notin Graded)

\* The task of a request is cancelled where it waits.  In a hybrid session, waiting
\* for the page or for an observation, it closes the session; a cancelled closing
\* stops where it is.
Cancel(t) ==
    /\ Cancellable
    /\ task[t].pc \in {"starting", "waiting", "acting", "responding", "observing", "releasing"}
    /\ session' = IF session.binding = t THEN Unbound ELSE session
    /\ \/ UNCHANGED touched
       \/ At(t, "acting") /\ browser = "open" /\ touched' = TRUE
    /\ IF mode \in ClosesOnCancel /\ task[t].pc \notin {"waiting", "releasing"}
       THEN Goto(t, "closing") /\ UNCHANGED <<lock, lost>>
       ELSE Leave(t) /\ lost' = (lost \/ Loses(t))
    /\ UNCHANGED <<mode, browser, registered, delayed, sent>>

Step(t) ==
    \/ Acquire(t) \/ Exhaust(t) \/ Admit(t) \/ Act(t) \/ ActFails(t)
    \/ Respond(t) \/ RespondTimesOut(t) \/ Answer(t) \/ AnswerFails(t)
    \/ Start(t) \/ StartFails(t) \/ Close(t) \/ CloseAgain(t) \/ Release(t)

Next ==
    \/ Elapse
    \/ \E t \in Requests : Open(t) \/ Receive(t) \/ RequestMutation(t) \/ Cancel(t)
    \/ \E t \in Tasks : Step(t)

\* The event loop runs every task that can run, timers fire, Playwright answers or
\* times out, and the lock is handed over in the order of the waiting tasks.
Fairness ==
    /\ WF_vars(Elapse)
    /\ \A t \in Tasks : WF_vars(Step(t)) /\ SF_vars(Acquire(t))

Spec == Init /\ [][Next]_vars
FairSpec == Spec /\ Fairness

-----------------------------------------------------------------------------
(* Properties.                                                             *)

ActsOnStale(t) ==
    At(t, "admitted") /\ task'[t].pc = "acting" /\ NamesElement(t) /\ touched

\* A hybrid or recovery session forgets its references before it observes, so an
\* element action reaches the page only through references that were built after
\* everything that reached the page before, whatever raised in between: stale
\* references "fail before browser execution, at the cost of requiring a fresh
\* observation after every action" (docs/adr/0004:98).
HybridReferencesAreFresh ==
    [][\A t \in Requests : mode \in Graded => ~ActsOnStale(t)]_vars

\* A session is the request's that acts on it: while one acts on the page or
\* observes it nothing else starts to close the browser, and the binding is that of
\* the click in progress, so nothing the page requests after it carries its key.
ActionOwnsSession ==
    [][/\ session'.closed # session.closed =>
            \A t \in Requests : task[t].pc \notin {"acting", "responding", "observing"}
       /\ session'.binding # None =>
            /\ lock' = session'.binding
            /\ task'[session'.binding].pc \in {"acting", "responding"}]_vars

\* Every browser is closed in the end, whether its start fails, its client never
\* comes back or its requests raise: by its expiry task at the latest.  Only a task
\* that is cancelled while it starts or closes a session may leave it behind.
EverySessionReleased == browser = "open" ~> (browser = "closed" \/ lost)

=============================================================================
