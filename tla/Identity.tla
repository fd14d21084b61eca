------------------------------ MODULE Identity ------------------------------
(***************************************************************************)
(* Identity of the Control API: organizations, users, memberships and      *)
(* organization memories as versioned rows, the signing keys of the issuer *)
(* as the API caches them, and requests that read or write those rows.     *)
(*                                                                         *)
(* A request goes through three steps, and others run between them: the    *)
(* verification of its token (which may fetch keys, under a lock), the     *)
(* resolution of the actor in a thread of the pool, and the handler, a     *)
(* coroutine that does not wait and so is one step.                        *)
(*                                                                         *)
(* Abstractions.  A row has one content: the profile of an organization or *)
(* user, the role of a membership, the value of a memory.  An ETag is the  *)
(* resource and the version it names.  A user has one identity, which      *)
(* nothing disables, and at most one membership.                           *)
(***************************************************************************)
EXTENDS Integers, FiniteSets

CONSTANTS
    Orgs, Users, Memberships, Memories,   \* ids: of rows, and of rows to be created
    Home,            \* the organization of a row
    Member,          \* the user of a membership
    FirstRows,       \* the rows that exist at the start, with their content
    Values,          \* profiles and memory values
    Claims,          \* roles that tokens claim
    Kids,            \* key ids of the issuer
    FirstKids,       \* those it publishes at the start
    Sessions,        \* requests worked on at the same time
    MaxFetches,      \* max_jwks_fetches
    MaxWrites,       \* bound: accepted writes
    None             \* null value

VARIABLES
    row,         \* the rows, by id
    memver,      \* memory_version of an organization
    published,   \* keys at the issuer's JWKS endpoint
    jwks,        \* HttpJwksSource: cached keys, fetches so far
    request,     \* what each session works on
    accepted,    \* history: ETags some write was accepted with
    wins,        \* history: how many writes were
    writes       \* history: those and the other accepted writes

vars == <<row, memver, published, jwks, request, accepted, wins, writes>>

Roles == {"organization_admin", "operator", "auditor"}
Rows == Orgs \cup Users \cup Memberships \cup Memories
Row == [status : {"none", "active", "disabled", "tombstone"}, version : Nat,
        content : Roles \cup Values \cup {None}]
Actor == [user : Users, org : Orgs, role : Roles]
Request == [pc : {"idle", "received", "verified", "resolved"},
            user : Users \cup {None}, claim : Roles \cup {None}, kid : Kids \cup {None},
            actor : Actor \cup {None},
            late : BOOLEAN]      \* history: its user was not active when it came

Idle == [pc |-> "idle", user |-> None, claim |-> None, kid |-> None, actor |-> None,
         late |-> FALSE]

\* What an ETag names: a version of a row, or of the memories of an organization.
ETags == [kind : {"row", "memories"}, res : Rows, version : 1..MaxWrites + 1]

TypeOK ==
    /\ row \in [Rows -> Row] /\ memver \in [Orgs -> Nat]
    /\ published \subseteq Kids
    /\ jwks \in [keys : SUBSET Kids, fetches : 0..MaxFetches]
    /\ request \in [Sessions -> Request]
    /\ accepted \subseteq ETags /\ wins \in 0..MaxWrites /\ writes \in 0..MaxWrites

Init ==
    /\ row = [x \in Rows |->
                IF x \in DOMAIN FirstRows
                THEN [status |-> "active", version |-> 1, content |-> FirstRows[x]]
                ELSE [status |-> "none", version |-> 0, content |-> None]]
    /\ memver = [o \in Orgs |-> 1]
    /\ published = FirstKids
    /\ jwks = [keys |-> {}, fetches |-> 0]
    /\ request = [s \in Sessions |-> Idle]
    /\ accepted = {} /\ wins = 0 /\ writes = 0

-----------------------------------------------------------------------------
(* Authentication and the actor.                                           *)

IsActive(x) == row[x].status = "active"
MembershipOf(u) == {m \in Memberships : Member[m] = u /\ row[m].status # "none"}

\* The join of resolve_actor.
ResolvesDisabledUser(u) == IsActive(Home[u]) /\ \E m \in MembershipOf(u) : IsActive(m)
Resolves(u) ==
    /\ IsActive(u) /\ IsActive(Home[u])
    /\ \E m \in MembershipOf(u) : IsActive(m)

Receive(s) ==
    /\ request[s].pc = "idle"
    /\ \E u \in {v \in Users : row[v].status # "none"}, c \in Claims, k \in Kids :
          request' = [request EXCEPT ![s] =
              [Idle EXCEPT !.pc = "received", !.user = u, !.claim = c, !.kid = k,
                           !.late = ~IsActive(u)]]
    /\ UNCHANGED <<row, memver, published, jwks, accepted, wins, writes>>

\* get_key under the source's lock: the first fetch, then one refresh when the
\* key is unknown.  A fetch that fails counts, raises, and leaves the old keys.
MayFetch(k) == jwks.keys = {} \/ k \notin jwks.keys

Fetch(s) ==
    /\ request[s].pc = "received" /\ MayFetch(request[s].kid)
    /\ jwks.fetches < MaxFetches
    /\ \/ /\ jwks' = [keys |-> published, fetches |-> jwks.fetches + 1]
          /\ UNCHANGED request
       \/ /\ jwks' = [jwks EXCEPT !.fetches = @ + 1]
          /\ request' = [request EXCEPT ![s] = Idle]
    /\ UNCHANGED <<row, memver, published, accepted, wins, writes>>

Authenticate(s) ==
    /\ request[s].pc = "received" /\ request[s].kid \in jwks.keys
    /\ request' = [request EXCEPT ![s].pc = "verified", ![s].kid = None]
    /\ UNCHANGED <<row, memver, published, jwks, accepted, wins, writes>>

Exhausted(k) == ~MayFetch(k) \/ jwks.fetches = MaxFetches

RejectToken(s) ==
    /\ request[s].pc = "received"
    /\ request[s].kid \notin jwks.keys /\ Exhausted(request[s].kid)
    /\ request' = [request EXCEPT ![s] = Idle]
    /\ UNCHANGED <<row, memver, published, jwks, accepted, wins, writes>>

\* The claimed role must be the membership's.
Resolve(s) ==
    LET u == request[s].user
        role == request[s].claim IN
    /\ request[s].pc = "verified"
    /\ request' = [request EXCEPT ![s] =
            IF Resolves(u) /\ \E m \in MembershipOf(u) : row[m].content = role
            THEN [@ EXCEPT !.pc = "resolved", !.claim = None,
                           !.actor = [user |-> u, org |-> Home[u], role |-> role]]
            ELSE Idle]
    /\ UNCHANGED <<row, memver, published, jwks, accepted, wins, writes>>

\* The issuer replaces its keys, once.
Rotate ==
    /\ published = FirstKids
    /\ published' = Kids \ published
    /\ UNCHANGED <<row, memver, jwks, request, accepted, wins, writes>>

-----------------------------------------------------------------------------
(* Handlers.                                                               *)

\* authorize: the permission a route asks for, by the role of the actor.
Permitted(role, x) ==
    \/ role = "organization_admin"
    \/ role = "operator" /\ x \in Memories

\* require_actor_organization, the ETag's organization, and the WHERE clauses.
Reaches(s, x) == Home[x] = request[s].actor.org

Handles(s, x) ==
    /\ request[s].pc = "resolved"
    /\ Permitted(request[s].actor.role, x) /\ Reaches(s, x)

Count == writes < MaxWrites /\ writes' = writes + 1
Done(s) == request' = [request EXCEPT ![s] = Idle]

\* _charge_memory_collection, in the transaction of a memory.
Charged(x) == IF x \in Memories THEN [memver EXCEPT ![Home[x]] = @ + 1] ELSE memver

Contents(x) == IF x \in Memberships THEN Roles ELSE Values

\* A membership is made for a user of the organization that has none.
Creatable(x) ==
    /\ row[x].status = "none" /\ x \notin Orgs
    /\ x \in Memberships => row[Member[x]].status # "none"

Create(s) ==
    \E x \in Rows : \E c \in Contents(x) :
        /\ Handles(s, x) /\ Creatable(x)
        /\ row' = [row EXCEPT ![x] = [status |-> "active", version |-> 1, content |-> c]]
        /\ memver' = Charged(x)
        /\ Done(s) /\ Count /\ UNCHANGED <<published, jwks, accepted, wins>>

\* The conditional UPDATE.  Profiles and roles of disabled rows may be changed,
\* memories only while they are active.
Current(e) == IF e.kind = "memories" THEN memver[e.res] ELSE row[e.res].version
Matches(e) == e.version = Current(e)

Accept(s, e) ==
    /\ e.version <= Current(e) /\ Matches(e)
    /\ Count
    /\ accepted' = accepted \cup {e} /\ wins' = wins + 1
    /\ Done(s)

Change(s, e) ==
    LET x == e.res IN
    /\ e.kind = "row" /\ Handles(s, x) /\ row[x].status # "none" /\ Accept(s, e)
    /\ memver' = Charged(x)

Update(s) ==
    \E e \in ETags : LET x == e.res IN \E c \in Contents(x) :
        /\ Change(s, e)
        /\ x \in Memories => IsActive(x)
        /\ row' = [row EXCEPT ![x].content = c, ![x].version = @ + 1]
        /\ UNCHANGED <<published, jwks>>

Disabled(x) == IF x \in Memories THEN "tombstone" ELSE "disabled"

Disable(s) ==
    \E e \in ETags : LET x == e.res IN
        /\ Change(s, e) /\ IsActive(x)
        /\ row' = [row EXCEPT ![x].status = Disabled(x), ![x].version = @ + 1]
        /\ UNCHANGED <<published, jwks>>

\* reset_memories: the ETag of the collection, then every active memory.
ActiveMemories(o) == {m \in Memories : Home[m] = o /\ IsActive(m)}

TombstoneSameVersion(m) == [row[m] EXCEPT !.status = "tombstone"]
Tombstone(m) == [row[m] EXCEPT !.status = "tombstone", !.version = @ + 1]

Reset(s) ==
    \E e \in ETags : LET o == e.res IN
        /\ e.kind = "memories" /\ o \in Orgs
        /\ request[s].pc = "resolved" /\ request[s].actor.role # "auditor"
        /\ Reaches(s, o) /\ Accept(s, e)
        /\ row' = [x \in Rows |-> IF x \in ActiveMemories(o) THEN Tombstone(x) ELSE row[x]]
        /\ memver' = [memver EXCEPT ![o] = @ + 1]
        /\ UNCHANGED <<published, jwks>>

\* A read, a permission that is missing, another organization, a stale or foreign
\* ETag: the transaction ends without a change.
Refuse(s) ==
    /\ request[s].pc = "resolved"
    /\ Done(s) /\ UNCHANGED <<row, memver, published, jwks, accepted, wins, writes>>

Next ==
    \/ Rotate
    \/ \E s \in Sessions :
          \/ Receive(s) \/ Fetch(s) \/ Authenticate(s) \/ RejectToken(s) \/ Resolve(s)
          \/ Create(s) \/ Update(s) \/ Disable(s) \/ Reset(s) \/ Refuse(s)

Spec == Init /\ [][Next]_vars

-----------------------------------------------------------------------------
(* Properties.                                                             *)

\* A version names one state: no row changes without its version moving by one,
\* and no change to the active memories of an organization leaves the version of
\* the collection where it was, so that an ETag stands for what it was sent with;
\* and of the writes that carry one ETag at most one is accepted.
VersionsNameStates ==
    [][/\ \A x \in Rows : row'[x] # row[x] => row'[x].version = row[x].version + 1
       /\ \A o \in Orgs : {row[m] : m \in ActiveMemories(o)} # {row[m] : m \in ActiveMemories(o)}'
            => memver'[o] > memver[o]
       /\ wins' # wins => accepted' # accepted]_vars

\* Rows are only changed by requests of actors of their organization, and only by
\* those whose user was active when they came, whatever their token says and
\* whatever happened between their steps: "active organization/user/identity/
\* membership re-resolved on every request" (docs/threat-model.md).
WritesAreAuthorized ==
    [][\A x \in Rows : row'[x] # row[x] =>
         \E s \in Sessions : /\ request[s].pc = "resolved" /\ request'[s].pc = "idle"
                             /\ request[s].actor.org = Home[x] /\ ~request[s].late]_vars
=============================================================================
