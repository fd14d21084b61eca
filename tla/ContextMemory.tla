--------------------------- MODULE ContextMemory ----------------------------
(***************************************************************************)
(* The organization memory of the Planning Agent, and the assembly of a    *)
(* context, which previews the memory mutations of its request on a copy,  *)
(* builds and charges all layers, and only then applies them one by one.   *)
(*                                                                         *)
(* Assemblies run in threads of their own; the store is locked for a copy  *)
(* and for one mutation, never for a whole request.                        *)
(*                                                                         *)
(* Abstractions.  One scope, since a request names its actor's own.  Times *)
(* are those of the request (as_of) and of expiry; every record is already *)
(* valid.  Values and hashes are left out: a version names a value.        *)
(***************************************************************************)
EXTENDS Integers, Sequences, FiniteSets

CONSTANTS
    Requests,     \* assemblies
    Tasks,        \* tasks they belong to
    Memories,     \* memory ids, numbered in the order of their names
    Fields,       \* memory fields, numbered likewise
    ReadLimit,    \* how many records a read returns at most (6)
    Batches,      \* memory_mutations of a request
    Times, Never, \* as_of of a request, and an expiry no as_of reaches
    Absent        \* of no record

VARIABLES
    records,   \* OrganizationMemoryStore
    request,   \* what each request asks for
    phase,     \* of each assembly
    context,   \* layers["org_memory"] of each assembly
    applied,   \* mutations it has applied
    raced      \* history: requests one of whose memories another wrote since the preview

vars == <<records, request, phase, context, applied, raced>>

Record ==
    [owner : Tasks, field : Fields, version : Nat, status : {"active", "tombstone"},
     expires : Times \cup {Never}]

TypeOK ==
    /\ records \in [Memories -> Record \cup {Absent}]
    /\ request \in [Requests -> [task : Tasks, batch : Batches, asOf : Times, enabled : BOOLEAN]]
    /\ phase \in [Requests -> {"new", "previewed", "applying", "done", "rejected"}]
    /\ \A r \in Requests : context[r] \in SUBSET (Memories \X Record)
    /\ applied \in [Requests -> Nat] /\ raced \subseteq Requests

Init ==
    /\ records = [m \in Memories |-> Absent]
    /\ request \in [Requests -> [task : Tasks, batch : Batches, asOf : Times, enabled : BOOLEAN]]
    /\ phase = [r \in Requests |-> "new"] /\ context = [r \in Requests |-> {}]
    /\ applied = [r \in Requests |-> 0] /\ raced = {}

-----------------------------------------------------------------------------
(* The store.                                                              *)

\* What makes mutate raise a ScopeViolation: a memory of another task, a memory
\* to delete that never was, or another field.  A tombstone may be written again.
Accepts(store, task, mut) ==
    LET current == store[mut.memory] IN
    IF current = Absent THEN mut.action = "upsert"
    ELSE /\ current.owner = task
         /\ mut.action = "upsert" => mut.field = current.field

Mutated(store, task, mut) ==
    LET current == store[mut.memory] IN
    [store EXCEPT ![mut.memory] =
        IF mut.action = "delete"
        THEN [current EXCEPT !.version = @ + 1, !.status = "tombstone"]
        ELSE [owner |-> task, field |-> mut.field, expires |-> mut.expires, status |-> "active",
              version |-> IF current = Absent THEN 1 ELSE current.version + 1]]

Live(store, asOf) ==
    {mr \in {<<m, store[m]>> : m \in {m \in Memories : store[m] # Absent}} :
        mr[2].status = "active" /\ asOf < mr[2].expires}

\* A store has one record of a memory, so its version and hash order nothing.
Before(mr, nr) ==
    \/ mr[2].field < nr[2].field
    \/ mr[2].field = nr[2].field /\ mr[1] < nr[1]

\* The first ReadLimit of the live records.
Read(store, asOf) ==
    LET live == Live(store, asOf) IN
    {mr \in live : Cardinality({nr \in live : Before(nr, mr)}) < ReadLimit}

\* The store after the first n mutations of a batch, Absent once one is rejected.
\* Each mutation is checked on the copy that the earlier ones have changed.
PreviewOnFreshCopies(store, task, batch) ==
    IF \E i \in DOMAIN batch : ~Accepts(store, task, batch[i]) THEN Absent
    ELSE IF batch = <<>> THEN store ELSE Mutated(store, task, batch[Len(batch)])

Preview(store, task, batch) ==
    LET after[n \in 0..Len(batch)] ==
            IF n = 0 THEN store
            ELSE IF after[n - 1] = Absent THEN Absent
            ELSE IF ~Accepts(after[n - 1], task, batch[n]) THEN Absent
            ELSE Mutated(after[n - 1], task, batch[n])
    IN after[Len(batch)]

-----------------------------------------------------------------------------
(* An assembly.                                                            *)

\* The layers above, then the preview; an ablated memory drops the mutations.
Assemble(r) ==
    /\ phase[r] = "new"
    /\ LET q == request[r]  store == Preview(records, q.task, q.batch) IN
       IF ~q.enabled THEN phase' = [phase EXCEPT ![r] = "previewed"] /\ UNCHANGED context
       ELSE IF store = Absent THEN phase' = [phase EXCEPT ![r] = "rejected"] /\ UNCHANGED context
       ELSE /\ phase' = [phase EXCEPT ![r] = "previewed"]
            /\ context' = [context EXCEPT ![r] = Read(store, q.asOf)]
    /\ UNCHANGED <<records, request, applied, raced>>

\* A layer, a cap or a charge refuses the context before anything is applied.
Refuse(r) ==
    /\ phase[r] \in {"new", "previewed"}
    /\ phase' = [phase EXCEPT ![r] = "rejected"]
    /\ UNCHANGED <<records, request, context, applied, raced>>

\* The items are selected and charged, and the mutations pending.
Select(r) ==
    /\ phase[r] = "previewed"
    /\ phase' = [phase EXCEPT ![r] = IF request[r].enabled /\ request[r].batch # <<>>
                                     THEN "applying" ELSE "done"]
    /\ UNCHANGED <<records, request, context, applied, raced>>

MemoriesOf(r) == {request[r].batch[i].memory : i \in DOMAIN request[r].batch}

\* One mutation, under the lock.
Apply(r) ==
    /\ phase[r] = "applying"
    /\ LET q == request[r]  mut == q.batch[applied[r] + 1] IN
       IF ~Accepts(records, q.task, mut)
       THEN /\ phase' = [phase EXCEPT ![r] = "rejected"]
            /\ UNCHANGED <<records, applied, raced>>
       ELSE /\ records' = Mutated(records, q.task, mut)
            /\ applied' = [applied EXCEPT ![r] = @ + 1]
            /\ phase' = [phase EXCEPT ![r] = IF applied'[r] = Len(q.batch) THEN "done" ELSE @]
            /\ raced' = raced \cup {x \in Requests \ {r} :
                            phase[x] \in {"previewed", "applying"} /\ mut.memory \in MemoriesOf(x)}
    /\ UNCHANGED <<request, context>>

Next == \E r \in Requests : Assemble(r) \/ Refuse(r) \/ Select(r) \/ Apply(r)

Spec == Init /\ [][Next]_vars

-----------------------------------------------------------------------------
(* Properties.                                                             *)

\* An assembly is atomic unless another one writes to one of its memories after its
\* preview: it applies none of its mutations or all, and then what it read for its
\* context shows its own memories as the store has taken them, and leaves one out
\* only when it is full of others that come before it.  Raced or not, a memory keeps
\* the task and the field it was first written for, and its version counts its writes.
AssemblyIsAtomic ==
    [][/\ \A r \in Requests \ raced' : phase'[r] # phase[r] =>
            LET Own(read) == {mr \in read : mr[1] \in MemoriesOf(r)}
                taken == Own(Live(records', request[r].asOf))
            IN
            /\ phase'[r] = "rejected" => applied'[r] = 0
            /\ phase[r] = "applying" /\ phase'[r] = "done" =>
                  /\ Own(context[r]) \subseteq taken
                  /\ \A mr \in taken \ context[r] :
                        /\ Cardinality(context[r]) = ReadLimit
                        /\ \A shown \in context[r] : Before(shown, mr)
       /\ \A m \in Memories :
            LET old == records[m]  new == records'[m] IN
            new # old =>
                IF old = Absent THEN new.version = 1
                ELSE /\ new.owner = old.owner /\ new.field = old.field
                     /\ new.version = old.version + 1]_vars
=============================================================================
