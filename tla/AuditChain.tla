----------------------------- MODULE AuditChain -----------------------------
(***************************************************************************)
(* The audit chain of an organization: rows of w11_audit_events, each with *)
(* the hash of the one before, and the head row in w11_audit_chain_heads   *)
(* that every append locks until its transaction ends.  The Control API    *)
(* and the Workflow Worker append; the Control API lists and verifies with *)
(* plain SELECTs, the head first and the events in a second statement, so  *)
(* that other transactions may commit in between.                          *)
(*                                                                         *)
(* stable_hash is injective here: the hash of an event is the tuple of     *)
(* what it covers.  Storage may be damaged once, in one of the ways of the *)
(* tamper matrix of test_audit.py, or by a row that is made anew.          *)
(***************************************************************************)
EXTENDS Integers, Sequences, SequencesExt

CONSTANTS
    Sessions,     \* database sessions
    Payloads,     \* what transactions record
    Limit,        \* events list_audit_events returns at most
    MaxEvents,    \* bound: events appended
    Free          \* null value

VARIABLES
    log,        \* committed event rows, in the order of their sequence
    head,       \* committed head row
    owner,      \* the session that has locked the head row, or Free
    work,       \* what each session does
    written,    \* history: the event rows as they were committed
    damage      \* history: the damage done to the storage

vars == <<log, head, owner, work, written, damage>>

Genesis == <<>>
Verified == "audit_verified"
Forged == "forged"
Damages == {"none", "mutation", "payload_hash", "event_hash", "previous", "rewrite",
          "deletion", "insertion", "reorder", "truncate"}

\* _event_fields and stable_hash.
EventHash(sequence, payload, previous) == <<sequence, payload, previous>>

Event(sequence, payload, previous) ==
    [sequence |-> sequence, payload |-> payload, payloadHash |-> payload,
     previous |-> previous, hash |-> EventHash(sequence, payload, previous)]

Reading == {"head", "events"}
Idle == [op |-> "none", pc |-> "idle", new |-> <<>>, head |-> [sequence |-> 0, hash |-> Genesis],
         seen |-> <<>>, verdict |-> "none"]

Verdicts == {"valid", "sequence_mismatch", "previous_hash_mismatch",
             "event_hash_mismatch", "head_mismatch"}

TypeOK ==
    /\ Len(log) <= MaxEvents /\ Len(written) <= MaxEvents
    /\ \A i \in DOMAIN log : log[i].sequence \in 1..MaxEvents
    /\ head.sequence \in 0..MaxEvents
    /\ owner \in Sessions \cup {Free}
    /\ damage \in Damages
    /\ \A s \in Sessions :
          /\ work[s].op \in {"none", "write", "verify", "list"}
          /\ work[s].pc \in {"idle", "append", "record"} \cup Reading
          /\ work[s].verdict \in Verdicts \cup {"none"}
          /\ work[s].new # <<>> => owner = s

Init ==
    /\ log = <<>> /\ written = <<>> /\ damage = "none"
    /\ head = [sequence |-> 0, hash |-> Genesis]
    /\ owner = Free
    /\ work = [s \in Sessions |-> Idle]

-----------------------------------------------------------------------------
(* append_audit_event and _append_audit.                                   *)

HeadFree(s) == owner \in {s, Free}

\* The head as the session sees it: committed, or moved by its own appends.
HeadOf(s) ==
    LET own == work[s].new IN
    IF own = <<>> THEN head
    ELSE [sequence |-> Last(own).sequence, hash |-> Last(own).hash]

NextEvent(s, payload) == Event(HeadOf(s).sequence + 1, payload, HeadOf(s).hash)

\* The primary key (organization_id, sequence).
SequenceFree(e) == \A i \in DOMAIN log : log[i].sequence # e.sequence

Begin(s) ==
    /\ work[s].pc = "idle"
    /\ work' = [work EXCEPT ![s] = [Idle EXCEPT !.op = "write", !.pc = "append"]]
    /\ UNCHANGED <<log, head, owner, written, damage>>

AppendEvent(s) ==
    /\ work[s].pc = "append" /\ HeadFree(s)
    /\ HeadOf(s).sequence < MaxEvents
    /\ \E p \in Payloads :
          /\ SequenceFree(NextEvent(s, p))
          /\ work' = [work EXCEPT ![s].new = Append(@, NextEvent(s, p))]
    /\ owner' = s
    /\ UNCHANGED <<log, head, written, damage>>

\* The transaction ends: with its events and the head, or without them.
Commit(s) ==
    /\ work[s].pc = "append" /\ work[s].new # <<>>
    /\ \A i \in DOMAIN work[s].new : SequenceFree(work[s].new[i])
    /\ log' = log \o work[s].new
    /\ written' = written \o work[s].new
    /\ head' = HeadOf(s)
    /\ work' = [work EXCEPT ![s] = Idle]
    /\ owner' = IF owner = s THEN Free ELSE owner
    /\ UNCHANGED damage

RollBack(s) ==
    /\ work[s].pc = "append"
    /\ work' = [work EXCEPT ![s] = Idle]
    /\ owner' = IF owner = s THEN Free ELSE owner
    /\ UNCHANGED <<log, head, written, damage>>

-----------------------------------------------------------------------------
(* list_audit_events and verify_audit_chain.                               *)

FirstEvents == "events"
First == "head"
Other(pc) == IF pc = "head" THEN "events" ELSE "head"

Start(s, op) ==
    /\ work[s].pc = "idle"
    /\ work' = [work EXCEPT ![s] = [Idle EXCEPT !.op = op, !.pc = First]]
    /\ UNCHANGED <<log, head, owner, written, damage>>

\* The payload is the one that was hashed, and the hash that of the event.
Sealed(e) ==
    /\ e.payload = e.payloadHash
    /\ e.hash = EventHash(e.sequence, e.payload, e.previous)

\* The checks of one event row, in the order of the loop.
RowVerdictUnlinked(e, expected, previous) ==
    IF e.sequence # expected THEN "sequence_mismatch"
    ELSE IF ~Sealed(e) THEN "event_hash_mismatch"
    ELSE "valid"

RowVerdict(e, expected, previous) ==
    IF e.sequence # expected THEN "sequence_mismatch"
    ELSE IF e.previous # previous THEN "previous_hash_mismatch"
    ELSE IF ~Sealed(e) THEN "event_hash_mismatch"
    ELSE "valid"

Previous(rows, i) == IF i = 1 THEN Genesis ELSE rows[i - 1].hash

Verdict(rows, h) ==
    LET row(i) == RowVerdict(rows[i], i, Previous(rows, i))
        wrong == {i \in DOMAIN rows : row(i) # "valid"} IN
    IF wrong # {} THEN row(CHOOSE i \in wrong : \A j \in wrong : i <= j)
    ELSE IF h.sequence # Len(rows) \/ h.hash # Previous(rows, Len(rows) + 1)
    THEN "head_mismatch" ELSE "valid"

\* The end of a read: a listing is answered; a verification that found the chain
\* valid is recorded and done again, and the second one's result is the answer.
Conclude(s, h, rows) ==
    LET result == Verdict(rows, h) IN
    IF work[s].op = "list"
    THEN [work[s] EXCEPT !.pc = "idle", !.head = h, !.seen = rows]
    ELSE [work[s] EXCEPT !.pc = IF result = "valid" /\ work[s].verdict = "none"
                                THEN "record" ELSE "idle",
                         !.head = h, !.seen = rows, !.verdict = result]

Second(s, pc) == Other(First) = pc

ReadHead(s) ==
    /\ work[s].pc = "head"
    /\ work' = [work EXCEPT ![s] =
            IF Second(s, "head") THEN Conclude(s, head, @.seen)
            ELSE [@ EXCEPT !.head = head, !.pc = "events"]]
    /\ UNCHANGED <<log, head, owner, written, damage>>

Rows(s) == IF work[s].op = "list" /\ Len(log) > Limit THEN SubSeq(log, 1, Limit) ELSE log

ReadEvents(s) ==
    /\ work[s].pc = "events"
    /\ work' = [work EXCEPT ![s] =
            IF Second(s, "events") THEN Conclude(s, @.head, Rows(s))
            ELSE [@ EXCEPT !.seen = Rows(s), !.pc = "head"]]
    /\ UNCHANGED <<log, head, owner, written, damage>>

\* verify_audit_events appends audit_verified and commits between the two.
Record(s) ==
    LET e == NextEvent(s, Verified) IN
    /\ work[s].pc = "record" /\ HeadFree(s)
    /\ head.sequence < MaxEvents
    /\ IF SequenceFree(e)
       THEN /\ log' = Append(log, e) /\ written' = Append(written, e)
            /\ head' = [sequence |-> e.sequence, hash |-> e.hash]
            /\ work' = [work EXCEPT ![s].pc = First]
       ELSE /\ work' = [work EXCEPT ![s] = Idle]       \* IntegrityError
            /\ UNCHANGED <<log, head, written>>
    /\ UNCHANGED <<owner, damage>>

-----------------------------------------------------------------------------
(* Damage to the storage, which no transaction of the system does.         *)

Altered(kind, e) ==
    CASE kind = "mutation" -> [e EXCEPT !.payload = Forged]
      [] kind = "payload_hash" -> [e EXCEPT !.payloadHash = Forged]
      [] kind = "event_hash" -> [e EXCEPT !.hash = <<0, Forged, Genesis>>]
      [] kind = "previous" -> [e EXCEPT !.previous = <<0, Forged, Genesis>>]
      [] OTHER -> Event(e.sequence, Forged, e.previous)      \* rewrite

\* A forged row, linked to the one before, and the rows after it moved up.
Inserted(i) ==
    [j \in 1..Len(log) + 1 |->
        IF j < i THEN log[j]
        ELSE IF j = i THEN Event(i, Forged, Previous(log, i))
        ELSE [log[j - 1] EXCEPT !.sequence = j]]

Swapped(i) ==
    [log EXCEPT ![i] = [log[i + 1] EXCEPT !.sequence = i],
                ![i + 1] = [log[i] EXCEPT !.sequence = i + 1]]

Damage ==
    /\ damage = "none" /\ log # <<>>
    /\ \/ \E kind \in {"mutation", "payload_hash", "event_hash", "previous", "rewrite"},
             i \in DOMAIN log :
             /\ damage' = kind
             /\ log' = [log EXCEPT ![i] = Altered(kind, @)] /\ UNCHANGED head
       \/ \E i \in DOMAIN log :
             /\ damage' = "deletion"
             /\ log' = RemoveAt(log, i) /\ UNCHANGED head
       \/ \E i \in 1..Len(log) + 1 :
             /\ damage' = "insertion" /\ Len(log) < MaxEvents
             /\ log' = Inserted(i) /\ UNCHANGED head
       \/ \E i \in 1..Len(log) - 1 :
             /\ damage' = "reorder"
             /\ log' = Swapped(i) /\ UNCHANGED head
       \/ /\ damage' = "truncate"
          /\ head' = [head EXCEPT !.sequence = @ - 1] /\ UNCHANGED log
    /\ UNCHANGED <<owner, work, written>>

Next ==
    \/ Damage
    \/ \E s \in Sessions :
          \/ Begin(s) \/ AppendEvent(s) \/ Commit(s) \/ RollBack(s)
          \/ Start(s, "verify") \/ Start(s, "list")
          \/ ReadHead(s) \/ ReadEvents(s) \/ Record(s)

Spec == Init /\ [][Next]_vars

-----------------------------------------------------------------------------
(* Properties.                                                             *)

\* A chain found valid is the chain that was written: whatever row or field was
\* damaged, and whatever was appended before and after, the verifier does not
\* accept it.
ValidIsWhatWasWritten ==
    \A s \in Sessions : work[s].verdict = "valid" => IsPrefix(work[s].seen, written)

\* However transactions append and roll back, the committed rows are one chain
\* without a gap and the head is its end, and what a verifier or a reader got covers
\* the head it got.  Of an undamaged chain
\* a verification says nothing worse than head_mismatch, and that only of a chain
\* that grew between its two statements.
ReadCoversHead ==
    damage = "none" =>
        /\ Verdict(log, head) = "valid"
        /\ \A s \in Sessions : work[s].pc \in {"idle", "record"} =>
              /\ work[s].op = "list" =>
                    \/ Len(work[s].seen) = Limit
                    \/ Len(work[s].seen) >= work[s].head.sequence
              /\ work[s].op = "verify" =>
                    \/ work[s].verdict = "valid"
                    \/ /\ work[s].verdict = "head_mismatch"
                       /\ Len(work[s].seen) > work[s].head.sequence
=============================================================================
