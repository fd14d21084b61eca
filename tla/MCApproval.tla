----------------------------- MODULE MCApproval -----------------------------
(***************************************************************************)
(* Two small instances of Approval, of which a behaviour takes one: a race *)
(* for the grant of one L3 request, by a manager mia, a security user sam, *)
(* and the requester rob, who is a manager too; and two L2 requests that   *)
(* share a vault with room for one credential.                             *)
(***************************************************************************)
EXTENDS Approval, TLC

CONSTANTS r1, r2, s1, s2, mia, sam, rob

VARIABLE part

Row(user, role) == [user |-> user, role |-> role]
MCAuthorities == {Row(mia, "manager"), Row(sam, "security"), Row(rob, "manager")}
MCAction == [r \in Requests |-> "create_account"]

TwoRequests == {r1, r2}
Manager == {Row(mia, "manager")}
Tickets == [r \in TwoRequests |-> "create_ticket"]

Vaults == INSTANCE Approval WITH
    Requests <- TwoRequests, Bound <- {r1}, Action <- Tickets, Authorities <- Manager,
    VaultCapacity <- 1, RequestTTL <- 1, GrantTTL <- 1, MaxClock <- 1, MaxRestarts <- 0

PartInit ==
    \/ part = "race" /\ Init
    \/ part = "vault" /\ Vaults!Init /\ ~admin       \* it concerns create_account only

PartNext ==
    /\ UNCHANGED part
    /\ \/ part = "race" /\ Next
       \/ part = "vault" /\ Vaults!Next
       \/ (\A s \in Sessions : tx[s] = Idle) /\ UNCHANGED vars   \* the clock has stopped

PartSpec == PartInit /\ [][PartNext]_<<part, vars>>

SessionSymmetry == Permutations(Sessions)

\* Types of both instances.
PartTypeOK == IF part = "race" THEN TypeOK ELSE Vaults!TypeOK
=============================================================================
